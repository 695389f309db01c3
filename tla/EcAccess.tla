------------------------------ MODULE EcAccess ------------------------------
(***************************************************************************)
(* What ec_read_byte and ec_write_byte promise their callers, whichever    *)
(* back end serves them: one call at a time; a read returns a byte that a  *)
(* register held when a read request was served; a write takes effect at   *)
(* most once, with the register and the byte of its call; and a call may   *)
(* fail.  A failed call may leave its request, or the answer to it, behind *)
(* in the embedded controller.                                             *)
(***************************************************************************)
EXTENDS Integers

CONSTANTS
    Registers,  \* the register numbers
    Bytes,      \* what a register holds
    Live        \* the registers the firmware itself changes (sensors)

VARIABLES
    regs,       \* the registers
    call,       \* {} or {the call in progress}
    sent,       \* its request has been handed over
    request,    \* {} or {the request not yet served}
    owed,       \* {} or {the answer nobody has taken}
    ret         \* what the last call returned, -1 for failed or taken

accessVars == <<regs, call, sent, request, owed, ret>>

Request == [op : {"read", "write"}, reg : Registers, val : Bytes]

\* A set of at most one element of S.
AtMostOne(S) == {{}} \cup {{x} : x \in S}

TypeOK ==
    /\ regs \in [Registers -> Bytes]
    /\ call \in AtMostOne(Request)
    /\ sent \in BOOLEAN
    /\ request \in AtMostOne(Request)
    /\ owed \in AtMostOne(Bytes)
    /\ ret \in Bytes \cup {-1}

Init ==
    /\ regs \in [Registers -> Bytes]
    /\ call = {} /\ sent = FALSE /\ request = {} /\ owed = {} /\ ret = -1

Begin(q) ==
    /\ call = {} /\ ret = -1
    /\ call' = {q}
    /\ UNCHANGED <<regs, sent, request, owed, ret>>

Submit ==
    /\ call # {} /\ ~sent /\ request = {}
    /\ request' = call
    /\ sent' = TRUE
    /\ UNCHANGED <<regs, call, owed, ret>>

Serve(q) ==
    /\ request = {q}
    /\ request' = {}
    /\ \/ q.op = "read" /\ owed' = {regs[q.reg]} /\ UNCHANGED regs
       \/ q.op = "write" /\ regs' = [regs EXCEPT ![q.reg] = q.val] /\ UNCHANGED owed
    /\ UNCHANGED <<call, sent, ret>>

\* A read returns the answer that is waiting.
ReturnRead(q, v) ==
    /\ call = {q} /\ q.op = "read" /\ sent
    /\ owed = {v}
    /\ ret' = v
    /\ call' = {} /\ sent' = FALSE /\ owed' = {}
    /\ UNCHANGED <<regs, request>>

\* A write returns once its request is handed over, served or not.
ReturnWrite(q) ==
    /\ call = {q} /\ q.op = "write"
    /\ \/ sent /\ UNCHANGED request
       \/ ~sent /\ request = {} /\ request' = call
    /\ ret' = 0
    /\ call' = {} /\ sent' = FALSE
    /\ UNCHANGED <<regs, owed>>

Fail ==
    /\ call # {}
    /\ call' = {} /\ sent' = FALSE
    /\ request' \in {request, {}}
    /\ owed' \in {owed, {}}
    /\ UNCHANGED <<regs, ret>>

\* The caller takes the result.
Take ==
    /\ ret # -1
    /\ ret' = -1
    /\ UNCHANGED <<regs, call, sent, request, owed>>

\* The firmware updates a register of its own.
Drift(r, b) ==
    /\ r \in Live
    /\ regs' = [regs EXCEPT ![r] = b]
    /\ UNCHANGED <<call, sent, request, owed, ret>>

Next ==
    \/ \E q \in Request : Begin(q) \/ Serve(q) \/ ReturnWrite(q)
    \/ \E q \in Request, v \in Bytes : ReturnRead(q, v)
    \/ \E r \in Registers, b \in Bytes : Drift(r, b)
    \/ Submit
    \/ Fail
    \/ Take

Spec == Init /\ [][Next]_accessVars
=============================================================================
