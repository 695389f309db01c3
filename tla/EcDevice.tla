------------------------------ MODULE EcDevice ------------------------------
(***************************************************************************)
(* Access to the embedded controller: the choice of a back end, the port   *)
(* handshake of the raw back end, and the callers that string bytes        *)
(* together (a word, a dump).                                              *)
(*                                                                         *)
(* One step of the port back end is one poll of the status port and, when  *)
(* it passes, the output or input that follows it, so the controller runs  *)
(* between any two port accesses.  The controller and the kernel's drivers *)
(* are external: they are what ec/ relies on.                              *)
(***************************************************************************)
EXTENDS Integers, Sequences

CONSTANTS
    LastReg,    \* registers are 0..LastReg (255)
    LastByte,   \* bytes are 0..LastByte (255)
    MaxPolls,   \* polls of the status port before a timeout (10000)
    Live,       \* the registers the firmware changes by itself
    FakeWords,  \* what ec_open_fake stores
    FakeFails,  \* ANS_FAKE_EC_WRITE_FAIL_REG: registers whose writes fail
    Machines,   \* what ec_open_rw may find: what opens, "fake" when asked for
    WriteValues \* the values callers pass to ec_write_byte

Registers == 0..LastReg
Bytes == 0..LastByte
FilePaths == {"ec-sys", "acpi-ec"}
PortNames == {"data", "status"}

ASSUME EcDeviceAssumption ==
    /\ LastReg \in Nat /\ LastByte \in Nat /\ MaxPolls \in Nat \ {0}
    /\ LastReg <= LastByte
    /\ Live \subseteq Registers /\ FakeFails \subseteq Registers
    /\ FakeWords \in [Registers -> Bytes]
    /\ Machines \subseteq SUBSET ({"fake"} \cup FilePaths \cup PortNames)
    /\ WriteValues \subseteq Int

VARIABLES
    machine,    \* what this machine offers
    backend,    \* ec->backend
    granted,    \* ports ioperm has opened for the process
    fake,       \* ec->fake_regs
    job,        \* {} or {what the daemon is doing with the device}
    at,         \* where the byte access stands
    polls,      \* polls made by the wait in progress
    ret,        \* its return value; -1 for an error
    inbuf,      \* controller: {} or {the byte written, IBF set}
    outbuf,     \* controller: {} or {the byte to read, OBF set}
    ec,         \* controller: the transaction it is in
    regs,       \* controller: its registers
    lost        \* an answer has been abandoned (a history variable)

hostVars == <<machine, backend, granted, fake, job, at, polls, ret, lost>>
ecVars == <<inbuf, outbuf, ec, regs>>
vars == <<hostVars, ecVars>>

ByteCall == [op : {"read", "write"}, reg : 0..(LastReg + 1), val : Int]

\* ec_read_byte and ec_write_byte on one register, ec_read_word and
\* reply_ec_dump on several: the registers in order, and what came back.
Job == [kind : {"byte", "word", "dump", "write"}, todo : Seq(0..(LastReg + 1)),
        val : Int, got : Seq(Bytes \cup {-1})]

TypeOK ==
    /\ machine \in Machines
    /\ backend \in {"none", "fake", "ports"} \cup FilePaths
    /\ granted \subseteq PortNames
    /\ fake \in [Registers -> Bytes]
    /\ job = {} \/ \E j \in job : job = {j} /\ j \in Job /\ Len(j.got) <= Len(j.todo)
    /\ at \in {"idle", "call", "command", "register", "data", "answer",
               "syscall", "served", "returned"}
    /\ polls \in 0..(MaxPolls - 1)
    /\ ret \in Bytes \cup {-1}
    /\ inbuf = {} \/ \E b \in inbuf : inbuf = {b} /\ b \in [cmd : BOOLEAN, byte : Nat]
    /\ outbuf = {} \/ \E b \in Bytes : outbuf = {b}
    /\ ec \in [at : {"idle", "read", "write", "value", "answer"}, reg : Registers]
    /\ regs \in [Registers -> Bytes]
    /\ lost \in BOOLEAN

EC_CMD_READ == 128
EC_CMD_WRITE == 129

\* Mutant of ByteOf: no upper bound.
ByteAbove(value) == IF value < 0 THEN 0 ELSE value

\* (uint8_t)reg and clamp_int(value, 0, 255).
Addressed(reg) == reg % (LastReg + 1)
ByteOf(value) == IF value < 0 THEN 0 ELSE IF value > LastByte THEN LastByte ELSE value

\* The byte access the job is at.
Call(j) == [op |-> IF j.kind = "write" THEN "write" ELSE "read",
            reg |-> j.todo[Len(j.got) + 1], val |-> j.val]

Init ==
    /\ machine \in Machines
    /\ backend = "none" /\ granted = {}
    /\ fake = [r \in Registers |-> 0]
    /\ job = {} /\ at = "idle" /\ polls = 0 /\ ret = -1 /\ lost = FALSE
    /\ inbuf = {} /\ outbuf = {}
    /\ ec = [at |-> "idle", reg |-> 0]
    /\ regs \in [Registers -> Bytes]

-----------------------------------------------------------------------------
\* Back ends

\* Mutant of IoPermitted: the first port stays open when the second is refused.
IoPermittedPart(m) == m \cap (IF "data" \in m THEN PortNames ELSE {})

\* ec_open_io_ports: both ports or none.
IoPermitted(m) == IF PortNames \subseteq m THEN PortNames ELSE {}

\* ec_open_rw: the fake, else the first that opens.
OpenBackend ==
    /\ backend = "none" /\ job = {}
    /\ backend' = IF "fake" \in machine THEN "fake"
                  ELSE IF "ec-sys" \in machine THEN "ec-sys"
                  ELSE IF "acpi-ec" \in machine THEN "acpi-ec"
                  ELSE IF PortNames \subseteq machine THEN "ports" ELSE "none"
    /\ granted' = IF machine \cap ({"fake"} \cup FilePaths) # {} THEN {}
                  ELSE IoPermitted(machine)
    /\ fake' = IF "fake" \in machine THEN FakeWords ELSE [r \in Registers |-> 0]
    /\ UNCHANGED <<machine, job, at, polls, ret, lost, ecVars>>

CloseBackend ==
    /\ backend # "none" /\ job = {}
    /\ backend' = "none"
    /\ granted' = IF backend = "ports" THEN {} ELSE granted
    /\ UNCHANGED <<machine, fake, job, at, polls, ret, lost, ecVars>>

\* The daemon dies at any point and a new process starts with a fresh ec.
Crash ==
    /\ backend # "none"
    /\ backend' = "none" /\ granted' = {}
    /\ fake' = [r \in Registers |-> 0]
    /\ job' = {} /\ at' = "idle" /\ polls' = 0 /\ ret' = -1
    /\ lost' = (lost \/ at = "answer")
    /\ UNCHANGED <<machine, ecVars>>

-----------------------------------------------------------------------------
\* Callers

StartJob(kind, todo, val) ==
    /\ backend # "none" /\ job = {}
    /\ job' = {[kind |-> kind, todo |-> todo, val |-> val, got |-> <<>>]}
    /\ UNCHANGED <<machine, backend, granted, fake, at, polls, ret, lost, ecVars>>

ReadByte == \E r \in Registers : StartJob("byte", <<r>>, 0)
ReadWord == \E r \in Registers : StartJob("word", <<r, r + 1>>, 0)
Dump == \E s, e \in Registers :
            s <= e /\ StartJob("dump", [i \in 1..(e - s + 1) |-> s + i - 1], 0)
WriteByte == \E r \in Registers, v \in WriteValues : StartJob("write", <<r>>, v)

BeginCall ==
    /\ job # {} /\ at = "idle"
    /\ at' = "call"
    /\ UNCHANGED <<machine, backend, granted, fake, job, polls, ret, lost, ecVars>>

\* The caller takes the byte; a word stops at the first error, a dump shows
\* it as ?? and goes on.
Collect ==
    /\ at = "returned"
    /\ \E j \in job :
          LET got == Append(j.got, ret)
          IN  job' = IF Len(got) = Len(j.todo) \/ (j.kind # "dump" /\ ret = -1) THEN {}
                     ELSE {[j EXCEPT !.got = got]}
    /\ at' = "idle" /\ ret' = -1
    /\ UNCHANGED <<machine, backend, granted, fake, polls, lost, ecVars>>

\* The access in progress returns v.
Returning(v) == at' = "returned" /\ ret' = v /\ polls' = 0

-----------------------------------------------------------------------------
\* The port handshake

\* Mutant of WaitAgain: a wait that never gives up.
WaitForever ==
    /\ polls' = polls
    /\ UNCHANGED <<at, ret, lost>>

\* A poll that does not pass: sleep and try again, or time out.
WaitAgain ==
    IF polls + 1 < MaxPolls
    THEN polls' = polls + 1 /\ UNCHANGED <<at, ret, lost>>
    ELSE Returning(-1) /\ lost' = (lost \/ at = "answer")

\* The same wait for a bit that passes.
Passed(next) == at' = next /\ polls' = 0 /\ UNCHANGED <<ret, lost>>

hostRest == <<machine, backend, granted, fake, job>>

\* outb: one byte into the controller's input buffer.
Out(cmd, byte) == inbuf' = {[cmd |-> cmd, byte |-> byte]} /\ UNCHANGED <<outbuf, ec, regs>>

Dispatch ==
    /\ at = "call"
    /\ \/ backend = "ports" /\ at' = "command"
       \/ backend \in FilePaths /\ at' = "syscall"
    /\ UNCHANGED <<hostRest, polls, ret, lost, ecVars>>

SendCommand ==
    /\ at = "command"
    /\ \E j \in job :
          \/ inbuf # {} /\ WaitAgain /\ UNCHANGED ecVars
          \/ /\ inbuf = {}
             /\ Passed("register")
             /\ Out(TRUE, IF Call(j).op = "read" THEN EC_CMD_READ ELSE EC_CMD_WRITE)
    /\ UNCHANGED hostRest

\* Mutant of SendRegister: the register is sent without waiting.
SendRegisterAtOnce ==
    /\ at = "register"
    /\ \E j \in job :
          /\ Passed(IF Call(j).op = "read" THEN "answer" ELSE "data")
          /\ Out(FALSE, Addressed(Call(j).reg))
    /\ UNCHANGED hostRest

SendRegister ==
    /\ at = "register"
    /\ \E j \in job :
          \/ inbuf # {} /\ WaitAgain /\ UNCHANGED ecVars
          \/ /\ inbuf = {}
             /\ Passed(IF Call(j).op = "read" THEN "answer" ELSE "data")
             /\ Out(FALSE, Addressed(Call(j).reg))
    /\ UNCHANGED hostRest

\* Mutant of SendData: it waits for the data byte to be taken, and a timeout
\* of that wait is an error.
SendDataAndWait ==
    /\ at = "data"
    /\ \E j \in job :
          \/ inbuf # {} /\ WaitAgain /\ UNCHANGED ecVars
          \/ /\ inbuf = {}
             /\ Returning(0) \/ Returning(-1)
             /\ UNCHANGED lost
             /\ Out(FALSE, ByteOf(Call(j).val))
    /\ UNCHANGED hostRest

\* The data byte is left in the input buffer: nothing waits for it to be taken.
SendData ==
    /\ at = "data"
    /\ \E j \in job :
          \/ inbuf # {} /\ WaitAgain /\ UNCHANGED ecVars
          \/ /\ inbuf = {}
             /\ Returning(0) /\ UNCHANGED lost
             /\ Out(FALSE, ByteOf(Call(j).val))
    /\ UNCHANGED hostRest

\* Mutant of TakeAnswer: the data port is read whatever OBF says.
TakeAnyAnswer ==
    /\ at = "answer"
    /\ Returning(CHOOSE b \in Bytes : outbuf = {} \/ b \in outbuf)
    /\ outbuf' = {} /\ UNCHANGED <<inbuf, ec, regs, lost>>
    /\ UNCHANGED hostRest

\* Whatever byte OBF announces is the answer.
TakeAnswer ==
    /\ at = "answer"
    /\ \/ outbuf = {} /\ WaitAgain /\ UNCHANGED ecVars
       \/ \E b \in outbuf :
             /\ Returning(b)
             /\ outbuf' = {} /\ UNCHANGED <<inbuf, ec, regs, lost>>
    /\ UNCHANGED hostRest

-----------------------------------------------------------------------------
\* The other back ends

\* pread or pwrite of one byte: past the end it moves nothing.  An EINTR
\* repeats the call, which is a stutter here.
KernelServes ==
    /\ at = "syscall"
    /\ \E j \in job :
          LET q == Call(j)
          IN  /\ q.reg \in Registers
              /\ \/ q.op = "read" /\ ret' = regs[q.reg] /\ UNCHANGED regs
                 \/ /\ q.op = "write" /\ ret' = 0
                    /\ regs' = [regs EXCEPT ![q.reg] = ByteOf(q.val)]
    /\ at' = "served"
    /\ UNCHANGED <<hostRest, polls, lost, inbuf, outbuf, ec>>

\* The kernel may give up before or after the controller has the byte.
FileReturns ==
    /\ \/ at = "served" /\ ret' \in {ret, -1}
       \/ at = "syscall" /\ ret' = -1
    /\ at' = "returned"
    /\ UNCHANGED <<hostRest, polls, lost, ecVars>>

FakeAccess ==
    /\ backend = "fake" /\ at = "call"
    /\ \E j \in job :
          LET q == Call(j)
          IN  \/ /\ q.reg \notin Registers \/ (q.op = "write" /\ q.reg \in FakeFails)
                 /\ ret' = -1 /\ UNCHANGED fake
              \/ /\ q.reg \in Registers /\ q.op = "read"
                 /\ ret' = fake[q.reg] /\ UNCHANGED fake
              \/ /\ q.reg \in Registers \ FakeFails /\ q.op = "write"
                 /\ ret' = 0
                 /\ fake' = [fake EXCEPT ![q.reg] = ByteOf(q.val)]
    /\ at' = "returned"
    /\ UNCHANGED <<machine, backend, granted, job, polls, lost, ecVars>>

-----------------------------------------------------------------------------
\* The controller

\* It takes the byte in its input buffer; a command starts over.
EcTakes ==
    /\ ec.at # "answer"
    /\ \E b \in inbuf :
          LET next == IF b.cmd
                      THEN [at |-> IF b.byte = EC_CMD_READ THEN "read" ELSE "write",
                            reg |-> 0]
                      ELSE IF ec.at = "read" THEN [at |-> "answer", reg |-> b.byte]
                      ELSE IF ec.at = "write" THEN [at |-> "value", reg |-> b.byte]
                      ELSE [at |-> "idle", reg |-> 0]
          IN  /\ ec' = next
              /\ regs' = IF ~b.cmd /\ ec.at = "value" THEN [regs EXCEPT ![ec.reg] = b.byte]
                         ELSE regs
    /\ inbuf' = {}
    /\ UNCHANGED <<outbuf, hostVars>>

\* It answers, late or never; an answer nobody took is replaced.
EcAnswers ==
    /\ ec.at = "answer"
    /\ outbuf' = {regs[ec.reg]}
    /\ ec' = [at |-> "idle", reg |-> 0]
    /\ UNCHANGED <<inbuf, regs, hostVars>>

Drift ==
    /\ \E r \in Live, b \in Bytes : regs' = [regs EXCEPT ![r] = b]
    /\ UNCHANGED <<inbuf, outbuf, ec, hostVars>>

-----------------------------------------------------------------------------
Host ==
    \/ BeginCall \/ Dispatch \/ Collect
    \/ SendCommand \/ SendRegister \/ SendData \/ TakeAnswer
    \/ FileReturns \/ FakeAccess

Next ==
    \/ OpenBackend \/ CloseBackend \/ Crash
    \/ ReadByte \/ ReadWord \/ Dump \/ WriteByte
    \/ Host
    \/ KernelServes
    \/ EcTakes \/ EcAnswers \/ Drift

\* The daemon's thread runs; the controller owes nothing.
Spec == Init /\ [][Next]_vars /\ WF_vars(Host)

-----------------------------------------------------------------------------
\* What the callers rely on

\* What a register holds once the write in the input buffer has been taken.
Settled == [r \in Registers |->
              IF ec.at = "value" /\ ec.reg = r /\ \E b \in inbuf : ~b.cmd
              THEN (CHOOSE b \in inbuf : TRUE).byte ELSE regs[r]]

\* Every byte a job has gathered is the one in the register asked for, in a
\* word and in a dump too, after writes still on their way and after calls
\* that failed, as long as no read was abandoned after its register was sent
\* (ec_io_read_byte, ec_read_word, reply_ec_dump).
AnswersMatch ==
    \A j \in job : \A i \in 1..Len(j.got) :
        LET r == Addressed(j.todo[i])
        IN  ~lost /\ backend = "ports" /\ j.kind # "write" /\ r \notin Live
              => j.got[i] \in {-1, Settled[r]}

\* A register of the port back end changes for a write that reports success,
\* to that write's byte: a failed or interrupted write has no effect, then
\* or later (ec_io_write_byte).
FailedWritesHaveNoEffect ==
    [][\A r \in Registers \ Live :
         backend \notin FilePaths /\ Settled'[r] # Settled[r] =>
           \E j \in job : /\ j.kind = "write" /\ Addressed(j.todo[1]) = r
                          /\ Settled'[r] = ByteOf(j.val)
                          /\ ret' = 0 /\ at' = "returned"]_vars

\* Every access comes back, whatever the controller does (wait_status_clear,
\* wait_status_set, the callers' loops).
JobsEnd == job # {} ~> job = {}

\* The process holds both ports while it uses them and none otherwise
\* (ec_open_io_ports, ec_io_close).
PortsHeldInPairs == granted = IF backend = "ports" THEN PortNames ELSE {}

-----------------------------------------------------------------------------
\* The device implements EcAccess.

InCall == job # {} /\ at \in {"call", "command", "register", "data", "answer",
                              "syscall", "served"}
Abstracted(j) == [op |-> Call(j).op, reg |-> Addressed(Call(j).reg), val |-> ByteOf(Call(j).val)]
AbsCall == IF InCall /\ backend # "fake" THEN {Abstracted(j) : j \in job} ELSE {}
AbsSent == at \in {"answer", "syscall", "served"}
AbsRequest ==
    IF at = "syscall" THEN AbsCall
    ELSE IF ec.at = "answer" THEN {[op |-> "read", reg |-> ec.reg, val |-> 0]}
    ELSE IF ec.at = "read"
         THEN {[op |-> "read", reg |-> b.byte, val |-> 0] : b \in {x \in inbuf : ~x.cmd}}
    ELSE IF ec.at = "value"
         THEN {[op |-> "write", reg |-> ec.reg, val |-> b.byte] : b \in {x \in inbuf : ~x.cmd}}
    ELSE {}
AbsOwed == IF at = "served" /\ \E j \in job : j.kind # "write" THEN {ret} ELSE outbuf
AbsRet == IF at = "returned" /\ backend # "fake" THEN ret ELSE -1

Access == INSTANCE EcAccess WITH
    call <- AbsCall, sent <- AbsSent, request <- AbsRequest,
    owed <- AbsOwed, ret <- AbsRet

\* Every back end keeps what EcAccess promises, through timeouts and crashes.
ImplementsAccess == Access!Spec
=============================================================================
