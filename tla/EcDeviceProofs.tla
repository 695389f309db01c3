--------------------------- MODULE EcDeviceProofs ---------------------------
(***************************************************************************)
(* Proofs about EcDevice, for any number of registers, any machine and any *)
(* controller: the process holds both ports or none, answers belong to     *)
(* their questions, failed writes have no effect, and every back end       *)
(* implements EcAccess.                                                    *)
(*                                                                         *)
(* The invariant ties the place of the host in its handshake to the state  *)
(* of the controller.  What the controller may still hold of an access     *)
(* that was given up is never mistaken for part of the next one, since a   *)
(* command starts over; only an answer is, and then lost says so.          *)
(***************************************************************************)
EXTENDS EcDevice, TLAPS

\* The back end this machine has; OpenBackend always finds the same.
Chosen == IF "fake" \in machine THEN "fake"
          ELSE IF "ec-sys" \in machine THEN "ec-sys"
          ELSE IF "acpi-ec" \in machine THEN "acpi-ec"
          ELSE IF PortNames \subseteq machine THEN "ports" ELSE "none"

JobInv ==
    /\ job = {} => at = "idle"
    /\ backend = "none" => job = {}
    /\ \A j \in job :
          /\ job = {j} /\ j \in Job
          /\ Len(j.got) < Len(j.todo)
          /\ IF j.kind = "write" THEN j.got = <<>> /\ Len(j.todo) = 1 ELSE j.val = 0

HostInv ==
    /\ backend \in {"none", Chosen}
    /\ at \in {"command", "register", "data", "answer"} => backend = "ports"
    /\ at \in {"syscall", "served"} => backend \in FilePaths
    /\ at \notin {"served", "returned"} => ret = -1
    /\ at = "served" => ret \in Bytes /\ \A j \in job : j.kind = "write" => ret = 0
    /\ at = "returned" => \A j \in job : j.kind = "write" => ret \in {0, -1}
    /\ at = "answer" => \A j \in job : j.kind # "write"
    /\ at = "data" => \A j \in job : j.kind = "write"

Command(j) == [cmd |-> TRUE, byte |-> IF j.kind = "write" THEN EC_CMD_WRITE ELSE EC_CMD_READ]
Argument(byte) == [cmd |-> FALSE, byte |-> byte]
Asked(j) == Addressed(Call(j).reg)

BufferInv ==
    /\ Chosen # "ports" => ec.at = "idle" /\ inbuf = {} /\ outbuf = {}
    /\ \A b \in inbuf :
          /\ inbuf = {b}
          /\ b \in [cmd : {TRUE}, byte : {EC_CMD_READ, EC_CMD_WRITE}] \cup [cmd : {FALSE}, byte : Bytes]
          /\ ~b.cmd => ec.at \in {"read", "write", "value"}
          /\ ~b.cmd /\ ec.at # "value" => b.byte \in Registers

\* How far the controller has followed.
Handshake ==
    /\ at = "register" => \A j \in job :
          \/ inbuf = {Command(j)}
          \/ inbuf = {} /\ ec.at = IF j.kind = "write" THEN "write" ELSE "read"
    /\ at = "data" => \A j \in job :
          \/ inbuf = {Argument(Asked(j))} /\ ec.at = "write"
          \/ inbuf = {} /\ ec.at = "value" /\ ec.reg = Asked(j)

\* No answer but the one asked for.
AnswerInv ==
    ~lost =>
      /\ at # "answer" =>
            outbuf = {} /\ ec.at # "answer" /\ (ec.at = "read" => \A b \in inbuf : b.cmd)
      /\ at = "answer" => \A j \in job :
            \/ inbuf = {Argument(Asked(j))} /\ ec.at = "read" /\ outbuf = {}
            \/ inbuf = {} /\ ec = [at |-> "answer", reg |-> Asked(j)] /\ outbuf = {}
            \/ /\ inbuf = {} /\ ec.at = "idle"
               /\ \A v \in outbuf : Asked(j) \notin Live => v = regs[Asked(j)]
      /\ at = "returned" /\ backend = "ports" => \A j \in job :
            j.kind # "write" /\ Asked(j) \notin Live => ret \in {-1, Settled[Asked(j)]}

DeviceInv ==
    /\ TypeOK
    /\ JobInv /\ HostInv /\ BufferInv /\ Handshake /\ AnswerInv
    /\ PortsHeldInPairs /\ AnswersMatch

-----------------------------------------------------------------------------
\* Data

LEMMA Constants ==
    /\ LastReg \in Nat /\ LastByte \in Nat /\ MaxPolls \in Nat /\ MaxPolls > 0
    /\ Registers \subseteq Bytes /\ Registers = 0..LastReg /\ Bytes = 0..LastByte
    /\ 0 \in Registers /\ 0 \in Bytes /\ -1 \notin Bytes /\ 0 \in 0..(MaxPolls - 1)
BY EcDeviceAssumption DEF Registers, Bytes

LEMMA AddressedType == ASSUME NEW r \in 0..(LastReg + 1) PROVE Addressed(r) \in Registers
BY Constants DEF Addressed

LEMMA AddressedSame == ASSUME NEW r \in Registers PROVE Addressed(r) = r
  <1>1. LastReg \in Nat /\ r \in Nat /\ r < LastReg + 1
    BY Constants
  <1>2. r % (LastReg + 1) = r
    BY <1>1
  <1>3. QED
    BY <1>2 DEF Addressed

LEMMA ByteOfType == ASSUME NEW v \in Int PROVE ByteOf(v) \in Bytes
BY Constants DEF ByteOf

LEMMA AskedType ==
    ASSUME NEW j \in Job, Len(j.got) < Len(j.todo)
    PROVE  /\ Call(j).reg \in 0..(LastReg + 1) /\ Call(j).val = j.val
           /\ Call(j).op = IF j.kind = "write" THEN "write" ELSE "read"
           /\ Asked(j) \in Registers
  <1> DEFINE S == 0..(LastReg + 1)
  <1>1. j.todo \in Seq(S) /\ Len(j.got) + 1 \in 1..Len(j.todo)
    BY DEF Job
  <1> HIDE DEF S
  <1>2. j.todo[Len(j.got) + 1] \in S
    BY <1>1
  <1>3. QED
    BY <1>2, AddressedType DEF Call, Asked, S

\* Nothing is on its way to a register.
LEMMA SettledQuiet ==
    ASSUME regs \in [Registers -> Bytes], ec.at # "value" \/ \A b \in inbuf : b.cmd
    PROVE  Settled = regs
BY DEF Settled

\* A byte is.
LEMMA SettledPending ==
    ASSUME regs \in [Registers -> Bytes], ec.at = "value", NEW b, inbuf = {b}, ~b.cmd
    PROVE  Settled = [regs EXCEPT ![ec.reg] = b.byte]
  <1>1. (CHOOSE c \in inbuf : TRUE) = b
    OBVIOUS
  <1>2. Settled = [r \in Registers |-> IF ec.reg = r THEN b.byte ELSE regs[r]]
    BY <1>1, Zenon DEF Settled
  <1>3. QED
    BY <1>2

LEMMA SettledSame == ASSUME UNCHANGED <<inbuf, ec, regs>> PROVE Settled' = Settled
BY DEF Settled

\* Facts a leaf about host or controller takes from the invariant.
LEMMA Fields ==
    ASSUME DeviceInv
    PROVE  /\ machine \in Machines /\ granted \subseteq PortNames
           /\ backend \in {"none", "fake", "ports"} \cup FilePaths
           /\ fake \in [Registers -> Bytes] /\ lost \in BOOLEAN
           /\ polls \in 0..(MaxPolls - 1) /\ ret \in Bytes \cup {-1}
           /\ ec.reg \in Registers /\ regs \in [Registers -> Bytes]
           /\ ec.at \in {"idle", "read", "write", "value", "answer"}
           /\ ec = [at |-> ec.at, reg |-> ec.reg]
BY DEF DeviceInv, TypeOK

\* Answers that have come stay right while jobs and settled registers stay.
LEMMA FrameAnswers ==
    ASSUME DeviceInv, job' = job, backend' = backend, lost => lost',
           \A j \in job : j.kind # "write" /\ backend = "ports" =>
               \A r \in Registers \ Live : Settled'[r] = Settled[r]
    PROVE  AnswersMatch'
  <1> SUFFICES ASSUME NEW j \in job, NEW i \in 1..Len(j.got), ~lost, backend = "ports",
                      j.kind # "write", Addressed(j.todo[i]) \notin Live
               PROVE  j.got[i] \in {-1, Settled'[Addressed(j.todo[i])]}
    BY DEF AnswersMatch, DeviceInv, TypeOK
  <1>1. j \in Job /\ Len(j.got) < Len(j.todo)
    BY DEF DeviceInv, JobInv
  <1> DEFINE S == 0..(LastReg + 1)
  <1>2. j.todo \in Seq(S) /\ i \in 1..Len(j.todo)
    BY <1>1 DEF Job
  <1> HIDE DEF S
  <1>3. j.todo[i] \in S
    BY <1>2
  <1>4. Addressed(j.todo[i]) \in Registers
    BY <1>3, AddressedType DEF S
  <1>5. j.got[i] \in {-1, Settled[Addressed(j.todo[i])]}
    BY DEF DeviceInv, AnswersMatch
  <1>6. QED
    BY <1>4, <1>5

\* Without a job there is little to say.
LEMMA Idle ==
    ASSUME DeviceInv, job = {}
    PROVE  /\ at = "idle" /\ ret = -1
           /\ ~lost => outbuf = {} /\ ec.at # "answer" /\ (ec.at = "read" => \A b \in inbuf : b.cmd)
BY DEF DeviceInv, JobInv, HostInv, AnswerInv

-----------------------------------------------------------------------------
\* Back ends

LEMMA OpenKeeps == ASSUME DeviceInv, OpenBackend PROVE DeviceInv'
  <1> USE Idle, Fields DEF OpenBackend, hostVars, ecVars
  <1>1. fake' \in [Registers -> Bytes]
    BY EcDeviceAssumption, Constants
  <1>2. TypeOK'
    BY <1>1 DEF DeviceInv, TypeOK, IoPermitted, FilePaths
  <1>3. JobInv' /\ HostInv'
    BY DEF DeviceInv, JobInv, HostInv, Chosen
  <1>4. BufferInv' /\ Handshake' /\ AnswerInv'
    BY DEF DeviceInv, BufferInv, Handshake, AnswerInv, Chosen
  <1>5. PortsHeldInPairs' /\ AnswersMatch'
    BY DEF PortsHeldInPairs, AnswersMatch, IoPermitted, FilePaths
  <1>6. QED
    BY <1>2, <1>3, <1>4, <1>5 DEF DeviceInv

LEMMA CloseKeeps == ASSUME DeviceInv, CloseBackend PROVE DeviceInv'
  <1> USE Idle, Fields DEF CloseBackend, hostVars, ecVars
  <1>1. TypeOK'
    BY DEF DeviceInv, TypeOK
  <1>2. JobInv' /\ HostInv'
    BY DEF DeviceInv, JobInv, HostInv, Chosen
  <1>4. BufferInv' /\ Handshake' /\ AnswerInv'
    BY DEF DeviceInv, BufferInv, Handshake, AnswerInv, Chosen
  <1>5. PortsHeldInPairs' /\ AnswersMatch'
    BY DEF DeviceInv, PortsHeldInPairs, AnswersMatch
  <1>6. QED
    BY <1>1, <1>2, <1>4, <1>5 DEF DeviceInv

LEMMA CrashKeeps == ASSUME DeviceInv, Crash PROVE DeviceInv'
  <1> USE Fields DEF Crash, hostVars, ecVars
  <1>1. TypeOK'
    BY Constants DEF DeviceInv, TypeOK
  <1>2. JobInv' /\ HostInv'
    BY DEF DeviceInv, JobInv, HostInv, Chosen
  <1>4. BufferInv' /\ Handshake' /\ AnswerInv'
    BY DEF DeviceInv, BufferInv, Handshake, AnswerInv, Chosen
  <1>5. PortsHeldInPairs' /\ AnswersMatch'
    BY DEF PortsHeldInPairs, AnswersMatch
  <1>6. QED
    BY <1>1, <1>2, <1>4, <1>5 DEF DeviceInv

-----------------------------------------------------------------------------
\* Callers

LEMMA StartKeeps ==
    ASSUME DeviceInv, NEW kind \in {"byte", "word", "dump", "write"},
           NEW todo \in Seq(0..(LastReg + 1)), NEW val \in Int, StartJob(kind, todo, val),
           Len(todo) > 0, kind = "write" => Len(todo) = 1, kind # "write" => val = 0
    PROVE  DeviceInv'
  <1> DEFINE new == [kind |-> kind, todo |-> todo, val |-> val, got |-> <<>>]
  <1> USE Idle, Fields DEF StartJob, hostVars, ecVars
  <1>1. new \in Job /\ Len(new.got) = 0 /\ job' = {new}
    BY DEF Job
  <1>2. TypeOK'
    BY <1>1 DEF DeviceInv, TypeOK
  <1>3. JobInv' /\ HostInv'
    BY <1>1 DEF DeviceInv, JobInv, HostInv, Chosen
  <1>4. BufferInv' /\ Handshake' /\ AnswerInv'
    BY DEF DeviceInv, BufferInv, Handshake, AnswerInv, Chosen
  <1>5. PortsHeldInPairs' /\ AnswersMatch'
    BY <1>1 DEF DeviceInv, PortsHeldInPairs, AnswersMatch
  <1>6. QED
    BY <1>2, <1>3, <1>4, <1>5 DEF DeviceInv

LEMMA CallersKeep == ASSUME DeviceInv, ReadByte \/ ReadWord \/ Dump \/ WriteByte PROVE DeviceInv'
  <1> DEFINE Kinds == {"byte", "word", "dump", "write"}
             Regs == 0..(LastReg + 1)
             Good(kind, todo, val) ==
                 /\ todo \in Seq(Regs) /\ val \in Int /\ Len(todo) > 0
                 /\ kind = "write" => Len(todo) = 1
                 /\ kind # "write" => val = 0
  <1>1. ASSUME NEW kind \in Kinds, NEW todo, NEW val,
               StartJob(kind, todo, val), Good(kind, todo, val)
        PROVE  DeviceInv'
    BY <1>1, StartKeeps, Zenon
  <1>2. ASSUME ReadByte PROVE DeviceInv'
    <2>1. PICK todo : \E r \in Registers : todo = <<r>> /\ StartJob("byte", todo, 0)
      BY <1>2 DEF ReadByte
    <2>2. Good("byte", todo, 0)
      BY <2>1, Constants
    <2>3. QED
      BY <1>1, <2>1, <2>2
  <1>3. ASSUME ReadWord PROVE DeviceInv'
    <2>1. PICK todo : \E r \in Registers : todo = <<r, r + 1>> /\ StartJob("word", todo, 0)
      BY <1>3 DEF ReadWord
    <2>2. Good("word", todo, 0)
      BY <2>1, Constants
    <2>3. QED
      BY <1>1, <2>1, <2>2
  <1>4. ASSUME Dump PROVE DeviceInv'
    <2>0. PICK s \in Registers, e \in Registers :
              \E todo : /\ s <= e /\ todo = [i \in 1..(e - s + 1) |-> s + i - 1]
                        /\ StartJob("dump", todo, 0)
      BY <1>4 DEF Dump
    <2>1. PICK todo : /\ s <= e /\ todo = [i \in 1..(e - s + 1) |-> s + i - 1]
                      /\ StartJob("dump", todo, 0)
      BY <2>0
    <2>2. PICK n \in Nat : n > 0 /\ n = e - s + 1
      BY <2>1, Constants
    <2>3. todo = [i \in 1..n |-> s + i - 1] /\ \A i \in 1..n : s + i - 1 \in Regs
      BY <2>1, <2>2, Constants
    <2>4. todo \in Seq(Regs) /\ Len(todo) = n
      BY <2>3
    <2>5. Good("dump", todo, 0)
      BY <2>2, <2>4
    <2>6. QED
      BY <1>1, <2>1, <2>5
  <1>5. ASSUME WriteByte PROVE DeviceInv'
    <2>0. PICK r \in Registers, v \in WriteValues :
              \E todo : todo = <<r>> /\ StartJob("write", todo, v)
      BY <1>5 DEF WriteByte
    <2>1. PICK todo : todo = <<r>> /\ StartJob("write", todo, v)
      BY <2>0
    <2>2. v \in Int
      BY EcDeviceAssumption
    <2>3. Good("write", todo, v)
      BY <2>1, <2>2, Constants
    <2>4. QED
      BY <1>1, <2>1, <2>3
  <1>6. QED
    BY <1>2, <1>3, <1>4, <1>5

LEMMA BeginKeeps == ASSUME DeviceInv, BeginCall PROVE DeviceInv'
  <1> USE Fields DEF BeginCall, hostVars, ecVars
  <1>1. TypeOK' /\ JobInv' /\ HostInv'
    BY DEF DeviceInv, TypeOK, JobInv, HostInv, Chosen
  <1>2. BufferInv' /\ Handshake' /\ AnswerInv'
    BY DEF DeviceInv, BufferInv, Handshake, AnswerInv, Chosen
  <1>3. PortsHeldInPairs' /\ AnswersMatch'
    BY SettledSame, FrameAnswers DEF DeviceInv, PortsHeldInPairs
  <1>4. QED
    BY <1>1, <1>2, <1>3 DEF DeviceInv

\* The caller gets its byte, or gives the whole job up.
LEMMA CollectKeeps == ASSUME DeviceInv, Collect PROVE DeviceInv'
  <1> USE Fields DEF Collect, hostVars, ecVars
  <1>1. PICK j \in job : LET got == Append(j.got, ret)
                         IN  job' = IF Len(got) = Len(j.todo) \/ (j.kind # "dump" /\ ret = -1)
                                    THEN {} ELSE {[j EXCEPT !.got = got]}
    BY DEF Collect
  <1> DEFINE k == [j EXCEPT !.got = Append(j.got, ret)]
  <1>2. /\ job = {j} /\ j \in Job /\ Len(j.got) < Len(j.todo)
        /\ IF j.kind = "write" THEN j.got = <<>> /\ Len(j.todo) = 1 ELSE j.val = 0
    BY DEF DeviceInv, JobInv
  <1>3. /\ Append(j.got, ret) \in Seq(Bytes \cup {-1})
        /\ Len(Append(j.got, ret)) = Len(j.got) + 1
        /\ Len(j.got) \in Nat /\ Len(j.todo) \in Nat
    BY <1>2 DEF Job
  <1>4. /\ k \in Job /\ k.kind = j.kind /\ k.todo = j.todo /\ k.val = j.val
        /\ k.got = Append(j.got, ret)
    BY <1>2, <1>3 DEF Job
  <1>5. job' = {} \/ (job' = {k} /\ Len(k.got) < Len(k.todo) /\ k.kind # "write")
    <2>1. CASE j.kind = "write"
      <3>1. Len(j.got) = 0 /\ Len(j.todo) = 1
        BY <1>2, <2>1
      <3>2. QED
        BY <1>1, <1>3, <3>1
    <2>2. CASE j.kind # "write"
      <3>1. Len(Append(j.got, ret)) # Len(j.todo) => Len(Append(j.got, ret)) < Len(j.todo)
        BY <1>2, <1>3
      <3>2. QED
        BY <1>1, <1>4, <2>2, <3>1
    <2>3. QED
      BY <2>1, <2>2
  <1> HIDE DEF k
  <1>6. Len(k.got) < Len(k.todo) => Len(k.got) <= Len(k.todo)
    BY <1>3, <1>4
  <1>7. TypeOK'
    BY <1>4, <1>5, <1>6 DEF DeviceInv, TypeOK
  <1>8. JobInv' /\ HostInv'
    BY <1>2, <1>4, <1>5 DEF DeviceInv, JobInv, HostInv, Chosen
  <1>9. BufferInv' /\ Handshake' /\ AnswerInv'
    BY DEF DeviceInv, BufferInv, Handshake, AnswerInv, Chosen
  <1>10. PortsHeldInPairs'
    BY DEF DeviceInv, PortsHeldInPairs
  <1>11. AnswersMatch'
    <2> SUFFICES ASSUME job' = {k}, k.kind # "write", NEW i \in 1..Len(k.got), ~lost,
                        backend = "ports", Addressed(k.todo[i]) \notin Live
                 PROVE  k.got[i] \in {-1, Settled[Addressed(k.todo[i])]}
      BY <1>5, SettledSame DEF AnswersMatch
    <2>1. CASE i = Len(j.got) + 1
      <3>1. k.got[i] = ret /\ k.todo[i] = Call(j).reg
        BY <1>2, <1>3, <1>4, <2>1 DEF Job, Call
      <3>2. QED
        BY <1>2, <1>4, <3>1 DEF DeviceInv, AnswerInv, Asked
    <2>2. CASE i # Len(j.got) + 1
      <3>1. i \in 1..Len(j.got)
        BY <1>3, <1>4, <2>2
      <3>2. k.got[i] = j.got[i]
        BY <1>2, <1>3, <1>4, <3>1 DEF Job
      <3>3. QED
        BY <1>2, <1>4, <3>1, <3>2 DEF DeviceInv, AnswersMatch
    <2>3. QED
      BY <2>1, <2>2
  <1>12. QED
    BY <1>7, <1>8, <1>9, <1>10, <1>11 DEF DeviceInv

-----------------------------------------------------------------------------
\* The port handshake

LEMMA DispatchKeeps == ASSUME DeviceInv, Dispatch PROVE DeviceInv'
  <1> USE Fields DEF Dispatch, hostRest, ecVars
  <1>1. TypeOK' /\ JobInv' /\ HostInv'
    BY DEF DeviceInv, TypeOK, JobInv, HostInv, Chosen, FilePaths
  <1>2. BufferInv' /\ Handshake' /\ AnswerInv'
    BY DEF DeviceInv, BufferInv, Handshake, AnswerInv, Chosen
  <1>3. PortsHeldInPairs' /\ AnswersMatch'
    BY SettledSame, FrameAnswers DEF DeviceInv, PortsHeldInPairs
  <1>4. QED
    BY <1>1, <1>2, <1>3 DEF DeviceInv

\* A wait goes on or is given up.
LEMMA WaitKeeps ==
    ASSUME DeviceInv, at \in {"command", "register", "data", "answer"}, WaitAgain,
           UNCHANGED <<hostRest, ecVars>>
    PROVE  DeviceInv'
  <1> USE Fields, Constants DEF WaitAgain, Returning, hostRest, ecVars
  <1>0. polls' \in 0..(MaxPolls - 1)
    OBVIOUS
  <1>1. TypeOK'
    BY <1>0, ZenonT(30) DEF DeviceInv, TypeOK
  <1>2. JobInv' /\ HostInv'
    BY DEF DeviceInv, JobInv, HostInv, Chosen
  <1>3. BufferInv' /\ Handshake' /\ AnswerInv'
    BY DEF DeviceInv, BufferInv, Handshake, AnswerInv, Chosen
  <1>4. PortsHeldInPairs' /\ AnswersMatch'
    BY SettledSame, FrameAnswers DEF DeviceInv, PortsHeldInPairs
  <1>5. QED
    BY <1>1, <1>2, <1>3, <1>4 DEF DeviceInv

LEMMA CommandKeeps == ASSUME DeviceInv, SendCommand PROVE DeviceInv'
  <1> USE Fields DEF SendCommand
  <1>1. PICK j \in job : \/ WaitAgain /\ UNCHANGED ecVars
                        \/ /\ inbuf = {} /\ Passed("register")
                           /\ Out(TRUE, IF Call(j).op = "read" THEN EC_CMD_READ ELSE EC_CMD_WRITE)
    BY DEF SendCommand
  <1>2. CASE WaitAgain /\ UNCHANGED ecVars
    BY <1>2, WaitKeeps
  <1>3. CASE inbuf = {} /\ Passed("register") /\
             Out(TRUE, IF Call(j).op = "read" THEN EC_CMD_READ ELSE EC_CMD_WRITE)
    <2> USE <1>3 DEF Passed, Out, hostRest
    <2>1. job = {j} /\ j \in Job /\ Call(j).op = IF j.kind = "write" THEN "write" ELSE "read"
      BY AskedType DEF DeviceInv, JobInv
    <2>2. inbuf' = {Command(j)} /\ Command(j) \in [cmd : {TRUE}, byte : {EC_CMD_READ, EC_CMD_WRITE}]
      BY <2>1 DEF Command
    <2>3. TypeOK'
      <3>1. Command(j) \in [cmd : BOOLEAN, byte : Nat]
        BY DEF Command, EC_CMD_READ, EC_CMD_WRITE
      <3>2. QED
        BY <2>2, <3>1, Constants DEF DeviceInv, TypeOK
    <2>4. JobInv' /\ HostInv'
      BY DEF DeviceInv, JobInv, HostInv, Chosen
    <2>5. BufferInv'
      BY <2>2 DEF DeviceInv, HostInv, BufferInv, Chosen, FilePaths
    <2>6. Handshake' /\ AnswerInv'
      BY <2>1, <2>2 DEF DeviceInv, Handshake, AnswerInv
    <2>7. Settled' = Settled
      BY <2>2, SettledQuiet DEF Settled
    <2>8. PortsHeldInPairs' /\ AnswersMatch'
      BY <2>7, FrameAnswers DEF DeviceInv, PortsHeldInPairs
    <2>9. QED
      BY <2>3, <2>4, <2>5, <2>6, <2>8 DEF DeviceInv
  <1>4. QED
    BY <1>1, <1>2, <1>3

LEMMA RegisterKeeps == ASSUME DeviceInv, SendRegister PROVE DeviceInv'
  <1> USE Fields DEF SendRegister
  <1>1. PICK j \in job : \/ WaitAgain /\ UNCHANGED ecVars
                        \/ /\ inbuf = {} /\ Passed(IF Call(j).op = "read" THEN "answer" ELSE "data")
                           /\ Out(FALSE, Asked(j))
    BY DEF SendRegister, Asked
  <1>2. CASE WaitAgain /\ UNCHANGED ecVars
    BY <1>2, WaitKeeps
  <1>3. CASE inbuf = {} /\ Passed(IF Call(j).op = "read" THEN "answer" ELSE "data")
             /\ Out(FALSE, Asked(j))
    <2> USE <1>3 DEF Passed, Out, hostRest
    <2>1. /\ job = {j} /\ j \in Job /\ Call(j).op = IF j.kind = "write" THEN "write" ELSE "read"
          /\ Asked(j) \in Registers
      BY AskedType DEF DeviceInv, JobInv
    <2>2. /\ inbuf' = {Argument(Asked(j))} /\ Asked(j) \in Bytes
          /\ Argument(Asked(j)) \in [cmd : {FALSE}, byte : Bytes]
      BY <2>1, Constants DEF Argument
    <2>3. ec.at = IF j.kind = "write" THEN "write" ELSE "read"
      BY <2>1 DEF DeviceInv, Handshake, Command
    <2>4. TypeOK'
      <3>1. Argument(Asked(j)) \in [cmd : BOOLEAN, byte : Nat]
        BY <2>2, Constants DEF Argument
      <3>2. QED
        BY <2>1, <2>2, <3>1, Constants DEF DeviceInv, TypeOK
    <2>5. JobInv' /\ HostInv'
      BY <2>1 DEF DeviceInv, JobInv, HostInv, Chosen
    <2>6. BufferInv'
      BY <2>1, <2>2, <2>3 DEF DeviceInv, HostInv, BufferInv, Chosen, FilePaths, Argument
    <2>7. Handshake' /\ AnswerInv'
      BY <2>1, <2>2, <2>3 DEF DeviceInv, Handshake, AnswerInv, Asked, Call
    <2>8. Settled' = Settled
      BY <2>3, SettledQuiet DEF Settled
    <2>9. PortsHeldInPairs' /\ AnswersMatch'
      BY <2>8, FrameAnswers DEF DeviceInv, PortsHeldInPairs
    <2>10. QED
      BY <2>4, <2>5, <2>6, <2>7, <2>9 DEF DeviceInv
  <1>4. QED
    BY <1>1, <1>2, <1>3

LEMMA DataKeeps == ASSUME DeviceInv, SendData PROVE DeviceInv'
  <1> USE Fields DEF SendData
  <1>1. PICK j \in job : \/ WaitAgain /\ UNCHANGED ecVars
                        \/ /\ inbuf = {} /\ Returning(0) /\ lost' = lost
                           /\ Out(FALSE, ByteOf(Call(j).val))
    BY DEF SendData
  <1>2. CASE WaitAgain /\ UNCHANGED ecVars
    BY <1>2, WaitKeeps
  <1>3. CASE inbuf = {} /\ Returning(0) /\ lost' = lost /\ Out(FALSE, ByteOf(Call(j).val))
    <2> USE <1>3 DEF Returning, Out, hostRest
    <2>1. /\ job = {j} /\ j \in Job /\ j.kind = "write" /\ Call(j).val = j.val /\ j.val \in Int
          /\ ec.at = "value" /\ ec.reg = Asked(j)
      BY AskedType DEF DeviceInv, JobInv, HostInv, Handshake, Argument, Job
    <2>2. /\ inbuf' = {Argument(ByteOf(j.val))} /\ ByteOf(j.val) \in Bytes
          /\ Argument(ByteOf(j.val)) \in [cmd : {FALSE}, byte : Bytes]
      BY <2>1, ByteOfType DEF Argument
    <2>3. TypeOK'
      BY <2>1, <2>2, Constants, SMTT(30) DEF DeviceInv, TypeOK, Argument
    <2>4. JobInv' /\ HostInv'
      BY <2>1 DEF DeviceInv, JobInv, HostInv, Chosen
    <2>5. BufferInv'
      BY <2>1, <2>2 DEF DeviceInv, HostInv, BufferInv, Chosen, FilePaths, Argument
    <2>6. Handshake' /\ AnswerInv'
      BY <2>1, <2>2 DEF DeviceInv, Handshake, AnswerInv
    <2>7. PortsHeldInPairs' /\ AnswersMatch'
      BY <2>1, FrameAnswers DEF DeviceInv, PortsHeldInPairs
    <2>8. QED
      BY <2>3, <2>4, <2>5, <2>6, <2>7 DEF DeviceInv
  <1>4. QED
    BY <1>1, <1>2, <1>3

LEMMA TakeKeeps == ASSUME DeviceInv, TakeAnswer PROVE DeviceInv'
  <1> USE Fields DEF TakeAnswer
  <1>1. CASE WaitAgain /\ UNCHANGED ecVars
    BY <1>1, WaitKeeps
  <1>2. ASSUME NEW b \in outbuf, Returning(b), outbuf' = {}, UNCHANGED <<inbuf, ec, regs, lost>>
        PROVE  DeviceInv'
    <2> USE <1>2 DEF Returning, hostRest
    <2>1. outbuf = {b} /\ b \in Bytes
      BY DEF DeviceInv, TypeOK
    <2>2. TypeOK'
      BY <2>1, Constants DEF DeviceInv, TypeOK
    <2>3. JobInv' /\ HostInv'
      BY <2>1 DEF DeviceInv, JobInv, HostInv, Chosen
    <2>4. BufferInv' /\ Handshake'
      BY DEF DeviceInv, BufferInv, Handshake, Chosen
    <2>5. ~lost => inbuf = {} /\ ec.at = "idle" /\
                   \A j \in job : Asked(j) \notin Live => b = Settled[Asked(j)]
      BY <2>1, SettledQuiet DEF DeviceInv, AnswerInv, JobInv
    <2>6. AnswerInv'
      BY <2>1, <2>5, SettledSame DEF AnswerInv, Asked, Call
    <2>7. PortsHeldInPairs' /\ AnswersMatch'
      BY SettledSame, FrameAnswers DEF DeviceInv, PortsHeldInPairs
    <2>8. QED
      BY <2>2, <2>3, <2>4, <2>6, <2>7 DEF DeviceInv
  <1>3. QED
    BY <1>1, <1>2 DEF TakeAnswer

-----------------------------------------------------------------------------
\* The other back ends

LEMMA FilesKeep == ASSUME DeviceInv, FileReturns \/ FakeAccess PROVE DeviceInv'
  <1> USE Fields, Constants
  <1>1. CASE FileReturns
    <2> USE <1>1 DEF FileReturns, hostRest, ecVars
    <2>1. TypeOK' /\ JobInv' /\ HostInv'
      BY ZenonT(30) DEF DeviceInv, TypeOK, JobInv, HostInv, Chosen
    <2>2. BufferInv' /\ Handshake' /\ AnswerInv'
      BY DEF DeviceInv, HostInv, BufferInv, Handshake, AnswerInv, Chosen, FilePaths
    <2>3. PortsHeldInPairs' /\ AnswersMatch'
      BY SettledSame, FrameAnswers DEF DeviceInv, PortsHeldInPairs
    <2>4. QED
      BY <2>1, <2>2, <2>3 DEF DeviceInv
  <1>2. CASE FakeAccess
    <2> USE <1>2 DEF FakeAccess, ecVars
    <2>1. PICK j \in job :
             \/ ret' = -1 /\ UNCHANGED fake
             \/ \E r \in Registers : j.kind # "write" /\ ret' = fake[r] /\ UNCHANGED fake
             \/ \E r \in Registers : ret' = 0 /\ fake' = [fake EXCEPT ![r] = ByteOf(j.val)]
      BY DEF Call
    <2>2. job = {j} /\ j \in Job /\ ByteOf(j.val) \in Bytes
      BY ByteOfType DEF DeviceInv, JobInv, Job
    <2>3. /\ ret' \in Bytes \cup {-1}
          /\ j.kind = "write" => ret' \in {0, -1}
      BY <2>1
    <2>4. fake' \in [Registers -> Bytes]
      BY <2>1, <2>2, ZenonT(30)
    <2>5. TypeOK' /\ JobInv' /\ HostInv'
      BY <2>2, <2>3, <2>4 DEF DeviceInv, TypeOK, JobInv, HostInv, Chosen
    <2>6. BufferInv' /\ Handshake' /\ AnswerInv'
      BY DEF DeviceInv, BufferInv, Handshake, AnswerInv, Chosen
    <2>7. PortsHeldInPairs' /\ AnswersMatch'
      BY SettledSame, FrameAnswers DEF DeviceInv, PortsHeldInPairs
    <2>8. QED
      BY <2>5, <2>6, <2>7 DEF DeviceInv
  <1>3. QED
    BY <1>1, <1>2

LEMMA KernelKeeps == ASSUME DeviceInv, KernelServes PROVE DeviceInv'
  <1> USE Fields, Constants DEF KernelServes, hostRest
  <1>1. PICK j \in job, r \in Registers :
          \/ j.kind # "write" /\ ret' = regs[r] /\ UNCHANGED regs
          \/ ret' = 0 /\ regs' = [regs EXCEPT ![r] = ByteOf(j.val)]
    BY DEF KernelServes, Call
  <1>2. job = {j} /\ j \in Job /\ ByteOf(j.val) \in Bytes
    BY ByteOfType DEF DeviceInv, JobInv, Job
  <1>3. ret' \in Bytes /\ (j.kind = "write" => ret' = 0)
    BY <1>1
  <1>4. regs' \in [Registers -> Bytes]
    BY <1>1, <1>2, SMTT(30)
  <1>5. backend # "ports"
    BY DEF DeviceInv, HostInv, FilePaths
  <1>6. TypeOK' /\ JobInv' /\ HostInv'
    BY <1>2, <1>3, <1>4 DEF DeviceInv, TypeOK, JobInv, HostInv, Chosen
  <1>7. BufferInv' /\ Handshake' /\ AnswerInv'
    BY <1>5 DEF DeviceInv, BufferInv, Handshake, AnswerInv, Chosen
  <1>8. PortsHeldInPairs' /\ AnswersMatch'
    BY <1>5, FrameAnswers DEF DeviceInv, PortsHeldInPairs
  <1>9. QED
    BY <1>6, <1>7, <1>8 DEF DeviceInv

-----------------------------------------------------------------------------
\* The controller

\* What it makes of a byte.
Taken(b) ==
    \/ /\ b.cmd /\ UNCHANGED regs
       /\ \/ b.byte = EC_CMD_READ /\ ec' = [at |-> "read", reg |-> 0]
          \/ b.byte = EC_CMD_WRITE /\ ec' = [at |-> "write", reg |-> 0]
    \/ /\ ~b.cmd /\ ec.at = "read" /\ UNCHANGED regs /\ b.byte \in Registers
       /\ ec' = [at |-> "answer", reg |-> b.byte]
    \/ /\ ~b.cmd /\ ec.at = "write" /\ UNCHANGED regs /\ b.byte \in Registers
       /\ ec' = [at |-> "value", reg |-> b.byte]
    \/ /\ ~b.cmd /\ ec.at = "value" /\ b.byte \in Bytes
       /\ regs' = [regs EXCEPT ![ec.reg] = b.byte]
       /\ ec' = [at |-> "idle", reg |-> 0]

LEMMA EcTakesCases ==
    ASSUME DeviceInv, EcTakes
    PROVE  \E b : inbuf = {b} /\ inbuf' = {} /\ ec.at # "answer" /\ Taken(b)
  <1>1. PICK b \in inbuf :
          /\ ec' = IF b.cmd
                   THEN [at |-> IF b.byte = EC_CMD_READ THEN "read" ELSE "write", reg |-> 0]
                   ELSE IF ec.at = "read" THEN [at |-> "answer", reg |-> b.byte]
                   ELSE IF ec.at = "write" THEN [at |-> "value", reg |-> b.byte]
                   ELSE [at |-> "idle", reg |-> 0]
          /\ regs' = IF ~b.cmd /\ ec.at = "value" THEN [regs EXCEPT ![ec.reg] = b.byte] ELSE regs
    BY DEF EcTakes
  <1>2. /\ inbuf = {b} /\ inbuf' = {} /\ ec.at # "answer"
        /\ b \in [cmd : {TRUE}, byte : {EC_CMD_READ, EC_CMD_WRITE}] \cup [cmd : {FALSE}, byte : Bytes]
        /\ ~b.cmd => ec.at \in {"read", "write", "value"}
        /\ ~b.cmd /\ ec.at # "value" => b.byte \in Registers
    BY DEF EcTakes, DeviceInv, BufferInv
  <1>3. QED
    BY <1>1, <1>2 DEF Taken

LEMMA EcTakesKeeps == ASSUME DeviceInv, EcTakes PROVE DeviceInv'
  <1> USE Fields, Constants DEF hostVars, Taken
  <1>1. PICK b : inbuf = {b} /\ inbuf' = {} /\ ec.at # "answer" /\ Taken(b)
    BY EcTakesCases
  <1>2. UNCHANGED hostVars /\ outbuf' = outbuf
    BY DEF EcTakes
  <1>3. TypeOK'
    <2>1. ec' \in [at : {"idle", "read", "write", "value", "answer"}, reg : Registers]
      BY <1>1
    <2>2. regs' \in [Registers -> Bytes]
      BY <1>1
    <2>3. QED
      BY <1>1, <1>2, <2>1, <2>2 DEF DeviceInv, TypeOK
  <1>4. JobInv' /\ HostInv'
    BY <1>2 DEF DeviceInv, JobInv, HostInv, Chosen
  <1>5. BufferInv'
    BY <1>1, <1>2 DEF DeviceInv, BufferInv, Chosen
  <1>6. Settled' = Settled
    <2>1. Settled' = regs'
      BY <1>1 DEF Settled
    <2>2. Settled = regs'
      BY <1>1, SettledQuiet, SettledPending
    <2>3. QED
      BY <2>1, <2>2
  <1>7. Handshake'
    BY <1>1, <1>2 DEF DeviceInv, JobInv, Handshake, Command, Argument, Asked, Call,
                      EC_CMD_READ, EC_CMD_WRITE
  <1>8. AnswerInv'
    BY <1>1, <1>2, <1>6 DEF DeviceInv, AnswerInv, Argument, Asked, Call
  <1>9. PortsHeldInPairs' /\ AnswersMatch'
    BY <1>2, <1>6, FrameAnswers DEF DeviceInv, PortsHeldInPairs
  <1>10. QED
    BY <1>3, <1>4, <1>5, <1>7, <1>8, <1>9 DEF DeviceInv

LEMMA EcAnswersKeeps == ASSUME DeviceInv, EcAnswers PROVE DeviceInv'
  <1> USE Fields, Constants DEF EcAnswers, hostVars
  <1>1. TypeOK' /\ JobInv' /\ HostInv' /\ BufferInv'
    BY ZenonT(30) DEF DeviceInv, TypeOK, JobInv, HostInv, BufferInv, Chosen
  <1>2. Settled' = Settled
    BY SettledQuiet DEF Settled
  <1>3. Handshake' /\ AnswerInv'
    BY <1>2 DEF DeviceInv, Handshake, AnswerInv, Asked, Call, Argument
  <1>4. PortsHeldInPairs' /\ AnswersMatch'
    BY <1>2, FrameAnswers DEF DeviceInv, PortsHeldInPairs
  <1>5. QED
    BY <1>1, <1>3, <1>4 DEF DeviceInv

LEMMA DriftKeeps == ASSUME DeviceInv, Drift PROVE DeviceInv'
  <1> USE Fields, Constants DEF hostVars
  <1>1. PICK r \in Live, b \in Bytes : regs' = [regs EXCEPT ![r] = b]
    BY DEF Drift
  <1>2. UNCHANGED <<inbuf, outbuf, ec, hostVars>> /\ r \in Registers
    BY EcDeviceAssumption DEF Drift
  <1>3. regs' \in [Registers -> Bytes] /\ \A s \in Registers \ Live : regs'[s] = regs[s]
    BY <1>1
  <1>4. \A s \in Registers \ Live : Settled'[s] = Settled[s]
    BY <1>2, <1>3 DEF Settled
  <1>5. TypeOK' /\ JobInv' /\ HostInv' /\ BufferInv' /\ Handshake'
    <2>1. TypeOK'
      <3>1. TypeOK /\ UNCHANGED <<machine, backend, granted, fake, job, at, polls, ret, lost>>
        BY <1>2 DEF DeviceInv
      <3>2. QED
        BY <1>2, <1>3, <3>1, Zenon DEF TypeOK
    <2>2. JobInv' /\ HostInv' /\ BufferInv'
      BY <1>2 DEF DeviceInv, JobInv, HostInv, BufferInv, Chosen
    <2>3. Handshake'
      BY <1>2 DEF DeviceInv, Handshake, Asked, Call
    <2>4. QED
      BY <2>1, <2>2, <2>3
  <1>6. \A j \in job : Asked(j) \in Registers
    BY AskedType DEF DeviceInv, JobInv
  <1>7. AnswerInv'
    BY <1>2, <1>3, <1>4, <1>6, ZenonT(30) DEF DeviceInv, AnswerInv, Asked, Call
  <1>8. PortsHeldInPairs' /\ AnswersMatch'
    BY <1>2, <1>4, FrameAnswers DEF DeviceInv, PortsHeldInPairs
  <1>9. QED
    BY <1>5, <1>7, <1>8 DEF DeviceInv

-----------------------------------------------------------------------------
\* The invariant

LEMMA StartHolds == Init => DeviceInv
  <1> SUFFICES ASSUME Init PROVE DeviceInv
    OBVIOUS
  <1> USE Constants DEF Init
  <1>1. TypeOK
    BY DEF TypeOK
  <1>2. JobInv /\ HostInv /\ BufferInv /\ Handshake /\ AnswerInv
    BY DEF JobInv, HostInv, BufferInv, Handshake, AnswerInv
  <1>3. PortsHeldInPairs /\ AnswersMatch
    BY DEF PortsHeldInPairs, AnswersMatch
  <1>4. QED
    BY <1>1, <1>2, <1>3 DEF DeviceInv

LEMMA StutterKeeps == ASSUME DeviceInv, UNCHANGED vars PROVE DeviceInv'
  <1> USE DEF vars, hostVars, ecVars
  <1>1. TypeOK'
    <2>1. /\ TypeOK /\ UNCHANGED <<machine, backend, granted, fake, job, at, polls, ret, lost>>
          /\ UNCHANGED <<inbuf, outbuf, ec, regs>>
      BY DEF DeviceInv
    <2>2. QED
      BY <2>1, Zenon DEF TypeOK
  <1>2. JobInv' /\ HostInv' /\ BufferInv'
    BY DEF DeviceInv, JobInv, HostInv, BufferInv, Chosen
  <1>3. Handshake' /\ AnswerInv'
    BY SettledSame DEF DeviceInv, Handshake, AnswerInv, Asked, Call
  <1>4. PortsHeldInPairs' /\ AnswersMatch'
    BY SettledSame, FrameAnswers DEF DeviceInv, PortsHeldInPairs
  <1>5. QED
    BY <1>1, <1>2, <1>3, <1>4 DEF DeviceInv

LEMMA StepKeeps == DeviceInv /\ [Next]_vars => DeviceInv'
  BY OpenKeeps, CloseKeeps, CrashKeeps, CallersKeep, BeginKeeps, CollectKeeps, DispatchKeeps,
     CommandKeeps, RegisterKeeps, DataKeeps, TakeKeeps, FilesKeep, KernelKeeps,
     EcTakesKeeps, EcAnswersKeeps, DriftKeeps, StutterKeeps, Zenon DEF Next, Host

LEMMA DeviceHolds == Spec => []DeviceInv
  BY StartHolds, StepKeeps, PTL DEF Spec

\* Every variable keeps its type, with any controller (ec_open_rw and what
\* follows it).
THEOREM DeviceTypeCorrect == Spec => []TypeOK
  <1>1. DeviceInv => TypeOK
    BY DEF DeviceInv
  <1>2. QED
    BY <1>1, DeviceHolds, PTL

\* The process holds both ports while it uses them and none otherwise
\* (ec_open_io_ports, ec_io_close).
THEOREM PortsHeld == Spec => []PortsHeldInPairs
  <1>1. DeviceInv => PortsHeldInPairs
    BY DEF DeviceInv
  <1>2. QED
    BY <1>1, DeviceHolds, PTL

\* Until an answer has been abandoned, every byte of a word or a dump is the
\* one in the register asked for, after writes still on their way and after
\* calls that failed (ec_io_read_byte, ec_read_word, reply_ec_dump).
THEOREM AnswersAreRight == Spec => []AnswersMatch
  <1>1. DeviceInv => AnswersMatch
    BY DEF DeviceInv
  <1>2. QED
    BY <1>1, DeviceHolds, PTL

-----------------------------------------------------------------------------
\* Effects on the registers

\* What FailedWritesHaveNoEffect asks of a step.
Harmless ==
    \A r \in Registers \ Live :
        backend \notin FilePaths /\ Settled'[r] # Settled[r] =>
            \E j \in job : /\ j.kind = "write" /\ Addressed(j.todo[1]) = r
                           /\ Settled'[r] = ByteOf(j.val)
                           /\ ret' = 0 /\ at' = "returned"

LEMMA WaitHarmless == ASSUME UNCHANGED ecVars PROVE Harmless
  BY SettledSame DEF ecVars, Harmless

LEMMA HandshakeHarmless ==
    ASSUME DeviceInv, SendCommand \/ SendRegister \/ TakeAnswer
    PROVE  Harmless
  <1> USE Fields
  <1>1. CASE UNCHANGED ecVars
    BY <1>1, WaitHarmless
  <1>2. ASSUME SendCommand, ~UNCHANGED ecVars PROVE Settled = regs /\ Settled' = regs
    BY <1>2, SettledQuiet DEF SendCommand, Out, Settled
  <1>3. ASSUME SendRegister, ~UNCHANGED ecVars PROVE Settled = regs /\ Settled' = regs
    <2>1. inbuf = {} /\ UNCHANGED <<ec, regs>> /\ at = "register" /\ job # {}
      BY <1>3 DEF SendRegister, Out
    <2>2. ec.at # "value"
      BY <2>1 DEF DeviceInv, Handshake
    <2>3. QED
      BY <2>1, <2>2, SettledQuiet DEF Settled
  <1>4. ASSUME TakeAnswer PROVE Settled' = Settled
    BY <1>4, SettledSame DEF TakeAnswer, ecVars
  <1>5. QED
    BY <1>1, <1>2, <1>3, <1>4 DEF Harmless

LEMMA DataHarmless == ASSUME DeviceInv, SendData PROVE Harmless
  <1> USE Fields
  <1>1. PICK j \in job : \/ UNCHANGED ecVars
                        \/ /\ inbuf = {} /\ Returning(0)
                           /\ Out(FALSE, ByteOf(Call(j).val))
    BY DEF SendData
  <1>2. CASE inbuf = {} /\ Returning(0) /\ Out(FALSE, ByteOf(Call(j).val))
    <2> USE <1>2 DEF Returning, Out
    <2>1. /\ j.kind = "write" /\ Call(j).val = j.val /\ Call(j).reg = j.todo[1]
          /\ ec.at = "value" /\ ec.reg = Asked(j)
      <3>1. j.kind = "write" /\ j.got = <<>> /\ at = "data"
        BY DEF SendData, DeviceInv, JobInv, HostInv
      <3>2. Len(j.got) + 1 = 1
        BY <3>1
      <3>3. QED
        BY <3>1, <3>2 DEF DeviceInv, Handshake, Argument, Call
    <2>2. Settled = regs
      BY SettledQuiet
    <2>3. Settled' = [regs EXCEPT ![Asked(j)] = ByteOf(j.val)]
      <3>1. (CHOOSE c \in inbuf' : TRUE) = Argument(ByteOf(j.val))
        BY <2>1 DEF Argument
      <3>2. Settled' = [r \in Registers |-> IF ec.reg = r THEN ByteOf(j.val) ELSE regs[r]]
        BY <2>1, <3>1 DEF Settled, Argument
      <3>3. QED
        BY <2>1, <3>2
    <2>4. QED
      BY <2>1, <2>2, <2>3 DEF Harmless, Asked
  <1>3. QED
    BY <1>1, <1>2, WaitHarmless

LEMMA ControllerHarmless == ASSUME DeviceInv, EcTakes \/ EcAnswers \/ Drift PROVE Harmless
  <1> USE Fields
  <1>1. ASSUME EcTakes PROVE Settled' = Settled
    <2>1. PICK b : inbuf = {b} /\ inbuf' = {} /\
                   \/ UNCHANGED regs /\ (ec.at # "value" \/ b.cmd)
                   \/ ~b.cmd /\ ec.at = "value" /\ regs' = [regs EXCEPT ![ec.reg] = b.byte]
      BY <1>1, EcTakesCases DEF Taken
    <2>2. regs' \in [Registers -> Bytes]
      BY <1>1, EcTakesKeeps DEF DeviceInv, TypeOK
    <2>3. Settled' = regs'
      BY <2>1, <2>2 DEF Settled
    <2>4. Settled = regs'
      BY <2>1, SettledQuiet, SettledPending
    <2>5. QED
      BY <2>3, <2>4
  <1>2. ASSUME EcAnswers PROVE Settled' = Settled
    BY <1>2, SettledQuiet DEF EcAnswers, Settled
  <1>3. ASSUME Drift PROVE \A r \in Registers \ Live : Settled'[r] = Settled[r]
    BY <1>3 DEF Drift, Settled
  <1>4. QED
    BY <1>1, <1>2, <1>3 DEF Harmless

LEMMA OthersHarmless ==
    ASSUME DeviceInv,
           \/ OpenBackend \/ CloseBackend \/ Crash \/ ReadByte \/ ReadWord \/ Dump \/ WriteByte
           \/ BeginCall \/ Dispatch \/ Collect \/ FileReturns \/ FakeAccess \/ KernelServes
    PROVE  Harmless
  <1>1. CASE KernelServes
    BY <1>1 DEF KernelServes, hostRest, DeviceInv, HostInv, Harmless
  <1>2. CASE ~KernelServes
    <2>1. UNCHANGED ecVars
      BY <1>2 DEF OpenBackend, CloseBackend, Crash, ReadByte, ReadWord, Dump, WriteByte, StartJob,
                  BeginCall, Dispatch, Collect, FileReturns, FakeAccess, ecVars
    <2>2. QED
      BY <2>1, WaitHarmless
  <1>3. QED
    BY <1>1, <1>2

\* No register outside the firmware's own changes for a write that failed, was
\* interrupted or was meant for another register, in any order of accesses,
\* crashes and restarts (ec_io_write_byte).
THEOREM FailedWritesAreHarmless == Spec => FailedWritesHaveNoEffect
  <1>1. DeviceInv /\ [Next]_vars => [Harmless]_vars
    BY HandshakeHarmless, DataHarmless, ControllerHarmless, OthersHarmless, Zenon DEF Next, Host
  <1>2. [Harmless]_vars =>
          [\A r \in Registers \ Live :
             backend \notin FilePaths /\ Settled'[r] # Settled[r] =>
               \E j \in job : /\ j.kind = "write" /\ Addressed(j.todo[1]) = r
                              /\ Settled'[r] = ByteOf(j.val)
                              /\ ret' = 0 /\ at' = "returned"]_vars
    BY DEF Harmless
  <1>3. QED
    BY <1>1, <1>2, DeviceHolds, PTL DEF Spec, FailedWritesHaveNoEffect

-----------------------------------------------------------------------------
\* The refinement: what each step of EcAccess takes.

Abstract == [Access!Next]_(Access!accessVars)

LEMMA Stutters ==
    ASSUME UNCHANGED <<regs, AbsCall, AbsSent, AbsRequest, AbsOwed, AbsRet>>
    PROVE  Abstract
BY DEF Abstract, Access!accessVars

LEMMA Begins ==
    ASSUME NEW q \in Access!Request, AbsCall = {}, AbsRet = -1, AbsCall' = {q},
           UNCHANGED <<regs, AbsSent, AbsRequest, AbsOwed, AbsRet>>
    PROVE  Abstract
BY DEF Abstract, Access!Next, Access!Begin

LEMMA Submits ==
    ASSUME AbsCall # {}, ~AbsSent, AbsRequest = {}, AbsRequest' = AbsCall, AbsSent' = TRUE,
           UNCHANGED <<regs, AbsCall, AbsOwed, AbsRet>>
    PROVE  Abstract
BY DEF Abstract, Access!Next, Access!Submit

LEMMA ServesRead ==
    ASSUME NEW q \in Access!Request, q.op = "read", AbsRequest = {q}, AbsRequest' = {},
           AbsOwed' = {regs[q.reg]}, UNCHANGED <<regs, AbsCall, AbsSent, AbsRet>>
    PROVE  Abstract
BY DEF Abstract, Access!Next, Access!Serve

LEMMA ServesWrite ==
    ASSUME NEW q \in Access!Request, q.op = "write", AbsRequest = {q}, AbsRequest' = {},
           regs' = [regs EXCEPT ![q.reg] = q.val],
           UNCHANGED <<AbsOwed, AbsCall, AbsSent, AbsRet>>
    PROVE  Abstract
BY DEF Abstract, Access!Next, Access!Serve

LEMMA ReturnsRead ==
    ASSUME NEW q \in Access!Request, NEW v \in Bytes, AbsCall = {q}, q.op = "read", AbsSent,
           AbsOwed = {v}, AbsRet' = v, AbsCall' = {}, AbsSent' = FALSE, AbsOwed' = {},
           UNCHANGED <<regs, AbsRequest>>
    PROVE  Abstract
BY DEF Abstract, Access!Next, Access!ReturnRead

LEMMA ReturnsWrite ==
    ASSUME NEW q \in Access!Request, AbsCall = {q}, q.op = "write",
           \/ AbsSent /\ AbsRequest' = AbsRequest
           \/ ~AbsSent /\ AbsRequest = {} /\ AbsRequest' = AbsCall,
           AbsRet' = 0, AbsCall' = {}, AbsSent' = FALSE, UNCHANGED <<regs, AbsOwed>>
    PROVE  Abstract
BY DEF Abstract, Access!Next, Access!ReturnWrite

LEMMA Fails ==
    ASSUME AbsCall # {}, AbsCall' = {}, AbsSent' = FALSE, AbsRequest' \in {AbsRequest, {}},
           AbsOwed' \in {AbsOwed, {}}, UNCHANGED <<regs, AbsRet>>
    PROVE  Abstract
BY DEF Abstract, Access!Next, Access!Fail

LEMMA Takes ==
    ASSUME AbsRet # -1, AbsRet' = -1, UNCHANGED <<regs, AbsCall, AbsSent, AbsRequest, AbsOwed>>
    PROVE  Abstract
BY DEF Abstract, Access!Next, Access!Take

LEMMA Drifts ==
    ASSUME NEW r \in Live, NEW b \in Bytes, regs' = [regs EXCEPT ![r] = b],
           UNCHANGED <<AbsCall, AbsSent, AbsRequest, AbsOwed, AbsRet>>
    PROVE  Abstract
BY EcDeviceAssumption DEF Abstract, Access!Next, Access!Drift

\* The part of AbsRequest the controller holds.
EcRequest ==
    IF ec.at = "answer" THEN {[op |-> "read", reg |-> ec.reg, val |-> 0]}
    ELSE IF ec.at = "read"
         THEN {[op |-> "read", reg |-> b.byte, val |-> 0] : b \in {x \in inbuf : ~x.cmd}}
    ELSE IF ec.at = "value"
         THEN {[op |-> "write", reg |-> ec.reg, val |-> b.byte] : b \in {x \in inbuf : ~x.cmd}}
    ELSE {}

LEMMA EcRequestSame == ASSUME UNCHANGED <<ec, inbuf>> PROVE EcRequest' = EcRequest
BY DEF EcRequest

LEMMA RequestSplit ==
    /\ AbsRequest = IF at = "syscall" THEN AbsCall ELSE EcRequest
    /\ AbsRequest' = IF at' = "syscall" THEN AbsCall' ELSE EcRequest'
BY DEF AbsRequest, EcRequest

\* One call, and what EcAccess sees of it.
LEMMA TheCall ==
    ASSUME DeviceInv, NEW j \in job
    PROVE  /\ job = {j} /\ j \in Job /\ backend # "none"
           /\ Abstracted(j) \in Access!Request
           /\ Abstracted(j).op = (IF j.kind = "write" THEN "write" ELSE "read")
           /\ Abstracted(j).reg = Asked(j) /\ Asked(j) \in Registers
           /\ Abstracted(j).val = ByteOf(j.val)
           /\ j.kind # "write" => Abstracted(j) = [op |-> "read", reg |-> Asked(j), val |-> 0]
           /\ j.kind = "write" =>
                Abstracted(j) = [op |-> "write", reg |-> Asked(j), val |-> ByteOf(j.val)]
           /\ {Abstracted(k) : k \in job} = {Abstracted(j)}
  <1>1. job = {j} /\ j \in Job /\ Len(j.got) < Len(j.todo) /\ backend # "none"
        /\ (j.kind # "write" => j.val = 0)
    BY DEF DeviceInv, JobInv
  <1>2. /\ Asked(j) \in Registers /\ Call(j).val = j.val
        /\ Call(j).op = IF j.kind = "write" THEN "write" ELSE "read"
    BY <1>1, AskedType
  <1>3. j.val \in Int
    BY <1>1 DEF Job
  <1>4. ByteOf(j.val) \in Bytes /\ ByteOf(0) = 0
    BY <1>3, ByteOfType, Constants DEF ByteOf
  <1>5. Abstracted(j) = [op |-> IF j.kind = "write" THEN "write" ELSE "read",
                         reg |-> Asked(j), val |-> ByteOf(j.val)]
    BY <1>2, Zenon DEF Abstracted, Asked
  <1>6. {Abstracted(k) : k \in job} = {Abstracted(j)}
    BY <1>1
  <1>7. QED
    BY <1>1, <1>2, <1>4, <1>5, <1>6 DEF Access!Request

\* Behind another back end than the ports the controller is quiet.
LEMMA Quiet ==
    ASSUME DeviceInv, job # {}, backend # "ports"
    PROVE  ec.at = "idle" /\ inbuf = {} /\ outbuf = {} /\ EcRequest = {}
BY DEF DeviceInv, JobInv, HostInv, BufferInv, EcRequest

LEMMA IdleRefines ==
    ASSUME DeviceInv, OpenBackend \/ CloseBackend \/ ReadByte \/ ReadWord \/ Dump \/ WriteByte
    PROVE  Abstract
  <1>1. job = {} /\ at = "idle" /\ at' = "idle" /\ UNCHANGED <<ecVars, ret>>
    BY Idle DEF OpenBackend, CloseBackend, ReadByte, ReadWord, Dump, WriteByte, StartJob
  <1>2. QED
    BY <1>1, EcRequestSame, RequestSplit, Stutters DEF ecVars, AbsCall, InCall, AbsSent, AbsOwed, AbsRet

LEMMA BeginRefines == ASSUME DeviceInv, BeginCall PROVE Abstract
  <1> USE DEF BeginCall, ecVars
  <1>1. PICK j \in job : TRUE
    BY DEF BeginCall
  <1>2. /\ UNCHANGED <<regs, AbsSent, AbsRequest, AbsOwed, AbsRet>>
        /\ AbsCall = {} /\ AbsRet = -1
        /\ AbsCall' = IF backend = "fake" THEN {} ELSE {Abstracted(j)}
    BY <1>1, TheCall, EcRequestSame, RequestSplit DEF AbsCall, InCall, AbsSent, AbsOwed, AbsRet
  <1>3. QED
    BY <1>1, <1>2, TheCall, Begins, Stutters

LEMMA DispatchRefines == ASSUME DeviceInv, Dispatch PROVE Abstract
  <1> USE DEF Dispatch, hostRest, ecVars
  <1>1. PICK j \in job : TRUE
    BY DEF DeviceInv, JobInv
  <1>2. /\ UNCHANGED <<regs, AbsCall, AbsOwed, AbsRet>> /\ AbsCall = {Abstracted(j)} /\ ~AbsSent
    BY <1>1, TheCall DEF FilePaths, AbsCall, InCall, AbsSent, AbsOwed, AbsRet
  <1>3. CASE backend = "ports"
    BY <1>2, <1>3, EcRequestSame, RequestSplit, Stutters DEF FilePaths, AbsSent
  <1>4. CASE backend \in FilePaths
    <2>1. at' = "syscall" /\ AbsRequest = {} /\ AbsRequest' = AbsCall /\ AbsSent'
      BY <1>1, <1>2, <1>4, Quiet, RequestSplit DEF FilePaths, AbsSent
    <2>2. QED
      BY <1>2, <2>1, Submits DEF AbsSent
  <1>5. QED
    BY <1>3, <1>4

LEMMA CollectRefines == ASSUME DeviceInv, Collect PROVE Abstract
  <1>1. /\ UNCHANGED <<regs, AbsCall, AbsSent, AbsRequest, AbsOwed>> /\ AbsRet' = -1
    BY EcRequestSame, RequestSplit DEF Collect, ecVars, AbsCall, InCall, AbsSent, AbsOwed, AbsRet
  <1>2. QED
    BY <1>1, Stutters, Takes

\* A poll that does not pass is a stutter or, the last of them, a failure.
LEMMA WaitRefines ==
    ASSUME DeviceInv, at \in {"command", "register", "data", "answer"}, WaitAgain,
           UNCHANGED <<hostRest, ecVars>>
    PROVE  Abstract
  <1> USE DEF hostRest, ecVars
  <1>1. PICK j \in job : TRUE
    BY DEF DeviceInv, JobInv
  <1>2. backend = "ports" /\ AbsCall = {Abstracted(j)}
    BY <1>1, TheCall DEF DeviceInv, HostInv, AbsCall, InCall
  <1>3. CASE at' = at /\ ret' = ret
    BY <1>3, EcRequestSame, RequestSplit, Stutters DEF AbsCall, InCall, AbsSent, AbsOwed, AbsRet
  <1>4. CASE at' = "returned" /\ ret' = -1
    <2>1. /\ AbsCall' = {} /\ AbsSent' = FALSE /\ AbsRequest' = AbsRequest
          /\ UNCHANGED <<AbsOwed, AbsRet>>
      BY <1>4, EcRequestSame, RequestSplit DEF AbsCall, InCall, AbsSent, AbsOwed, AbsRet
    <2>2. QED
      BY <1>2, <2>1, Fails
  <1>5. QED
    BY <1>3, <1>4 DEF WaitAgain, Returning

LEMMA CommandRefines == ASSUME DeviceInv, SendCommand PROVE Abstract
  <1>1. CASE UNCHANGED ecVars /\ WaitAgain
    BY <1>1, WaitRefines DEF SendCommand
  <1>2. ASSUME NEW byte, inbuf = {}, Passed("register"), Out(TRUE, byte) PROVE Abstract
    <2> USE <1>2 DEF Passed, Out
    <2>1. EcRequest' = EcRequest
      BY DEF EcRequest
    <2>2. QED
      BY <2>1, RequestSplit, Stutters
         DEF SendCommand, hostRest, AbsCall, InCall, AbsSent, AbsOwed, AbsRet
  <1>3. QED
    BY <1>1, <1>2 DEF SendCommand

LEMMA RegisterRefines == ASSUME DeviceInv, SendRegister PROVE Abstract
  <1>1. PICK j \in job :
          \/ WaitAgain /\ UNCHANGED ecVars
          \/ /\ inbuf = {}
             /\ Passed(IF Call(j).op = "read" THEN "answer" ELSE "data")
             /\ Out(FALSE, Addressed(Call(j).reg))
    BY DEF SendRegister
  <1>2. CASE WaitAgain /\ UNCHANGED ecVars
    BY <1>2, WaitRefines DEF SendRegister
  <1>3. ASSUME inbuf = {}, Passed(IF Call(j).op = "read" THEN "answer" ELSE "data"),
               Out(FALSE, Asked(j))
        PROVE  Abstract
    <2> USE <1>3 DEF Passed, Out
    <2>1. /\ at = "register" /\ UNCHANGED hostRest /\ backend = "ports"
          /\ ec.at = IF j.kind = "write" THEN "write" ELSE "read"
      BY DEF SendRegister, DeviceInv, HostInv, Handshake, Command
    <2>2. Call(j).op = (IF j.kind = "write" THEN "write" ELSE "read")
      BY AskedType DEF DeviceInv, JobInv
    <2>3. AbsCall = {Abstracted(j)} /\ UNCHANGED <<regs, AbsCall, AbsOwed, AbsRet>> /\ ~AbsSent
      BY <2>1, <2>2, TheCall DEF hostRest, AbsCall, InCall, AbsSent, AbsOwed, AbsRet
    <2>4. CASE j.kind = "write"
      <3>1. EcRequest = {} /\ EcRequest' = {} /\ at' = "data"
        BY <2>1, <2>2, <2>4 DEF EcRequest
      <3>2. QED
        BY <2>1, <2>3, <3>1, RequestSplit, Stutters DEF AbsSent
    <2>5. CASE j.kind # "write"
      <3>1. EcRequest = {} /\ at' = "answer"
        BY <2>1, <2>2, <2>5 DEF EcRequest
      <3>2. EcRequest' = {[op |-> "read", reg |-> Asked(j), val |-> 0]}
        <4>1. {x \in inbuf' : ~x.cmd} = {Argument(Asked(j))}
          BY DEF Argument
        <4>2. EcRequest' = {[op |-> "read", reg |-> b.byte, val |-> 0] : b \in {Argument(Asked(j))}}
          BY <2>1, <2>5, <4>1 DEF EcRequest
        <4>3. QED
          BY <4>2 DEF Argument
      <3>3. AbsRequest = {} /\ AbsRequest' = AbsCall /\ AbsSent'
        BY <2>1, <2>3, <2>5, <3>1, <3>2, TheCall, RequestSplit DEF AbsSent
      <3>4. QED
        BY <2>3, <3>3, Submits DEF AbsSent
    <2>6. QED
      BY <2>4, <2>5
  <1>4. QED
    BY <1>1, <1>2, <1>3 DEF Asked

LEMMA DataRefines == ASSUME DeviceInv, SendData PROVE Abstract
  <1>1. PICK j \in job : \/ WaitAgain /\ UNCHANGED ecVars
                        \/ /\ inbuf = {} /\ Returning(0)
                           /\ Out(FALSE, ByteOf(Call(j).val))
    BY DEF SendData
  <1>2. CASE WaitAgain /\ UNCHANGED ecVars
    BY <1>2, WaitRefines DEF SendData
  <1>3. CASE inbuf = {} /\ Returning(0) /\ Out(FALSE, ByteOf(Call(j).val))
    <2> USE <1>3 DEF Returning, Out
    <2>1. /\ at = "data" /\ UNCHANGED hostRest /\ backend = "ports" /\ j.kind = "write"
          /\ ec.at = "value" /\ ec.reg = Asked(j)
      BY DEF SendData, DeviceInv, HostInv, Handshake, Argument
    <2>2. Call(j).val = j.val
      BY DEF Call
    <2>3. AbsCall = {Abstracted(j)} /\ AbsCall' = {} /\ UNCHANGED <<regs, AbsOwed>>
          /\ ~AbsSent /\ AbsSent' = FALSE /\ AbsRet' = 0
      BY <2>1, TheCall DEF hostRest, AbsCall, InCall, AbsSent, AbsOwed, AbsRet
    <2>4. EcRequest = {}
      BY <2>1 DEF EcRequest
    <2>5. EcRequest' = {[op |-> "write", reg |-> Asked(j), val |-> ByteOf(j.val)]}
      <3>1. {x \in inbuf' : ~x.cmd} = {Argument(ByteOf(j.val))}
        BY <2>2 DEF Argument
      <3>2. EcRequest' = {[op |-> "write", reg |-> Asked(j), val |-> b.byte] :
                            b \in {Argument(ByteOf(j.val))}}
        BY <2>1, <3>1 DEF EcRequest
      <3>3. QED
        BY <3>2 DEF Argument
    <2>6. AbsRequest = {} /\ AbsRequest' = AbsCall
      BY <2>1, <2>3, <2>4, <2>5, TheCall, RequestSplit
    <2>7. QED
      BY <2>1, <2>3, <2>6, TheCall, ReturnsWrite
  <1>4. QED
    BY <1>1, <1>2, <1>3

LEMMA TakeRefines == ASSUME DeviceInv, TakeAnswer PROVE Abstract
  <1>1. CASE WaitAgain /\ UNCHANGED ecVars
    BY <1>1, WaitRefines DEF TakeAnswer
  <1>2. ASSUME NEW b \in outbuf, Returning(b), outbuf' = {}, UNCHANGED <<inbuf, ec, regs>>
        PROVE  Abstract
    <2> USE <1>2 DEF Returning
    <2>1. /\ at = "answer" /\ UNCHANGED hostRest /\ backend = "ports" /\ job # {}
          /\ outbuf = {b} /\ b \in Bytes
      BY DEF TakeAnswer, DeviceInv, TypeOK, JobInv, HostInv
    <2>2. PICK j \in job : j.kind # "write"
      BY <2>1 DEF DeviceInv, HostInv
    <2>3. /\ AbsCall = {Abstracted(j)} /\ AbsCall' = {} /\ AbsSent /\ AbsSent' = FALSE
          /\ AbsOwed = {b} /\ AbsOwed' = {} /\ AbsRet' = b
      BY <2>1, TheCall DEF hostRest, AbsCall, InCall, AbsSent, AbsOwed, AbsRet
    <2>4. UNCHANGED AbsRequest
      BY <2>1, EcRequestSame, RequestSplit
    <2>5. QED
      BY <2>1, <2>2, <2>3, <2>4, TheCall, ReturnsRead
  <1>3. QED
    BY <1>1, <1>2 DEF TakeAnswer

LEMMA KernelRefines == ASSUME DeviceInv, KernelServes PROVE Abstract
  <1> USE Fields, Constants
  <1>1. PICK j \in job :
          /\ Call(j).reg \in Registers
          /\ \/ Call(j).op = "read" /\ ret' = regs[Call(j).reg] /\ UNCHANGED regs
             \/ /\ Call(j).op = "write" /\ ret' = 0
                /\ regs' = [regs EXCEPT ![Call(j).reg] = ByteOf(Call(j).val)]
    BY DEF KernelServes
  <1>2. /\ at = "syscall" /\ at' = "served" /\ backend \in FilePaths
        /\ UNCHANGED <<hostRest, inbuf, outbuf, ec>>
    BY DEF KernelServes, DeviceInv, HostInv
  <1>3. Asked(j) = Call(j).reg
    BY <1>1, AddressedSame DEF Asked
  <1>4. Call(j).op = (IF j.kind = "write" THEN "write" ELSE "read") /\ Call(j).val = j.val
    BY AskedType DEF DeviceInv, JobInv
  <1>5. outbuf = {} /\ EcRequest = {} /\ EcRequest' = {}
    BY <1>2, Quiet, EcRequestSame DEF FilePaths
  <1>6. /\ AbsCall = {Abstracted(j)} /\ UNCHANGED <<AbsCall, AbsSent, AbsRet>>
        /\ AbsRequest = {Abstracted(j)} /\ AbsRequest' = {}
        /\ AbsOwed = {}
        /\ AbsOwed' = IF j.kind = "write" THEN {} ELSE {ret'}
    BY <1>2, <1>5, TheCall, RequestSplit
       DEF hostRest, FilePaths, AbsCall, InCall, AbsSent, AbsOwed, AbsRet
  <1>7. CASE j.kind = "write"
    BY <1>1, <1>3, <1>4, <1>6, <1>7, TheCall, ServesWrite
  <1>8. CASE j.kind # "write"
    BY <1>1, <1>3, <1>4, <1>6, <1>8, TheCall, ServesRead
  <1>9. QED
    BY <1>7, <1>8

LEMMA FileRefines == ASSUME DeviceInv, FileReturns PROVE Abstract
  <1> USE Fields
  <1>1. /\ at \in {"served", "syscall"} /\ at' = "returned" /\ backend \in FilePaths
        /\ UNCHANGED <<hostRest, ecVars>> /\ job # {}
        /\ at = "syscall" => ret' = -1
        /\ ret' \in {ret, -1}
    BY DEF FileReturns, DeviceInv, JobInv, HostInv
  <1>2. PICK j \in job : TRUE
    BY <1>1
  <1>3. outbuf = {} /\ EcRequest = {} /\ EcRequest' = {}
    BY <1>1, Quiet, EcRequestSame DEF FilePaths, ecVars
  <1>4. /\ AbsCall = {Abstracted(j)} /\ AbsCall' = {} /\ AbsSent /\ AbsSent' = FALSE
        /\ AbsRequest' = {} /\ AbsOwed' = {} /\ AbsRet = -1 /\ AbsRet' = ret' /\ UNCHANGED regs
        /\ at = "served" => /\ AbsRequest = {}
                            /\ AbsOwed = IF j.kind = "write" THEN {} ELSE {ret}
    BY <1>1, <1>2, <1>3, TheCall, RequestSplit
       DEF hostRest, ecVars, FilePaths, AbsCall, InCall, AbsSent, AbsOwed, AbsRet
  <1>5. CASE ret' = -1
    BY <1>4, <1>5, Fails
  <1>6. CASE ret' # -1
    <2>1. at = "served" /\ ret' = ret /\ ret \in Bytes /\ (j.kind = "write" => ret = 0)
      BY <1>1, <1>6 DEF DeviceInv, HostInv
    <2>2. CASE j.kind = "write"
      BY <1>4, <2>1, <2>2, TheCall, ReturnsWrite
    <2>3. CASE j.kind # "write"
      BY <1>4, <2>1, <2>3, TheCall, ReturnsRead
    <2>4. QED
      BY <2>2, <2>3
  <1>7. QED
    BY <1>5, <1>6

LEMMA FakeRefines == ASSUME DeviceInv, FakeAccess PROVE Abstract
  <1>1. /\ at = "call" /\ at' = "returned" /\ backend = "fake" /\ backend' = "fake"
        /\ UNCHANGED ecVars
    BY DEF FakeAccess
  <1>2. QED
    BY <1>1, EcRequestSame, RequestSplit, Stutters
       DEF ecVars, AbsCall, InCall, AbsSent, AbsOwed, AbsRet

\* A call the daemon dies in fails; a result nobody collected is gone.
LEMMA CrashRefines == ASSUME DeviceInv, Crash PROVE Abstract
  <1> USE Fields
  <1>1. /\ at' = "idle" /\ ret' = -1 /\ UNCHANGED ecVars
        /\ AbsCall' = {} /\ AbsSent' = FALSE /\ AbsRequest' = EcRequest /\ AbsOwed' = outbuf
        /\ AbsRet' = -1
    BY EcRequestSame, RequestSplit DEF Crash, ecVars, AbsCall, InCall, AbsSent, AbsOwed, AbsRet
  <1>2. CASE AbsCall = {}
    <2>1. at \in {"idle", "returned"} \/ backend = "fake"
      <3>1. CASE job = {}
        BY <3>1, Idle
      <3>2. ASSUME NEW j \in job PROVE at \in {"idle", "returned"} \/ backend = "fake"
        BY <1>2, <3>2, TheCall DEF AbsCall, InCall, DeviceInv, TypeOK
      <3>3. QED
        BY <3>1, <3>2
    <2>2. AbsSent = FALSE /\ AbsRequest = EcRequest /\ AbsOwed = outbuf
      BY <2>1, RequestSplit DEF AbsSent, AbsOwed, DeviceInv, HostInv, FilePaths
    <2>3. QED
      BY <1>1, <1>2, <2>2, Stutters, Takes DEF ecVars
  <1>3. CASE AbsCall # {}
    <2>1. PICK j \in job : InCall
      BY <1>3 DEF AbsCall, InCall
    <2>2. AbsRet = -1
      BY <2>1 DEF InCall, AbsRet
    <2>3. AbsRequest' \in {AbsRequest, {}} /\ AbsOwed' \in {AbsOwed, {}}
      BY <1>1, <2>1, Quiet, RequestSplit DEF DeviceInv, HostInv, FilePaths, AbsOwed
    <2>4. QED
      BY <1>1, <1>3, <2>2, <2>3, Fails DEF ecVars
  <1>4. QED
    BY <1>2, <1>3

LEMMA EcTakesRefines == ASSUME DeviceInv, EcTakes PROVE Abstract
  <1> USE Fields, Constants DEF Taken
  <1>1. PICK b : inbuf = {b} /\ inbuf' = {} /\ ec.at # "answer" /\ Taken(b)
    BY EcTakesCases
  <1>2. UNCHANGED hostVars /\ outbuf' = outbuf
    BY DEF EcTakes
  <1>3. at # "syscall" /\ UNCHANGED <<AbsCall, AbsSent, AbsOwed, AbsRet>>
    BY <1>1, <1>2, Quiet DEF hostVars, DeviceInv, JobInv, HostInv, FilePaths,
                             AbsCall, InCall, AbsSent, AbsOwed, AbsRet
  <1>4. AbsRequest = EcRequest /\ AbsRequest' = EcRequest'
    BY <1>2, <1>3, RequestSplit DEF hostVars
  <1>5. CASE ~b.cmd /\ ec.at = "value"
    <2> DEFINE q == [op |-> "write", reg |-> ec.reg, val |-> b.byte]
    <2>1. EcRequest = {q} /\ EcRequest' = {}
      BY <1>1, <1>5 DEF EcRequest
    <2>2. q \in Access!Request
      BY <1>1, <1>5 DEF Access!Request
    <2>3. QED
      BY <1>1, <1>3, <1>4, <1>5, <2>1, <2>2, ServesWrite
  <1>6. CASE ~(~b.cmd /\ ec.at = "value")
    <2>1. {x \in inbuf' : ~x.cmd} = {}
      BY <1>1
    <2>2. ASSUME b.cmd PROVE EcRequest' = EcRequest
      <3>1. {x \in inbuf : ~x.cmd} = {}
        BY <1>1, <2>2
      <3>2. EcRequest = {}
        BY <1>1, <3>1 DEF EcRequest
      <3>3. ec'.at \in {"read", "write"}
        BY <1>1, <2>2
      <3>4. EcRequest' = {}
        BY <2>1, <3>3 DEF EcRequest
      <3>5. QED
        BY <3>2, <3>4
    <2>3. ASSUME ~b.cmd, ec.at = "write" PROVE EcRequest' = EcRequest
      BY <1>1, <2>1, <2>3 DEF EcRequest
    <2>4. ASSUME ~b.cmd, ec.at = "read" PROVE EcRequest' = EcRequest
      <3>1. EcRequest' = {[op |-> "read", reg |-> b.byte, val |-> 0]}
        BY <1>1, <2>4 DEF EcRequest
      <3>2. {x \in inbuf : ~x.cmd} = {b}
        BY <1>1, <2>4
      <3>3. EcRequest = {[op |-> "read", reg |-> c.byte, val |-> 0] : c \in {b}}
        BY <2>4, <3>2 DEF EcRequest
      <3>4. QED
        BY <3>1, <3>3
    <2>5. EcRequest' = EcRequest
      BY <1>1, <1>6, <2>2, <2>3, <2>4
    <2>6. QED
      BY <1>1, <1>3, <1>4, <1>6, <2>5, Stutters
  <1>7. QED
    BY <1>5, <1>6

LEMMA EcAnswersRefines == ASSUME DeviceInv, EcAnswers PROVE Abstract
  <1> USE Fields, Constants
  <1> DEFINE q == [op |-> "read", reg |-> ec.reg, val |-> 0]
  <1>1. /\ ec.at = "answer" /\ outbuf' = {regs[ec.reg]} /\ ec'.at = "idle"
        /\ UNCHANGED <<inbuf, regs, hostVars>>
    BY DEF EcAnswers
  <1>2. at \notin {"syscall", "served"}
    BY <1>1, Quiet DEF DeviceInv, JobInv, HostInv, FilePaths
  <1>3. UNCHANGED <<AbsCall, AbsSent, AbsRet>> /\ AbsOwed' = {regs[q.reg]}
    BY <1>1, <1>2 DEF hostVars, AbsCall, InCall, AbsSent, AbsOwed, AbsRet
  <1>4. AbsRequest = {q} /\ AbsRequest' = {} /\ q \in Access!Request
    BY <1>1, <1>2, RequestSplit DEF hostVars, EcRequest, Access!Request
  <1>5. QED
    BY <1>1, <1>3, <1>4, ServesRead

LEMMA DriftRefines == ASSUME DeviceInv, Drift PROVE Abstract
  <1>1. PICK r \in Live, b \in Bytes : regs' = [regs EXCEPT ![r] = b]
    BY DEF Drift
  <1>2. UNCHANGED <<AbsCall, AbsSent, AbsRequest, AbsOwed, AbsRet>>
    BY EcRequestSame, RequestSplit DEF Drift, hostVars, AbsCall, InCall, AbsSent, AbsOwed, AbsRet
  <1>3. QED
    BY <1>1, <1>2, Drifts

LEMMA StepRefines == DeviceInv /\ [Next]_vars => Abstract
  <1>1. ASSUME UNCHANGED vars PROVE Abstract
    BY <1>1, EcRequestSame, RequestSplit, Stutters
       DEF vars, hostVars, ecVars, AbsCall, InCall, AbsSent, AbsOwed, AbsRet
  <1>2. QED
    BY <1>1, IdleRefines, BeginRefines, DispatchRefines, CollectRefines, CommandRefines,
       RegisterRefines, DataRefines, TakeRefines, KernelRefines, FileRefines, FakeRefines,
       CrashRefines, EcTakesRefines, EcAnswersRefines, DriftRefines, Zenon DEF Next, Host

LEMMA StartRefines == Init => Access!Init
  BY DEF Init, Access!Init, AbsCall, InCall, AbsSent, AbsRequest, AbsOwed, AbsRet

\* Every back end keeps what EcAccess promises, for any machine, any number of
\* polls before a timeout, any controller and crashes anywhere (ec_read_byte,
\* ec_write_byte).
THEOREM DeviceImplementsAccess == Spec => ImplementsAccess
  <1>1. DeviceInv /\ [Next]_vars => [Access!Next]_(Access!accessVars)
    BY StepRefines DEF Abstract
  <1>2. QED
    BY <1>1, StartRefines, DeviceHolds, PTL DEF Spec, ImplementsAccess, Access!Spec
=============================================================================
