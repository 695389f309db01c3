------------------------------ MODULE StateFile ------------------------------
(***************************************************************************)
(* write_text_file_atomic, one system call at a time, over a file system   *)
(* that keeps names and data in memory and writes each back when it likes. *)
(*                                                                         *)
(* The file system is what the code relies on: fsync makes a file's data   *)
(* durable, names become durable all together in the order they changed,   *)
(* and rename replaces a name in one step.                                 *)
(***************************************************************************)
CONSTANTS
    Texts,      \* what callers write
    Inodes,     \* the files the file system can hold
    NoInode     \* stands for no file

ASSUME StateFileAssumption == NoInode \notin Inodes

VARIABLES
    call,       \* the system call that comes next; "none" outside the function
    writing,       \* {} or {content}
    names,      \* names in the directory, in memory
    diskNames,  \* and on disk
    data,       \* data of the files, in memory
    disk        \* and on disk

fileVars == <<call, writing, names, diskNames, data, disk>>

Names == {"state", "tmp"}
Calls == {"open", "write", "fsync", "close", "rename", "unlink"}

\* Torn stands for anything that is not a whole text, a blank file included.
Torn == <<>>
Whole(t) == <<t>>
Wholes == {Whole(t) : t \in Texts}
Content == {Torn} \cup Wholes
Directory == [Names -> Inodes \cup {NoInode}]

FileTypeOK ==
    /\ call \in Calls \cup {"none"}
    /\ writing \subseteq Texts
    /\ names \in Directory /\ diskNames \in Directory
    /\ data \in [Inodes -> Content] /\ disk \in [Inodes -> Content]

FileInit ==
    /\ call = "none" /\ writing = {}
    /\ names = [n \in Names |-> NoInode] /\ diskNames = names
    /\ data = [i \in Inodes |-> Torn] /\ disk = data

Unused(i) == \A n \in Names : names[n] # i /\ diskNames[n] # i

Tmp == names["tmp"]

\* A file without a name, in memory and on disk, is gone.
Named(files) ==
    [i \in Inodes |-> IF \E n \in Names : i \in {names'[n], diskNames'[n]} THEN files[i] ELSE Torn]

Forget == data' = Named(data) /\ disk' = Named(disk)

\* The call fails; what has been done so far is undone.
Fail == call' = "unlink" /\ UNCHANGED <<writing, names, diskNames, data, disk>>

\* write_text_file_atomic is called.
BeginSave(t) ==
    /\ call = "none"
    /\ call' = "open" /\ writing' = {t}
    /\ UNCHANGED <<names, diskNames, data, disk>>

OpenFails ==
    /\ call = "open"
    /\ call' = "none" /\ writing' = {}
    /\ UNCHANGED <<names, diskNames, data, disk>>

\* O_TRUNC on a file an earlier writer left behind.
OpenOld ==
    /\ call = "open" /\ Tmp # NoInode
    /\ data' = [data EXCEPT ![Tmp] = Torn]
    /\ call' = "write" /\ UNCHANGED <<writing, names, diskNames, disk>>

\* O_CREAT; the file system takes any inode that is not in use.
OpenNew ==
    /\ call = "open" /\ Tmp = NoInode
    /\ \E i \in Inodes :
          /\ Unused(i)
          /\ names' = [names EXCEPT !["tmp"] = i]
    /\ call' = "write" /\ UNCHANGED <<writing, diskNames, data, disk>>

\* fd_write_all; until its last write the file stays torn.
WriteAll ==
    /\ call = "write"
    /\ \E t \in writing : data' = [data EXCEPT ![Tmp] = Whole(t)]
    /\ call' = "fsync" /\ UNCHANGED <<writing, names, diskNames, disk>>

\* Mutant of Sync: the data is not synced.
NoSync ==
    /\ call = "fsync"
    /\ call' = "close" /\ UNCHANGED <<writing, names, diskNames, data, disk>>

Sync ==
    /\ call = "fsync"
    /\ disk' = [disk EXCEPT ![Tmp] = data[Tmp]]
    /\ call' = "close" /\ UNCHANGED <<writing, names, diskNames, data>>

Close ==
    /\ call = "close"
    /\ call' = "rename" /\ UNCHANGED <<writing, names, diskNames, data, disk>>

Rename ==
    /\ call = "rename"
    /\ names' = [n \in Names |-> IF n = "state" THEN Tmp ELSE NoInode]
    /\ call' = "none" /\ writing' = {} /\ UNCHANGED diskNames
    /\ Forget

StepFails == call \in {"write", "fsync", "close", "rename"} /\ Fail

\* The temporary file is removed, if that works.
Unlink ==
    /\ call = "unlink"
    /\ \E gone \in BOOLEAN :
          names' = IF gone THEN [names EXCEPT !["tmp"] = NoInode] ELSE names
    /\ call' = "none" /\ writing' = {} /\ UNCHANGED diskNames
    /\ Forget

SaveStep ==
    \/ OpenFails \/ OpenOld \/ OpenNew \/ WriteAll \/ Sync
    \/ Close \/ Rename \/ StepFails \/ Unlink

-----------------------------------------------------------------------------
\* The kernel and the machine

WriteBack ==
    /\ \E i \in Inodes : ~Unused(i) /\ disk' = [disk EXCEPT ![i] = data[i]]
    /\ UNCHANGED <<call, writing, names, diskNames, data>>

CommitNames ==
    /\ diskNames' = names
    /\ UNCHANGED <<call, writing, names>>
    /\ Forget

KernelStep == WriteBack \/ CommitNames

WriterDies == call' = "none" /\ writing' = {} /\ UNCHANGED <<names, diskNames, data, disk>>

PowerFails ==
    /\ call' = "none" /\ writing' = {}
    /\ names' = diskNames /\ UNCHANGED diskNames
    /\ data' = Named(disk) /\ disk' = Named(disk)

FileNext ==
    (\E t \in Texts : BeginSave(t)) \/ SaveStep \/ KernelStep \/ WriterDies \/ PowerFails

FileSpec == FileInit /\ [][FileNext]_fileVars

-----------------------------------------------------------------------------
NoFile == <<"no", "file">>

\* read_text_file, after a crash or a power loss.
Reads(dir, files) == IF dir["state"] = NoInode THEN NoFile ELSE files[dir["state"]]

Atomic == INSTANCE AtomicFile WITH
    wanted <- {Whole(t) : t \in writing}, current <- Reads(names, data),
    durable <- Reads(diskNames, disk)

\* The state file is replaced whole or not at all: no failed call, no crash
\* between two calls and no power loss, however late the kernel writes names
\* and data back, shows a reader a blank or partial file, or takes back to the
\* disk a text that was never current (write_text_file_atomic).
ImplementsAtomicFile == Atomic!Spec
=============================================================================
