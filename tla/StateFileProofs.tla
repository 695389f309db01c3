--------------------------- MODULE StateFileProofs ---------------------------
(***************************************************************************)
(* write_text_file_atomic implements AtomicFile, whatever the texts and    *)
(* however many files the file system can hold.                            *)
(*                                                                         *)
(* The argument: a name "state", in memory or on disk, only ever names a   *)
(* file whose data is whole and the same in memory and on disk.  It gets   *)
(* its file by the rename, which comes after the fsync, and no later call  *)
(* writes to that file, because the temporary name never names it again.   *)
(***************************************************************************)
EXTENDS StateFile, TLAPS

\* A file whose data is a whole text, in memory and on disk.
Safe(i) == data[i] \in Wholes /\ disk[i] = data[i]

\* The file behind "state" is safe and not the one being written.
StateSafe(dir) ==
    dir["state"] # NoInode => Safe(dir["state"]) /\ dir["state"] # names["tmp"]

Distinct(dir) == dir["state"] # NoInode => dir["state"] # dir["tmp"]

\* How far the write in progress has come.
Progress ==
    /\ call = "none" => writing = {}
    /\ call # "none" => \E t \in Texts : writing = {t}
    /\ call \in {"write", "fsync", "close", "rename"} => Tmp \in Inodes
    /\ call \in {"fsync", "close", "rename"} => \A t \in writing : data[Tmp] = Whole(t)
    /\ call \in {"close", "rename"} => disk[Tmp] = data[Tmp]

FileInv ==
    /\ FileTypeOK
    /\ Progress
    /\ StateSafe(names) /\ StateSafe(diskNames)
    /\ Distinct(diskNames)

\* A file keeps its data when what has no name is forgotten.
LEMMA NamedKeeps ==
    ASSUME NEW files, NEW i \in Inodes, \E n \in Names : i \in {names'[n], diskNames'[n]}
    PROVE  Named(files)[i] = files[i]
BY DEF Named

\* Forgetting leaves contents.
LEMMA NamedType ==
    ASSUME NEW files \in [Inodes -> Content]
    PROVE  Named(files) \in [Inodes -> Content]
BY DEF Named, Content

LEMMA StartSafe == FileInit => FileInv
BY StateFileAssumption
   DEF FileInit, FileInv, FileTypeOK, Progress, StateSafe, Distinct, Names, Directory, Content, Tmp
-----------------------------------------------------------------------------
\* Each step keeps the invariant and is a step of AtomicFile.

\* What a step has to show.
StepDone == FileInv' /\ [Atomic!Next]_(Atomic!vars)

\* The abstract variables, unfolded.
LEMMA AbstractVars ==
    /\ (Atomic!vars)' = Atomic!vars
       <=> /\ {Whole(t) : t \in writing'} = {Whole(t) : t \in writing}
           /\ Reads(names', data') = Reads(names, data)
           /\ Reads(diskNames', disk') = Reads(diskNames, disk)
BY DEF Atomic!vars, Reads

\* A step that leaves the names and the files behind them alone reads the same.
LEMMA SameReads ==
    ASSUME names'["state"] = names["state"], diskNames' = diskNames,
           names["state"] # NoInode => data'[names["state"]] = data[names["state"]],
           diskNames["state"] # NoInode => disk'[diskNames["state"]] = disk[diskNames["state"]]
    PROVE  /\ Reads(names', data') = Reads(names, data)
           /\ Reads(diskNames', disk') = Reads(diskNames, disk)
BY DEF Reads

\* The write is over, done or not, and nothing that can be read has changed.
LEMMA GivenUp ==
    ASSUME writing' = {},
           Reads(names', data') = Reads(names, data),
           Reads(diskNames', disk') = Reads(diskNames, disk)
    PROVE  [Atomic!Next]_(Atomic!vars)
BY DEF Atomic!Next, Atomic!GiveUp, Reads

\* The write goes on, and nothing that can be read has changed.
LEMMA GoesOn ==
    ASSUME writing' = writing,
           Reads(names', data') = Reads(names, data),
           Reads(diskNames', disk') = Reads(diskNames, disk)
    PROVE  [Atomic!Next]_(Atomic!vars)
BY AbstractVars

LEMMA BeginStep == ASSUME FileInv, NEW t \in Texts, BeginSave(t) PROVE StepDone
  <1> USE DEF BeginSave
  <1>1. FileInv'
    BY DEF FileInv, FileTypeOK, Progress, StateSafe, Safe, Distinct, Calls, Tmp
  <1>2. Reads(names', data') = Reads(names, data) /\ Reads(diskNames', disk') = Reads(diskNames, disk)
    BY SameReads
  <1>3. {Whole(u) : u \in writing} = {} /\ {Whole(u) : u \in writing'} = {Whole(t)}
    BY DEF FileInv, Progress
  <1>4. Whole(t) \in Wholes
    BY DEF Wholes
  <1>5. Atomic!Ask
    BY <1>2, <1>3, <1>4 DEF Atomic!Ask
  <1>6. QED
    BY <1>1, <1>5 DEF StepDone, Atomic!Next

LEMMA OpenFailsStep == ASSUME FileInv, OpenFails PROVE StepDone
  <1> USE DEF OpenFails
  <1>1. FileInv'
    BY DEF FileInv, FileTypeOK, Progress, StateSafe, Safe, Distinct, Calls, Tmp
  <1>2. QED
    BY <1>1, SameReads, GivenUp DEF StepDone

LEMMA OpenOldStep == ASSUME FileInv, OpenOld PROVE StepDone
  <1> USE DEF OpenOld
  <1>1. Tmp \in Inodes /\ Torn \in Content
    BY DEF FileInv, FileTypeOK, Directory, Names, Tmp, Content
  <1>2. \A i \in Inodes \ {Tmp} : data'[i] = data[i]
    BY DEF FileInv, FileTypeOK
  <1>3. names["state"] # Tmp /\ names["state"] \in Inodes \cup {NoInode}
    BY <1>1, StateFileAssumption DEF FileInv, FileTypeOK, StateSafe, Tmp, Directory, Names
  <1>4. diskNames["state"] # Tmp /\ diskNames["state"] \in Inodes \cup {NoInode}
    BY <1>1, StateFileAssumption DEF FileInv, FileTypeOK, StateSafe, Tmp, Directory, Names
  <1>5. FileTypeOK'
    BY <1>1 DEF FileInv, FileTypeOK, Calls
  <1>6. Progress'
    BY <1>1 DEF FileInv, Progress, Tmp
  <1>7. StateSafe(names)' /\ StateSafe(diskNames)' /\ Distinct(diskNames)'
    BY <1>2, <1>3, <1>4 DEF FileInv, StateSafe, Safe, Distinct
  <1>8. QED
    BY <1>2, <1>3, <1>4, <1>5, <1>6, <1>7, SameReads, GoesOn DEF StepDone, FileInv

LEMMA OpenNewStep == ASSUME FileInv, OpenNew PROVE StepDone
  <1>1. PICK i \in Inodes : Unused(i) /\ names' = [names EXCEPT !["tmp"] = i]
    BY DEF OpenNew
  <1>2. names' \in Directory /\ names'["tmp"] = i /\ names'["state"] = names["state"]
    BY <1>1 DEF FileInv, FileTypeOK, Directory, Names
  <1>3. i # names["state"] /\ i # diskNames["state"]
    BY <1>1 DEF Unused, Names
  <1>4. FileTypeOK'
    BY <1>2 DEF OpenNew, FileInv, FileTypeOK, Calls
  <1>5. Progress'
    BY <1>2 DEF OpenNew, FileInv, Progress, Tmp
  <1>6. StateSafe(names)' /\ StateSafe(diskNames)' /\ Distinct(diskNames)'
    BY <1>2, <1>3 DEF OpenNew, FileInv, StateSafe, Safe, Distinct
  <1>7. QED
    BY <1>2, <1>4, <1>5, <1>6, SameReads, GoesOn DEF OpenNew, StepDone, FileInv

LEMMA WriteStep == ASSUME FileInv, WriteAll PROVE StepDone
  <1>0. PICK u \in Texts : writing = {u}
    BY DEF WriteAll, FileInv, Progress
  <1>1. PICK t \in Texts : writing = {t} /\ data' = [data EXCEPT ![Tmp] = Whole(t)]
    BY <1>0 DEF WriteAll
  <1>2. Tmp \in Inodes /\ Whole(t) \in Content
    BY DEF WriteAll, FileInv, Progress, Content, Wholes
  <1>3. data' \in [Inodes -> Content] /\ data'[Tmp] = Whole(t)
    BY <1>1, <1>2 DEF FileInv, FileTypeOK
  <1>4. \A i \in Inodes \ {Tmp} : data'[i] = data[i]
    BY <1>1 DEF FileInv, FileTypeOK
  <1>5. names["state"] # Tmp /\ names["state"] \in Inodes \cup {NoInode}
    BY <1>2, StateFileAssumption DEF FileInv, FileTypeOK, StateSafe, Tmp, Directory, Names
  <1>6. diskNames["state"] # Tmp /\ diskNames["state"] \in Inodes \cup {NoInode}
    BY <1>2, StateFileAssumption DEF FileInv, FileTypeOK, StateSafe, Tmp, Directory, Names
  <1>7. FileTypeOK'
    BY <1>3 DEF WriteAll, FileInv, FileTypeOK, Calls
  <1>8. Progress'
    BY <1>1, <1>2, <1>3 DEF WriteAll, Progress, Tmp
  <1>9. StateSafe(names)' /\ StateSafe(diskNames)' /\ Distinct(diskNames)'
    BY <1>4, <1>5, <1>6 DEF WriteAll, FileInv, StateSafe, Safe, Distinct
  <1>10. QED
    BY <1>4, <1>5, <1>6, <1>7, <1>8, <1>9, SameReads, GoesOn DEF WriteAll, StepDone, FileInv

LEMMA SyncStep == ASSUME FileInv, Sync PROVE StepDone
  <1> USE DEF Sync
  <1>1. Tmp \in Inodes
    BY DEF FileInv, Progress
  <1>2. disk' \in [Inodes -> Content] /\ disk'[Tmp] = data[Tmp]
    BY <1>1 DEF FileInv, FileTypeOK
  <1>3. \A i \in Inodes \ {Tmp} : disk'[i] = disk[i]
    BY DEF FileInv, FileTypeOK
  <1>4. names["state"] # Tmp /\ names["state"] \in Inodes \cup {NoInode}
    BY <1>1, StateFileAssumption DEF FileInv, FileTypeOK, StateSafe, Tmp, Directory, Names
  <1>5. diskNames["state"] # Tmp /\ diskNames["state"] \in Inodes \cup {NoInode}
    BY <1>1, StateFileAssumption DEF FileInv, FileTypeOK, StateSafe, Tmp, Directory, Names
  <1>6. FileTypeOK'
    BY <1>2 DEF FileInv, FileTypeOK, Calls
  <1>7. Progress'
    BY <1>1, <1>2 DEF FileInv, Progress, Tmp
  <1>8. StateSafe(names)' /\ StateSafe(diskNames)' /\ Distinct(diskNames)'
    BY <1>3, <1>4, <1>5 DEF FileInv, StateSafe, Safe, Distinct
  <1>9. QED
    BY <1>3, <1>4, <1>5, <1>6, <1>7, <1>8, SameReads, GoesOn DEF StepDone, FileInv

LEMMA CloseStep == ASSUME FileInv, Close PROVE StepDone
  <1> USE DEF Close
  <1>1. FileInv'
    BY DEF FileInv, FileTypeOK, Progress, StateSafe, Safe, Distinct, Calls, Tmp
  <1>2. QED
    BY <1>1, SameReads, GoesOn DEF StepDone

\* The rename: the file that has just been synced gets the name.
LEMMA RenameStep == ASSUME FileInv, Rename PROVE StepDone
  <1>1. PICK t \in Texts : writing = {t}
    BY DEF Rename, FileInv, Progress
  <1>2. Tmp \in Inodes /\ data[Tmp] = Whole(t) /\ disk[Tmp] = Whole(t)
    BY <1>1 DEF Rename, FileInv, Progress
  <1>3. names' \in Directory /\ names'["state"] = Tmp /\ names'["tmp"] = NoInode
    BY <1>2 DEF Rename, Directory, Names
  <1>4. data' = Named(data) /\ disk' = Named(disk) /\ writing' = {} /\ call' = "none"
        /\ diskNames' = diskNames
    BY DEF Rename, Forget
  <1>5. data'[Tmp] = Whole(t) /\ disk'[Tmp] = Whole(t)
    BY <1>2, <1>3, <1>4, NamedKeeps DEF Names
  <1>6. diskNames["state"] # NoInode =>
          /\ data'[diskNames["state"]] = data[diskNames["state"]]
          /\ disk'[diskNames["state"]] = disk[diskNames["state"]]
          /\ diskNames["state"] \in Inodes
    BY <1>4, NamedKeeps DEF FileInv, FileTypeOK, Directory, Names
  <1>7. FileTypeOK'
    BY <1>3, <1>4, NamedType DEF FileInv, FileTypeOK
  <1>8. Progress'
    BY <1>4 DEF Progress
  <1>9. Whole(t) \in Wholes
    BY DEF Wholes
  <1>10. StateSafe(names)' /\ StateSafe(diskNames)' /\ Distinct(diskNames)'
    BY <1>2, <1>3, <1>4, <1>5, <1>6, <1>9, StateFileAssumption
       DEF FileInv, StateSafe, Safe, Distinct
  <1>11. Reads(diskNames', disk') = Reads(diskNames, disk)
    BY <1>4, <1>6 DEF Reads
  <1>12. Reads(names', data') = Whole(t)
    BY <1>2, <1>3, <1>5, StateFileAssumption DEF Reads
  <1>13. Atomic!Replace
    BY <1>1, <1>4, <1>11, <1>12 DEF Atomic!Replace
  <1>14. QED
    BY <1>7, <1>8, <1>10, <1>13 DEF StepDone, FileInv, Atomic!Next

LEMMA StepFailsStep == ASSUME FileInv, StepFails PROVE StepDone
  <1> USE DEF StepFails, Fail
  <1>1. FileInv'
    BY DEF FileInv, FileTypeOK, Progress, StateSafe, Safe, Distinct, Calls, Tmp
  <1>2. QED
    BY <1>1, SameReads, GoesOn DEF StepDone

LEMMA UnlinkStep == ASSUME FileInv, Unlink PROVE StepDone
  <1>1. PICK gone \in BOOLEAN : names' = IF gone THEN [names EXCEPT !["tmp"] = NoInode] ELSE names
    BY DEF Unlink
  <1>2. names' \in Directory /\ names'["state"] = names["state"] /\ names'["tmp"] \in {Tmp, NoInode}
    BY <1>1 DEF FileInv, FileTypeOK, Directory, Names, Tmp
  <1>3. data' = Named(data) /\ disk' = Named(disk) /\ writing' = {} /\ call' = "none"
        /\ diskNames' = diskNames
    BY DEF Unlink, Forget
  <1>4. ASSUME NEW dir \in {names, diskNames}, dir["state"] # NoInode
        PROVE  /\ dir["state"] \in Inodes
               /\ data'[dir["state"]] = data[dir["state"]]
               /\ disk'[dir["state"]] = disk[dir["state"]]
    <2>1. dir["state"] \in Inodes
      BY <1>4 DEF FileInv, FileTypeOK, Directory, Names
    <2>2. \E n \in Names : dir["state"] \in {names'[n], diskNames'[n]}
      BY <1>2, <1>3, <1>4 DEF Names
    <2>3. QED
      BY <1>3, <2>1, <2>2, NamedKeeps
  <1>5. FileTypeOK'
    BY <1>2, <1>3, NamedType DEF FileInv, FileTypeOK
  <1>6. Progress'
    BY <1>3 DEF Progress
  <1>7. StateSafe(names)' /\ StateSafe(diskNames)' /\ Distinct(diskNames)'
    BY <1>2, <1>3, <1>4 DEF FileInv, StateSafe, Safe, Distinct, Tmp
  <1>8. QED
    BY <1>2, <1>3, <1>4, <1>5, <1>6, <1>7, SameReads, GivenUp DEF StepDone, FileInv

LEMMA WriteBackStep == ASSUME FileInv, WriteBack PROVE StepDone
  <1>1. PICK i \in Inodes : disk' = [disk EXCEPT ![i] = data[i]]
    BY DEF WriteBack
  <1>2. disk' \in [Inodes -> Content] /\ \A j \in Inodes : disk'[j] \in {disk[j], data[j]}
    BY <1>1 DEF FileInv, FileTypeOK
  <1>3. \A j \in Inodes : disk[j] = data[j] => disk'[j] = data[j]
    BY <1>2
  <1>4. \A dir \in {names, diskNames} : dir["state"] # NoInode => dir["state"] \in Inodes
    BY DEF FileInv, FileTypeOK, Directory, Names
  <1>5. FileTypeOK' /\ Progress'
    BY <1>2, <1>3 DEF WriteBack, FileInv, FileTypeOK, Progress, Tmp
  <1>6. StateSafe(names)' /\ StateSafe(diskNames)' /\ Distinct(diskNames)'
    BY <1>3, <1>4 DEF WriteBack, FileInv, StateSafe, Safe, Distinct
  <1>7. disk'[diskNames["state"]] = disk[diskNames["state"]] \/ diskNames["state"] = NoInode
    BY <1>3, <1>4 DEF FileInv, StateSafe, Safe
  <1>8. QED
    BY <1>5, <1>6, <1>7, SameReads, GoesOn DEF WriteBack, StepDone, FileInv

LEMMA CommitNamesStep == ASSUME FileInv, CommitNames PROVE StepDone
  <1>1. /\ data' = Named(data) /\ disk' = Named(disk) /\ writing' = writing /\ call' = call
        /\ names' = names /\ diskNames' = names
    BY DEF CommitNames, Forget
  <1>2. \A n \in Names : names[n] \in Inodes =>
            data'[names[n]] = data[names[n]] /\ disk'[names[n]] = disk[names[n]]
    BY <1>1, NamedKeeps
  <1>3. names["state"] \in Inodes \cup {NoInode} /\ "state" \in Names /\ "tmp" \in Names
    BY DEF FileInv, FileTypeOK, Directory, Names
  <1>4. FileTypeOK'
    BY <1>1, NamedType DEF FileInv, FileTypeOK
  <1>5. Progress'
    BY <1>1, <1>2, <1>3 DEF FileInv, Progress, Tmp
  <1>6. StateSafe(names)' /\ StateSafe(diskNames)' /\ Distinct(diskNames)'
    BY <1>1, <1>2, <1>3 DEF FileInv, StateSafe, Safe, Distinct
  <1>7. Reads(names', data') = Reads(names, data) /\ Reads(diskNames', disk') = Reads(names, data)
    BY <1>1, <1>2, <1>3 DEF Reads, FileInv, StateSafe, Safe
  <1>8. Atomic!Flush
    BY <1>1, <1>7 DEF Atomic!Flush
  <1>9. QED
    BY <1>4, <1>5, <1>6, <1>8 DEF StepDone, FileInv, Atomic!Next

LEMMA WriterDiesStep == ASSUME FileInv, WriterDies PROVE StepDone
  <1> USE DEF WriterDies
  <1>1. FileInv'
    BY DEF FileInv, FileTypeOK, Progress, StateSafe, Safe, Distinct, Tmp
  <1>2. QED
    BY <1>1, SameReads, GivenUp DEF StepDone

LEMMA PowerFailsStep == ASSUME FileInv, PowerFails PROVE StepDone
  <1>1. /\ data' = Named(disk) /\ disk' = Named(disk) /\ writing' = {} /\ call' = "none"
        /\ names' = diskNames /\ diskNames' = diskNames
    BY DEF PowerFails
  <1>2. \A n \in Names : diskNames[n] \in Inodes =>
            Named(disk)[diskNames[n]] = disk[diskNames[n]]
    BY <1>1, NamedKeeps
  <1>3. diskNames["state"] \in Inodes \cup {NoInode} /\ "state" \in Names
    BY DEF FileInv, FileTypeOK, Directory, Names
  <1>4. FileTypeOK'
    BY <1>1, NamedType DEF FileInv, FileTypeOK
  <1>5. Progress'
    BY <1>1 DEF Progress
  <1>6. StateSafe(names)' /\ StateSafe(diskNames)' /\ Distinct(diskNames)'
    BY <1>1, <1>2, <1>3 DEF FileInv, StateSafe, Safe, Distinct
  <1>7. Reads(names', data') = Reads(diskNames, disk) /\ Reads(diskNames', disk') = Reads(diskNames, disk)
    BY <1>1, <1>2, <1>3 DEF Reads
  <1>8. Atomic!PowerLoss
    BY <1>1, <1>7 DEF Atomic!PowerLoss
  <1>9. QED
    BY <1>4, <1>5, <1>6, <1>8 DEF StepDone, FileInv, Atomic!Next

\* Every step of the writer, the kernel and the machine.
LEMMA FileStep == FileInv /\ [FileNext]_fileVars => StepDone
  <1>1. ASSUME FileInv, FileNext PROVE StepDone
    BY <1>1, BeginStep, OpenFailsStep, OpenOldStep, OpenNewStep, WriteStep, SyncStep, CloseStep,
       RenameStep, StepFailsStep, UnlinkStep, WriteBackStep, CommitNamesStep, WriterDiesStep,
       PowerFailsStep
       DEF FileNext, SaveStep, KernelStep
  <1>2. ASSUME FileInv, UNCHANGED fileVars PROVE StepDone
    <2>1. FileInv'
      BY <1>2 DEF fileVars, FileInv, FileTypeOK, Progress, StateSafe, Safe, Distinct, Tmp
    <2>2. QED
      BY <1>2, <2>1, SameReads, GoesOn DEF StepDone, fileVars
  <1>3. QED
    BY <1>1, <1>2

LEMMA StartAbstract == FileInit => Atomic!Init
BY DEF FileInit, Atomic!Init, Reads, Names

-----------------------------------------------------------------------------
\* The file that reads as the state file is whole and durable, at every step
\* of the function and after every crash and power loss
\* (write_text_file_atomic).
THEOREM FileSafe == FileSpec => []FileInv
  <1>1. FileInit => FileInv
    BY StartSafe
  <1>2. FileInv /\ [FileNext]_fileVars => FileInv'
    BY FileStep DEF StepDone
  <1>3. QED
    BY <1>1, <1>2, PTL DEF FileSpec

\* Replacing the state file is atomic: write_text_file_atomic over any file
\* system that keeps the promises of fsync and rename implements AtomicFile,
\* for all texts and however many files there are.
THEOREM StateFileIsAtomic == FileSpec => ImplementsAtomicFile
  <1>1. FileInit => Atomic!Init
    BY StartAbstract
  <1>2. FileInv /\ [FileNext]_fileVars => [Atomic!Next]_(Atomic!vars)
    BY FileStep DEF StepDone
  <1>3. QED
    BY <1>1, <1>2, FileSafe, PTL DEF FileSpec, ImplementsAtomicFile, Atomic!Spec
=============================================================================
