----------------------- MODULE FilesystemStoreProofs -----------------------
(***************************************************************************)
(* Proofs about the filesystem state manager as its users see it, where    *)
(* the state file exists and every command locks it: it is a StateStore,   *)
(* serials follow each other, and a backup is made before a snapshot is    *)
(* destroyed.                                                              *)
(***************************************************************************)
EXTENDS FilesystemProofs

\* What the lock gives the command that has it.
Locked ==
    /\ LockFree = {}
    /\ IInv /\ LockInv /\ PathInv /\ DataInv /\ NoLostUpdate

LEMMA LockedAlways ==
  ASSUME FileExists, LockFree = {}
  PROVE  Spec => []Locked
<1>1. IInv /\ LockInv /\ PathInv /\ (DataInv /\ NoLostUpdate) => Locked
  BY DEF Locked
<1> QED
  BY <1>1, Inductive, LockInvariant, PathInvariant, DataInvariant, PTL

\* The holder is alone and has open the file at path: this is what is stored,
\* and what the holder knows of it.
Abstraction ==
    /\ \A p \in Proc : lockID[p] =>
          /\ Holder = p /\ stateFileOut[p] = dirEntry
          /\ \A q \in Proc \ {p} : ~lockID[q]
          /\ View = IF pc[p] \notin {"ready", "backup", "fillBackup", "write"} THEN {}
                    ELSE IF At(p, "write") THEN {clobbered} ELSE Known(p)
    /\ (\A p \in Proc : ~lockID[p]) => Holder = Nil /\ View = {}
    /\ \A p \in Proc : At(p, "write") => lockID[p] /\ Stored = clobbered
    /\ (\A p \in Proc : ~At(p, "write")) => Stored = data[dirEntry]

LEMMA Abstracts == Locked => Abstraction
<1> SUFFICES ASSUME Locked
             PROVE  Abstraction
  OBVIOUS
<1>1. MutualExclusion /\ HolderUsesPath
  BY Exclusion DEF Locked
<1>2. dirEntry \in Inode /\ dirEntry # Nil /\ \A p \in Proc : p # Nil
  BY InodeAssumption, ProcAssumption DEF Locked, IInv, PathInv, TypeOK
<1>3. \A p \in Proc : At(p, "write") => lockID[p]
  BY DEF Locked, IInv, ControlInv, Control, At, HeldAt
<1>4. ASSUME NEW p \in Proc, lockID[p]
      PROVE  Holder = p /\ stateFileOut[p] = dirEntry /\ \A q \in Proc \ {p} : ~lockID[q]
  BY <1>1, <1>4 DEF MutualExclusion, HolderUsesPath, Holds, Holder
<1>5. (\A p \in Proc : ~lockID[p]) => Holder = Nil /\ View = {}
  BY DEF Holder, Holds, View
<1> QED
  BY <1>2, <1>3, <1>4, <1>5 DEF Abstraction, Stored, View

LEMMA AbstractsNext == Locked' => Abstraction'
  BY Abstracts, PTL

\* Files are written only by a command at the points where it has the lock.
LEMMA DataFrame ==
  ASSUME Locked, NEW p \in Proc, Step(p)
  PROVE  /\ dirEntry' = dirEntry
         /\ \/ UNCHANGED <<data, clobbered>>
            \/ Truncate(p)
            \/ WriteData(p) \/ WriteDataFails(p)
            \/ Crash(p) /\ At(p, "write")
<1>1. dirEntry' = dirEntry
  <2>1. PathInv'
    BY PathStep DEF Locked
  <2> QED
    BY DEF Locked, PathInv, Step, Begin, Locking, StatPath, OpenPath, OpenPathFails,
           CreateFails, ReadForBackup, FcntlLock, CreateInfo, CreateInfoFails,
           FillInfo, ReadInfo, Retry, Timeout, RefreshState, RefreshFails, StartWrite,
           StartWriteFails, Writing, CreateBackup, CreateBackupFails, FillBackup,
           FillBackupFails, Truncate, WriteData, Unlocking, BeginUnlock, RemoveInfo,
           Release, StatForCleanup, RemoveEmpty, Exit, Crash, disk, At, TruncateFails,
           WriteDataFails, WriteFails, ReplaceState
<1>2. dirEntry # Nil
  BY DEF Locked, PathInv
<1>3. \/ UNCHANGED <<data, clobbered>> \/ Truncate(p)
      \/ WriteData(p) \/ WriteDataFails(p) \/ (Crash(p) /\ At(p, "write"))
  BY <1>2 DEF Step, Begin, Locking, StatPath, OpenPath, OpenPathFails, CreateFails,
              ReadForBackup, FcntlLock, CreateInfo, CreateInfoFails, FillInfo,
              ReadInfo, Retry, Timeout, RefreshState, RefreshFails, StartWrite,
              StartWriteFails, Writing, CreateBackup, CreateBackupFails, FillBackup,
              FillBackupFails, WriteData, Unlocking, BeginUnlock, RemoveInfo, Release,
              StatForCleanup, RemoveEmpty, Exit, Crash, Forget, disk, count,
              TruncateFails, At
<1> QED
  BY <1>1, <1>3

\* What a command does without the lock is not seen by the store.
LEMMA Unseen ==
  ASSUME Locked, Locked', NEW p \in Proc, Step(p), ~lockID[p], ~lockID'[p]
  PROVE  UNCHANGED <<Holder, Stored, View>>
<1>1. Abstraction /\ Abstraction'
  BY Abstracts, AbstractsNext
<1>2. ~At(p, "write") /\ ~At(p, "write")'
  BY <1>1 DEF Abstraction
<1>3. UNCHANGED <<data, clobbered, dirEntry>>
  <2>1. ~Truncate(p)
    <3>1. Truncate(p) => lockID[p]
      BY DEF Truncate, At, Locked, IInv, ControlInv, Control, HeldAt
    <3> QED
      BY <3>1
  <2> QED
    BY <1>2, <2>1, DataFrame DEF WriteData, WriteDataFails
<1>4. \A q \in Proc \ {p} : UNCHANGED <<pc[q], lockID[q], file[q], left[q]>>
  BY OthersUntouched DEF Locked, IInv
<1>5. CASE \E q \in Proc : lockID[q]
  <2>1. PICK q \in Proc \ {p} : lockID[q]
    BY <1>5
  <2>2. lockID'[q]
    BY <1>4, <2>1
  <2>3. Holder = q /\ Holder' = q
    BY <1>1, <2>1, <2>2 DEF Abstraction
  <2>4. View' = View
    <3>1. Known(q)' = Known(q) /\ UNCHANGED <<pc[q], clobbered>>
      BY <1>3, <1>4, <2>1, KnownKept
    <3> QED
      BY <1>1, <2>1, <2>2, <3>1 DEF Abstraction, At
  <2>5. Stored' = Stored
    BY <1>1, <1>2, <1>3, <1>4 DEF Abstraction, At
  <2> QED
    BY <2>3, <2>4, <2>5
<1>6. CASE \A q \in Proc : ~lockID[q]
  <2>1. \A q \in Proc : ~lockID'[q]
    BY <1>4, <1>6
  <2> QED
    BY <1>1, <1>3, <1>6, <2>1 DEF Abstraction
<1> QED
  BY <1>5, <1>6

\* The lock is taken with nobody at work.
LEMMA Takes ==
  ASSUME Locked, Locked', NEW p \in Proc, Step(p), ~lockID[p], lockID'[p]
  PROVE  Store!Acquire(p)
<1>1. Abstraction /\ Abstraction' /\ IInv
  BY Abstracts, AbstractsNext DEF Locked
<1>2. FcntlLock(p)
  BY <1>1 DEF Step, Begin, Locking, StatPath, OpenPath, OpenPathFails, CreateFails,
              ReadForBackup, CreateInfo, CreateInfoFails, FillInfo, ReadInfo, Retry,
              Timeout, RefreshState, RefreshFails, StartWrite, StartWriteFails,
              Writing, CreateBackup, CreateBackupFails, FillBackup, FillBackupFails,
              Truncate, WriteData, Unlocking, BeginUnlock, RemoveInfo, Release,
              StatForCleanup, RemoveEmpty, Exit, Crash, Forget, IInv, TypeOK,
              TruncateFails, WriteDataFails, WriteFails, ReplaceState
<1>3. /\ flock[stateFileOut[p]] \in {Nil, p} /\ pc' = [pc EXCEPT ![p] = "writeInfo"]
      /\ stateFileOut' = stateFileOut /\ lockID' = [lockID EXCEPT ![p] = TRUE]
      /\ UNCHANGED <<data, clobbered, dirEntry, file>>
  BY <1>1, <1>2 DEF FcntlLock, Goto, snaps, count, IInv, TypeOK
<1>4. ASSUME NEW q \in Proc, lockID[q]
      PROVE  FALSE
  <2>1. q # p /\ q # Nil
    BY <1>4, ProcAssumption
  <2>2. lockID'[q]
    BY <1>1, <1>3, <1>4, <2>1 DEF IInv, TypeOK
  <2> QED
    BY <1>1, <2>1, <2>2 DEF Abstraction
<1>5. /\ Holder = Nil /\ View = {} /\ Holder' = p /\ View' = {}
  <2>1. pc'[p] = "writeInfo"
    BY <1>1, <1>3 DEF IInv, TypeOK
  <2> QED
    BY <1>1, <1>4, <2>1 DEF Abstraction
<1>6. Stored' = Stored
  <2>1. \A q \in Proc : ~At(q, "write") /\ ~At(q, "write")'
    BY <1>1, <1>3, <1>4 DEF Abstraction, At, IInv, TypeOK
  <2> QED
    BY <1>1, <1>3, <2>1 DEF Abstraction
<1> QED
  BY <1>5, <1>6 DEF Store!Acquire

\* Between its refresh and the end of its writes the holder knows what is
\* stored; before and after it knows nothing.
AtWork == {"ready", "backup", "fillBackup", "write"}

LEMMA HolderKnows ==
  ASSUME Locked, NEW p \in Proc, lockID[p]
  PROVE  /\ Holder = p /\ Stored \in Snapshot \cup {Nil, Torn}
         /\ pc[p] \in AtWork => View = {Stored}
         /\ pc[p] \notin AtWork => View = {}
<1>1. Abstraction /\ TypeOK /\ dirEntry \in Inode
  BY Abstracts DEF Locked, IInv, PathInv, TypeOK
<1>2. \A q \in Proc : At(q, "write") => q = p
  BY <1>1 DEF Abstraction
<1>3. CASE At(p, "write")
  BY <1>1, <1>3 DEF Abstraction, AtWork, TypeOK, At
<1>4. CASE ~At(p, "write")
  <2>1. Stored = data[dirEntry] /\ Holder = p
    BY <1>1, <1>2, <1>4 DEF Abstraction
  <2>2. Stored \in Snapshot \cup {Nil, Torn}
    BY <1>1, <2>1 DEF TypeOK
  <2>3. CASE pc[p] \in AtWork
    <3>1. View = Known(p)
      BY <1>1, <1>4, <2>3 DEF Abstraction, AtWork
    <3>2. Known(p) = {data[stateFileOut[p]]} /\ stateFileOut[p] = dirEntry
      BY <1>1, <1>4, <2>3 DEF Abstraction, Locked, NoLostUpdate, InUse, Holds, AtWork, At
    <3> QED
      BY <2>1, <2>2, <2>3, <3>1, <3>2
  <2>4. CASE pc[p] \notin AtWork
    BY <1>1, <2>1, <2>2, <2>4 DEF Abstraction, AtWork
  <2> QED
    BY <2>3, <2>4
<1> QED
  BY <1>3, <1>4

Knowledge == \A p \in Proc : lockID[p] =>
    /\ Holder = p /\ Stored \in Snapshot \cup {Nil, Torn}
    /\ pc[p] \in AtWork => View = {Stored}
    /\ pc[p] \notin AtWork => View = {}

LEMMA HolderKnowsNext == Locked' => Knowledge'
<1>1. Locked => Knowledge
  BY HolderKnows DEF Knowledge
<1> QED
  BY <1>1, PTL

\* A holder starts its work with a refresh that has read the file.
LEMMA Starts ==
  ASSUME Locked, NEW p \in Proc, Step(p), lockID[p], lockID'[p],
         pc[p] \notin AtWork, pc'[p] \in AtWork
  PROVE  Stored # Torn
<1> USE DEF At, AtWork, Goto, Return
<1>1. Abstraction /\ IInv /\ TypeOK /\ Control(p)
  BY Abstracts DEF Locked, IInv, ControlInv
<1>2. RefreshState(p)
  <2>1. ~Begin(p) /\ ~Retry(p) /\ ~Timeout(p) /\ ~RefreshFails(p) /\ ~StartWriteFails(p)
    BY <1>1 DEF Begin, Retry, Timeout, RefreshFails, StartWriteFails, TypeOK
  <2>2. ~Locking(p)
    BY <1>1 DEF Locking, StatPath, OpenPath, OpenPathFails, CreateFails, ReadForBackup,
       FcntlLock, CreateInfo, CreateInfoFails, FillInfo, ReadInfo, TypeOK, Control,
       ClosedAt, TryingAt
  <2>3. ~StartWrite(p)
    BY DEF StartWrite
  <2>4. ~Writing(p)
    BY DEF Writing, CreateBackup, CreateBackupFails, FillBackup, FillBackupFails,
       Truncate, TruncateFails, WriteData, WriteDataFails
  <2>5. ~Unlocking(p) /\ ~Exit(p) /\ ~Crash(p)
    BY <1>1 DEF Unlocking, BeginUnlock, RemoveInfo, Release, StatForCleanup,
       RemoveEmpty, Exit, Crash, Forget, TypeOK
  <2> QED
    BY <2>1, <2>2, <2>3, <2>4, <2>5 DEF Step
<1>3. Contents(p) # Torn
  BY <1>2 DEF RefreshState
<1>4. Contents(p) = data[dirEntry]
  BY <1>1 DEF Contents, Abstraction, Control
<1>5. \A q \in Proc : ~At(q, "write")
  BY <1>1 DEF Abstraction
<1> QED
  BY <1>1, <1>3, <1>4, <1>5 DEF Abstraction

\* The points from which a command at work replaces what is stored.
LEMMA Replaces ==
  ASSUME Locked, NEW p \in Proc, Step(p), lockID[p], lockID'[p]
  PROVE  /\ Truncate(p) => At(p, "backup") /\ pc'[p] \in AtWork
         /\ WriteData(p) \/ WriteDataFails(p) => At(p, "write") /\ pc'[p] \in AtWork
         /\ At(p, "write") => WriteData(p) \/ WriteDataFails(p)
         /\ At(p, "write")' => Truncate(p)
         /\ ~Crash(p)
<1> USE DEF At, Goto, Return
<1>1. IInv /\ TypeOK
  BY DEF Locked, IInv
<1>2. Truncate(p) => At(p, "backup") /\ pc'[p] \in AtWork
  BY <1>1 DEF Truncate, TypeOK, AtWork
<1>3. WriteData(p) \/ WriteDataFails(p) => At(p, "write") /\ pc'[p] \in AtWork
  BY <1>1 DEF WriteData, WriteDataFails, WriteFails, TypeOK, AtWork
<1>4. ~Crash(p)
  BY <1>1 DEF Crash, Forget, TypeOK
<1>5. At(p, "write") => WriteData(p) \/ WriteDataFails(p)
  BY <1>1, <1>4 DEF Step, Begin, Locking, StatPath, OpenPath, OpenPathFails,
     ReadForBackup, FcntlLock, CreateInfo, CreateInfoFails, FillInfo, ReadInfo,
     Retry, Timeout, RefreshState, RefreshFails, StartWrite, StartWriteFails,
     Writing, CreateBackup, CreateBackupFails, FillBackup, FillBackupFails,
     Truncate, TruncateFails, Unlocking, BeginUnlock, RemoveInfo, Release,
     StatForCleanup, RemoveEmpty, Exit
<1>6. At(p, "write")' => Truncate(p)
  <2> SUFFICES ASSUME At(p, "write")'
               PROVE  Truncate(p)
    OBVIOUS
  <2>0. ~StartWrite(p)
    <3>1. StartWrite(p) => \E l \in {"ready", "stat", "backup"} : pc' = [pc EXCEPT ![p] = l]
      BY DEF StartWrite
    <3> QED
      BY <1>1, <3>1 DEF TypeOK
  <2>1. ~Locking(p)
    BY <1>1 DEF Locking, StatPath, OpenPath, OpenPathFails, CreateFails,
       ReadForBackup, FcntlLock, CreateInfo, CreateInfoFails, FillInfo, ReadInfo, TypeOK
  <2>2. Writing(p) => Truncate(p)
    BY <1>1 DEF Writing, CreateBackup, CreateBackupFails, FillBackup, FillBackupFails,
       TruncateFails, WriteData, WriteDataFails, WriteFails, TypeOK
  <2>3. ~Unlocking(p) /\ ~Exit(p)
    BY <1>1 DEF Unlocking, BeginUnlock, RemoveInfo, Release, StatForCleanup,
       RemoveEmpty, Exit, Forget, TypeOK
  <2>4. ~Begin(p) /\ ~Retry(p) /\ ~Timeout(p)
    BY <1>1 DEF Begin, Retry, Timeout, TypeOK
  <2>5. ~RefreshState(p) /\ ~RefreshFails(p) /\ ~StartWriteFails(p)
    BY <1>1 DEF RefreshState, RefreshFails, StartWriteFails, TypeOK
  <2> QED
    BY <1>4, <2>0, <2>1, <2>2, <2>3, <2>4, <2>5 DEF Step
<1> QED
  BY <1>2, <1>3, <1>4, <1>5, <1>6

\* The holder reads, writes, ends its writes, or does what the store does not
\* see.
LEMMA Works ==
  ASSUME Locked, Locked', NEW p \in Proc, Step(p), lockID[p], lockID'[p]
  PROVE  \/ UNCHANGED <<Holder, Stored, View>>
         \/ Store!Read(p) \/ Store!Write(p) \/ Store!FailWrite(p) \/ Store!Finish(p)
<1>1. Abstraction /\ Abstraction'
  BY Abstracts, AbstractsNext
<1>2. Holder = p /\ Holder' = p
  BY HolderKnows, HolderKnowsNext DEF Knowledge
<1>3. Stored' = Stored \/ (pc[p] \in AtWork /\ pc'[p] \in AtWork)
  <2>1. CASE Truncate(p) \/ WriteData(p) \/ WriteDataFails(p)
    BY <2>1, Replaces DEF AtWork, At
  <2>2. CASE ~Truncate(p) /\ ~WriteData(p) /\ ~WriteDataFails(p)
    <3>1. \A q \in Proc : ~At(q, "write") /\ ~At(q, "write")'
      BY <1>1, <2>2, Replaces DEF Abstraction
    <3>2. UNCHANGED <<data, dirEntry>>
      BY <2>2, DataFrame, Replaces
    <3> QED
      BY <1>1, <3>1, <3>2 DEF Abstraction
  <2> QED
    BY <2>1, <2>2
<1>4. CASE pc[p] \in AtWork /\ pc'[p] \in AtWork
  <2>1. View = {Stored} /\ View' = {Stored'} /\ Stored' \in Snapshot \cup {Nil, Torn}
    BY <1>4, HolderKnows, HolderKnowsNext DEF Knowledge
  <2> QED
    BY <1>2, <2>1 DEF Store!Write, Store!FailWrite
<1>5. CASE pc[p] \notin AtWork /\ pc'[p] \in AtWork
  <2>1. View' = {Stored'} /\ Stored' = Stored /\ Stored # Torn
    BY <1>3, <1>5, HolderKnowsNext, Starts DEF Knowledge
  <2> QED
    BY <1>2, <2>1 DEF Store!Read
<1>6. CASE pc[p] \in AtWork /\ pc'[p] \notin AtWork
  <2>1. View' = {} /\ Stored' = Stored
    BY <1>3, <1>6, HolderKnowsNext DEF Knowledge
  <2> QED
    BY <1>2, <2>1 DEF Store!Finish
<1>7. CASE pc[p] \notin AtWork /\ pc'[p] \notin AtWork
  <2>1. View = {} /\ View' = {} /\ Stored' = Stored
    BY <1>3, <1>7, HolderKnows, HolderKnowsNext DEF Knowledge
  <2> QED
    BY <1>2, <2>1
<1> QED
  BY <1>4, <1>5, <1>6, <1>7

\* Unlock, the end of the process and a crash give up the lock; only a crash
\* in the middle of a write destroys the snapshot.
LEMMA GivesUp ==
  ASSUME Locked, Locked', NEW p \in Proc, Step(p), lockID[p], ~lockID'[p]
  PROVE  Store!Release(p) \/ Store!CrashInWrite(p)
<1>1. Abstraction /\ Abstraction' /\ TypeOK /\ stateFileOut[p] \in Inode
  <2>1. \A q \in Proc : lockID[q] => stateFileOut[q] # Nil
    BY DEF Locked, IInv, ControlInv, Control
  <2> QED
    BY <2>1, Abstracts, AbstractsNext DEF Locked, IInv, TypeOK
<1>2. Holder = p /\ Holder' = Nil /\ View' = {} /\ \A q \in Proc : ~At(q, "write")'
  <2>1. \A q \in Proc : ~lockID'[q]
    <3>1. \A q \in Proc \ {p} : ~lockID[q] /\ lockID'[q] = lockID[q]
      BY <1>1, OthersUntouched DEF Abstraction
    <3> QED
      BY <3>1
  <2> QED
    BY <1>1, <2>1 DEF Abstraction
<1>3. ~Truncate(p) /\ ~WriteData(p) /\ ~WriteDataFails(p)
  BY <1>1 DEF Truncate, WriteData, WriteDataFails
<1>4. Stored' = data'[dirEntry]
  BY <1>1, <1>2, DataFrame DEF Abstraction
<1>5. CASE Crash(p) /\ At(p, "write")
  <2>1. data[stateFileOut[p]] = Nil /\ stateFileOut[p] = dirEntry
    BY <1>1, <1>5 DEF Abstraction, Locked, DataInv
  <2>2. Stored' \in {Nil, Torn}
    BY <1>1, <1>4, <1>5, <2>1 DEF Crash, TypeOK
  <2>3. View = {Stored}
    BY <1>5, HolderKnows DEF AtWork, At
  <2> QED
    BY <1>2, <2>2, <2>3 DEF Store!CrashInWrite
<1>6. CASE ~(Crash(p) /\ At(p, "write"))
  <2>1. UNCHANGED data
    BY <1>3, <1>6, DataFrame
  <2>2. ~At(p, "write")
    BY <1>3, <1>6 DEF Step, Begin, Locking, StatPath, OpenPath, OpenPathFails,
                      ReadForBackup, FcntlLock, CreateInfo, CreateInfoFails, FillInfo,
                      ReadInfo, Retry, Timeout, RefreshState, RefreshFails,
                      StartWrite, StartWriteFails, Writing, CreateBackup,
                      CreateBackupFails, FillBackup, FillBackupFails, Unlocking,
                      BeginUnlock, RemoveInfo, Release, StatForCleanup, RemoveEmpty,
                      Exit, At, TruncateFails, WriteDataFails, WriteFails,
                      ReplaceState
  <2>3. Stored = data[dirEntry]
    BY <1>1, <2>2 DEF Abstraction
  <2> QED
    BY <1>2, <1>4, <2>1, <2>3 DEF Store!Release
<1> QED
  BY <1>5, <1>6

\* When the state file exists and every command locks it, the manager is the
\* store that StateStore promises: one holder at a time, which reads the
\* stored snapshot and replaces it only while what it read is still there;
\* only a write that fails, with an error or with a crash, loses it
\* (statemgr.Filesystem against the Locker, Refresher and Persister interfaces).
THEOREM ImplementsStore ==
  ASSUME FileExists, LockFree = {}
  PROVE  Spec => ImplementsStateStore
<1>1. Init => Store!Init
  <2> SUFFICES ASSUME Init
               PROVE  Store!Init
    OBVIOUS
  <2>1. \A p \in Proc : ~lockID[p] /\ ~At(p, "write")
    BY DEF Init, At
  <2>2. dirEntry \in Inode /\ dirEntry # Nil /\ data[dirEntry] \in Snapshot
    BY InodeAssumption DEF Init, Snapshot
  <2> QED
    BY <2>1, <2>2 DEF Store!Init, Holder, Holds, Stored, View
<1>2. Locked /\ Locked' /\ [Next]_vars => [Store!Next]_(Store!vars)
  <2> SUFFICES ASSUME Locked, Locked', [Next]_vars
               PROVE  Store!Next \/ UNCHANGED <<Holder, Stored, View>>
    BY DEF Store!vars
  <2>1. CASE UNCHANGED vars
    BY <2>1 DEF vars, disk, snaps, count, Holder, Holds, Stored, View, At, Known,
               OnDisk
  <2>2. ASSUME NEW p \in Proc, Step(p)
        PROVE  Store!Next \/ UNCHANGED <<Holder, Stored, View>>
    BY <2>2, Unseen, Takes, Works, GivesUp DEF Store!Next
  <2> QED
    BY <2>1, <2>2 DEF Next
<1> QED
  BY <1>1, <1>2, LockedAlways, PTL DEF Spec, ImplementsStateStore, Store!Spec

-----------------------------------------------------------------------------
(* The snapshot that is being written, against the one it replaces         *)

\* The manager goes on from snapshot c, if it is one.
Continues(p, c) == c \in Snapshot => /\ file[p] # Nil
                                    /\ file[p].lineage = c.lineage
                                    /\ file[p].serial = c.serial

Replacing(p) ==
    /\ pending[p].op = "write" => pending[p].meta = Nil
    /\ At(p, "write") => file[p].state = pending[p].state /\ Continues(p, clobbered)
    /\ \A c \in left[p] : Continues(p, c)

ReplacingInv == \A p \in Proc : Replacing(p)

\* What a manager knows of its file is what it goes on from.
LEMMA KnownContinues ==
  ASSUME TypeOK, NEW p \in Proc, \A c \in left[p] : Continues(p, c)
  PROVE  \A c \in Known(p) : Continues(p, c)
  BY DataAssumption DEF TypeOK, Known, OnDisk, Continues

\* A new state changes neither lineage nor serial.
LEMMA ReplacedContinues ==
  ASSUME TypeOK, NEW p \in Proc, ReplaceState(p), NEW c, Continues(p, c)
  PROVE  Continues(p, c)'
<1>1. c \in Snapshot => file[p] # Nil
  BY DEF Continues
<1>2. file[p] # Nil => file'[p] = [file[p] EXCEPT !.state = pending[p].state]
  BY DEF ReplaceState, TypeOK
<1>3. file[p] # Nil => /\ file'[p].lineage = file[p].lineage
                      /\ file'[p].serial = file[p].serial
  BY <1>2 DEF TypeOK, Snapshot
<1>4. file'[p] # Nil
  BY ReplacedFile, DataAssumption DEF TypeOK
<1> QED
  BY <1>1, <1>3, <1>4 DEF Continues

LEMMA ReplacingStep ==
  ASSUME Locked, Locked', ReplacingInv, NEW p \in Proc, Step(p)
  PROVE  ReplacingInv'
<1>1. IInv /\ TypeOK /\ Abstraction /\ Abstraction'
  BY Abstracts, AbstractsNext DEF Locked, IInv
<1>2. ASSUME NEW q \in Proc, q # p
      PROVE  Replacing(q)'
  <2>1. /\ Replacing(q)
        /\ UNCHANGED <<pc[q], pending[q], file[q], left[q], lockID[q]>>
    BY <1>1, <1>2, OthersUntouched DEF ReplacingInv
  <2>2. At(q, "write")' => clobbered' = clobbered
    <3>1. At(q, "write")' => ~lockID[p]
      BY <1>1, <1>2, <2>1 DEF Abstraction, At
    <3>2. Truncate(p) \/ WriteData(p) \/ WriteDataFails(p) \/ (Crash(p) /\ At(p, "write"))
             => lockID[p]
      BY DEF Truncate, WriteData, WriteDataFails, At, Locked, IInv, ControlInv, Control,
             HeldAt
    <3> QED
      BY <3>1, <3>2, DataFrame
  <2> QED
    BY <2>1, <2>2 DEF Replacing, Continues, At
<1>3. Replacing(p)'
  <2>1. pending'[p].op = "write" => pending'[p].meta = Nil
    <3>1. \/ pending'[p] = pending[p] \/ pending'[p] = NoWrite
          \/ \E s \in State \cup {Nil}, m \in {Nil} \cup Metas :
                pending'[p] = [op |-> IF m = Nil THEN "write" ELSE "migrate",
                               state |-> s, meta |-> m]
      <4>1. CASE StartWrite(p)
        <5>1. \/ UNCHANGED pending
              \/ \E s \in State \cup {Nil}, m \in {Nil} \cup Metas :
                    pending' = [pending EXCEPT ![p] =
                      [op |-> IF m = Nil THEN "write" ELSE "migrate",
                       state |-> s, meta |-> m]]
          BY <4>1 DEF StartWrite
        <5>2. pending \in [Proc -> WriteArg]
          BY <1>1 DEF TypeOK
        <5>3. \A x : pending' = [pending EXCEPT ![p] = x] => pending'[p] = x
          BY <5>2
        <5> QED
          BY <5>1, <5>3
      <4>2. CASE ~StartWrite(p)
        BY <1>1, <4>2 DEF TypeOK, Step, Begin, Locking, StatPath, OpenPath, count,
                          StartWriteFails, OpenPathFails, CreateFails, ReadForBackup, FcntlLock,
                          CreateInfo, CreateInfoFails, FillInfo, ReadInfo, Retry,
                          Timeout, RefreshState, RefreshFails, Writing, CreateBackup,
                          CreateBackupFails, FillBackup, FillBackupFails, Truncate,
                          WriteData, Unlocking, BeginUnlock, RemoveInfo, Release,
                          StatForCleanup, RemoveEmpty, Exit, Crash, Forget,
                          TruncateFails, WriteDataFails, WriteFails, ReplaceState
      <4> QED
        BY <4>1, <4>2
    <3>2. NoWrite.op # "write"
      BY DEF NoWrite
    <3>3. CASE pending'[p] \in {pending[p], NoWrite}
      BY <3>2, <3>3 DEF ReplacingInv, Replacing
    <3>4. ASSUME NEW s \in State \cup {Nil}, NEW m \in {Nil} \cup Metas,
                 pending'[p] = [op |-> IF m = Nil THEN "write" ELSE "migrate",
                                state |-> s, meta |-> m]
          PROVE  pending'[p].op = "write" => pending'[p].meta = Nil
      BY <3>4
    <3> QED
      BY <3>1, <3>3, <3>4
  <2>2. \A c \in left'[p] : Continues(p, c)'
    <3> SUFFICES ASSUME NEW c \in left'[p]
                 PROVE  Continues(p, c)'
      OBVIOUS
    <3> USE DEF disk, snaps, count
    <3>1. CASE Exit(p) \/ Crash(p)
      BY <1>1, <3>1 DEF Exit, Crash, Forget, TypeOK
    <3>2. CASE TruncateFails(p)
      <4>1. c \in Known(p)
        BY <1>1, <3>2 DEF TruncateFails, TypeOK
      <4>2. Continues(p, c)
        BY <1>1, <4>1, KnownContinues DEF ReplacingInv, Replacing
      <4> QED
        BY <1>1, <3>2, <4>2, ReplacedContinues DEF TruncateFails
    <3>3. CASE Truncate(p)
      <4>1. c \in left[p]
        BY <1>1, <3>3 DEF Truncate, TypeOK
      <4>2. Continues(p, c)
        BY <4>1 DEF ReplacingInv, Replacing
      <4> QED
        BY <1>1, <3>3, <4>2, ReplacedContinues DEF Truncate
    <3>4. CASE WriteDataFails(p)
      <4>1. c \in {data[stateFileOut[p]], Torn}
        BY <1>1, <3>4 DEF WriteDataFails, TypeOK
      <4>2. data[stateFileOut[p]] = Nil
        BY <3>4 DEF WriteDataFails, Locked, DataInv
      <4> QED
        BY <4>1, <4>2, DataAssumption DEF Continues
    <3>5. CASE RefreshState(p) \/ WriteData(p)
      BY <1>1, <3>5 DEF RefreshState, WriteData, TypeOK
    <3>6. CASE StartWrite(p)
      <4>1. left'[p] = {} \/ UNCHANGED <<file[p], left[p]>>
        BY <1>1, <3>6 DEF StartWrite, TypeOK
      <4> QED
        BY <4>1 DEF ReplacingInv, Replacing, Continues
    <3>7. CASE UNCHANGED <<file, left>>
      BY <3>7 DEF ReplacingInv, Replacing, Continues
    <3> QED
      BY <3>1, <3>2, <3>3, <3>4, <3>5, <3>6, <3>7
      DEF Step, Begin, Locking, StatPath, OpenPath, OpenPathFails, CreateFails,
          ReadForBackup, FcntlLock, CreateInfo, CreateInfoFails, FillInfo, ReadInfo,
          Retry, Timeout, RefreshFails, StartWriteFails, Writing, CreateBackup,
          CreateBackupFails, FillBackup, FillBackupFails, Unlocking, BeginUnlock,
          RemoveInfo, Release, StatForCleanup, RemoveEmpty
  <2>3. CASE ~At(p, "write")'
    BY <2>1, <2>2, <2>3 DEF Replacing
  <2>4. CASE At(p, "write")'
    <3>1. lockID[p] /\ lockID'[p] /\ Truncate(p)
      <4>1. lockID'[p]
        BY <1>1, <2>4 DEF Abstraction
      <4>2. lockID[p]
        <5>1. ~FcntlLock(p)
          BY <1>1, <2>4 DEF FcntlLock, At, Goto, TypeOK
        <5> QED
          BY <4>1, <5>1, <1>1 DEF Step, Begin, Locking, StatPath, OpenPath,
             OpenPathFails, CreateFails, ReadForBackup, CreateInfo, CreateInfoFails,
             FillInfo, ReadInfo, Retry, Timeout, RefreshState, RefreshFails, StartWrite,
             StartWriteFails, Writing, CreateBackup, CreateBackupFails, FillBackup,
             FillBackupFails, Truncate, TruncateFails, WriteData, WriteDataFails,
             Unlocking, BeginUnlock, RemoveInfo, Release, StatForCleanup, RemoveEmpty,
             Exit, Crash, Forget, TypeOK
      <4> QED
        BY <2>4, <4>1, <4>2, Replaces
    <3>2. clobbered' \in Known(p)
      <4>1. At(p, "backup") /\ stateFileOut[p] \in Inode
        BY <1>1, <3>1 DEF Truncate, TypeOK, IInv, ControlInv, Control, At, OpenedAt
      <4>2. clobbered' = data[stateFileOut[p]]
        BY <1>1, <2>4, <3>1 DEF Truncate, Return, Goto, At, TypeOK
      <4> QED
        BY <3>1, <4>1, <4>2 DEF Locked, NoLostUpdate, InUse, Holds, At
    <3>3. file'[p].state = pending'[p].state
      <4>1. file'[p].state = pending[p].state
        BY <1>1, <3>1, ReplacedFile DEF Truncate, TypeOK
      <4>2. pending'[p] = pending[p]
        BY <1>1, <2>4, <3>1 DEF Truncate, Return, Goto, At, TypeOK
      <4> QED
        BY <4>1, <4>2
    <3>4. Continues(p, clobbered)'
      <4>1. PICK c \in Known(p) : c = clobbered'
        BY <3>2
      <4>2. Continues(p, c)
        BY <1>1, <4>1, KnownContinues DEF ReplacingInv, Replacing
      <4>3. Continues(p, c)'
        BY <1>1, <3>1, <4>2, ReplacedContinues DEF Truncate
      <4> QED
        BY <4>1, <4>3 DEF Continues
    <3> QED
      BY <2>1, <2>2, <3>3, <3>4 DEF Replacing
  <2> QED
    BY <2>3, <2>4
<1> QED
  BY <1>2, <1>3 DEF ReplacingInv

LEMMA ReplacingAlways ==
  ASSUME FileExists, LockFree = {}
  PROVE  Spec => []ReplacingInv
<1>1. Init => ReplacingInv
  BY DEF Init, ReplacingInv, Replacing, Continues, NoWrite, At
<1>2. Locked /\ Locked' /\ ReplacingInv /\ [Next]_vars => ReplacingInv'
  BY ReplacingStep DEF Next, vars, snaps, count, ReplacingInv, Replacing, Continues, At
<1> QED
  BY <1>1, <1>2, LockedAlways, PTL DEF Spec

\* What a completed write leaves in the file.
LEMMA Written ==
  ASSUME Locked, ReplacingInv, NEW p \in Proc, WriteData(p)
  PROVE  /\ data'[stateFileOut[p]] = Stamped(p) /\ file'[p] = Stamped(p)
         /\ Stamped(p) \in Snapshot /\ Stamped(p).state = pending[p].state
         /\ Stamped(p).state # Nil /\ stateFileOut[p] = dirEntry
         /\ UNCHANGED dirEntry
<1>1. TypeOK /\ At(p, "write") /\ file[p] # Nil
  BY DEF WriteData, Locked, IInv, ControlInv, Control
<1>2. lockID[p] /\ stateFileOut[p] = dirEntry /\ dirEntry \in Inode
  BY <1>1, Abstracts DEF Abstraction, TypeOK, Locked, PathInv
<1>3. data[stateFileOut[p]] = Nil /\ file[p].state # Nil
  BY <1>1 DEF Locked, DataInv
<1>4. data'[stateFileOut[p]] = Stamped(p)
  BY <1>1, <1>2, <1>3 DEF WriteData, TypeOK
<1>5. Stamped(p).state = file[p].state /\ file[p].state = pending[p].state
  BY <1>1, StampedState DEF ReplacingInv, Replacing
<1> QED
  BY <1>1, <1>2, <1>3, <1>4, <1>5, StampedType DEF WriteData, TypeOK

\* When the state file exists and every command locks it, a snapshot that
\* WriteState replaces is followed by one of its lineage, with its serial or
\* the next one (readState, writeState).
THEOREM SerialsFollow ==
  ASSUME FileExists, LockFree = {}
  PROVE  Spec => SerialFollows
<1>1. ASSUME Locked, ReplacingInv, NEW p \in Proc, WriteData(p),
             pending[p].op = "write", clobbered \in Snapshot
      PROVE  LET new == data'[stateFileOut[p]] IN
             /\ new.lineage = clobbered.lineage
             /\ new.serial \in clobbered.serial .. clobbered.serial + 1
  <2>1. /\ file[p].lineage = clobbered.lineage /\ file[p].serial = clobbered.serial
        /\ pending[p].meta = Nil /\ file[p] \in Snapshot
    BY <1>1 DEF WriteData, ReplacingInv, Replacing, Continues, Locked, IInv, TypeOK,
                ControlInv, Control
  <2>2. Stamped(p) \in {file[p], [file[p] EXCEPT !.serial = @ + 1]}
    BY <2>1 DEF Stamped
  <2>3. data'[stateFileOut[p]] = Stamped(p)
    BY <1>1, Written
  <2> QED
    BY <2>1, <2>2, <2>3 DEF Snapshot
<1>2. Locked /\ ReplacingInv /\ [Next]_vars =>
        [\A p \in Proc :
           (WriteData(p) /\ pending[p].op = "write" /\ clobbered \in Snapshot) =>
              LET new == data'[stateFileOut[p]] IN
              /\ new.lineage = clobbered.lineage
              /\ new.serial \in clobbered.serial .. clobbered.serial + 1]_vars
  BY <1>1
<1> QED
  BY <1>2, LockedAlways, ReplacingAlways, PTL DEF Spec, SerialFollows

\* When the state file exists and every command locks it, a WriteState that
\* returns without an error has left the state in the file at path
\* (writeState; without locks an error of createStateFiles is dropped).
THEOREM WritesPersist ==
  ASSUME FileExists, LockFree = {}
  PROVE  Spec => WritePersists
<1>1. ASSUME Locked, ReplacingInv, NEW p \in Proc, NEW q \in Proc, Step(q),
             pending[p].op = "write", pending'[p] = NoWrite, result'[p] = "ok"
      PROVE  /\ dirEntry' # Nil /\ data'[dirEntry'] = OnDisk(file'[p])
             /\ file'[p] # Nil /\ file'[p].state = pending[p].state
  <2>1. IInv /\ TypeOK /\ pending[p] # pending'[p]
    BY <1>1 DEF NoWrite, Locked, IInv
  <2>2. q = p
    BY <1>1, <2>1, OthersUntouched
  <2>3. pc[p] \notin CreateAt /\ dirEntry # Nil
    BY <1>1, <2>1 DEF Locked, IInv, ControlInv, Control, PathInv, NoWrite
  <2>4. Truncate(p) \/ WriteData(p)
    <3>1. ~StartWrite(p) /\ ~Exit(p) /\ ~Crash(p)
      BY <1>1, <2>1 DEF StartWrite, Exit, Crash, Forget, Return, NoWrite, TypeOK
    <3>2. ~WriteFails(p)
      BY <1>1, <2>1 DEF WriteFails, Return, TypeOK
    <3> QED
      BY <1>1, <2>1, <2>2, <2>3, <3>1, <3>2 DEF Step, Begin, Locking, StatPath, OpenPath,
                                          OpenPathFails, ReadForBackup, FcntlLock,
                                          CreateInfo, CreateInfoFails, FillInfo,
                                          ReadInfo, Retry, Timeout, RefreshState,
                                          RefreshFails, Writing, CreateBackup,
                                          CreateBackupFails, FillBackup,
                                          FillBackupFails, Unlocking, BeginUnlock,
                                          RemoveInfo, Release, StatForCleanup,
                                          RemoveEmpty, At, CreateAt, TruncateFails,
                                          WriteDataFails, StartWriteFails
  <2>5. CASE Truncate(p)
    <3>1. pending[p].state = Nil
      BY <1>1, <2>1, <2>5 DEF Truncate
    <3>2. file'[p].state = pending[p].state /\ file'[p] \in Snapshot
      BY <2>1, <2>5, ReplacedFile DEF Truncate, TypeOK
    <3>3. stateFileOut[p] = dirEntry /\ dirEntry \in Inode /\ UNCHANGED dirEntry
      <4>1. pc[p] \in OpenedAt /\ UNCHANGED dirEntry
        BY <2>5 DEF Truncate, OpenedAt, At
      <4>2. stateFileOut[p] # Nil /\ stateFileOut[p] \in {Nil, dirEntry}
        BY <1>1, <4>1 DEF Locked, IInv, PathInv, ControlInv, Control
      <4> QED
        BY <2>1, <4>1, <4>2 DEF TypeOK
    <3>4. data'[dirEntry] = Nil
      BY <2>1, <2>5, <3>3 DEF Truncate, TypeOK
    <3> QED
      BY <2>3, <3>1, <3>2, <3>3, <3>4, DataAssumption DEF OnDisk
  <2>6. CASE WriteData(p)
    BY <1>1, <2>3, <2>6, Written, DataAssumption DEF OnDisk
  <2> QED
    BY <2>4, <2>5, <2>6
<1>2. Locked /\ ReplacingInv /\ [Next]_vars =>
        [\A p \in Proc :
           (pending[p].op = "write" /\ pending'[p] = NoWrite /\ result'[p] = "ok")
              => /\ dirEntry' # Nil
                 /\ data'[dirEntry'] = OnDisk(file'[p])
                 /\ file'[p] # Nil /\ file'[p].state = pending[p].state]_vars
  BY <1>1 DEF Next
<1> QED
  BY <1>2, LockedAlways, ReplacingAlways, PTL DEF Spec, WritePersists

-----------------------------------------------------------------------------
(* The backup that a manager has made is not overwritten by another one    *)
(* while it works.                                                         *)

\* Where a command that uses its manager once has made no backup.
NoBackupAt == CreateAt \cup {"start", "gone", "fcntl", "readInfo", "wait", "writeInfo",
                             "fillInfo", "refresh", "fillBackup"}

BackedUp(p) ==
    /\ pc[p] \in NoBackupAt => ~writtenBackup[p]
    /\ At(p, "fillBackup") => backupFile[p] # Nil
    /\ pc[p] \in AtWork /\ writtenBackup[p] => backup = backupFile[p]
    /\ At(p, "write") /\ BackupOn /\ backupFile[p] # Nil
          => writtenBackup[p] \/ pending[p].state = backupFile[p].state

\* Until it has truncated the file for the first time, a manager knows it as it
\* read it last.
FirstWrite(p) ==
    \/ At(p, "ready") /\ writes[p] = 0
    \/ pc[p] \in {"backup", "fillBackup"} /\ writes[p] = 1

AsRead(p) ==
    /\ pc[p] \in NoBackupAt \ {"fillBackup", "start", "gone"} => writes[p] = 0
    /\ FirstWrite(p) => left[p] = {} /\ file[p] = readFile[p]
    /\ pc[p] \in AtWork /\ readFile[p] # Nil => readFile[p].state # Nil
    /\ pc[p] \in {"backup", "fillBackup", "write"} => writes[p] > 0
    /\ At(p, "write") /\ writes[p] = 1 /\ readFile[p] # Nil => clobbered = readFile[p]

BackupInv == \A p \in Proc : BackedUp(p)
AsReadInv == \A p \in Proc : AsRead(p)

LEMMA AsReadStep ==
  ASSUME Locked, Locked', AsReadInv, NEW p \in Proc, Step(p)
  PROVE  AsReadInv'
<1>1. IInv /\ TypeOK /\ Abstraction /\ Abstraction'
  BY Abstracts, AbstractsNext DEF Locked, IInv
<1>2. ASSUME NEW q \in Proc, q # p
      PROVE  AsRead(q)'
  <2>1. /\ AsRead(q)
        /\ UNCHANGED <<pc[q], writes[q], file[q], readFile[q], left[q], lockID[q]>>
    BY <1>1, <1>2, OthersUntouched DEF AsReadInv
  <2>2. At(q, "write") => clobbered' = clobbered
    <3>1. At(q, "write") => ~lockID[p]
      BY <1>1, <1>2 DEF Abstraction
    <3>2. Truncate(p) \/ WriteData(p) \/ WriteDataFails(p) \/ (Crash(p) /\ At(p, "write"))
             => lockID[p]
      BY DEF Truncate, WriteData, WriteDataFails, At, Locked, IInv, ControlInv, Control,
             HeldAt
    <3> QED
      BY <3>1, <3>2, DataFrame
  <2> QED
    BY <2>1, <2>2 DEF AsRead, FirstWrite, At
<1>3. AsRead(p)'
  <2>0. AsRead(p) /\ Control(p)
    BY DEF AsReadInv, Locked, IInv, ControlInv
  <2> USE DEF AsRead, FirstWrite, At, Goto, Return, NoBackupAt, CreateAt, AtWork, disk,
              snaps, count
  <2>1. Contents(p) # Nil /\ Contents(p) # Torn => Contents(p).state # Nil
    BY <1>1, ContentsType, DataAssumption DEF Contents, Locked, DataInv, TypeOK
  <2>2. CASE Begin(p)
    BY <1>1, <2>0, <2>2 DEF Begin, Locked, TypeOK
  <2>3. CASE Locking(p)
    <3>1. pc[p] \in CreateAt => pending[p] = NoWrite
      BY <2>0 DEF Control, Locked
    <3> QED
      BY <1>1, <2>0, <2>3, <3>1 DEF Locking, StatPath, OpenPath, OpenPathFails,
                                    CreateFails, ReadForBackup, FcntlLock, CreateInfo,
                                    CreateInfoFails, FillInfo, ReadInfo, TypeOK
  <2>4. CASE Retry(p) \/ Timeout(p)
    BY <1>1, <2>0, <2>4 DEF Retry, Timeout, TypeOK
  <2>5. CASE RefreshState(p)
    BY <1>1, <2>0, <2>1, <2>5 DEF RefreshState, TypeOK
  <2>6. CASE RefreshFails(p) \/ StartWriteFails(p)
    BY <1>1, <2>0, <2>6 DEF RefreshFails, StartWriteFails, TypeOK, Locked
  <2>7. CASE StartWrite(p)
    <3> DEFINE read == IF readFile[p] = Nil THEN Contents(p) ELSE readFile[p]
    <3>1. /\ readFile'[p] = read /\ writes'[p] = writes[p] + 1
          /\ file'[p] = IF readFile[p] = Nil THEN read ELSE file[p]
          /\ left'[p] = IF readFile[p] = Nil THEN {} ELSE left[p]
          /\ read # Torn /\ At(p, "ready") /\ writes[p] \in Nat
      BY <1>1, <2>7 DEF StartWrite, TypeOK
    <3>2. pc'[p] \in {"ready", "backup"}
      <4>1. stateFileOut[p] # Nil
        BY <2>0, <2>7 DEF StartWrite, Control, HeldAt, Locked
      <4>2. pc' = [pc EXCEPT ![p] = "ready"] \/ pc' = [pc EXCEPT ![p] = "backup"]
        BY <2>7, <4>1 DEF StartWrite
      <4> QED
        BY <1>1, <4>2 DEF TypeOK
    <3> QED
      BY <2>0, <2>1, <3>1, <3>2
  <2>8. CASE CreateBackup(p) \/ CreateBackupFails(p) \/ FillBackup(p) \/ FillBackupFails(p)
    BY <1>1, <2>0, <2>8 DEF CreateBackup, CreateBackupFails, FillBackup, FillBackupFails,
                            WriteFails, TypeOK
  <2>9. CASE TruncateFails(p)
    BY <1>1, <2>0, <2>9 DEF TruncateFails, WriteFails, TypeOK
  <2>10. CASE Truncate(p)
    <3>1. pc[p] = "backup" /\ UNCHANGED <<writes, readFile>>
      BY <2>10 DEF Truncate
    <3>2. pc'[p] = "ready" \/ (pc'[p] = "write" /\ clobbered' = data[stateFileOut[p]])
      BY <1>1, <2>10 DEF Truncate, TypeOK
    <3>3. writes[p] = 1 /\ readFile[p] # Nil => data[stateFileOut[p]] = readFile[p]
      <4>1. lockID[p] /\ Known(p) = {data[stateFileOut[p]]}
        BY <2>0, <3>1 DEF Control, HeldAt, Locked, NoLostUpdate, InUse, Holds
      <4> QED
        BY <2>0, <3>1, <4>1 DEF Known, OnDisk
    <3>4. ~(pc'[p] = "ready" /\ writes[p] = 0)
      BY <2>0, <2>10 DEF Truncate
    <3> QED
      BY <2>0, <3>1, <3>2, <3>3, <3>4
  <2>11. CASE WriteData(p) \/ WriteDataFails(p)
    BY <1>1, <2>0, <2>11 DEF WriteData, WriteDataFails, WriteFails, TypeOK
  <2>12. CASE Unlocking(p)
    BY <1>1, <2>0, <2>12 DEF Unlocking, BeginUnlock, RemoveInfo, Release,
                             StatForCleanup, RemoveEmpty, TypeOK
  <2>13. CASE Exit(p) \/ Crash(p)
    BY <1>1, <2>0, <2>13 DEF Exit, Crash, Forget, TypeOK
  <2> QED
    BY <2>2, <2>3, <2>4, <2>5, <2>6, <2>7, <2>8, <2>9, <2>10, <2>11, <2>12, <2>13
    DEF Step, Writing
<1> QED
  BY <1>2, <1>3 DEF AsReadInv

LEMMA BackupStep ==
  ASSUME Locked, BackupInv, ~Reuse, NEW p \in Proc, Step(p)
  PROVE  BackupInv'
<1>1. IInv /\ TypeOK /\ Abstraction
  BY Abstracts DEF Locked, IInv
<1>2. ASSUME NEW q \in Proc, q # p
      PROVE  BackedUp(q)'
  <2>1. /\ BackedUp(q)
        /\ UNCHANGED <<pc[q], pending[q], backupFile[q], writtenBackup[q], lockID[q]>>
    BY <1>1, <1>2, OthersUntouched DEF BackupInv
  <2>2. pc[q] \in AtWork => backup' = backup
    <3>1. pc[q] \in AtWork => ~lockID[p]
      BY <1>1, <1>2 DEF Abstraction, Locked, IInv, ControlInv, Control, HeldAt, AtWork
    <3>2. pc[p] \in {"backup", "fillBackup"} => lockID[p]
      BY DEF Locked, IInv, ControlInv, Control, HeldAt
    <3>3. pc[p] \in {"backup", "fillBackup"} \/ UNCHANGED backup
      BY DEF Step, Begin, Locking, StatPath, OpenPath, OpenPathFails, ReadForBackup,
             FcntlLock, CreateInfo, CreateInfoFails, FillInfo, ReadInfo, Retry,
             Timeout, RefreshState, RefreshFails, StartWrite, StartWriteFails,
             Writing, CreateBackup, CreateBackupFails, FillBackup, FillBackupFails,
             Truncate, WriteData, Unlocking, BeginUnlock, RemoveInfo, Release,
             StatForCleanup, RemoveEmpty, Exit, Crash, disk, At, TruncateFails,
             WriteDataFails, WriteFails, ReplaceState
    <3> QED
      BY <3>1, <3>2, <3>3
  <2> QED
    BY <2>1, <2>2 DEF BackedUp, At
<1>3. BackedUp(p)'
  <2>0. BackedUp(p) /\ Control(p)
    BY DEF BackupInv, Locked, IInv, ControlInv
  <2> USE DEF BackedUp, At, Goto, Return, NoBackupAt, CreateAt, AtWork, disk, snaps,
              count
  <2>1. CASE Begin(p)
    BY <1>1, <2>0, <2>1 DEF Begin, Locked, TypeOK
  <2>2. CASE Locking(p)
    <3>1. pc[p] \in CreateAt => pending[p] = NoWrite
      BY <2>0 DEF Control, Locked
    <3> QED
      BY <1>1, <2>0, <2>2, <3>1 DEF Locking, StatPath, OpenPath, OpenPathFails,
                                    CreateFails, ReadForBackup, FcntlLock, CreateInfo,
                                    CreateInfoFails, FillInfo, ReadInfo, TypeOK
  <2>3. CASE Retry(p) \/ Timeout(p)
    BY <1>1, <2>0, <2>3 DEF Retry, Timeout, TypeOK
  <2>4. CASE RefreshState(p)
    BY <1>1, <2>0, <2>4 DEF RefreshState, Locked, TypeOK
  <2>5. CASE StartWrite(p)
    <3>1. stateFileOut[p] # Nil
      BY <2>0, <2>5 DEF StartWrite, Control, HeldAt, Locked
    <3>2. pc' = [pc EXCEPT ![p] = "ready"] \/ pc' = [pc EXCEPT ![p] = "backup"]
      BY <2>5, <3>1 DEF StartWrite
    <3>3. UNCHANGED <<backup, backupFile, writtenBackup>> /\ At(p, "ready")
      BY <2>5 DEF StartWrite
    <3> QED
      BY <1>1, <2>0, <3>2, <3>3 DEF TypeOK
  <2>6. CASE CreateBackup(p) \/ CreateBackupFails(p)
    BY <1>1, <2>0, <2>6 DEF CreateBackup, CreateBackupFails, NeedsBackup, WriteFails,
                            TypeOK
  <2>7. CASE FillBackup(p) \/ FillBackupFails(p)
    BY <1>1, <2>0, <2>7 DEF FillBackup, FillBackupFails, WriteFails, TypeOK
  <2>8. CASE Truncate(p)
    <3>1. pc[p] = "backup" /\ UNCHANGED <<backup, backupFile, writtenBackup>>
      BY <2>8 DEF Truncate
    <3>2. pc'[p] = "ready" \/ (pc'[p] = "write" /\ UNCHANGED pending)
      BY <1>1, <2>8 DEF Truncate, TypeOK
    <3>3. BackupOn /\ backupFile[p] # Nil
             => writtenBackup[p] \/ pending[p].state = backupFile[p].state
      BY <2>8 DEF Truncate, NeedsBackup, StatesMarshalEqual
    <3> QED
      BY <2>0, <3>1, <3>2, <3>3
  <2>9. CASE WriteData(p) \/ WriteDataFails(p)
    BY <1>1, <2>0, <2>9 DEF WriteData, WriteDataFails, WriteFails, TypeOK
  <2>10. CASE Unlocking(p)
    BY <1>1, <2>0, <2>10 DEF Unlocking, BeginUnlock, RemoveInfo, Release,
                             StatForCleanup, RemoveEmpty, TypeOK
  <2>11. CASE Exit(p) \/ Crash(p)
    BY <1>1, <2>0, <2>11 DEF Exit, Crash, Forget, TypeOK
  <2>12. CASE RefreshFails(p) \/ StartWriteFails(p) \/ TruncateFails(p)
    BY <1>1, <2>0, <2>12 DEF RefreshFails, StartWriteFails, TruncateFails, WriteFails,
                             Locked, TypeOK
  <2> QED
    BY <2>1, <2>2, <2>3, <2>4, <2>5, <2>6, <2>7, <2>8, <2>9, <2>10, <2>11, <2>12
    DEF Step, Writing
<1> QED
  BY <1>2, <1>3 DEF BackupInv

\* When the state file exists, every command locks it and uses its manager
\* for one session, a file that gets another state than that of the first
\* snapshot read is truncated only after this snapshot has been backed up, and
\* it is the snapshot destroyed by the first write when it is the one that the
\* refresh has found (createStateFiles, writeState and its error returns).
THEOREM BackupFirst ==
  ASSUME FileExists, LockFree = {}, ~Reuse
  PROVE  Spec => []BackedUpBeforeClobber
<1>1. Init => BackupInv /\ AsReadInv
  BY DEF Init, BackupInv, BackedUp, AsReadInv, AsRead, FirstWrite, At, AtWork
<1>2. Locked /\ BackupInv /\ [Next]_vars => BackupInv'
  BY BackupStep DEF Next, vars, disk, snaps, BackupInv, BackedUp, At
<1>3. Locked /\ Locked' /\ AsReadInv /\ [Next]_vars => AsReadInv'
  BY AsReadStep DEF Next, vars, count, snaps, AsReadInv, AsRead, FirstWrite, At
<1>4. BackupInv /\ AsReadInv => BackedUpBeforeClobber
  BY DEF BackupInv, BackedUp, AsReadInv, AsRead, BackedUpBeforeClobber, At, AtWork
<1> QED
  BY <1>1, <1>2, <1>3, <1>4, LockedAlways, PTL DEF Spec
=============================================================================
