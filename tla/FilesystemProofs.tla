-------------------------- MODULE FilesystemProofs --------------------------
(***************************************************************************)
(* Proofs about the filesystem state manager, for any processes, states,   *)
(* inodes and bounds: type correctness, exclusion when the file exists,    *)
(* and that no snapshot is overwritten unread.                             *)
(***************************************************************************)
EXTENDS Filesystem, TLAPS

\* Where a process has the state file open, and where it holds its lock
\* unless it runs without locking.
OpenedAt == {"readBackup", "fcntl", "readInfo", "wait", "writeInfo", "fillInfo",
             "backup", "fillBackup", "write", "rmInfo", "release"}
ClosedAt == {"start", "stat", "open", "cleanup", "remove", "unlocked", "gone"}
HeldAt   == {"writeInfo", "fillInfo", "refresh", "ready", "backup", "fillBackup",
             "write", "rmInfo", "release"}
TryingAt == {"readBackup", "fcntl", "readInfo", "wait"}
LockingAt == {"fcntl", "readInfo", "wait", "writeInfo", "fillInfo", "rmInfo", "release"}
CreateAt == {"stat", "open", "readBackup"}
WriteAt  == {"backup", "fillBackup", "write"}

Control(p) ==
    /\ pc[p] \in OpenedAt => stateFileOut[p] # Nil
    /\ pc[p] \in ClosedAt => stateFileOut[p] = Nil
    /\ pc[p] \in ClosedAt \cup TryingAt => ~lockID[p]
    /\ pc[p] \in HeldAt /\ p \notin LockFree => lockID[p]
    /\ pc[p] \in LockingAt => p \notin LockFree
    /\ pc[p] \in CreateAt => (pending[p] = NoWrite <=> p \notin LockFree)
    /\ pc[p] \notin CreateAt \cup WriteAt => pending[p] = NoWrite
    /\ lockID[p] => stateFileOut[p] # Nil /\ p \notin LockFree
    /\ At(p, "write") => file[p] # Nil

LEMMA NoWriteType == NoWrite \in WriteArg
  BY DEF NoWrite, WriteArg

LEMMA InitType == Init => TypeOK
  BY DataAssumption, InodeAssumption, ProcAssumption
  DEF Init, TypeOK, Snapshot, PC, WriteArg, NoWrite

\* What statefile.Read returns is a snapshot or nothing, unless it fails.
LEMMA ContentsType ==
  ASSUME TypeOK, NEW p \in Proc
  PROVE  Contents(p) \in Snapshot \cup {Nil, Torn}
  BY DEF TypeOK, Contents

LEMMA StampedType ==
  ASSUME TypeOK, NEW p \in Proc, file[p] # Nil
  PROVE  Stamped(p) \in Snapshot
<1>1. file[p] \in Snapshot /\ pending[p] \in WriteArg
  BY DEF TypeOK
<1>2. pending[p].meta # Nil => pending[p].meta \in [lineage : Nat, serial : Nat]
  BY <1>1 DEF WriteArg
<1> QED
  BY <1>1, <1>2 DEF Stamped, Snapshot

\* Truncating the file, or failing to, gives the manager a snapshot with the
\* state to write.
LEMMA ReplacedFile ==
  ASSUME TypeOK, NEW p \in Proc, ReplaceState(p)
  PROVE  /\ \E f \in Snapshot : /\ file' = [file EXCEPT ![p] = f]
                                /\ f.state = pending[p].state
         /\ nextLineage' \in Nat
<1>1. pending[p].state \in State \cup {Nil}
  BY DEF TypeOK, WriteArg
<1>2. CASE file[p] = Nil
  <2> DEFINE f == [lineage |-> nextLineage, serial |-> 0, state |-> pending[p].state]
  <2>1. f \in Snapshot
    BY <1>1 DEF TypeOK, Snapshot
  <2>2. file' = [file EXCEPT ![p] = f] /\ nextLineage' \in Nat
    BY <1>2 DEF ReplaceState, TypeOK
  <2> QED
    BY <2>1, <2>2
<1>3. CASE file[p] # Nil
  <2> DEFINE f == [file[p] EXCEPT !.state = pending[p].state]
  <2>1. f \in Snapshot /\ f.state = pending[p].state
    BY <1>1, <1>3 DEF TypeOK, Snapshot
  <2>2. file' = [file EXCEPT ![p] = f] /\ nextLineage' \in Nat
    BY <1>3 DEF ReplaceState, TypeOK
  <2> QED
    BY <2>1, <2>2
<1> QED
  BY <1>2, <1>3

LEMMA KnownType ==
  ASSUME TypeOK, NEW p \in Proc
  PROVE  Known(p) \subseteq Snapshot \cup {Nil, Torn}
  BY DEF TypeOK, Known, OnDisk

LEMMA TypeStep ==
  ASSUME TypeOK, NEW p \in Proc, Control(p), Step(p)
  PROVE  TypeOK'
<1> USE DEF At, Goto, Return, PC, disk, snaps, count
<1>1. CASE Begin(p)
  BY <1>1 DEF Begin, TypeOK
<1>2. CASE Locking(p)
  <2>1. CASE StatPath(p)
    BY <2>1 DEF StatPath, TypeOK
  <2>2. CASE OpenPath(p)
    BY <2>2, InodeAssumption DEF OpenPath, TypeOK
  <2>3. CASE OpenPathFails(p)
    BY <2>3, NoWriteType DEF OpenPathFails, CreateFails, TypeOK
  <2>4. CASE ReadForBackup(p)
    BY <2>4, NoWriteType, ContentsType DEF ReadForBackup, CreateFails, TypeOK
  <2>5. CASE FcntlLock(p)
    <3>1. /\ flock' = flock \/ flock' = [flock EXCEPT ![stateFileOut[p]] = p]
          /\ lockID' = lockID \/ lockID' = [lockID EXCEPT ![p] = TRUE]
          /\ \E l \in {"writeInfo", "readInfo"} : pc' = [pc EXCEPT ![p] = l]
          /\ UNCHANGED <<dirEntry, data, info, backup, stateFileOut, created, snaps,
                         pending, result, count>>
      BY <2>5 DEF FcntlLock
    <3>2. flock' \in [Inode -> Proc \cup {Nil}]
      BY <3>1 DEF TypeOK
    <3>3. lockID' \in [Proc -> BOOLEAN]
      BY <3>1 DEF TypeOK
    <3>4. pc' \in [Proc -> PC]
      BY <3>1 DEF TypeOK
    <3> QED
      BY <3>1, <3>2, <3>3, <3>4 DEF TypeOK
  <2>6. CASE CreateInfo(p)
    BY <2>6 DEF CreateInfo, TypeOK
  <2>7. CASE CreateInfoFails(p)
    BY <2>7 DEF CreateInfoFails, TypeOK
  <2>8. CASE FillInfo(p)
    BY <2>8 DEF FillInfo, TypeOK
  <2>9. CASE ReadInfo(p)
    BY <2>9 DEF ReadInfo, TypeOK
  <2> QED
    BY <1>2, <2>1, <2>2, <2>3, <2>4, <2>5, <2>6, <2>7, <2>8, <2>9 DEF Locking
<1>3. CASE Retry(p)
  BY <1>3 DEF Retry, TypeOK
<1>4. CASE Timeout(p)
  BY <1>4 DEF Timeout, TypeOK
<1>5. CASE RefreshState(p) \/ RefreshFails(p)
  BY <1>5, ContentsType DEF RefreshState, RefreshFails, TypeOK
<1>6. CASE StartWrite(p)
  <2> DEFINE read == IF readFile[p] = Nil THEN Contents(p) ELSE readFile[p]
  <2>1. read \in Snapshot \cup {Nil}
    BY <1>6, ContentsType DEF StartWrite, TypeOK
  <2>2. readFile' \in [Proc -> Snapshot \cup {Nil}]
    BY <1>6, <2>1 DEF StartWrite, TypeOK
  <2>3. file' \in [Proc -> Snapshot \cup {Nil}]
    BY <1>6, <2>1 DEF StartWrite, TypeOK
  <2>4. left' \in [Proc -> SUBSET (Snapshot \cup {Nil, Torn})]
    BY <1>6 DEF StartWrite, TypeOK
  <2>5. pending' \in [Proc -> WriteArg]
    <3>1. PICK s \in State \cup {Nil}, m \in {Nil} \cup Metas :
            \/ UNCHANGED pending
            \/ pending' = [pending EXCEPT ![p] =
                   [op |-> IF m = Nil THEN "write" ELSE "migrate",
                    state |-> s, meta |-> m]]
      BY <1>6 DEF StartWrite
    <3>2. [op |-> IF m = Nil THEN "write" ELSE "migrate",
           state |-> s, meta |-> m] \in WriteArg
      BY BoundAssumption DEF WriteArg
    <3> QED
      BY <3>1, <3>2 DEF TypeOK
  <2>6. pc' \in [Proc -> PC] /\ result' \in
           [Proc -> {"none", "ok", "error", "noInfo", "timeout"}]
    <3>1. \E l \in PC, r \in {"none", "error"} :
            pc' = [pc EXCEPT ![p] = l] /\ result' = [result EXCEPT ![p] = r]
      BY <1>6 DEF StartWrite
    <3> QED
      BY <3>1 DEF TypeOK
  <2>7. writes' \in [Proc -> Nat]
    BY <1>6 DEF StartWrite, TypeOK
  <2> QED
    BY <1>6, <2>2, <2>3, <2>4, <2>5, <2>6, <2>7 DEF StartWrite, TypeOK
<1>11. CASE StartWriteFails(p)
  BY <1>11 DEF StartWriteFails, TypeOK
<1>7. CASE Writing(p)
  <2>0. stateFileOut[p] \in Inode \/ ~(At(p, "backup") \/ At(p, "write"))
    BY DEF TypeOK, Control, OpenedAt
  <2>1. CASE CreateBackup(p) \/ CreateBackupFails(p)
    BY <2>1, NoWriteType DEF CreateBackup, CreateBackupFails, WriteFails, TypeOK
  <2>2. CASE FillBackup(p) \/ FillBackupFails(p)
    <3>1. backup' \in Snapshot \cup {Nil, Torn}
      BY <2>2 DEF FillBackup, FillBackupFails, TypeOK
    <3>2. pending' \in [Proc -> WriteArg]
      BY <2>2, NoWriteType DEF FillBackup, FillBackupFails, WriteFails, TypeOK
    <3>3. writtenBackup' \in [Proc -> BOOLEAN]
      BY <2>2 DEF FillBackup, FillBackupFails, TypeOK
    <3> QED
      BY <2>2, <3>1, <3>2, <3>3 DEF FillBackup, FillBackupFails, WriteFails, TypeOK
  <2>3. CASE Truncate(p)
    <3>1. pending[p].state \in State \cup {Nil}
      BY DEF TypeOK, WriteArg
    <3>2. file' \in [Proc -> Snapshot \cup {Nil}] /\ nextLineage' \in Nat
      BY <2>3, ReplacedFile DEF Truncate, TypeOK
    <3>3. pending' \in [Proc -> WriteArg]
      BY <2>3, NoWriteType DEF Truncate, TypeOK
    <3>4. data' \in [Inode -> Snapshot \cup {Nil, Torn}]
      BY <2>3 DEF Truncate, TypeOK
    <3>5. clobbered' \in Snapshot \cup {Nil, Torn}
      BY <2>0, <2>3 DEF Truncate, TypeOK
    <3>6. left' \in [Proc -> SUBSET (Snapshot \cup {Nil, Torn})]
      BY <2>3 DEF Truncate, TypeOK
    <3> QED
      BY <2>3, <3>2, <3>3, <3>4, <3>5, <3>6 DEF Truncate, TypeOK
  <2>4. CASE TruncateFails(p)
    <3>1. file' \in [Proc -> Snapshot \cup {Nil}] /\ nextLineage' \in Nat
      BY <2>4, ReplacedFile DEF TruncateFails, TypeOK
    <3>2. left' \in [Proc -> SUBSET (Snapshot \cup {Nil, Torn})]
      BY <2>4, KnownType DEF TruncateFails, TypeOK
    <3> QED
      BY <2>4, <3>1, <3>2, NoWriteType DEF TruncateFails, WriteFails, TypeOK
  <2>5. CASE WriteData(p) \/ WriteDataFails(p)
    <3>1. Stamped(p) \in Snapshot
      BY <2>5, StampedType DEF WriteData, WriteDataFails, Control
    <3>2. PICK d \in Snapshot \cup {Nil, Torn} :
             /\ data' = [data EXCEPT ![stateFileOut[p]] = d]
             /\ left' = [left EXCEPT ![p] = {}] \/ left' = [left EXCEPT ![p] = {d}]
      BY <2>0, <2>5, <3>1 DEF WriteData, WriteDataFails, TypeOK
    <3>3. data' \in [Inode -> Snapshot \cup {Nil, Torn}]
      BY <3>2 DEF TypeOK
    <3>6. left' \in [Proc -> SUBSET (Snapshot \cup {Nil, Torn})]
      <4>1. {} \in SUBSET (Snapshot \cup {Nil, Torn})
            /\ {d} \in SUBSET (Snapshot \cup {Nil, Torn})
        OBVIOUS
      <4> QED
        BY <3>2, <4>1 DEF TypeOK
    <3>4. file' \in [Proc -> Snapshot \cup {Nil}]
      BY <2>5, <3>1 DEF WriteData, WriteDataFails, TypeOK
    <3>5. pending' \in [Proc -> WriteArg]
      BY <2>5, NoWriteType DEF WriteData, WriteDataFails, WriteFails, TypeOK
    <3> QED
      BY <2>5, <3>3, <3>4, <3>5, <3>6 DEF WriteData, WriteDataFails, WriteFails, TypeOK
  <2> QED
    BY <1>7, <2>1, <2>2, <2>3, <2>4, <2>5 DEF Writing
<1>8. CASE Unlocking(p)
  <2>1. CASE BeginUnlock(p) \/ RemoveInfo(p)
    BY <2>1 DEF BeginUnlock, RemoveInfo, TypeOK
  <2>2. CASE Release(p)
    BY <2>2 DEF Release, TypeOK
  <2>3. CASE StatForCleanup(p) \/ RemoveEmpty(p)
    BY <2>3 DEF StatForCleanup, RemoveEmpty, TypeOK
  <2> QED
    BY <1>8, <2>1, <2>2, <2>3 DEF Unlocking
<1>9. CASE Exit(p)
  BY <1>9, NoWriteType DEF Exit, Forget, TypeOK
<1>10. CASE Crash(p)
  BY <1>10, NoWriteType DEF Crash, Forget, TypeOK
<1> QED
  BY <1>1, <1>2, <1>3, <1>4, <1>5, <1>6, <1>7, <1>8, <1>9, <1>10, <1>11 DEF Step

-----------------------------------------------------------------------------
(* The control invariant                                                   *)

ControlInv == \A p \in Proc : Control(p)

LEMMA InitControl == Init => ControlInv
  BY DEF Init, ControlInv, Control, At, OpenedAt, ClosedAt, HeldAt, TryingAt,
         LockingAt, CreateAt, WriteAt

\* What a process does touches no other process's manager.
LEMMA OthersUntouched ==
  ASSUME TypeOK, NEW p \in Proc, Step(p), NEW q \in Proc, q # p
  PROVE  UNCHANGED <<pc[q], stateFileOut[q], lockID[q], created[q], file[q],
                     readFile[q], backupFile[q], writtenBackup[q], pending[q], left[q],
                     writes[q]>>
<1> USE DEF Goto, Return, disk, snaps, count
<1>1. CASE Begin(p) \/ Retry(p) \/ Timeout(p) \/ RefreshState(p) \/ RefreshFails(p)
  BY <1>1 DEF Begin, Retry, Timeout, RefreshState, RefreshFails, TypeOK
<1>2. CASE Locking(p)
  BY <1>2 DEF Locking, StatPath, OpenPath, OpenPathFails, CreateFails, ReadForBackup,
              FcntlLock, CreateInfo, CreateInfoFails, FillInfo, ReadInfo, TypeOK
<1>3. CASE StartWrite(p)
  <2>1. UNCHANGED pending \/ \E x : pending' = [pending EXCEPT ![p] = x]
    BY <1>3 DEF StartWrite
  <2>2. \E l : pc' = [pc EXCEPT ![p] = l]
    BY <1>3 DEF StartWrite
  <2>3. /\ \E x, y, z : /\ file' = [file EXCEPT ![p] = x]
                        /\ readFile' = [readFile EXCEPT ![p] = y]
                        /\ left' = [left EXCEPT ![p] = z]
        /\ UNCHANGED <<stateFileOut, lockID, created, backupFile, writtenBackup>>
        /\ writes' = [writes EXCEPT ![p] = writes[p] + 1]
    BY <1>3 DEF StartWrite
  <2> QED
    BY <2>1, <2>2, <2>3 DEF TypeOK
<1>4. CASE Writing(p)
  BY <1>4 DEF Writing, CreateBackup, CreateBackupFails, FillBackup, FillBackupFails,
              Truncate, WriteData, TypeOK, TruncateFails, WriteDataFails, WriteFails,
              ReplaceState
<1>5. CASE Unlocking(p)
  BY <1>5 DEF Unlocking, BeginUnlock, RemoveInfo, Release, StatForCleanup,
              RemoveEmpty, TypeOK
<1>6. CASE Exit(p) \/ Crash(p)
  BY <1>6 DEF Exit, Crash, Forget, TypeOK
<1>7. CASE StartWriteFails(p)
  BY <1>7 DEF StartWriteFails, TypeOK
<1> QED
  BY <1>1, <1>2, <1>3, <1>4, <1>5, <1>6, <1>7 DEF Step

LEMMA ControlStep ==
  ASSUME TypeOK, ControlInv, NEW p \in Proc, Step(p)
  PROVE  ControlInv'
<1>1. ASSUME NEW q \in Proc, q # p PROVE Control(q)'
  BY <1>1, OthersUntouched DEF ControlInv, Control, At
<1>2. Control(p)'
  <2>0. Control(p)
    BY DEF ControlInv
  <2> USE DEF Control, At, Goto, Return, disk, snaps, count, OpenedAt, ClosedAt,
              HeldAt, TryingAt, LockingAt, CreateAt, WriteAt
  <2>1. CASE Begin(p)
    BY <2>0, <2>1 DEF Begin, TypeOK
  <2>2. CASE Locking(p)
    <3>1. CASE StatPath(p)
      BY <2>0, <3>1 DEF StatPath, TypeOK
    <3>2. CASE OpenPath(p)
      BY <2>0, <3>2, InodeAssumption DEF OpenPath, TypeOK
    <3>3. CASE OpenPathFails(p)
      BY <2>0, <3>3 DEF OpenPathFails, CreateFails, TypeOK
    <3>4. CASE ReadForBackup(p)
      BY <2>0, <3>4 DEF ReadForBackup, CreateFails, TypeOK
    <3>5. CASE FcntlLock(p)
      BY <2>0, <3>5 DEF FcntlLock, TypeOK
    <3>6. CASE CreateInfo(p) \/ CreateInfoFails(p) \/ FillInfo(p) \/ ReadInfo(p)
      BY <2>0, <3>6 DEF CreateInfo, CreateInfoFails, FillInfo, ReadInfo, TypeOK
    <3> QED
      BY <2>2, <3>1, <3>2, <3>3, <3>4, <3>5, <3>6 DEF Locking
  <2>3. CASE Retry(p) \/ Timeout(p)
    BY <2>0, <2>3 DEF Retry, Timeout, TypeOK
  <2>4. CASE RefreshState(p) \/ RefreshFails(p) \/ StartWriteFails(p)
    BY <2>0, <2>4 DEF RefreshState, RefreshFails, StartWriteFails, TypeOK
  <2>5. CASE StartWrite(p)
    <3>1. pending[p] = NoWrite /\ p \notin LockFree => stateFileOut[p] # Nil
      BY <2>0, <2>5 DEF StartWrite
    <3>2. \/ pc'[p] = "ready" /\ UNCHANGED pending
          \/ /\ pc'[p] = IF stateFileOut[p] = Nil THEN "stat" ELSE "backup"
             /\ pending'[p].op # "none"
      <4>1. \/ pc' = [pc EXCEPT ![p] = "ready"] /\ UNCHANGED pending
            \/ \E s \in State \cup {Nil}, m \in {Nil} \cup Metas :
                 /\ pending' = [pending EXCEPT ![p] =
                      [op |-> IF m = Nil THEN "write" ELSE "migrate",
                       state |-> s, meta |-> m]]
                 /\ pc' = [pc EXCEPT ![p] =
                      IF stateFileOut[p] = Nil THEN "stat" ELSE "backup"]
        BY <2>5 DEF StartWrite
      <4> QED
        BY <4>1 DEF TypeOK
    <3>3. pending'[p].op # "none" => pending'[p] # NoWrite
      BY DEF NoWrite
    <3>4. UNCHANGED <<stateFileOut, lockID>>
      BY <2>5 DEF StartWrite
    <3>5. pending[p] = NoWrite /\ (p \notin LockFree => lockID[p])
      BY <2>0, <2>5 DEF StartWrite
    <3>6. lockID[p] => stateFileOut[p] # Nil /\ p \notin LockFree
      BY <2>0
    <3>7. At(p, "ready")
      BY <2>5 DEF StartWrite
    <3> QED
      BY <2>0, <3>2, <3>3, <3>4, <3>5, <3>6, <3>7 DEF TypeOK
  <2>6. CASE Writing(p)
    <3>1. CASE CreateBackup(p) \/ FillBackup(p)
      BY <2>0, <3>1 DEF CreateBackup, FillBackup, TypeOK
    <3>2. CASE Truncate(p)
      <4>1. file'[p] # Nil
        BY <3>2, ReplacedFile, DataAssumption DEF Truncate, TypeOK
      <4> QED
        BY <2>0, <3>2, <4>1 DEF Truncate, TypeOK
    <3>3. CASE WriteData(p)
      BY <2>0, <3>3 DEF WriteData, TypeOK
    <3>4. CASE CreateBackupFails(p) \/ FillBackupFails(p) \/ TruncateFails(p)
                 \/ WriteDataFails(p)
      BY <2>0, <3>4 DEF CreateBackupFails, FillBackupFails, TruncateFails,
                        WriteDataFails, WriteFails, TypeOK
    <3> QED
      BY <2>6, <3>1, <3>2, <3>3, <3>4 DEF Writing
  <2>7. CASE Unlocking(p)
    BY <2>0, <2>7 DEF Unlocking, BeginUnlock, RemoveInfo, Release, StatForCleanup,
                      RemoveEmpty, TypeOK
  <2>8. CASE Exit(p) \/ Crash(p)
    BY <2>0, <2>8 DEF Exit, Crash, Forget, TypeOK
  <2> QED
    BY <2>1, <2>2, <2>3, <2>4, <2>5, <2>6, <2>7, <2>8 DEF Step
<1> QED
  BY <1>1, <1>2 DEF ControlInv

IInv == TypeOK /\ ControlInv

LEMMA InductiveStep == IInv /\ [Next]_vars => IInv'
<1>1. ASSUME IInv, NEW p \in Proc, Step(p) PROVE IInv'
  BY <1>1, TypeStep, ControlStep DEF IInv, ControlInv
<1>2. ASSUME IInv, UNCHANGED vars PROVE IInv'
  <2> USE <1>2 DEF vars, disk, snaps, count
  <2>1. TypeOK'
    BY DEF IInv, TypeOK
  <2>2. ControlInv'
    BY DEF IInv, ControlInv, Control, At
  <2> QED
    BY <2>1, <2>2 DEF IInv
<1> QED
  BY <1>1, <1>2 DEF Next

LEMMA Inductive == Spec => []IInv
<1>1. Init => IInv
  BY InitType, InitControl DEF IInv
<1> QED
  BY <1>1, InductiveStep, PTL DEF Spec

\* Every variable of the manager keeps its type, whatever is locked, written,
\* torn or crashed (the fields of Filesystem).
THEOREM TypeCorrect == Spec => []TypeOK
<1>1. IInv => TypeOK
  BY DEF IInv
<1> QED
  BY <1>1, Inductive, PTL

-----------------------------------------------------------------------------
(* A manager that believes it holds the lock owns the fcntl lock of the    *)
(* inode it has open, whatever happens to the directory entry.             *)

LockInv == \A p \in Proc : lockID[p] => flock[stateFileOut[p]] = p

LEMMA LockStep ==
  ASSUME IInv, LockInv, NEW p \in Proc, Step(p)
  PROVE  LockInv'
<1> SUFFICES ASSUME NEW q \in Proc, lockID'[q]
             PROVE  flock'[stateFileOut'[q]] = q
  BY DEF LockInv
<1>1. CASE q = p
  <2> USE DEF Goto, Return, At, disk, snaps, count
  <2>1. CASE FcntlLock(p)
    <3>1. stateFileOut[p] \in Inode
      BY <2>1 DEF IInv, TypeOK, ControlInv, Control, OpenedAt, FcntlLock
    <3> QED
      BY <1>1, <2>1, <3>1 DEF FcntlLock, IInv, TypeOK, ControlInv, Control, TryingAt
  <2>2. CASE OpenPath(p)
    BY <1>1, <2>2 DEF OpenPath, IInv, TypeOK, ControlInv, Control, ClosedAt
  <2>3. CASE Release(p) \/ Exit(p) \/ Crash(p)
    BY <1>1, <2>3 DEF Release, Exit, Crash, Forget, IInv, TypeOK
  <2>4. UNCHANGED <<lockID, stateFileOut, flock>> \/ FcntlLock(p)
          \/ OpenPath(p) \/ Release(p) \/ Exit(p) \/ Crash(p)
    BY DEF Step, Begin, Locking, StatPath, OpenPathFails, CreateFails, ReadForBackup,
           CreateInfo, CreateInfoFails, FillInfo, ReadInfo, Retry, Timeout,
           RefreshState, RefreshFails, StartWrite, StartWriteFails, Writing,
           CreateBackup, CreateBackupFails, FillBackup, FillBackupFails, Truncate,
           WriteData, Unlocking, BeginUnlock, RemoveInfo, StatForCleanup, RemoveEmpty,
           TruncateFails, WriteDataFails, WriteFails, ReplaceState
  <2> QED
    BY <1>1, <2>1, <2>2, <2>3, <2>4 DEF LockInv
<1>2. CASE q # p
  <2>1. /\ lockID[q] /\ stateFileOut'[q] = stateFileOut[q]
        /\ flock[stateFileOut[q]] = q
        /\ stateFileOut[q] \in Inode
    BY <1>2, OthersUntouched DEF LockInv, IInv, TypeOK, ControlInv, Control
  <2>2. \A i \in Inode : flock[i] = q => flock'[i] = q
    <3> USE DEF disk
    <3>1. CASE FcntlLock(p)
      BY <1>2, <3>1, ProcAssumption DEF FcntlLock, IInv, TypeOK
    <3>2. CASE Release(p)
      <4>1. flock[stateFileOut[p]] = p
        BY <3>2 DEF Release, LockInv, IInv, ControlInv, Control, At, HeldAt, LockingAt
      <4> QED
        BY <1>2, <3>2, <4>1 DEF Release, IInv, TypeOK
    <3>3. CASE Exit(p) \/ Crash(p)
      BY <1>2, <3>3 DEF Exit, Crash, Forget
    <3>4. UNCHANGED flock \/ FcntlLock(p) \/ Release(p) \/ Exit(p) \/ Crash(p)
      BY DEF Step, Begin, Locking, StatPath, OpenPath, OpenPathFails, CreateFails,
             ReadForBackup, CreateInfo, CreateInfoFails, FillInfo, ReadInfo, Retry,
             Timeout, RefreshState, RefreshFails, StartWrite, StartWriteFails,
             Writing, CreateBackup, CreateBackupFails, FillBackup, FillBackupFails,
             Truncate, WriteData, Unlocking, BeginUnlock, RemoveInfo, StatForCleanup,
             RemoveEmpty, TruncateFails, WriteDataFails, WriteFails, ReplaceState
    <3> QED
      BY <3>1, <3>2, <3>3, <3>4
  <2> QED
    BY <2>1, <2>2
<1> QED
  BY <1>1, <1>2

LEMMA LockInvariant == Spec => []LockInv
<1>1. Init => LockInv
  BY DEF Init, LockInv
<1>2. IInv /\ LockInv /\ [Next]_vars => LockInv'
  BY LockStep DEF Next, vars, disk, LockInv
<1> QED
  BY <1>1, <1>2, Inductive, PTL DEF Spec

-----------------------------------------------------------------------------
(* When the state file exists from the start no manager has created it, so *)
(* none removes it: every open file is the one at path.                    *)

PathInv ==
    /\ dirEntry # Nil
    /\ \A p \in Proc : /\ ~created[p] /\ pc[p] # "remove"
                       /\ stateFileOut[p] \in {Nil, dirEntry}

LEMMA PathStep ==
  ASSUME IInv, PathInv, NEW p \in Proc, Step(p)
  PROVE  PathInv'
<1> USE DEF Goto, Return, At, disk, snaps, count
<1>1. dirEntry' = dirEntry
  BY DEF PathInv, Step, Begin, Locking, StatPath, OpenPath, OpenPathFails,
         CreateFails, ReadForBackup, FcntlLock, CreateInfo, CreateInfoFails, FillInfo,
         ReadInfo, Retry, Timeout, RefreshState, RefreshFails, StartWrite,
         StartWriteFails, Writing, CreateBackup, CreateBackupFails, FillBackup,
         FillBackupFails, Truncate, WriteData, Unlocking, BeginUnlock, RemoveInfo,
         Release, StatForCleanup, RemoveEmpty, Exit, Crash, TruncateFails,
         WriteDataFails, WriteFails, ReplaceState
<1>2. ~created'[p] /\ stateFileOut'[p] \in {Nil, dirEntry}
  BY DEF PathInv, IInv, TypeOK, Step, Begin, Locking, StatPath, OpenPath,
         OpenPathFails, CreateFails, ReadForBackup, FcntlLock, CreateInfo,
         CreateInfoFails, FillInfo, ReadInfo, Retry, Timeout, RefreshState,
         RefreshFails, StartWrite, StartWriteFails, Writing, CreateBackup,
         CreateBackupFails, FillBackup, FillBackupFails, Truncate, WriteData,
         Unlocking, BeginUnlock, RemoveInfo, Release, StatForCleanup, RemoveEmpty,
         Exit, Crash, Forget, TruncateFails, WriteDataFails, WriteFails, ReplaceState
<1>3. pc'[p] # "remove"
  <2>1. CASE StartWrite(p)
    BY <2>1 DEF PathInv, IInv, TypeOK, StartWrite
  <2>2. CASE Unlocking(p)
    BY <2>2 DEF PathInv, IInv, TypeOK, Unlocking, BeginUnlock, RemoveInfo, Release,
                StatForCleanup, RemoveEmpty
  <2>3. CASE Begin(p) \/ Locking(p) \/ Retry(p) \/ Timeout(p) \/ RefreshState(p)
               \/ RefreshFails(p) \/ StartWriteFails(p)
    BY <2>3 DEF PathInv, IInv, TypeOK, Begin, Locking, StatPath, OpenPath,
                OpenPathFails, CreateFails, ReadForBackup, FcntlLock, CreateInfo,
                CreateInfoFails, FillInfo, ReadInfo, Retry, Timeout, RefreshState,
                RefreshFails, StartWriteFails
  <2>4. CASE Writing(p) \/ Exit(p) \/ Crash(p)
    BY <2>4 DEF PathInv, IInv, TypeOK, Writing, CreateBackup, CreateBackupFails,
                FillBackup, FillBackupFails, Truncate, WriteData, Exit, Crash, Forget,
                TruncateFails, WriteDataFails, WriteFails, ReplaceState
  <2> QED
    BY <2>1, <2>2, <2>3, <2>4 DEF Step
<1> QED
  BY <1>1, <1>2, <1>3, OthersUntouched DEF PathInv, IInv

LEMMA PathInvariant == ASSUME FileExists PROVE Spec => []PathInv
<1>1. Init => PathInv
  BY InodeAssumption DEF Init, PathInv
<1>2. IInv /\ PathInv /\ [Next]_vars => PathInv'
  BY PathStep DEF Next, vars, disk, PathInv
<1> QED
  BY <1>1, <1>2, Inductive, PTL DEF Spec

\* Two managers with the lock own the fcntl lock of the same inode.
LEMMA Exclusion ==
  ASSUME IInv, LockInv, PathInv
  PROVE  MutualExclusion /\ HolderUsesPath
  BY DEF IInv, ControlInv, Control, LockInv, PathInv, MutualExclusion, HolderUsesPath,
         Holds

\* If the state file exists before the first command, no two managers hold the
\* lock at once, whatever crashes (Lock and Unlock of Filesystem; it fails for
\* a file they create).
THEOREM LockExcludes ==
  ASSUME FileExists
  PROVE  Spec => []MutualExclusion
  BY Exclusion, Inductive, LockInvariant, PathInvariant, PTL

\* And the holder has the file at path open, so that others will read what it
\* writes.
THEOREM HolderHasPath ==
  ASSUME FileExists
  PROVE  Spec => []HolderUsesPath
  BY Exclusion, Inductive, LockInvariant, PathInvariant, PTL

-----------------------------------------------------------------------------
(* Under the lock, what a manager has read or written last is what its     *)
(* file holds.                                                             *)

\* An empty file stands for a nil state, and a manager that has truncated the
\* file is about to fill it.
DataInv ==
    /\ \A i \in Inode : data[i] \in Snapshot => data[i].state # Nil
    /\ \A p \in Proc : At(p, "write") =>
          /\ data[stateFileOut[p]] = Nil
          /\ file[p].state # Nil

LEMMA DataKept ==
  ASSUME IInv, LockInv, LockFree = {}, NEW p \in Proc, Step(p),
         NEW q \in Proc, q # p, lockID[q]
  PROVE  data'[stateFileOut[q]] = data[stateFileOut[q]]
<1>1. stateFileOut[q] \in Inode /\ flock[stateFileOut[q]] = q
  BY DEF IInv, TypeOK, ControlInv, Control, LockInv
<1>2. CASE OpenPath(p)
  BY <1>1, <1>2 DEF OpenPath, Unused, IInv, TypeOK
<1>3. CASE Truncate(p) \/ WriteData(p) \/ WriteDataFails(p) \/ (Crash(p) /\ At(p, "write"))
  <2>1. lockID[p]
    BY <1>3 DEF Truncate, WriteData, WriteDataFails, At, IInv, ControlInv, Control, HeldAt
  <2>2. stateFileOut[p] # stateFileOut[q]
    BY <1>1, <2>1 DEF LockInv
  <2> QED
    BY <1>1, <1>3, <2>2 DEF Truncate, WriteData, WriteDataFails, Crash, IInv, TypeOK
<1>4. UNCHANGED data \/ OpenPath(p) \/ Truncate(p) \/ WriteData(p) \/ WriteDataFails(p)
        \/ (Crash(p) /\ At(p, "write"))
  BY DEF disk, Step, Begin, Locking, StatPath, OpenPathFails, CreateFails,
         ReadForBackup, FcntlLock, CreateInfo, CreateInfoFails, FillInfo,
         ReadInfo, Retry, Timeout, RefreshState, RefreshFails, StartWrite,
         StartWriteFails, Writing, CreateBackup, CreateBackupFails, FillBackup,
         FillBackupFails, TruncateFails, Unlocking, BeginUnlock, RemoveInfo,
         Release, StatForCleanup, RemoveEmpty, Exit, Crash
<1> QED
  BY <1>2, <1>3, <1>4

LEMMA StampedState ==
  ASSUME TypeOK, NEW p \in Proc, file[p] # Nil
  PROVE  Stamped(p).state = file[p].state
<1>1. file[p] \in Snapshot
  BY DEF TypeOK
<1>2. [file[p] EXCEPT !.serial = @ + 1].state = file[p].state
  BY <1>1 DEF Snapshot
<1> QED
  BY <1>2 DEF Stamped

LEMMA DataStep ==
  ASSUME IInv, LockInv, DataInv, LockFree = {}, NEW p \in Proc, Step(p)
  PROVE  DataInv'
<1> USE DEF At
<1>1. ASSUME NEW i \in Inode, data'[i] \in Snapshot PROVE data'[i].state # Nil
  <2>1. CASE WriteData(p)
    <3>1. Stamped(p).state # Nil
      BY <2>1, StampedState DEF WriteData, DataInv, IInv, ControlInv, Control
    <3>2. PICK d \in {Stamped(p), Torn} :
             data' = [data EXCEPT ![stateFileOut[p]] = d]
      BY <2>1 DEF WriteData
    <3> QED
      BY <1>1, <3>1, <3>2, DataAssumption DEF DataInv, IInv, TypeOK
  <2>2. CASE OpenPath(p) \/ Truncate(p) \/ WriteDataFails(p) \/ Crash(p)
    BY <1>1, <2>2, DataAssumption
    DEF OpenPath, Truncate, WriteDataFails, Crash, DataInv, IInv, TypeOK
  <2>3. UNCHANGED data \/ WriteData(p) \/ OpenPath(p) \/ Truncate(p)
          \/ WriteDataFails(p) \/ Crash(p)
    BY DEF disk, Step, Begin, Locking, StatPath, OpenPathFails, CreateFails,
           ReadForBackup, FcntlLock, CreateInfo, CreateInfoFails, FillInfo, ReadInfo,
           Retry, Timeout, RefreshState, RefreshFails, StartWrite, StartWriteFails,
           Writing, CreateBackup, CreateBackupFails, FillBackup, FillBackupFails,
           Unlocking, BeginUnlock, RemoveInfo, Release, StatForCleanup, RemoveEmpty,
           Exit, TruncateFails, WriteDataFails, WriteFails, ReplaceState
  <2> QED
    BY <1>1, <2>1, <2>2, <2>3 DEF DataInv
<1>2. ASSUME NEW q \in Proc, At(q, "write")'
      PROVE  data'[stateFileOut'[q]] = Nil /\ file'[q].state # Nil
  <2>1. CASE q # p
    <3>1. At(q, "write") /\ lockID[q] /\ UNCHANGED <<stateFileOut[q], file[q]>>
      BY <1>2, <2>1, OthersUntouched DEF IInv, ControlInv, Control, HeldAt
    <3> QED
      BY <2>1, <3>1, DataKept DEF DataInv
  <2>2. CASE q = p
    <3> USE DEF Goto, Return
    <3>1. Truncate(p)
      <4>1. ~StartWrite(p)
        <5>1. StartWrite(p) => \E l \in {"ready", "stat", "backup"} :
                                  pc' = [pc EXCEPT ![p] = l]
          BY DEF StartWrite
        <5> QED
          BY <1>2, <2>2, <5>1 DEF IInv, TypeOK, At
      <4>2. ~Locking(p) /\ ~Unlocking(p)
        BY <1>2, <2>2 DEF IInv, TypeOK, Locking, StatPath, OpenPath, OpenPathFails,
           CreateFails, ReadForBackup, FcntlLock, CreateInfo, CreateInfoFails,
           FillInfo, ReadInfo, Unlocking, BeginUnlock, RemoveInfo, Release,
           StatForCleanup, RemoveEmpty
      <4>3. Writing(p) => Truncate(p)
        BY <1>2, <2>2 DEF IInv, TypeOK, Writing, CreateBackup, CreateBackupFails,
           FillBackup, FillBackupFails, TruncateFails, WriteData, WriteDataFails,
           WriteFails
      <4>4. Writing(p)
        BY <1>2, <2>2, <4>1, <4>2 DEF IInv, TypeOK, Step, Begin, Retry, Timeout,
           RefreshState, RefreshFails, StartWriteFails, Exit, Crash, Forget
      <4> QED
        BY <4>3, <4>4
    <3>2. pending[p].state # Nil
      BY <1>2, <2>2, <3>1 DEF Truncate, IInv, TypeOK
    <3>3. stateFileOut[p] \in Inode
      BY <3>1 DEF Truncate, IInv, TypeOK, ControlInv, Control, OpenedAt
    <3>4. data'[stateFileOut'[p]] = Nil
      BY <3>1, <3>3 DEF Truncate, IInv, TypeOK
    <3>5. file'[p].state = pending[p].state
      BY <3>1, ReplacedFile DEF Truncate, IInv, TypeOK
    <3> QED
      BY <2>2, <3>2, <3>4, <3>5
  <2> QED
    BY <2>1, <2>2
<1> QED
  BY <1>1, <1>2 DEF DataInv

\* A process that keeps its file and has left no wreck knows what it knew.
LEMMA KnownKept ==
  ASSUME NEW p \in Proc, UNCHANGED <<file[p], left[p]>>
  PROVE  Known(p)' = Known(p)
  BY DEF Known, OnDisk

LEMMA UpdateStep ==
  ASSUME IInv, LockInv, DataInv, NoLostUpdate, LockFree = {},
         NEW p \in Proc, Step(p)
  PROVE  NoLostUpdate'
<1> USE DEF At, Holds, InUse
<1> SUFFICES ASSUME NEW q \in Proc, InUse(q)'
             PROVE  Known(q)' = {data'[stateFileOut'[q]]}
  BY DEF NoLostUpdate
<1>1. CASE q # p
  <2>1. InUse(q) /\ UNCHANGED <<stateFileOut[q], file[q], left[q]>>
    BY <1>1, OthersUntouched DEF IInv
  <2> QED
    BY <1>1, <2>1, DataKept, KnownKept DEF NoLostUpdate
<1>2. CASE q = p
  <2> USE DEF Goto, Return, disk, snaps, count
  <2>0. lockID[p] => stateFileOut[p] \in Inode
    BY DEF IInv, TypeOK, ControlInv, Control
  <2>1. ASSUME lockID[p], UNCHANGED <<data, stateFileOut>>, Contents(p) # Torn,
               file'[p] = Contents(p), left'[p] = {}
        PROVE  Known(q)' = {data'[stateFileOut'[q]]}
    <3>1. Contents(p) = data[stateFileOut[p]]
      BY <2>0, <2>1, InodeAssumption DEF Contents
    <3>2. OnDisk(file[p])' = data[stateFileOut[p]]
      BY <2>0, <2>1, <3>1 DEF OnDisk, DataInv, IInv, TypeOK
    <3> QED
      BY <1>2, <2>1, <3>2 DEF Known
  <2>2. CASE RefreshState(p)
    <3>1. /\ lockID[p] /\ Contents(p) # Torn
          /\ UNCHANGED <<data, stateFileOut>>
          /\ file'[p] = Contents(p) /\ left'[p] = {}
      BY <1>2, <2>2 DEF RefreshState, IInv, TypeOK
    <3> QED
      BY <2>1, <3>1
  <2>3. CASE StartWrite(p)
    <3>1. lockID[p] /\ InUse(p) /\ UNCHANGED <<data, stateFileOut>>
      BY <1>2, <2>3 DEF StartWrite
    <3>2. CASE UNCHANGED <<file[p], left[p]>>
      BY <1>2, <3>1, <3>2, KnownKept DEF NoLostUpdate
    <3>3. \/ UNCHANGED <<file[p], left[p]>>
          \/ file'[p] = Contents(p) /\ left'[p] = {} /\ Contents(p) # Torn
      BY <2>3 DEF StartWrite, IInv, TypeOK
    <3> QED
      BY <2>1, <3>1, <3>2, <3>3
  <2>4. CASE CreateBackup(p) \/ CreateBackupFails(p) \/ FillBackup(p)
               \/ FillBackupFails(p) \/ StartWriteFails(p)
    <3>1. InUse(p) /\ UNCHANGED <<data, stateFileOut, file, left>>
      BY <1>2, <2>4 DEF CreateBackup, CreateBackupFails, FillBackup,
                        FillBackupFails, StartWriteFails, WriteFails
    <3> QED
      BY <1>2, <3>1, KnownKept DEF NoLostUpdate
  <2>5. CASE Truncate(p)
    <3>1. lockID[p] /\ pending[p].state = Nil /\ stateFileOut' = stateFileOut
      BY <1>2, <2>5 DEF Truncate, IInv, TypeOK
    <3>2. data'[stateFileOut[p]] = Nil /\ left'[p] = {}
      BY <2>0, <2>5, <3>1 DEF Truncate, IInv, TypeOK
    <3>3. file'[p].state = Nil
      BY <2>5, <3>1, ReplacedFile DEF Truncate, IInv, TypeOK
    <3> QED
      BY <1>2, <3>1, <3>2, <3>3 DEF OnDisk, Known
  <2>6. CASE TruncateFails(p)
    <3>1. lockID[p] /\ InUse(p) /\ UNCHANGED <<data, stateFileOut>>
      BY <1>2, <2>6 DEF TruncateFails
    <3>2. left'[p] = {data[stateFileOut[p]]}
      BY <2>6, <3>1 DEF TruncateFails, NoLostUpdate, IInv, TypeOK
    <3> QED
      BY <1>2, <3>1, <3>2 DEF Known
  <2>7. CASE WriteData(p)
    <3>1. lockID[p] /\ stateFileOut' = stateFileOut
      BY <1>2, <2>7 DEF WriteData
    <3>2. data[stateFileOut[p]] = Nil /\ file[p] # Nil
      BY <2>7 DEF WriteData, DataInv, IInv, ControlInv, Control
    <3>3. data'[stateFileOut[p]] = Stamped(p) /\ file'[p] = Stamped(p) /\ left'[p] = {}
      BY <2>0, <2>7, <3>1, <3>2 DEF WriteData, IInv, TypeOK
    <3>4. Stamped(p) \in Snapshot /\ Stamped(p).state # Nil
      BY <2>7, <3>2, StampedType, StampedState DEF WriteData, DataInv, IInv
    <3> QED
      BY <1>2, <3>1, <3>3, <3>4, DataAssumption DEF OnDisk, Known
  <2>8. CASE WriteDataFails(p)
    <3>1. lockID[p] /\ stateFileOut' = stateFileOut
      BY <1>2, <2>8 DEF WriteDataFails
    <3>2. left'[p] = {data'[stateFileOut[p]]}
      BY <2>0, <2>8, <3>1 DEF WriteDataFails, IInv, TypeOK
    <3> QED
      BY <1>2, <3>1, <3>2 DEF Known
  <2>9. RefreshState(p) \/ StartWrite(p) \/ StartWriteFails(p) \/ Writing(p)
    <3>1. CASE Begin(p) \/ Retry(p) \/ Timeout(p) \/ RefreshFails(p) \/ Unlocking(p)
      BY <1>2, <3>1 DEF IInv, TypeOK, Begin, Retry, Timeout, RefreshFails, Unlocking,
                        BeginUnlock, RemoveInfo, Release, StatForCleanup,
                        RemoveEmpty
    <3>2. CASE Locking(p)
      BY <1>2, <3>2 DEF IInv, TypeOK, ControlInv, Control, CreateAt, Locking,
                        StatPath, OpenPath, OpenPathFails, CreateFails,
                        ReadForBackup, FcntlLock, CreateInfo, CreateInfoFails,
                        FillInfo, ReadInfo, ClosedAt, TryingAt
    <3>3. CASE Exit(p) \/ Crash(p)
      BY <1>2, <3>3 DEF IInv, TypeOK, Exit, Crash, Forget
    <3> QED
      BY <3>1, <3>2, <3>3 DEF Step
  <2> QED
    BY <2>2, <2>3, <2>4, <2>5, <2>6, <2>7, <2>8, <2>9 DEF Writing
<1> QED
  BY <1>1, <1>2

\* What is on disk is what the manager at work knows.
LEMMA DataInvariant ==
  ASSUME LockFree = {}
  PROVE  Spec => [](DataInv /\ NoLostUpdate)
<1>1. Init => DataInv /\ NoLostUpdate
  BY DataAssumption DEF Init, DataInv, NoLostUpdate, InUse, Holds, At, Snapshot
<1>2. IInv /\ LockInv /\ DataInv /\ NoLostUpdate /\ [Next]_vars
        => (DataInv /\ NoLostUpdate)'
  <2>1. ASSUME IInv, LockInv, DataInv, NoLostUpdate, NEW p \in Proc, Step(p)
        PROVE  (DataInv /\ NoLostUpdate)'
    BY <2>1, DataStep, UpdateStep
  <2>2. ASSUME DataInv, NoLostUpdate, UNCHANGED vars
        PROVE  (DataInv /\ NoLostUpdate)'
    BY <2>2 DEF vars, disk, snaps, count, DataInv, NoLostUpdate, InUse, Holds, At,
                Known, OnDisk
  <2> QED
    BY <2>1, <2>2 DEF Next
<1> QED
  BY <1>1, <1>2, Inductive, LockInvariant, PTL DEF Spec

\* When every command locks the state, a manager that is about to replace the
\* contents of its file has read or written exactly these contents: no
\* snapshot of another process is lost (Lock, refreshState, writeState).
THEOREM NoUpdateLost ==
  ASSUME LockFree = {}
  PROVE  Spec => []NoLostUpdate
<1>1. DataInv /\ NoLostUpdate => NoLostUpdate
  OBVIOUS
<1> QED
  BY <1>1, DataInvariant, PTL
=============================================================================
