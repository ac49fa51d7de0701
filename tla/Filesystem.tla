----------------------------- MODULE Filesystem -----------------------------
(***************************************************************************)
(* The filesystem state manager (statemgr.Filesystem) as it is used by     *)
(* several Terraform processes that share one state file: every process    *)
(* obtains the lock with LockWithContext, refreshes, writes some           *)
(* snapshots, unlocks and exits.  A process may crash at any step, and     *)
(* each system call may fail.  A lineage of 0 is no lineage.               *)
(*                                                                         *)
(* One action is one system call of the manager (or the in-memory work     *)
(* between two of them), since that is where processes interleave.         *)
(***************************************************************************)
EXTENDS Integers, FiniteSets

CONSTANTS
    Proc,         \* the Terraform processes
    LockFree,     \* those that run with -lock=false
    State,        \* the contents a state can have
    Inode,        \* the files the directory entry of the state can name
    Nil,          \* no process, no inode, no snapshot, a nil state
    Torn,         \* contents that do not parse: an interrupted write
    FileExists,   \* TRUE iff the state file exists before the first command
    BackupOn,     \* FALSE iff backups are disabled (-backup=-)
    IOMayFail,    \* TRUE iff opening, reading and writing files may fail
    Reuse,        \* TRUE iff a manager may be locked again after Unlock
    Metas,        \* the metadata a migrated snapshot may carry
    MaxSession,   \* bound: lock sessions per process
    MaxWrite      \* bound: snapshots written per session

Snapshot == [lineage : Nat, serial : Nat, state : State \cup {Nil}]

ASSUME ProcAssumption  == LockFree \subseteq Proc /\ Nil \notin Proc
                          /\ Torn \notin Proc
ASSUME InodeAssumption == IsFiniteSet(Inode) /\ Nil \notin Inode
ASSUME DataAssumption  == /\ Nil \notin State
                          /\ Nil \notin Snapshot /\ Torn \notin Snapshot
                          /\ Nil # Torn
ASSUME FlagAssumption  == {FileExists, BackupOn, IOMayFail, Reuse} \subseteq BOOLEAN
ASSUME BoundAssumption == /\ MaxSession \in Nat /\ MaxWrite \in Nat
                          /\ Metas \subseteq [lineage : Nat, serial : Nat]

-----------------------------------------------------------------------------
VARIABLES
    \* the file system that the processes share
    dirEntry,       \* the inode at path, Nil when there is no such file
    data,           \* the contents of each inode, Nil when it is empty
    flock,          \* the process that holds the fcntl lock of each inode
    info,           \* the contents of the lock info file, Nil when absent
    backup,         \* the contents of the file at backupPath
    \* the fields of each process's manager
    stateFileOut, lockID, created, file, readFile, backupFile, writtenBackup,
    \* the point each process has reached, and the arguments of its call
    pc, pending, result,
    \* bookkeeping: lineages handed out, bounds, the contents that the write in
    \* progress has clobbered, what a failed write has left in the file
    nextLineage, session, writes, clobbered, left

disk   == <<dirEntry, data, flock, info, backup>>
snaps  == <<file, readFile, backupFile, writtenBackup>>
count  == <<nextLineage, session, writes, clobbered, left>>
vars   == <<disk, stateFileOut, lockID, created, snaps, pc, pending, result, count>>

NoWrite == [op |-> "none", state |-> Nil, meta |-> Nil]

WriteArg == [op : {"none", "write", "migrate"}, state : State \cup {Nil},
             meta : {Nil} \cup [lineage : Nat, serial : Nat]]

PC == {"start", "stat", "open", "readBackup", "fcntl", "readInfo", "wait",
       "writeInfo", "fillInfo", "refresh", "ready", "backup", "fillBackup",
       "write", "rmInfo", "release", "cleanup", "remove", "unlocked",
       "failed", "gone"}

TypeOK ==
    /\ dirEntry \in Inode \cup {Nil}
    /\ data \in [Inode -> Snapshot \cup {Nil, Torn}]
    /\ flock \in [Inode -> Proc \cup {Nil}]
    /\ info \in Proc \cup {Nil, Torn}
    /\ backup \in Snapshot \cup {Nil, Torn}
    /\ stateFileOut \in [Proc -> Inode \cup {Nil}]
    /\ lockID \in [Proc -> BOOLEAN]
    /\ created \in [Proc -> BOOLEAN]
    /\ file \in [Proc -> Snapshot \cup {Nil}]
    /\ readFile \in [Proc -> Snapshot \cup {Nil}]
    /\ backupFile \in [Proc -> Snapshot \cup {Nil}]
    /\ writtenBackup \in [Proc -> BOOLEAN]
    /\ pc \in [Proc -> PC]
    /\ pending \in [Proc -> WriteArg]
    /\ result \in [Proc -> {"none", "ok", "error", "noInfo", "timeout"}]
    /\ nextLineage \in Nat
    /\ session \in [Proc -> Nat]
    /\ writes \in [Proc -> Nat]
    /\ clobbered \in Snapshot \cup {Nil, Torn}
    /\ left \in [Proc -> SUBSET (Snapshot \cup {Nil, Torn})]

Init ==
    /\ \E i \in Inode, s \in State :
          IF FileExists
          THEN /\ dirEntry = i
               /\ data = [j \in Inode |->
                    IF j = i THEN [lineage |-> 1, serial |-> 2, state |-> s] ELSE Nil]
          ELSE dirEntry = Nil /\ data = [j \in Inode |-> Nil]
    /\ flock = [i \in Inode |-> Nil]
    /\ info = Nil /\ backup = Nil
    /\ stateFileOut = [p \in Proc |-> Nil]
    /\ lockID = [p \in Proc |-> FALSE]
    /\ created = [p \in Proc |-> FALSE]
    /\ file = [p \in Proc |-> Nil]
    /\ readFile = [p \in Proc |-> Nil]
    /\ backupFile = [p \in Proc |-> Nil]
    /\ writtenBackup = [p \in Proc |-> FALSE]
    /\ pc = [p \in Proc |-> "start"]
    /\ pending = [p \in Proc |-> NoWrite]
    /\ result = [p \in Proc |-> "none"]
    /\ nextLineage = 2
    /\ session = [p \in Proc |-> 0]
    /\ writes = [p \in Proc |-> 0]
    /\ clobbered = Nil
    /\ left = [p \in Proc |-> {}]

-----------------------------------------------------------------------------
At(p, l)    == pc[p] = l
Goto(p, l)  == pc' = [pc EXCEPT ![p] = l]
Return(p, r, l) == Goto(p, l) /\ result' = [result EXCEPT ![p] = r]

\* Nothing refers to inode i: open(O_CREATE) may hand it out.
Unused(i) == i # dirEntry /\ \A p \in Proc : stateFileOut[p] # i

\* statefile.Read of the contents at path, or of the open file.
Contents(p) ==
    IF stateFileOut[p] # Nil THEN data[stateFileOut[p]]
    ELSE IF dirEntry # Nil THEN data[dirEntry] ELSE Nil

\* What a manager whose s.file is f has left on disk: a nil state is an
\* empty file.
OnDisk(f) == IF f = Nil \/ f.state = Nil THEN Nil ELSE f

\* What a manager knows of its file: what it read or wrote, but after an error
\* of its own write what that has left.
Known(p) == IF left[p] = {} THEN {OnDisk(file[p])} ELSE left[p]

StatesMarshalEqual(a, b) == a # Nil /\ b # Nil /\ a = b

Begin(p) ==
    /\ At(p, "start") \/ (Reuse /\ At(p, "unlocked"))
    /\ session[p] < MaxSession
    /\ session' = [session EXCEPT ![p] = @ + 1]
    /\ writes' = [writes EXCEPT ![p] = 0]
    /\ Return(p, "none", IF p \in LockFree THEN "refresh" ELSE "stat")
    /\ UNCHANGED <<disk, stateFileOut, lockID, created, snaps, pending,
                   nextLineage, clobbered, left>>

-----------------------------------------------------------------------------
(* createStateFiles, called by Lock and by writeState when no file is open *)

StatPath(p) ==
    /\ At(p, "stat")
    /\ created' = [created EXCEPT ![p] = @ \/ dirEntry = Nil]
    /\ Goto(p, "open")
    /\ UNCHANGED <<disk, stateFileOut, lockID, snaps, pending, result, count>>

OpenPath(p) ==
    /\ At(p, "open")
    /\ IF dirEntry = Nil
       THEN \E i \in Inode :
              /\ Unused(i)
              /\ dirEntry' = i
              /\ data' = [data EXCEPT ![i] = Nil]
              /\ stateFileOut' = [stateFileOut EXCEPT ![p] = i]
       ELSE /\ stateFileOut' = [stateFileOut EXCEPT ![p] = dirEntry]
            /\ UNCHANGED <<dirEntry, data>>
    /\ Goto(p, "readBackup")
    /\ UNCHANGED <<flock, info, backup, lockID, created, snaps, pending, result, count>>

\* An error of createStateFiles is the error of Lock, but writeState turns
\* it into a nil error.
CreateFails(p) ==
    /\ IF pending[p] = NoWrite
       THEN Return(p, "error", "failed")
       ELSE Return(p, "ok", "ready")
    /\ pending' = [pending EXCEPT ![p] = NoWrite]

OpenPathFails(p) ==
    /\ At(p, "open") /\ IOMayFail
    /\ CreateFails(p)
    /\ UNCHANGED <<disk, stateFileOut, lockID, created, snaps, count>>

\* Mutant: a parse error of the file is ignored.
ReadForBackupUnchecked(p) ==
    /\ At(p, "readBackup")
    /\ Goto(p, IF pending[p] = NoWrite THEN "fcntl" ELSE "backup")
    /\ backupFile' = [backupFile EXCEPT ![p] = Contents(p)]
    /\ UNCHANGED <<disk, stateFileOut, lockID, created, file, readFile,
                   writtenBackup, pending, result, count>>

ReadForBackup(p) ==
    /\ At(p, "readBackup")
    /\ IF Contents(p) = Torn
       THEN /\ CreateFails(p)
            /\ backupFile' = [backupFile EXCEPT ![p] = Nil]
       ELSE /\ Goto(p, IF pending[p] = NoWrite THEN "fcntl" ELSE "backup")
            /\ backupFile' = [backupFile EXCEPT ![p] = Contents(p)]
            /\ UNCHANGED <<pending, result>>
    /\ UNCHANGED <<disk, stateFileOut, lockID, created, file, readFile,
                   writtenBackup, count>>

-----------------------------------------------------------------------------
(* Lock and the retry loop of LockWithContext                              *)

\* Mutant: the lock is taken with F_RDLCK, which other processes share.
FcntlLockShared(p) ==
    /\ At(p, "fcntl")
    /\ flock' = [flock EXCEPT ![stateFileOut[p]] = p]
    /\ lockID' = [lockID EXCEPT ![p] = TRUE]
    /\ Goto(p, "writeInfo")
    /\ UNCHANGED <<dirEntry, data, info, backup, stateFileOut, created, snaps,
                   pending, result, count>>

FcntlLock(p) ==
    /\ At(p, "fcntl")
    /\ LET i == stateFileOut[p] IN
       IF flock[i] \in {Nil, p}
       THEN /\ flock' = [flock EXCEPT ![i] = p]
            /\ lockID' = [lockID EXCEPT ![p] = TRUE]
            /\ Goto(p, "writeInfo")
       ELSE /\ Goto(p, "readInfo")
            /\ UNCHANGED <<flock, lockID>>
    /\ UNCHANGED <<dirEntry, data, info, backup, stateFileOut, created, snaps,
                   pending, result, count>>

\* WriteFile creates (or truncates) the info file and then fills it.
CreateInfo(p) ==
    /\ At(p, "writeInfo")
    /\ info' = Torn
    /\ Goto(p, "fillInfo")
    /\ UNCHANGED <<dirEntry, data, flock, backup, stateFileOut, lockID, created,
                   snaps, pending, result, count>>

CreateInfoFails(p) ==
    /\ At(p, "writeInfo") /\ IOMayFail
    /\ Return(p, "error", "failed")
    /\ UNCHANGED <<disk, stateFileOut, lockID, created, snaps, pending, count>>

FillInfo(p) ==
    /\ At(p, "fillInfo")
    /\ info' = p
    /\ Return(p, "ok", "refresh")
    /\ UNCHANGED <<dirEntry, data, flock, backup, stateFileOut, lockID, created,
                   snaps, pending, count>>

\* The LockError carries the info of the holder; without it
\* LockWithContext gives up at once.
ReadInfo(p) ==
    /\ At(p, "readInfo")
    /\ IF info \in {Nil, Torn}
       THEN Return(p, "noInfo", "failed")
       ELSE Goto(p, "wait") /\ UNCHANGED result
    /\ UNCHANGED <<disk, stateFileOut, lockID, created, snaps, pending, count>>

\* time.After(delay): Lock again, with the file that is already open.
Retry(p) ==
    /\ At(p, "wait")
    /\ Goto(p, "fcntl")
    /\ UNCHANGED <<disk, stateFileOut, lockID, created, snaps, pending, result, count>>

\* Mutant: the context is not consulted between two attempts.
TimeoutIgnored(p) ==
    /\ At(p, "wait")
    /\ Goto(p, "fcntl")
    /\ UNCHANGED <<disk, stateFileOut, lockID, created, snaps, pending, result, count>>

\* ctx.Done()
Timeout(p) ==
    /\ At(p, "wait")
    /\ Return(p, "timeout", "failed")
    /\ UNCHANGED <<disk, stateFileOut, lockID, created, snaps, pending, count>>

-----------------------------------------------------------------------------
(* RefreshState, WriteState and WriteStateForMigration                     *)

RefreshState(p) ==
    /\ pc[p] \in {"refresh", "ready"} /\ Contents(p) # Torn
    /\ Return(p, "none", "ready")
    /\ file' = [file EXCEPT ![p] = Contents(p)]
    /\ readFile' = [readFile EXCEPT ![p] = Contents(p)]
    /\ left' = [left EXCEPT ![p] = {}]
    /\ UNCHANGED <<disk, stateFileOut, lockID, created, backupFile,
                   writtenBackup, pending, nextLineage, session, writes, clobbered>>

\* The command gives up.
RefreshFails(p) ==
    /\ pc[p] \in {"refresh", "ready"} /\ (Contents(p) = Torn \/ IOMayFail)
    /\ Return(p, "error", IF p \in LockFree THEN "failed" ELSE "rmInfo")
    /\ UNCHANGED <<disk, stateFileOut, lockID, created, snaps, pending, count>>

\* CheckValidImport: nil when new may replace existing without force.
ValidImport(new, existing) ==
    \/ existing = Nil \/ 0 \in {new.lineage, existing.lineage}
    \/ /\ new.lineage = existing.lineage
       /\ \/ new.serial > existing.serial
          \/ /\ new.serial = existing.serial
             /\ StatesMarshalEqual(new.state, existing.state)

\* The first half of WriteState (op "write") and of WriteStateForMigration
\* (op "migrate"): refresh if nothing was read, check a migrated snapshot,
\* and open the files if they are not.
StartWrite(p) ==
    /\ At(p, "ready")
    /\ writes[p] < MaxWrite
    /\ writes' = [writes EXCEPT ![p] = @ + 1]
    /\ LET read == IF readFile[p] = Nil THEN Contents(p) ELSE readFile[p] IN
       /\ read # Torn
       /\ readFile' = [readFile EXCEPT ![p] = read]
       /\ file' = [file EXCEPT ![p] = IF readFile[p] = Nil THEN read ELSE @]
       /\ left' = [left EXCEPT ![p] = IF readFile[p] = Nil THEN {} ELSE @]
       /\ \E s \in State \cup {Nil}, m \in {Nil} \cup Metas, force \in BOOLEAN :
            IF m # Nil /\ ~force
               /\ ~ValidImport([lineage |-> m.lineage, serial |-> m.serial,
                                state |-> s], read)
            THEN Return(p, "error", "ready") /\ UNCHANGED pending
            ELSE /\ pending' = [pending EXCEPT ![p] =
                      [op |-> IF m = Nil THEN "write" ELSE "migrate",
                       state |-> s, meta |-> m]]
                 /\ Return(p, "none",
                      IF stateFileOut[p] = Nil THEN "stat" ELSE "backup")
    /\ UNCHANGED <<disk, stateFileOut, lockID, created, backupFile,
                   writtenBackup, nextLineage, session, clobbered>>

\* The refresh on behalf of a write returns an error.
StartWriteFails(p) ==
    /\ At(p, "ready")
    /\ writes[p] < MaxWrite /\ readFile[p] = Nil
    /\ Contents(p) = Torn \/ IOMayFail
    /\ writes' = [writes EXCEPT ![p] = @ + 1]
    /\ Return(p, "error", "ready")
    /\ UNCHANGED <<disk, stateFileOut, lockID, created, snaps, pending,
                   nextLineage, session, clobbered, left>>

\* writeState returns an error.
WriteFails(p) ==
    /\ Return(p, "error", "ready")
    /\ pending' = [pending EXCEPT ![p] = NoWrite]

NeedsBackup(p) ==
    /\ ~writtenBackup[p] /\ backupFile[p] # Nil /\ BackupOn
    /\ ~StatesMarshalEqual(pending[p].state, backupFile[p].state)

CreateBackup(p) ==
    /\ At(p, "backup") /\ NeedsBackup(p)
    /\ backup' = Nil
    /\ Goto(p, "fillBackup")
    /\ UNCHANGED <<dirEntry, data, flock, info, stateFileOut, lockID, created,
                   snaps, pending, result, count>>

CreateBackupFails(p) ==
    /\ At(p, "backup") /\ NeedsBackup(p) /\ IOMayFail
    /\ WriteFails(p)
    /\ UNCHANGED <<disk, stateFileOut, lockID, created, snaps, count>>

FillBackup(p) ==
    /\ At(p, "fillBackup")
    /\ backup' = backupFile[p]
    /\ writtenBackup' = [writtenBackup EXCEPT ![p] = TRUE]
    /\ Goto(p, "backup")
    /\ UNCHANGED <<dirEntry, data, flock, info, stateFileOut, lockID, created,
                   file, readFile, backupFile, pending, result, count>>

\* Mutant: the error of writing the backup is not looked at.
FillBackupFailsUnnoticed(p) ==
    /\ At(p, "fillBackup") /\ IOMayFail
    /\ backup' \in {backup, Torn}
    /\ writtenBackup' = [writtenBackup EXCEPT ![p] = TRUE]
    /\ Goto(p, "backup")
    /\ UNCHANGED <<dirEntry, data, flock, info, stateFileOut, lockID, created,
                   file, readFile, backupFile, pending, result, count>>

FillBackupFails(p) ==
    /\ At(p, "fillBackup") /\ IOMayFail
    /\ backup' \in {backup, Torn}
    /\ WriteFails(p)
    /\ UNCHANGED <<dirEntry, data, flock, info, stateFileOut, lockID, created,
                   snaps, count>>

\* s.file takes the new state before the file is touched.
ReplaceState(p) ==
    IF file[p] = Nil
    THEN /\ file' = [file EXCEPT ![p] = [lineage |-> nextLineage, serial |-> 0,
                                         state |-> pending[p].state]]
         /\ nextLineage' = nextLineage + 1
    ELSE /\ file' = [file EXCEPT ![p].state = pending[p].state]
         /\ UNCHANGED nextLineage

Truncate(p) ==
    /\ At(p, "backup") /\ ~NeedsBackup(p)
    /\ data' = [data EXCEPT ![stateFileOut[p]] = Nil]
    /\ ReplaceState(p)
    /\ IF pending[p].state = Nil
       THEN /\ Return(p, "ok", "ready")
            /\ pending' = [pending EXCEPT ![p] = NoWrite]
            /\ left' = [left EXCEPT ![p] = {}]
            /\ UNCHANGED clobbered
       ELSE /\ Goto(p, "write")
            /\ clobbered' = data[stateFileOut[p]]
            /\ UNCHANGED <<pending, result, left>>
    /\ UNCHANGED <<dirEntry, flock, info, backup, stateFileOut, lockID, created,
                   readFile, backupFile, writtenBackup, session, writes>>

\* The error of Seek or Truncate: the file is as it was, s.file is not.
TruncateFails(p) ==
    /\ At(p, "backup") /\ ~NeedsBackup(p) /\ IOMayFail
    /\ ReplaceState(p)
    /\ WriteFails(p)
    /\ left' = [left EXCEPT ![p] = Known(p)]
    /\ UNCHANGED <<disk, stateFileOut, lockID, created, readFile, backupFile,
                   writtenBackup, session, writes, clobbered>>

\* Mutant: the serial counts the writes of this manager, not of the file.
StampedFromOne(p) ==
    LET f == file[p] IN
    IF pending[p].meta # Nil
    THEN [lineage |-> pending[p].meta.lineage, serial |-> pending[p].meta.serial,
          state |-> f.state]
    ELSE [f EXCEPT !.serial = writes[p]]

\* The snapshot with the metadata writeState gives it.
Stamped(p) ==
    LET f == file[p] IN
    IF pending[p].meta # Nil
    THEN [lineage |-> pending[p].meta.lineage, serial |-> pending[p].meta.serial,
          state |-> f.state]
    ELSE IF readFile[p] # Nil /\ StatesMarshalEqual(f.state, readFile[p].state)
         THEN f
         ELSE [f EXCEPT !.serial = @ + 1]

\* Mutant: the metadata is stamped on a copy of s.file.
WriteDataOfCopy(p) ==
    /\ At(p, "write")
    /\ data' = [data EXCEPT ![stateFileOut[p]] = Stamped(p)]
    /\ clobbered' = Nil
    /\ left' = [left EXCEPT ![p] = {}]
    /\ pending' = [pending EXCEPT ![p] = NoWrite]
    /\ Return(p, "ok", "ready")
    /\ UNCHANGED <<dirEntry, flock, info, backup, stateFileOut, lockID, created,
                   file, readFile, backupFile, writtenBackup,
                   nextLineage, session, writes>>

\* Over contents that another writer has put there since the truncation the
\* bytes of the two may mix.
WriteData(p) ==
    /\ At(p, "write")
    /\ LET i == stateFileOut[p] IN
       \E d \in {Stamped(p)} \cup (IF data[i] = Nil THEN {} ELSE {Torn}) :
          data' = [data EXCEPT ![i] = d]
    /\ file' = [file EXCEPT ![p] = Stamped(p)]
    /\ clobbered' = Nil
    /\ left' = [left EXCEPT ![p] = {}]
    /\ pending' = [pending EXCEPT ![p] = NoWrite]
    /\ Return(p, "ok", "ready")
    /\ UNCHANGED <<dirEntry, flock, info, backup, stateFileOut, lockID, created,
                   readFile, backupFile, writtenBackup,
                   nextLineage, session, writes>>

\* The error of statefile.Write, before or after some bytes have reached the
\* file: the process goes on, with s.file stamped.
WriteDataFails(p) ==
    /\ At(p, "write") /\ IOMayFail
    /\ \E d \in {data[stateFileOut[p]], Torn} :
         /\ data' = [data EXCEPT ![stateFileOut[p]] = d]
         /\ left' = [left EXCEPT ![p] = {d}]
    /\ file' = [file EXCEPT ![p] = Stamped(p)]
    /\ clobbered' = Nil
    /\ WriteFails(p)
    /\ UNCHANGED <<dirEntry, flock, info, backup, stateFileOut, lockID, created,
                   readFile, backupFile, writtenBackup,
                   nextLineage, session, writes>>

-----------------------------------------------------------------------------
(* Unlock                                                                  *)

BeginUnlock(p) ==
    /\ At(p, "ready") /\ p \notin LockFree
    /\ Goto(p, "rmInfo")
    /\ UNCHANGED <<disk, stateFileOut, lockID, created, snaps, pending, result, count>>

RemoveInfo(p) ==
    /\ At(p, "rmInfo")
    /\ info' = Nil
    /\ Goto(p, "release")
    /\ UNCHANGED <<dirEntry, data, flock, backup, stateFileOut, lockID, created,
                   snaps, pending, result, count>>

Release(p) ==
    /\ At(p, "release")
    /\ flock' = [flock EXCEPT ![stateFileOut[p]] = Nil]
    /\ stateFileOut' = [stateFileOut EXCEPT ![p] = Nil]
    /\ lockID' = [lockID EXCEPT ![p] = FALSE]
    /\ Goto(p, "cleanup")
    /\ UNCHANGED <<dirEntry, data, info, backup, created, snaps, pending, result, count>>

\* Mutant: any empty file is removed, not only one this manager created.
StatForCleanupAny(p) ==
    /\ At(p, "cleanup")
    /\ Goto(p, IF dirEntry # Nil /\ Contents(p) = Nil THEN "remove" ELSE "unlocked")
    /\ UNCHANGED <<disk, stateFileOut, lockID, created, snaps, pending, result, count>>

StatForCleanup(p) ==
    /\ At(p, "cleanup")
    /\ Goto(p, IF dirEntry # Nil /\ Contents(p) = Nil /\ created[p]
               THEN "remove" ELSE "unlocked")
    /\ UNCHANGED <<disk, stateFileOut, lockID, created, snaps, pending, result, count>>

RemoveEmpty(p) ==
    /\ At(p, "remove")
    /\ dirEntry' = Nil
    /\ Goto(p, "unlocked")
    /\ UNCHANGED <<data, flock, info, backup, stateFileOut, lockID, created,
                   snaps, pending, result, count>>

-----------------------------------------------------------------------------
(* The end of a process: the kernel closes its files, which releases its   *)
(* locks; the next command starts with a new manager.                      *)

Forget(p) ==
    /\ flock' = [i \in Inode |-> IF flock[i] = p THEN Nil ELSE flock[i]]
    /\ stateFileOut' = [stateFileOut EXCEPT ![p] = Nil]
    /\ lockID' = [lockID EXCEPT ![p] = FALSE]
    /\ created' = [created EXCEPT ![p] = FALSE]
    /\ file' = [file EXCEPT ![p] = Nil]
    /\ readFile' = [readFile EXCEPT ![p] = Nil]
    /\ backupFile' = [backupFile EXCEPT ![p] = Nil]
    /\ writtenBackup' = [writtenBackup EXCEPT ![p] = FALSE]
    /\ pending' = [pending EXCEPT ![p] = NoWrite]
    /\ left' = [left EXCEPT ![p] = {}]
    /\ Return(p, "none", IF session[p] < MaxSession THEN "start" ELSE "gone")
    /\ writes' = [writes EXCEPT ![p] = 0]
    /\ clobbered' = IF At(p, "write") THEN Nil ELSE clobbered
    /\ UNCHANGED <<nextLineage, session>>

\* Mutant: a command goes on running when it could not lock the state.
ExitUnlessFailed(p) ==
    /\ At(p, "unlocked") \/ (At(p, "ready") /\ p \in LockFree)
    /\ Forget(p)
    /\ UNCHANGED <<dirEntry, data, info, backup>>

Exit(p) ==
    /\ pc[p] \in {"unlocked", "failed"} \/ (At(p, "ready") /\ p \in LockFree)
    /\ Forget(p)
    /\ UNCHANGED <<dirEntry, data, info, backup>>

\* A write in progress may have reached the disk in part.
Crash(p) ==
    /\ pc[p] \notin {"start", "gone", "unlocked", "failed"}
    /\ Forget(p)
    /\ data' \in {data} \cup (IF At(p, "write")
                              THEN {[data EXCEPT ![stateFileOut[p]] = Torn]} ELSE {})
    /\ backup' \in {backup} \cup (IF At(p, "fillBackup") THEN {Torn} ELSE {})
    /\ UNCHANGED <<dirEntry, info>>

-----------------------------------------------------------------------------
Locking(p) ==
    \/ StatPath(p) \/ OpenPath(p) \/ OpenPathFails(p) \/ ReadForBackup(p)
    \/ FcntlLock(p) \/ CreateInfo(p) \/ CreateInfoFails(p) \/ FillInfo(p)
    \/ ReadInfo(p)

Writing(p) ==
    \/ CreateBackup(p) \/ CreateBackupFails(p) \/ FillBackup(p)
    \/ FillBackupFails(p) \/ Truncate(p) \/ TruncateFails(p)
    \/ WriteData(p) \/ WriteDataFails(p)

Unlocking(p) ==
    \/ BeginUnlock(p) \/ RemoveInfo(p) \/ Release(p) \/ StatForCleanup(p)
    \/ RemoveEmpty(p)

Step(p) ==
    \/ Begin(p) \/ Locking(p) \/ Retry(p) \/ Timeout(p)
    \/ RefreshState(p) \/ RefreshFails(p) \/ StartWrite(p)
    \/ StartWriteFails(p) \/ Writing(p)
    \/ Unlocking(p) \/ Exit(p) \/ Crash(p)

Next == \E p \in Proc : Step(p)

Spec == Init /\ [][Next]_vars

\* A call of the manager that has begun keeps going, a process that is done
\* exits, and the deadline of LockWithContext passes: from then on the next
\* wait ends with ctx.Done.  Nothing makes an operation that holds the lock
\* end: it may wait for an approval for ever.
Fairness == \A p \in Proc : /\ WF_vars(Locking(p))
                            /\ WF_vars(Retry(p) \/ Timeout(p))
                            /\ SF_vars(Timeout(p))
                            /\ WF_vars(Unlocking(p) /\ ~BeginUnlock(p))
                            /\ WF_vars(Exit(p))

FairSpec == Spec /\ Fairness

-----------------------------------------------------------------------------
(* Properties                                                              *)

Holds(p) == lockID[p]
InUse(p) == Holds(p) /\ pc[p] \in {"ready", "backup", "fillBackup"}

\* Two managers never hold the lock at once (Lock, Unlock and the removal of
\* a file left empty).
MutualExclusion == \A p, q \in Proc : Holds(p) /\ Holds(q) => p = q

\* The holder's open file is the one at path, so that what it writes is what
\* the next command reads (stateFileOut is opened before the lock is taken).
HolderUsesPath == \A p \in Proc : Holds(p) => stateFileOut[p] = dirEntry

\* Between its writes, a manager that holds the lock knows what is on disk: it
\* is what the manager believes to be the latest snapshot, or what an error of
\* its own write has left; it never destroys a snapshot that another process
\* has written (refreshState under the lock, writeState and its error returns).
NoLostUpdate ==
    \A p \in Proc : InUse(p) => Known(p) = {data[stateFileOut[p]]}

\* Once a manager has truncated a file to write another state than that of the
\* first snapshot it read, this snapshot is in the backup file, complete
\* (backupPath, the order of the two writes in writeState and their errors);
\* and unless another process came between its opening the file and its
\* locking it, this is the snapshot that its first write destroys.
BackedUpBeforeClobber ==
    \A p \in Proc :
        /\ At(p, "write") /\ BackupOn /\ backupFile[p] # Nil
        /\ pending[p].state # backupFile[p].state
        => /\ backup = backupFile[p]
           /\ writes[p] = 1 /\ readFile[p] = backupFile[p] => backup = clobbered

\* A snapshot written by WriteState keeps the lineage of the one it replaces,
\* and its serial is the same or the next one.
SerialFollows ==
    [][\A p \in Proc :
         (WriteData(p) /\ pending[p].op = "write" /\ clobbered \in Snapshot) =>
            LET new == data'[stateFileOut[p]] IN
            /\ new.lineage = clobbered.lineage
            /\ new.serial \in clobbered.serial .. clobbered.serial + 1]_vars

\* The manager implements the abstract store: a snapshot is replaced when its
\* write completes, and the holder knows it from its refresh on.
Holder == IF \E p \in Proc : Holds(p) THEN CHOOSE p \in Proc : Holds(p) ELSE Nil

Stored == IF \E p \in Proc : At(p, "write") THEN clobbered
          ELSE IF dirEntry = Nil THEN Nil ELSE data[dirEntry]

View == IF Holder = Nil \/ pc[Holder] \notin {"ready", "backup", "fillBackup", "write"}
        THEN {}
        ELSE IF At(Holder, "write") THEN {clobbered} ELSE Known(Holder)

Store == INSTANCE StateStore WITH holder <- Holder, stored <- Stored, view <- View

ImplementsStateStore == Store!Spec

\* Every call of LockWithContext returns, however long the holder keeps the
\* lock (its retry loop, the deadline of its context).
LockReturns ==
    \A p \in Proc : pc[p] \in {"fcntl", "readInfo", "wait"} ~>
                        pc[p] \notin {"fcntl", "readInfo", "wait"}

\* A manager that has begun Unlock, or whose Lock has returned an error with
\* the file locked, gives up the lock (Unlock, the end of the process).
LockReleased ==
    \A p \in Proc : pc[p] \in {"rmInfo", "failed"} ~> ~Holds(p)

\* A WriteState that returns without an error has persisted the state.
WritePersists ==
    [][\A p \in Proc :
         (pending[p].op = "write" /\ pending'[p] = NoWrite /\ result'[p] = "ok")
            => /\ dirEntry' # Nil
               /\ data'[dirEntry'] = OnDisk(file'[p])
               /\ file'[p] # Nil /\ file'[p].state = pending[p].state]_vars

=============================================================================
