----------------------------- MODULE StateStore -----------------------------
(***************************************************************************)
(* What a lockable state manager promises to the commands that share one   *)
(* workspace (the Locker, Refresher and Persister interfaces of statemgr): *)
(* one command at a time holds the lock, the holder reads the stored       *)
(* snapshot, and it replaces the stored snapshot only while what it has    *)
(* read is still what is stored.  Only a write of the holder that fails,   *)
(* with an error that it sees or with its crash, may lose the snapshot.    *)
(***************************************************************************)
CONSTANTS Proc,      \* the commands
          Snapshot,  \* the snapshots that can be stored
          Nil,       \* nothing stored, nobody
          Torn       \* contents that cannot be read

VARIABLES holder,    \* the command that holds the lock
          stored,    \* what the store holds
          view       \* what the holder knows to be stored: a set of one element, empty
                     \* before it reads and after it finishes

vars == <<holder, stored, view>>

Init == holder = Nil /\ stored \in Snapshot \cup {Nil} /\ view = {}

Acquire(p) ==
    /\ holder = Nil
    /\ holder' = p
    /\ UNCHANGED <<stored, view>>

Read(p) ==
    /\ holder = p /\ stored # Torn
    /\ view' = {stored}
    /\ UNCHANGED <<holder, stored>>

Write(p) ==
    /\ holder = p /\ view = {stored}
    /\ stored' \in Snapshot \cup {Nil}
    /\ view' = {stored'}
    /\ UNCHANGED holder

\* The holder learns that its write has failed, and what it has left; it may
\* write again.
FailWrite(p) ==
    /\ holder = p /\ view = {stored}
    /\ stored' \in {Nil, Torn}
    /\ view' = {stored'}
    /\ UNCHANGED holder

\* The holder has finished its writes and is about to release.
Finish(p) ==
    /\ holder = p
    /\ view' = {}
    /\ UNCHANGED <<holder, stored>>

Release(p) ==
    /\ holder = p
    /\ holder' = Nil /\ view' = {}
    /\ UNCHANGED stored

CrashInWrite(p) ==
    /\ holder = p /\ view = {stored}
    /\ holder' = Nil /\ view' = {}
    /\ stored' \in {Nil, Torn}

Next == \E p \in Proc :
    \/ Acquire(p) \/ Read(p) \/ Write(p) \/ FailWrite(p)
    \/ Finish(p) \/ Release(p) \/ CrashInWrite(p)

Spec == Init /\ [][Next]_vars
=============================================================================
