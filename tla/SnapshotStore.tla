----------------------------- MODULE SnapshotStore -----------------------------
(***************************************************************************)
(* What a remote state manager promises to commands that share a workspace *)
(* and cannot rely on the lock (the Refresher and Persister interfaces of  *)
(* statemgr): a snapshot is read as it was at one moment, and it is only   *)
(* replaced by a command that knows it.                                    *)
(***************************************************************************)
CONSTANTS Proc, Snapshot, Nil, Unread

VARIABLES stored,  \* the snapshot in the store, Nil when there is none
          view     \* the snapshot each command knows, Unread when it knows none

vars == <<stored, view>>

Init == stored \in Snapshot \cup {Nil} /\ view = [p \in Proc |-> Unread]

Read(p) == view' = [view EXCEPT ![p] = stored] /\ UNCHANGED stored

Forget(p) == view' = [view EXCEPT ![p] = Unread] /\ UNCHANGED stored

\* The answer to the writer may be lost: it then knows the previous snapshot.
Write(p) ==
    /\ view[p] = stored
    /\ stored' \in Snapshot
    /\ view' \in {view, [view EXCEPT ![p] = stored'], [view EXCEPT ![p] = Unread]}

Delete == stored' = Nil /\ UNCHANGED view

Next == Delete \/ \E p \in Proc : Read(p) \/ Forget(p) \/ Write(p)

Spec == Init /\ [][Next]_vars
=============================================================================
