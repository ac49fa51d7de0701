------------------------ MODULE LocalOperationProofs ------------------------
(***************************************************************************)
(* Proofs about an apply and its interrupts, for any set of nodes: what a  *)
(* kill may lose, what the end of the operation leaves, and that the state *)
(* is persisted under the lock.                                            *)
(***************************************************************************)
EXTENDS LocalOperation, TLAPS

\* What a node has done: its change is made before it is recorded, and recorded
\* before it is written; no node has begun before the walk, and all are done
\* when it has returned a state.
Nodes ==
    /\ \A n \in Node :
        /\ node[n] \in {"idle", "request"} => n \notin performed
        /\ node[n] \in {"answered", "hook", "persist"} => n \in performed
        /\ node[n] \in {"hook", "persist", "done"} /\ n \in performed => n \in working
        /\ node[n] \in {"persist", "done"} /\ n \in performed => n \in mem
    /\ apply \in {"none", "called"} => \A n \in Node : node[n] = "idle"
    /\ apply = "closed" /\ ~applied => \A n \in Node : node[n] = "idle"
    /\ applied => apply = "closed" /\ \A n \in Node : node[n] = "done"

\* Where opApply is, what it has started and what it holds.
Stages ==
    /\ op \in {"localRun", "plan", "ready"} <=> apply = "none" /\ op \notin {"unlock", "done"}
    /\ op \in {"opWait", "persist", "stopSent"} => apply # "none"
    /\ op \in {"write", "final", "backup"} => applied
    /\ op \in {"final", "backup"} => mem = working
    /\ op = "backup" => saved = mem \/ failed
    /\ op \notin {"localRun", "done"} => locked

\* The process has ended when its command has; only the second interrupt
\* cancels.
Ended ==
    /\ main = "exited" <=> exit # "none"
    /\ main \in {"wait", "stopping"} => ~cancelCtx

\* Everything that was changed is persisted, or handed over for a copy.
Kept == performed \subseteq saved \/ Copied \/ CopyFailed

\* An operation that is not cancelled leaves no node behind, and nothing to
\* persist except after a failure.
Left ==
    op \in {"unlock", "done"} /\ ~cancelCtx =>
        /\ apply \in {"none", "closed"}
        /\ Kept
        /\ saved = mem \/ failed

IInv == /\ TypeOK /\ Nodes /\ Stages /\ Ended /\ Left
        /\ KillLosesLittle /\ NothingForgotten

-----------------------------------------------------------------------------
LEMMA InitInv == Init => IInv
  BY DEF Init, IInv, TypeOK, Nodes, Stages, Ended, Left, Kept, KillLosesLittle, NothingForgotten

\* Whatever becomes of a persist, it fails or has stored what it was given.
LEMMA Persists ==
  ASSUME NEW s, PersistState(s)
  PROVE  saved' \in {saved, s} /\ failed' \in BOOLEAN /\ (saved' = s \/ failed')
  BY DEF PersistState

LEMMA StepInv == IInv /\ [Next]_vars => IInv'
<1> SUFFICES ASSUME IInv, [Next]_vars
             PROVE  IInv'
  OBVIOUS
<1> USE DEF IInv, TypeOK, Nodes, Stages, Ended, Left, Kept, Copied, CopyFailed,
            KillLosesLittle, NothingForgotten, Running, contexts, run, core, stopping, mgr
<1>1. CASE HandleInterrupt
  <2>1. TypeOK'
    <3> HIDE DEF Nodes, Stages, Ended, Left, KillLosesLittle, NothingForgotten
    <3>1. stopCtx' \in BOOLEAN /\ cancelCtx' \in BOOLEAN
      BY <1>1 DEF HandleInterrupt, Interrupt
    <3>2. /\ main' \in {"stopping", "canceling"}
          /\ UNCHANGED <<exit, planFile, op, locked, apply, applied, working, node,
                         runCancel, stopHook, stop, providersStopped, heard, force,
                         mem, saved, copy, failed, performed>>
      BY <1>1 DEF HandleInterrupt, Interrupt
    <3> QED
      BY <3>1, <3>2
  <2>2. Nodes' /\ Stages'
    BY <1>1 DEF HandleInterrupt, Interrupt
  <2>3. Ended' /\ Left'
    BY <1>1 DEF HandleInterrupt, Interrupt
  <2>4. KillLosesLittle' /\ NothingForgotten'
    BY <1>1 DEF HandleInterrupt, Interrupt
  <2> HIDE DEF TypeOK, Nodes, Stages, Ended, Left, KillLosesLittle, NothingForgotten
  <2> QED
    BY <2>1, <2>2, <2>3, <2>4
<1>2. CASE Return
  BY <1>2 DEF Return, Exit
<1>3. CASE GiveUp
  BY <1>3 DEF GiveUp, Exit
<1>4. CASE Kill
  BY <1>4 DEF Kill, Exit
<1>5. CASE LocalRun
  <2>1. TypeOK'
    <3> HIDE DEF Nodes, Stages, Ended, Left, KillLosesLittle, NothingForgotten
    <3>1. /\ op' \in {"plan", "done"} /\ locked' \in BOOLEAN /\ runCancel' \in BOOLEAN
          /\ UNCHANGED <<main, exit, stopCtx, cancelCtx, planFile, apply, applied, working,
                         node, stopHook, stop, providersStopped, heard, force, mem, saved,
                         copy, failed, performed>>
      BY <1>5 DEF LocalRun, OpAt
    <3> QED
      BY <3>1
  <2>2. Nodes' /\ Stages'
    BY <1>5 DEF LocalRun, OpAt
  <2>3. Ended' /\ Left'
    BY <1>5 DEF LocalRun, OpAt
  <2>4. KillLosesLittle' /\ NothingForgotten'
    BY <1>5 DEF LocalRun, OpAt
  <2> HIDE DEF TypeOK, Nodes, Stages, Ended, Left, KillLosesLittle, NothingForgotten
  <2> QED
    BY <2>1, <2>2, <2>3, <2>4
<1>6. CASE Plan
  BY <1>6 DEF Plan, OpAt
<1>7. CASE StartApply
  BY <1>7 DEF StartApply, OpAt
<1>8. CASE OpWait
  BY <1>8 DEF OpWait, OpAt, ApplyDone, AfterApply
<1>9. CASE PersistOnStop
  <2>0. saved' \in {saved, mem} /\ failed' \in BOOLEAN /\ (saved' = mem \/ failed')
    BY <1>9, Persists DEF PersistOnStop
  <2>1. TypeOK'
    <3> HIDE DEF Nodes, Stages, Ended, Left, KillLosesLittle, NothingForgotten
    <3>1. /\ stop' = "called" /\ op' = "stopSent"
          /\ UNCHANGED <<main, exit, stopCtx, cancelCtx, planFile, locked, apply, applied,
                         working, node, runCancel, stopHook, providersStopped, heard,
                         force, mem, copy, performed>>
      BY <1>9, <2>0 DEF PersistOnStop
    <3> QED
      BY <2>0, <3>1
  <2>2. Nodes' /\ Stages'
    BY <1>9, <2>0 DEF PersistOnStop, OpAt
  <2>3. Ended' /\ Left'
    BY <1>9, <2>0 DEF PersistOnStop, OpAt
  <2>4. KillLosesLittle' /\ NothingForgotten'
    BY <1>9, <2>0 DEF PersistOnStop, OpAt
  <2> HIDE DEF TypeOK, Nodes, Stages, Ended, Left, KillLosesLittle, NothingForgotten
  <2> QED
    BY <2>1, <2>2, <2>3, <2>4
<1>10. CASE StopSent
  BY <1>10 DEF StopSent, OpAt, ApplyDone, AfterApply
<1>11. CASE FinalWrite
  BY <1>11 DEF FinalWrite, OpAt
<1>12. CASE FinalPersist
  <2>0. saved' \in {saved, mem} /\ failed' \in BOOLEAN /\ (saved' = mem \/ failed')
    BY <1>12, Persists DEF FinalPersist
  <2>1. TypeOK'
    <3> HIDE DEF Nodes, Stages, Ended, Left, KillLosesLittle, NothingForgotten
    <3>1. /\ op' \in {"backup", "unlock"}
          /\ UNCHANGED <<main, exit, stopCtx, cancelCtx, planFile, locked, apply, applied,
                         working, node, runCancel, stopHook, stop, providersStopped,
                         heard, force, mem, copy, performed>>
      BY <1>12, <2>0 DEF FinalPersist
    <3> QED
      BY <2>0, <3>1
  <2>2. Nodes' /\ Stages'
    BY <1>12, <2>0 DEF FinalPersist, OpAt
  <2>3. Ended' /\ Left'
    BY <1>12, <2>0 DEF FinalPersist, OpAt
  <2>4. KillLosesLittle' /\ NothingForgotten'
    BY <1>12, <2>0 DEF FinalPersist, OpAt
  <2> HIDE DEF TypeOK, Nodes, Stages, Ended, Left, KillLosesLittle, NothingForgotten
  <2> QED
    BY <2>1, <2>2, <2>3, <2>4
<1>13. CASE BackupStateForError
  BY <1>13 DEF BackupStateForError, OpAt
<1>14. CASE Unlock
  <2>1. TypeOK'
    <3> HIDE DEF Nodes, Stages, Ended, Left, KillLosesLittle, NothingForgotten
    <3>1. /\ op' = "done" /\ locked' \in BOOLEAN
          /\ UNCHANGED <<main, exit, stopCtx, cancelCtx, planFile, apply, applied, working,
                         node, runCancel, stopHook, stop, providersStopped, heard, force,
                         mem, saved, copy, failed, performed>>
      BY <1>14 DEF Unlock, OpAt
    <3> QED
      BY <3>1
  <2>2. Nodes' /\ Stages'
    BY <1>14 DEF Unlock, OpAt
  <2>3. Ended' /\ Left'
    BY <1>14 DEF Unlock, OpAt
  <2>4. KillLosesLittle' /\ NothingForgotten'
    BY <1>14 DEF Unlock, OpAt
  <2> HIDE DEF TypeOK, Nodes, Stages, Ended, Left, KillLosesLittle, NothingForgotten
  <2> QED
    BY <2>1, <2>2, <2>3, <2>4
<1>15. CASE AcquireRun
  <2>1. TypeOK'
    <3> HIDE DEF Nodes, Stages, Ended, Left, KillLosesLittle, NothingForgotten
    <3>1. /\ runCancel' \in BOOLEAN /\ stopHook' \in BOOLEAN /\ apply' \in {"walking", "closed"}
          /\ UNCHANGED <<main, exit, stopCtx, cancelCtx, planFile, op, locked, applied,
                         working, node, stop, providersStopped, heard, force, mem, saved,
                         copy, failed, performed>>
      BY <1>15 DEF AcquireRun
    <3> QED
      BY <3>1
  <2>2. Nodes' /\ Stages'
    BY <1>15 DEF AcquireRun, CtxFree
  <2>3. Ended' /\ Left'
    BY <1>15 DEF AcquireRun, CtxFree
  <2>4. KillLosesLittle' /\ NothingForgotten'
    BY <1>15 DEF AcquireRun, CtxFree
  <2> HIDE DEF TypeOK, Nodes, Stages, Ended, Left, KillLosesLittle, NothingForgotten
  <2> QED
    BY <2>1, <2>2, <2>3, <2>4
<1>16. CASE ReleaseRun
  BY <1>16 DEF ReleaseRun, CtxFree
<1>17. CASE StopHooks
  <2>1. TypeOK'
    <3> HIDE DEF Nodes, Stages, Ended, Left, KillLosesLittle, NothingForgotten
    <3>1. stopHook' \in BOOLEAN /\ heard' \in BOOLEAN
      BY <1>17, Zenon DEF StopHooks
    <3>2. /\ stop' = "hooks" /\ runCancel' = FALSE
          /\ UNCHANGED <<main, exit, stopCtx, cancelCtx, planFile, op, locked, apply,
                         applied, working, node, providersStopped, force, mem, saved,
                         copy, failed, performed>>
      BY <1>17 DEF StopHooks
    <3>3. {stopCtx, cancelCtx, planFile, locked, runCancel, stopHook, providersStopped,
           applied, force, failed, heard}' \subseteq BOOLEAN
      <4>1. \A b \in {stopCtx, cancelCtx, planFile, locked, runCancel, providersStopped,
                     applied, force, failed}' : b \in BOOLEAN
        BY <3>2
      <4> QED
        BY <3>1, <4>1
    <3> QED
      BY <3>2, <3>3
  <2>2. Nodes' /\ Stages'
    BY <1>17 DEF StopHooks
  <2>3. Ended' /\ Left'
    BY <1>17 DEF StopHooks
  <2>4. KillLosesLittle' /\ NothingForgotten'
    BY <1>17 DEF StopHooks
  <2> HIDE DEF TypeOK, Nodes, Stages, Ended, Left, KillLosesLittle, NothingForgotten
  <2> QED
    BY <2>1, <2>2, <2>3, <2>4
<1>18. CASE Stopping
  <2>0. saved' \in {saved, mem} /\ failed' \in BOOLEAN /\ (saved' = mem \/ failed')
    BY <1>18, Persists DEF Stopping
  <2>1. TypeOK'
    <3> HIDE DEF Nodes, Stages, Ended, Left, KillLosesLittle, NothingForgotten
    <3>1. /\ force' = TRUE /\ stop' \in {"waiting", "returned"}
          /\ UNCHANGED <<main, exit, stopCtx, cancelCtx, planFile, op, locked, apply,
                         applied, working, node, runCancel, stopHook,
                         providersStopped, heard, mem, copy, performed>>
      BY <1>18, <2>0 DEF Stopping
    <3> QED
      BY <2>0, <3>1
  <2>2. Nodes' /\ Stages'
    BY <1>18, <2>0 DEF Stopping, InHook
  <2>3. Ended' /\ Left'
    BY <1>18, <2>0 DEF Stopping, InHook
  <2>4. KillLosesLittle' /\ NothingForgotten'
    BY <1>18, <2>0 DEF Stopping, InHook
  <2> HIDE DEF TypeOK, Nodes, Stages, Ended, Left, KillLosesLittle, NothingForgotten
  <2> QED
    BY <2>1, <2>2, <2>3, <2>4
<1>19. CASE StopReturns
  BY <1>19 DEF StopReturns
<1>20. CASE WatchStop
  BY <1>20 DEF WatchStop
<1>21. ASSUME NEW n \in Node, PreApply(n)
      PROVE  IInv'
  BY <1>21 DEF PreApply, NodeAt, Goto
<1>22. ASSUME NEW n \in Node, Record(n)
      PROVE  IInv'
  BY <1>22 DEF Record, NodeAt, Goto, InHook
<1>23. ASSUME NEW n \in Node, HookWrite(n)
      PROVE  IInv'
  BY <1>23 DEF HookWrite, NodeAt, Goto, InHook
<1>24. ASSUME NEW n \in Node, HookPersist(n)
      PROVE  IInv'
  <2>0. /\ saved' \in {saved, mem} /\ failed' \in BOOLEAN
        /\ saved' = mem \/ failed' \/ (~force /\ UNCHANGED <<saved, failed>>)
    <3>1. CASE PersistState(mem)
      BY <3>1, Persists
    <3>2. CASE ~force /\ UNCHANGED <<saved, failed>>
      BY <3>2
    <3> QED
      BY <1>24, <3>1, <3>2 DEF HookPersist
  <2>1. TypeOK'
    <3> HIDE DEF Nodes, Stages, Ended, Left, KillLosesLittle, NothingForgotten
    <3>1. /\ node' = [node EXCEPT ![n] = "done"]
          /\ UNCHANGED <<main, exit, stopCtx, cancelCtx, planFile, op, locked, apply,
                         applied, working, runCancel, stopHook, stop,
                         providersStopped, heard, force, mem, copy, performed>>
      BY <1>24, <2>0 DEF HookPersist, Goto
    <3> QED
      BY <2>0, <3>1
  <2>2. Nodes' /\ Stages'
    BY <1>24, <2>0 DEF HookPersist, NodeAt, Goto
  <2>3. Ended' /\ Left'
    BY <1>24, <2>0 DEF HookPersist, NodeAt, Goto
  <2>4. KillLosesLittle' /\ NothingForgotten'
    BY <1>24, <2>0 DEF HookPersist, NodeAt, Goto
  <2> HIDE DEF TypeOK, Nodes, Stages, Ended, Left, KillLosesLittle, NothingForgotten
  <2> QED
    BY <2>1, <2>2, <2>3, <2>4
<1>25. ASSUME NEW n \in Node, Respond(n)
      PROVE  IInv'
  BY <1>25 DEF Respond, NodeAt, Goto
<1>26. CASE UNCHANGED vars
  BY <1>26 DEF vars
<1> HIDE DEF IInv
<1> QED
  BY <1>1, <1>2, <1>3, <1>4, <1>5, <1>6, <1>7, <1>8, <1>9, <1>10, <1>11, <1>12, <1>13,
     <1>14, <1>15, <1>16, <1>17, <1>18, <1>19, <1>20, <1>21, <1>22, <1>23, <1>24, <1>25, <1>26
     DEF Next, Operation, Walk, Stop

LEMMA SpecInv == Spec => []IInv
<1>1. Init => IInv
  BY InitInv
<1>2. IInv /\ [Next]_vars => IInv'
  BY StepInv
<1> QED
  BY <1>1, <1>2, PTL DEF Spec

-----------------------------------------------------------------------------
(* Theorems                                                                *)

\* Every variable keeps its type; what is persisted was written, what was
\* written is recorded, and what is recorded has been made.
THEOREM TypeCorrect == Spec => []TypeOK
<1>1. IInv => TypeOK
  BY DEF IInv
<1> QED
  BY <1>1, SpecInv, PTL

\* However interrupts, failing persists and the walk interleave: when the
\* process ends by itself without a cancellation, every change is persisted
\* or in the copy that is made after an error, unless that has failed, too.
THEOREM NothingIsForgotten == Spec => []NothingForgotten
<1>1. IInv => NothingForgotten
  BY DEF IInv
<1> QED
  BY <1>1, SpecInv, PTL

\* Once Stop has told the state hook, a kill at any moment loses only what
\* nodes have in hand.
THEOREM KillAfterStop == Spec => []KillLosesLittle
<1>1. IInv => KillLosesLittle
  BY DEF IInv
<1> QED
  BY <1>1, SpecInv, PTL

LEMMA PersistStep ==
  IInv /\ [Next]_vars => (saved' # saved => locked \/ cancelCtx \/ failed)
<1> SUFFICES ASSUME IInv, Next, saved' # saved, ~locked, ~cancelCtx
             PROVE  failed
  BY DEF vars, mgr
<1> USE DEF IInv, TypeOK, Nodes, Stages, Ended, Left, contexts, run, core, stopping, mgr
<1>1. CASE PersistOnStop \/ FinalPersist
  BY <1>1 DEF PersistOnStop, FinalPersist, OpAt
<1>2. CASE \E n \in Node : HookPersist(n)
  BY <1>2 DEF HookPersist, NodeAt
<1>3. CASE Stopping
  BY <1>3 DEF Stopping, PersistState, InHook
<1>4. ~(\/ HandleInterrupt \/ Return \/ GiveUp \/ Kill \/ LocalRun \/ Plan
        \/ StartApply \/ OpWait \/ StopSent \/ FinalWrite \/ BackupStateForError
        \/ Unlock \/ AcquireRun \/ ReleaseRun \/ StopHooks \/ StopReturns \/ WatchStop)
  BY DEF HandleInterrupt, Return, GiveUp, Kill, Exit, LocalRun, Plan, StartApply, OpWait,
         StopSent, FinalWrite, BackupStateForError, Unlock, AcquireRun, ReleaseRun,
         StopHooks, StopReturns, WatchStop
<1>5. ~\E n \in Node : PreApply(n) \/ Record(n) \/ HookWrite(n) \/ Respond(n)
  BY DEF PreApply, Record, HookWrite, Respond
<1> QED
  BY <1>1, <1>2, <1>3, <1>4, <1>5 DEF Next, Operation, Walk, Stop

\* The state is persisted under the state lock, but for nodes that go on after
\* a cancellation and for a second attempt after the last one has failed.
THEOREM PersistedUnderLock == Spec => PersistsUnderLock
<1>1. IInv /\ [Next]_vars => [saved' # saved => locked \/ cancelCtx \/ failed]_vars
  BY PersistStep
<1> QED
  BY <1>1, SpecInv, PTL DEF Spec, PersistsUnderLock
=============================================================================
