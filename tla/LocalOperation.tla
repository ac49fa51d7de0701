---------------------------- MODULE LocalOperation ----------------------------
(***************************************************************************)
(* "terraform apply" in one process: the command that waits for the        *)
(* operation and for interrupts (Meta.RunOperation), the operation of the  *)
(* local backend (opApply, opWait), the apply it runs in a goroutine       *)
(* (Context.Apply), the nodes of its walk, which hand each new state to    *)
(* the state hook, and the goroutine that stops them (Context.Stop).       *)
(*                                                                         *)
(* The state manager is one that writes to memory and persists on demand;  *)
(* a state is the set of the nodes whose results it has.                   *)
(***************************************************************************)
CONSTANT Node       \* the resource instances to change

VARIABLES
    \* RunOperation: where it is and how the process has ended
    main, exit,
    \* the contexts of the operation, and whether a saved plan is applied
    stopCtx, cancelCtx, planFile,
    \* opApply: where it is, and whether it holds the state lock
    op, locked,
    \* the goroutine that applies, whether it has returned a state, and the
    \* state it works on
    apply, applied, working,
    \* the nodes of the walk
    node,
    \* terraform.Context: a run context that may be cancelled, the stop hook
    runCancel, stopHook,
    \* the goroutine that calls Stop, and what it has asked of the providers
    stop, providersStopped,
    \* StateHook.ForcePersist, what the state manager has in memory and
    \* persisted, and what has become of the copy of backupStateForError
    force, mem, saved, copy,
    \* bookkeeping: the changes made, whether the last attempt to persist
    \* failed, whether Stop has told the hooks while a run was going on
    performed, failed, heard

contexts == <<stopCtx, cancelCtx, planFile>>
run      == <<apply, applied, working>>
core     == <<runCancel, stopHook>>
stopping == <<stop, providersStopped, heard>>
mgr      == <<force, mem, saved, copy, failed>>
vars == <<main, exit, contexts, op, locked, run, node, core, stopping, mgr, performed>>

TypeOK ==
    /\ main \in {"wait", "stopping", "canceling", "exited"}
    /\ exit \in {"none", "returned", "canceled", "killed"}
    /\ {stopCtx, cancelCtx, planFile, locked, runCancel, stopHook, providersStopped,
        applied, force, failed, heard} \subseteq BOOLEAN
    /\ op \in {"localRun", "plan", "ready", "opWait", "persist", "stopSent", "write",
               "final", "backup", "unlock", "done"}
    /\ apply \in {"none", "called", "walking", "closed"}
    /\ node \in [Node -> {"idle", "request", "answered", "hook", "persist", "done"}]
    /\ stop \in {"none", "called", "hooks", "waiting", "returned"}
    /\ working \subseteq performed /\ mem \subseteq working /\ saved \subseteq mem
    /\ performed \subseteq Node
    /\ copy \in {"none", "file", "unwritten", "terminal", "lost"}

Init ==
    /\ main = "wait" /\ exit = "none"
    /\ stopCtx = FALSE /\ cancelCtx = FALSE /\ planFile \in BOOLEAN
    /\ op = "localRun" /\ locked = FALSE
    /\ apply = "none" /\ applied = FALSE /\ working = {}
    /\ node = [n \in Node |-> "idle"]
    /\ runCancel = FALSE /\ stopHook = FALSE
    /\ stop = "none" /\ providersStopped = FALSE /\ heard = FALSE
    /\ force = FALSE /\ mem = {} /\ saved = {} /\ copy = "none" /\ failed = FALSE
    /\ performed = {}

Running == main # "exited"

-----------------------------------------------------------------------------
(* The state manager and the mutex of StateHook                            *)

\* PersistState succeeds or fails, perhaps after the state is stored.
PersistState(s) ==
    \/ saved' = s /\ failed' = FALSE
    \/ saved' \in {saved, s} /\ failed' = TRUE

\* A node is between WriteState and the end of PostStateUpdate: it holds the
\* locks of StateHook and of the working state.
InHook == \E n \in Node : node[n] = "persist"

-----------------------------------------------------------------------------
(* Meta.RunOperation, and the end of the process                           *)

\* The first interrupt stops the operation, the second one cancels it.
Interrupt ==
    \/ main = "wait" /\ main' = "stopping" /\ stopCtx' = TRUE /\ UNCHANGED cancelCtx
    \/ main = "stopping" /\ main' = "canceling" /\ cancelCtx' = TRUE /\ UNCHANGED stopCtx

HandleInterrupt ==
    /\ op # "done"
    /\ Interrupt
    /\ UNCHANGED <<exit, planFile, op, locked, run, node, core, stopping, mgr, performed>>

Exit(how) ==
    /\ Running
    /\ main' = "exited" /\ exit' = how
    /\ UNCHANGED <<contexts, op, locked, run, node, core, stopping, mgr, performed>>

Return == main \in {"wait", "stopping"} /\ op = "done" /\ Exit("returned")

\* A cancelled operation is waited for, but not for long.
GiveUp == main = "canceling" /\ Exit("canceled")

Kill == Exit("killed")

-----------------------------------------------------------------------------
(* opApply                                                                 *)

OpAt(l) == Running /\ op = l

\* localRun: the state is locked, unless there is an error.
LocalRun ==
    /\ OpAt("localRun")
    /\ \/ op' = "plan" /\ locked' = TRUE /\ runCancel' = TRUE
       \/ op' = "done" /\ UNCHANGED <<locked, runCancel>>
    /\ UNCHANGED <<main, exit, contexts, run, node, stopHook, stopping, mgr, performed>>

\* Without a saved plan there are a plan, a look at stopCtx and an approval.
Plan ==
    /\ OpAt("plan")
    /\ \/ op' = "ready" /\ (planFile \/ ~stopCtx)
       \/ op' = "unlock"
    /\ UNCHANGED <<main, exit, contexts, locked, run, node, core, stopping, mgr, performed>>

StartApply ==
    /\ OpAt("ready")
    /\ op' = "opWait" /\ apply' = "called"
    /\ UNCHANGED <<main, exit, contexts, locked, applied, working, node, core,
                   stopping, mgr, performed>>

\* opWait: whichever of its events has happened.
ApplyDone == apply = "closed"
AfterApply == IF applied THEN "write" ELSE "unlock"

OpWait ==
    /\ OpAt("opWait")
    /\ \/ stopCtx /\ op' = "persist"
       \/ cancelCtx /\ op' = "unlock"
       \/ ApplyDone /\ op' = AfterApply
    /\ UNCHANGED <<main, exit, contexts, locked, run, node, core, stopping, mgr, performed>>

\* Mutant: what is persisted is the state the walk is working on.
PersistOnStopWorking ==
    /\ OpAt("persist")
    /\ PersistState(working)
    /\ stop' = "called" /\ op' = "stopSent"
    /\ UNCHANGED <<main, exit, contexts, locked, run, node, core, providersStopped,
                   heard, force, mem, copy, performed>>

\* The state is persisted at once, and Stop is called in a goroutine.
PersistOnStop ==
    /\ OpAt("persist")
    /\ PersistState(mem)
    /\ stop' = "called" /\ op' = "stopSent"
    /\ UNCHANGED <<main, exit, contexts, locked, run, node, core, providersStopped,
                   heard, force, mem, copy, performed>>

\* Mutant: a stop ends the operation like a cancellation.
StopCancels ==
    /\ OpAt("stopSent")
    /\ (cancelCtx \/ ApplyDone) /\ op' = "unlock"
    /\ UNCHANGED <<main, exit, contexts, locked, run, node, core, stopping, mgr, performed>>

StopSent ==
    /\ OpAt("stopSent")
    /\ \/ cancelCtx /\ op' = "unlock"
       \/ ApplyDone /\ op' = AfterApply
    /\ UNCHANGED <<main, exit, contexts, locked, run, node, core, stopping, mgr, performed>>

\* WriteAndPersist of the final state.
FinalWrite ==
    /\ OpAt("write")
    /\ mem' = working /\ op' = "final"
    /\ UNCHANGED <<main, exit, contexts, locked, run, node, core, stopping, force,
                   saved, copy, failed, performed>>

FinalPersist ==
    /\ OpAt("final")
    /\ PersistState(mem)
    /\ op' = IF failed' THEN "backup" ELSE "unlock"
    /\ UNCHANGED <<main, exit, contexts, locked, run, node, core, stopping, force,
                   mem, copy, performed>>

\* backupStateForError: the final state goes to errored.tfstate, or else to the
\* terminal, or is reported as lost.  When the file cannot be opened
\* Filesystem.writeState returns no error, and it is reported as written.
BackupStateForError ==
    /\ OpAt("backup")
    /\ copy' \in {"file", "unwritten", "terminal", "lost"}
    /\ op' = "unlock"
    /\ UNCHANGED <<main, exit, contexts, locked, run, node, core, stopping, force,
                   mem, saved, failed, performed>>

\* The deferred Unlock, which may fail.
Unlock ==
    /\ OpAt("unlock")
    /\ locked' \in {FALSE, locked}
    /\ op' = "done"
    /\ UNCHANGED <<main, exit, contexts, run, node, core, stopping, mgr, performed>>

-----------------------------------------------------------------------------
(* Context.Apply and the nodes of its walk                                 *)

\* Mutant: Stop keeps c.l while it waits for the run.
CtxFreeOfStop == stop \notin {"hooks", "waiting"}

\* The lock c.l is held by Stop while it calls the hooks.
CtxFree == stop # "hooks"

\* The walk begins, unless there is an error before it.
AcquireRun ==
    /\ Running /\ apply = "called" /\ CtxFree
    /\ runCancel' = TRUE /\ stopHook' = FALSE
    /\ apply' \in {"walking", "closed"}
    /\ UNCHANGED <<main, exit, contexts, op, locked, applied, working, node,
                   stopping, mgr, performed>>

ReleaseRun ==
    /\ Running /\ apply = "walking" /\ CtxFree
    /\ \A n \in Node : node[n] = "done"
    /\ apply' = "closed" /\ applied' = TRUE
    /\ UNCHANGED <<main, exit, contexts, op, locked, working, node, core, stopping,
                   mgr, performed>>

NodeAt(n, l) == Running /\ apply = "walking" /\ node[n] = l
Goto(n, l) == node' = [node EXCEPT ![n] = l]

\* The stop hook lets the node call its provider, or not.
PreApply(n) ==
    /\ NodeAt(n, "idle")
    /\ Goto(n, IF stopHook THEN "done" ELSE "request")
    /\ UNCHANGED <<main, exit, contexts, op, locked, run, core, stopping, mgr, performed>>

Respond(n) ==
    /\ NodeAt(n, "request")
    /\ performed' = performed \cup {n}
    /\ Goto(n, "answered")
    /\ UNCHANGED <<main, exit, contexts, op, locked, run, core, stopping, mgr>>

Record(n) ==
    /\ NodeAt(n, "answered") /\ ~InHook
    /\ working' = working \cup {n}
    /\ Goto(n, "hook")
    /\ UNCHANGED <<main, exit, contexts, op, locked, apply, applied, core,
                   stopping, mgr, performed>>

\* StateHook.PostStateUpdate, under its mutex: WriteState ...
HookWrite(n) ==
    /\ NodeAt(n, "hook") /\ ~InHook
    /\ mem' = working
    /\ Goto(n, "persist")
    /\ UNCHANGED <<main, exit, contexts, op, locked, run, core, stopping, force, saved,
                   copy, failed, performed>>

\* Mutant: ForcePersist is not looked at.
PersistOnInterval(n) ==
    /\ NodeAt(n, "persist")
    /\ PersistState(mem) \/ UNCHANGED <<saved, failed>>
    /\ Goto(n, "done")
    /\ UNCHANGED <<main, exit, contexts, op, locked, run, core, stopping, force, mem,
                   copy, performed>>

\* ... and PersistState when it is forced or when the interval has passed.
HookPersist(n) ==
    /\ NodeAt(n, "persist")
    /\ PersistState(mem) \/ (~force /\ UNCHANGED <<saved, failed>>)
    /\ Goto(n, "done")
    /\ UNCHANGED <<main, exit, contexts, op, locked, run, core, stopping, force, mem,
                   copy, performed>>

-----------------------------------------------------------------------------
(* Context.Stop                                                            *)

StopHooks ==
    /\ Running /\ stop = "called"
    /\ stop' = "hooks"
    /\ stopHook' = (stopHook \/ runCancel) /\ runCancel' = FALSE
    /\ heard' = (apply = "walking" /\ runCancel)
    /\ UNCHANGED <<main, exit, contexts, op, locked, run, node, providersStopped, mgr,
                   performed>>

\* StateHook.Stopping; then Stop waits until the run is released.
Stopping ==
    /\ Running /\ stop = "hooks" /\ ~InHook
    /\ force' = TRUE
    /\ PersistState(mem)
    /\ stop' = IF apply = "walking" THEN "waiting" ELSE "returned"
    /\ UNCHANGED <<main, exit, contexts, op, locked, run, node, core, providersStopped,
                   heard, mem, copy, performed>>

StopReturns ==
    /\ Running /\ stop = "waiting" /\ apply # "walking"
    /\ stop' = "returned"
    /\ UNCHANGED <<main, exit, contexts, op, locked, run, node, core, providersStopped,
                   heard, mgr, performed>>

\* watchStop: the run context has been cancelled.
WatchStop ==
    /\ Running /\ apply = "walking" /\ heard /\ ~providersStopped
    /\ providersStopped' = TRUE
    /\ UNCHANGED <<main, exit, contexts, op, locked, run, node, core, stop, heard, mgr,
                   performed>>

-----------------------------------------------------------------------------
Operation == \/ LocalRun \/ Plan \/ StartApply \/ OpWait \/ PersistOnStop \/ StopSent
             \/ FinalWrite \/ FinalPersist \/ BackupStateForError \/ Unlock
Walk(n) == PreApply(n) \/ Record(n) \/ HookWrite(n) \/ HookPersist(n)
Stop == StopHooks \/ Stopping \/ StopReturns

Next == \/ HandleInterrupt \/ Return \/ GiveUp \/ Kill
        \/ Operation \/ AcquireRun \/ ReleaseRun \/ Stop \/ WatchStop
        \/ \E n \in Node : Walk(n) \/ Respond(n)

Spec == Init /\ [][Next]_vars

\* Every goroutine that can go on does.  The user need not approve a plan,
\* and a provider need not answer, unless they are asked to stop.
Fairness ==
    /\ WF_vars(Return) /\ WF_vars(GiveUp)
    /\ WF_vars(Operation /\ (op = "plan" => planFile \/ stopCtx))
    /\ WF_vars(AcquireRun) /\ WF_vars(ReleaseRun) /\ WF_vars(Stop) /\ WF_vars(WatchStop)
    /\ \A n \in Node : WF_vars(Walk(n)) /\ WF_vars(Respond(n) /\ providersStopped)

FairSpec == Spec /\ Fairness

-----------------------------------------------------------------------------
(* Properties                                                              *)

\* When the process ends by itself and was not cancelled, every change that
\* was made is in the persisted state or in the copy of the final state: only
\* a final persist and its copy that have both failed lose any, also when the
\* operation was stopped (opWait, opApply, backupStateForError).
Copied == copy \in {"file", "terminal"} /\ performed = working
CopyFailed == copy \in {"unwritten", "lost"} /\ failed

NothingForgotten ==
    exit = "returned" => performed \subseteq saved \/ Copied \/ CopyFailed

\* After a stop a kill loses only what nodes have in hand: the changes of all
\* others are persisted, unless persisting failed the last time (ForcePersist
\* of StateHook, and its mutex).
KillLosesLittle ==
    force /\ ~failed =>
        \A n \in performed \ saved : node[n] \in {"answered", "hook", "persist"}

\* The state is persisted under the state lock, but for two cases: the
\* operation was cancelled and its nodes go on, or persisting the final state
\* failed and Stop tries once more.
PersistsUnderLock ==
    [][saved' # saved => locked \/ cancelCtx \/ failed]_vars

\* A stop that reaches a run, or a cancellation, ends the process, although
\* a provider answers only when it is asked to stop (watchStop, RunOperation).
StopEnds == heard \/ cancelCtx ~> exit # "none"

-----------------------------------------------------------------------------
(* What comments of the source promise and the code does not keep          *)

\* "Terraform Core won't start any new operations after it's been stopped"
\* (hook_state.go).
StoppedStartsNothing ==
    [][\A n \in Node : NodeAt(n, "idle") /\ node'[n] = "request"
          => stop \notin {"waiting", "returned"}]_vars
=============================================================================
