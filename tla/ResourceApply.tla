---------------------------- MODULE ResourceApply ----------------------------
(***************************************************************************)
(* The apply of planned changes to managed resources, from one run of      *)
(* Terraform to the next: a plan, a walk of the apply graph by nodes that  *)
(* create, update and destroy remote objects and record them in the state, *)
(* failures of any step of a node, and crashes of the run.                 *)
(***************************************************************************)
EXTENDS ApplyGraph

CONSTANTS
    MaxRun,     \* bound: the number of runs
    Runs(_),    \* bound: the number of runs of a configuration
    Setups      \* a configuration and the one that made the objects before it

Run == 0..MaxRun
Id == Inst \X Run       \* the object that a run created for an instance

ASSUME RunAssumption == MaxRun \in Nat /\ Key = 1..MaxRun
ASSUME SetupsAssumption ==
    \A s \in Setups : /\ IsConfig(s.config) /\ IsConfig(s.before)
                      /\ Runs(s.config) \in Run

Object == [id : Id, status : {"ready", "tainted"}, deps : SUBSET Inst, cbd : BOOLEAN]

\* An object returned with an error has no status yet.
Result == Object \cup [id : Id, status : {"none"}, deps : SUBSET Inst, cbd : BOOLEAN]

ASSUME NilAssumption == Nil \notin Result

VARIABLES
    config, run, phase, change, edges,
    \* the working state, the snapshot that is stored
    current, deposed, saved,
    \* the remote objects, and the objects each was made to refer to
    remote, refs,
    \* for each node, the point it has reached, the object it works on, errors
    pc, obj, err,
    \* bookkeeping: nodes that have ended since the snapshot was stored, objects
    \* that are remote but in no state, objects not created properly
    unstored, lost, broken

state == <<current, deposed>>
vars  == <<config, run, phase, change, edges, state, saved, remote, refs, pc,
           obj, err, unstored, lost, broken>>

TypeOK ==
    /\ IsConfig(config) /\ run \in Run /\ phase \in {"plan", "apply", "cycle"}
    /\ change \in [Inst -> Action]
    /\ edges \subseteq Node \X Node
    /\ current \in [Inst -> Object \cup {Nil}]
    /\ deposed \in [Inst -> [Key -> Object \cup {Nil}]]
    /\ saved \in [current : [Inst -> Object \cup {Nil}],
                  deposed : [Inst -> [Key -> Object \cup {Nil}]]]
    /\ remote \subseteq Id /\ refs \in [Id -> SUBSET Id]
    /\ pc \in [Node -> {"none", "waiting", "apply", "write", "provision", "hook",
                        "ok", "error"}]
    /\ obj \in [Node -> Result \cup {Nil}]
    /\ err \in [Node -> BOOLEAN]
    /\ unstored \subseteq Node /\ lost \subseteq Id /\ broken \subseteq Id

Snapshot == [current |-> current, deposed |-> deposed]
NoDeposed == [i \in Inst |-> [k \in Key |-> Nil]]

Init ==
    /\ \E s \in Setups :
        /\ config = s.config
        /\ current = [i \in Inst |-> IF i \in s.before.present
                THEN [id |-> <<i, 0>>, status |-> "ready",
                      deps |-> Dependencies(s.before, i),
                      cbd |-> CreateBeforeDestroy(s.before, i)]
                ELSE Nil]
        /\ remote = s.before.present \X {0}
        /\ refs = [o \in Id |-> IF o \in remote THEN Refs(s.before, o[1]) \X {0} ELSE {}]
    /\ run = 0 /\ phase = "plan"
    /\ change = [i \in Inst |-> "NoOp"] /\ edges = {}
    /\ deposed = NoDeposed
    /\ saved = Snapshot
    /\ pc = [n \in Node |-> "none"]
    /\ obj = [n \in Node |-> Nil]
    /\ err = [n \in Node |-> FALSE]
    /\ unstored = {} /\ lost = {} /\ broken = {}

\* A state's record of objects that exist, as the set of their ids.
Recorded(cur, dep) ==
    {cur[i].id : i \in {j \in Inst : cur[j] # Nil}}
    \cup UNION {{dep[i][k].id : k \in {l \in Key : dep[i][l] # Nil}} : i \in Inst}

-----------------------------------------------------------------------------
(* Plan                                                                    *)

\* The current objects that i refers to.
RefIds(cur, i) == {cur[j].id : j \in {k \in Refs(config, i) : cur[k] # Nil}}

\* The actions a plan may have for i: a change of what i refers to is at
\* least an update.
Planned(i, o, ch) ==
    LET replace == IF CreateBeforeDestroy(config, i) THEN "CreateThenDelete"
                                                     ELSE "DeleteThenCreate"
        same == refs[o.id] = RefIds(current, i)
                /\ \A j \in Refs(config, i) : ch[j] \in {"NoOp", "Update"}
    IN  IF i \notin config.present THEN {IF o = Nil THEN "NoOp" ELSE "Delete"}
        ELSE IF o = Nil THEN {"Create"}
        ELSE IF o.status = "tainted" THEN {replace}
        ELSE {"Update", replace} \cup (IF same THEN {"NoOp"} ELSE {})

\* The refreshed object: one that is gone is dropped, one that is configured
\* has its dependencies and its create_before_destroy brought up to date.
Refreshed(o) == IF o # Nil /\ o.id \in remote THEN o ELSE Nil

Configured(i, o, action) ==
    IF o = Nil \/ i \notin config.present THEN o
    ELSE [o EXCEPT !.deps = Dependencies(config, i)
                            \cup (IF action = "NoOp" THEN {} ELSE @),
                   !.cbd = CreateBeforeDestroy(config, i)]

Plan ==
    /\ phase = "plan" /\ run < Runs(config)
    /\ run' = run + 1
    /\ change' \in {ch \in [Inst -> Action] :
            \A i \in Inst : ch[i] \in Planned(i, Refreshed(current[i]), ch)}
    /\ current' = [i \in Inst |-> Configured(i, Refreshed(current[i]), change'[i])]
    /\ deposed' = [i \in Inst |-> [k \in Key |-> Refreshed(deposed[i][k])]]
    /\ LET nodes == Nodes(change', [i \in Inst |-> run'], deposed')
       IN  /\ edges' = Edges(config, current', nodes)
           /\ pc' = [n \in Node |-> IF n \in nodes THEN "waiting" ELSE "none"]
    /\ phase' = IF Cyclic(edges') THEN "cycle" ELSE "apply"
    /\ UNCHANGED <<config, saved, remote, refs, obj, err, unstored, lost, broken>>

-----------------------------------------------------------------------------
(* The walk                                                                *)

Ended == {"none", "ok", "error"}
Deps(n) == {m \in Node : <<n, m>> \in edges}
Goto(n, l) == pc' = [pc EXCEPT ![n] = l]

At(n, kind, l) == phase = "apply" /\ Kind(n) = kind /\ pc[n] = l

Starts(n, kind) == At(n, kind, "waiting") /\ \A m \in Deps(n) : pc[m] = "ok"

\* A node behind one that failed is not executed.
Skip(n) ==
    /\ phase = "apply" /\ pc[n] = "waiting"
    /\ \A m \in Deps(n) : pc[m] \in Ended
    /\ \E m \in Deps(n) : pc[m] = "error"
    /\ Goto(n, "error")
    /\ UNCHANGED <<config, run, phase, change, edges, state, saved, remote, refs,
                   obj, err, unstored, lost, broken>>

\* Mutant: the state of a node that has failed is not written.
SavedWithoutError(n) == IF err[n] THEN saved ELSE Snapshot

Saved(n) == Snapshot

\* updateStateHook, after which the node has ended.  The state manager may
\* keep the state in memory only, until an interval has passed, and both the
\* write and the persist may fail, a persist also when the state is stored.
UpdateStateHook(n) ==
    /\ phase = "apply" /\ pc[n] = "hook"
    /\ \/ saved' = Saved(n) /\ unstored' = {}
       \/ saved' = saved /\ unstored' = unstored \cup {n}
    /\ \/ ~err[n] /\ Goto(n, "ok")
       \/ Goto(n, "error")
    /\ UNCHANGED <<config, run, phase, change, edges, state, remote, refs, obj,
                   err, lost, broken>>

-----------------------------------------------------------------------------
(* NodeApplyableResourceInstance                                           *)

Creates(i) == change[i] # "Update"

\* The current object becomes a deposed one, under the key allocated to it.
Depose(i) ==
    /\ deposed' = [deposed EXCEPT ![i][run] = current[i]]
    /\ current' = [current EXCEPT ![i] = Nil]

\* managedResourceExecute up to the pre-apply hook.  Anything after the depose
\* may fail: the second plan, its comparison with the first, the hook.
ApplyStart(n) ==
    LET i == Addr(n) IN
    /\ Starts(n, "apply")
    /\ IF change[i] = "CreateThenDelete" THEN Depose(i) ELSE UNCHANGED state
    /\ \/ Goto(n, "apply")
       \/ Goto(n, "error")
       \/ ~Creates(i) /\ refs[current[i].id] = RefIds(current, i) /\ Goto(n, "ok")
    /\ UNCHANGED <<config, run, phase, change, edges, saved, remote, refs, obj,
                   err, unstored, lost, broken>>

NewObject(i, s) ==
    [id |-> <<i, run>>, status |-> s, deps |-> {},
     cbd |-> CreateBeforeDestroy(config, i)]

\* ApplyResourceChange for a creation: there is an object, also when it is
\* not complete, or there is none.
Create(n) ==
    LET i == Addr(n) IN
    /\ At(n, "apply", "apply") /\ Creates(i)
    /\ \/ /\ remote' = remote \cup {<<i, run>>}
          /\ refs' = [refs EXCEPT ![<<i, run>>] = RefIds(current, i)]
          /\ err' \in {err, [err EXCEPT ![n] = TRUE]}
          /\ obj' = [obj EXCEPT ![n] = NewObject(i, IF err'[n] THEN "none" ELSE "ready")]
       \/ /\ err' = [err EXCEPT ![n] = TRUE]
          /\ UNCHANGED <<remote, refs, obj>>
    /\ broken' = IF err'[n] THEN broken \cup {<<i, run>>} ELSE broken
    /\ Goto(n, "write")
    /\ UNCHANGED <<config, run, phase, change, edges, state, saved, unstored, lost>>

\* ApplyResourceChange for an update: with an error it may have had an effect.
Update(n) ==
    LET i == Addr(n) IN
    /\ At(n, "apply", "apply") /\ ~Creates(i)
    /\ obj' = [obj EXCEPT ![n] = [current[i] EXCEPT !.cbd = CreateBeforeDestroy(config, i)]]
    /\ err' \in {err, [err EXCEPT ![n] = TRUE]}
    /\ \/ refs' = [refs EXCEPT ![current[i].id] = RefIds(current, i)]
       \/ err'[n] /\ UNCHANGED refs
    /\ Goto(n, "write")
    /\ UNCHANGED <<config, run, phase, change, edges, state, saved, remote, unstored, lost, broken>>

\* Mutant: a failed creation is not marked.
NeverTainted(n, o, failed) == o

\* Mutant: only a failed creation is marked, not a failed provisioner.
TaintedOnce(n, o, failed) ==
    IF o # Nil /\ o.status = "none" THEN [o EXCEPT !.status = "tainted"] ELSE o

MaybeTainted(n, o, failed) ==
    IF o # Nil /\ failed /\ Creates(Addr(n)) THEN [o EXCEPT !.status = "tainted"] ELSE o

\* The result of apply is recorded, with the configuration's dependencies.
WriteApplied(n) ==
    LET i == Addr(n)
        o == MaybeTainted(n, obj[n], err[n]) IN
    /\ At(n, "apply", "write")
    /\ obj' = [obj EXCEPT ![n] =
                IF o = Nil THEN Nil ELSE [o EXCEPT !.deps = Dependencies(config, i)]]
    /\ current' = [current EXCEPT ![i] = obj'[n]]
    /\ Goto(n, "provision")
    /\ UNCHANGED <<config, run, phase, change, edges, deposed, saved, remote, refs,
                   err, unstored, lost, broken>>

\* Mutant: the deposed object comes back although there is a new one.
AlwaysRestore(n, o) == TRUE

\* MaybeRestoreResourceInstanceDeposed, after an error.
Restores(n, o) == o = Nil

\* The creation-time provisioners; the object is recorded again; after an
\* error the deposed object may be restored; the post-apply hook.
Provision(n) ==
    LET i == Addr(n) IN
    /\ At(n, "apply", "provision")
    /\ \E fails \in BOOLEAN, hookFails \in BOOLEAN :
        /\ fails => Creates(i) /\ obj[n] # Nil /\ obj[n].status = "ready"
        /\ err' = [err EXCEPT ![n] = @ \/ fails \/ hookFails]
        /\ broken' = IF fails THEN broken \cup {obj[n].id} ELSE broken
        /\ LET failed == err[n] \/ fails
               o == MaybeTainted(n, obj[n], failed)
               restore == change[i] = "CreateThenDelete" /\ failed /\ Restores(n, o)
           IN  /\ obj' = [obj EXCEPT ![n] = o]
               /\ current' = [current EXCEPT ![i] = IF restore THEN deposed[i][run] ELSE o]
               /\ deposed' = IF restore THEN [deposed EXCEPT ![i][run] = Nil] ELSE deposed
    /\ Goto(n, "hook")
    /\ UNCHANGED <<config, run, phase, change, edges, saved, remote, refs, unstored, lost>>

-----------------------------------------------------------------------------
(* NodeDestroyResourceInstance, NodeDestroyDeposedResourceInstanceObject   *)

\* The pre-apply hook or the destroy-time provisioners may fail.
DestroyStart(n) ==
    LET i == Addr(n) IN
    /\ Starts(n, "destroy")
    /\ \/ current[i] = Nil /\ Goto(n, "ok") /\ UNCHANGED obj
       \/ current[i] # Nil /\ Goto(n, "error") /\ UNCHANGED obj
       \/ /\ current[i] # Nil /\ Goto(n, "apply")
          /\ obj' = [obj EXCEPT ![n] = current[i]]
    /\ UNCHANGED <<config, run, phase, change, edges, state, saved, remote, refs,
                   err, unstored, lost, broken>>

\* A missing object is an error.
DeposedStart(n) ==
    LET o == deposed[Addr(n)][n[3]] IN
    /\ Starts(n, "deposed")
    /\ \/ o # Nil /\ Goto(n, "apply") /\ obj' = [obj EXCEPT ![n] = o]
       \/ Goto(n, "error") /\ UNCHANGED obj
    /\ UNCHANGED <<config, run, phase, change, edges, state, saved, remote, refs,
                   err, unstored, lost, broken>>

\* ApplyResourceChange for a deletion: after an error the prior object is
\* kept, whether it is still there or not; what the provider returns in its
\* place has lost create_before_destroy (of a deposed object that is not read
\* again, and left alone).
Destroy(n) ==
    /\ phase = "apply" /\ pc[n] = "apply" /\ Kind(n) # "apply"
    /\ \/ /\ obj' = [obj EXCEPT ![n] = Nil]
          /\ remote' = remote \ {obj[n].id}
          /\ UNCHANGED err
       \/ /\ err' = [err EXCEPT ![n] = TRUE]
          /\ remote' \in {remote, remote \ {obj[n].id}}
          /\ \/ UNCHANGED obj
             \/ Kind(n) = "destroy" /\ obj' = [obj EXCEPT ![n].cbd = FALSE]
    /\ Goto(n, "write")
    /\ UNCHANGED <<config, run, phase, change, edges, state, saved, refs, unstored, lost, broken>>

WriteDestroyed(n) ==
    /\ At(n, "destroy", "write")
    /\ current' = [current EXCEPT ![Addr(n)] = obj[n]]
    /\ err' \in {err, [err EXCEPT ![n] = TRUE]}
    /\ Goto(n, "hook")
    /\ UNCHANGED <<config, run, phase, change, edges, deposed, saved, remote, refs,
                   obj, unstored, lost, broken>>

\* With an error the hooks are not called.
WriteDeposed(n) ==
    /\ At(n, "deposed", "write")
    /\ deposed' = [deposed EXCEPT ![Addr(n)][n[3]] = obj[n]]
    /\ \/ err[n] /\ Goto(n, "error") /\ UNCHANGED err
       \/ ~err[n] /\ Goto(n, "hook") /\ err' \in {err, [err EXCEPT ![n] = TRUE]}
    /\ UNCHANGED <<config, run, phase, change, edges, current, saved, remote, refs,
                   obj, unstored, lost, broken>>

-----------------------------------------------------------------------------
(* The end of a run                                                        *)

EndRun ==
    /\ phase' = "plan"
    /\ change' = [i \in Inst |-> "NoOp"] /\ edges' = {}
    /\ pc' = [n \in Node |-> "none"]
    /\ obj' = [n \in Node |-> Nil]
    /\ err' = [n \in Node |-> FALSE]
    /\ unstored' = {}
    /\ UNCHANGED <<config, run, remote, refs>>

WalkEnded == phase = "apply" /\ \A n \in Node : pc[n] \in Ended

\* The next run starts from the snapshot that is stored.
StartOver ==
    /\ current' = saved.current /\ deposed' = saved.deposed
    /\ lost' = lost \cup (remote \ Recorded(current', deposed'))
    /\ broken' = {}
    /\ EndRun
    /\ UNCHANGED saved

\* The walk has ended and the state is stored.
Finish ==
    /\ WalkEnded
    /\ saved' = Snapshot
    /\ EndRun
    /\ UNCHANGED <<state, lost, broken>>

\* It is not, and nobody pushes the copy that is left of it.
FinishUnstored == WalkEnded /\ StartOver

\* The process dies.
Crash == phase = "apply" /\ StartOver

Step(n) ==
    \/ Skip(n) \/ UpdateStateHook(n)
    \/ ApplyStart(n) \/ Create(n) \/ Update(n) \/ WriteApplied(n) \/ Provision(n)
    \/ DestroyStart(n) \/ DeposedStart(n) \/ Destroy(n)
    \/ WriteDestroyed(n) \/ WriteDeposed(n)

Next == Plan \/ Finish \/ FinishUnstored \/ Crash \/ \E n \in Node : Step(n)

Spec == Init /\ [][Next]_vars

-----------------------------------------------------------------------------
(* Properties                                                              *)

\* The objects between the answer of the provider and its record.
InHand == {obj[n].id : n \in {m \in Node : pc[m] = "write" /\ obj[m] # Nil}}

\* Every remote object is in the state, unless a crash or a failed final store
\* has lost it: no node, whatever fails, forgets or overwrites the only record.
NoObjectLost == remote \subseteq Recorded(current, deposed) \cup InHand \cup lost

\* An object whose creation or provisioning has failed is tainted, so that
\* the next run replaces it.
FailedIsTainted ==
    \A i \in Inst : current[i] # Nil /\ current[i].id \in broken
                        => current[i].status = "tainted"

\* A replaced object is destroyed only when the new one is there, and when no
\* current object that is recorded to depend on it still refers to it.
ReplacedIsUnused ==
    [][\A n \in Node : Destroy(n) /\ Kind(n) = "deposed" =>
          LET i == Addr(n) IN
          /\ i \in config.present => current[i] # Nil /\ current[i].id # obj[n].id
          /\ \A j \in Inst : current[j] # Nil /\ i \in current[j].deps
                                => obj[n].id \notin refs[current[j].id]]_vars

\* A run without an error leaves what is configured, complete, and nothing
\* else.
CleanRun ==
    [][Finish /\ (\A n \in Node : pc[n] # "error") =>
          /\ deposed = NoDeposed
          /\ {i \in Inst : current[i] # Nil} = config.present
          /\ \A i \in config.present : /\ current[i].status = "ready"
                                       /\ refs[current[i].id] = RefIds(current, i)
          /\ remote = Recorded(current, deposed) \cup lost]_vars

\* A crash, or a final state that is not stored, loses only objects of nodes
\* at work and of nodes that have ended since the last store: whichever node's
\* hook stores the state, it stores what all that ended before have done.
CrashLosesLittle ==
    [][\A o \in lost' \ lost : \E n \in Node :
          /\ Addr(n) = o[1]
          /\ pc[n] \in {"write", "provision", "hook"} \/ n \in unstored]_vars

\* Every object recorded as a dependency of a create-before-destroy one is
\* create-before-destroy itself.
CBDInherited ==
    \A i \in Inst : current[i] # Nil /\ current[i].cbd =>
        \A j \in current[i].deps : current[j] # Nil => current[j].cbd

\* The dependencies that are recorded, with those that will be.
DependsOn(i) == Dependencies(config, i)
                \cup (IF current[i] # Nil THEN current[i].deps ELSE {})

\* Of any instances one depends on none of the others, and on one none depends.
DependenciesOrdered ==
    \A S \in (SUBSET Inst) \ {{}} :
        /\ \E i \in S : DependsOn(i) \cap S = {}
        /\ \E i \in S : \A j \in S : i \notin DependsOn(j)

\* The nodes of a plan wait for one another only when create_before_destroy
\* is not inherited along the recorded dependencies, or when these
\* dependencies, with those of the configuration, go round in a circle.
AcyclicIfInherited == phase = "cycle" => ~CBDInherited \/ ~DependenciesOrdered

=============================================================================
