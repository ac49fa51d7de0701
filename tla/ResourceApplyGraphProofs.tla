---------------------- MODULE ResourceApplyGraphProofs ----------------------
(***************************************************************************)
(* Proofs about the apply of managed resources that need its graph as a    *)
(* whole: when its nodes cannot wait for one another, that a replaced      *)
(* object is out of use when it is destroyed, and what a run without an    *)
(* error leaves.                                                           *)
(***************************************************************************)
EXTENDS ResourceApplyProofs

-----------------------------------------------------------------------------
(* The edges                                                               *)

\* What an edge of an apply graph is: from a creating node to a creating node
\* it refers to or to one that destroys first, from one that destroys last to
\* a creating node, or from a destroying node to that of a dependent.
LEMMA EdgeForm ==
  ASSUME NEW nodes \in SUBSET Node, NEW cur, NEW e \in Edges(config, cur, nodes)
  PROVE  /\ e[1] \in nodes /\ e[2] \in nodes /\ e = <<e[1], e[2]>>
         /\ \/ /\ Kind(e[1]) = "apply" /\ Kind(e[2]) = "apply"
               /\ Addr(e[2]) \in Dependencies(config, Addr(e[1]))
            \/ Kind(e[1]) = "apply" /\ Kind(e[2]) # "apply" /\ ~DestroysCBD(cur, e[2])
            \/ Kind(e[1]) # "apply" /\ Kind(e[2]) = "apply" /\ DestroysCBD(cur, e[1])
            \/ /\ Kind(e[1]) # "apply" /\ Kind(e[2]) # "apply"
               /\ Addr(e[1]) \in StateDependencies(config, cur, e[2])
<1> DEFINE es == References(config, nodes) \cup DestroyEdges(config, cur, nodes)
           reversed == {d \in es : Kind(d[1]) = "apply" /\ DestroysCBD(cur, d[2])}
<1>1. \A d \in es :
        /\ d[1] \in nodes /\ d[2] \in nodes /\ d = <<d[1], d[2]>>
        /\ \/ /\ Kind(d[1]) = "apply" /\ Kind(d[2]) = "apply"
              /\ Addr(d[2]) \in Dependencies(config, Addr(d[1]))
           \/ Kind(d[1]) = "apply" /\ Kind(d[2]) # "apply"
           \/ /\ Kind(d[1]) # "apply" /\ Kind(d[2]) # "apply"
              /\ Addr(d[1]) \in StateDependencies(config, cur, d[2])
  BY DEF References, DestroyEdges
<1>2. Edges(config, cur, nodes) = (es \ reversed) \cup {<<d[2], d[1]>> : d \in reversed}
  BY DEF Edges, CBDEdges
<1>3. \A d \in reversed : d \in es /\ Kind(d[1]) = "apply" /\ Kind(d[2]) # "apply"
                          /\ DestroysCBD(cur, d[2])
  BY <1>1 DEF DestroysCBD
<1>4. CASE e \in es \ reversed
  <2>1. e \in es /\ ~(Kind(e[1]) = "apply" /\ DestroysCBD(cur, e[2]))
    BY <1>4
  <2> HIDE DEF es, reversed
  <2> QED
    BY <1>1, <2>1
<1>5. CASE e \in {<<d[2], d[1]>> : d \in reversed}
  <2> HIDE DEF es, reversed
  <2>1. PICK d \in reversed : e = <<d[2], d[1]>>
    BY <1>5
  <2>2. e[1] = d[2] /\ e[2] = d[1]
    BY <2>1
  <2> QED
    BY <1>1, <1>3, <2>1, <2>2
<1> QED
  BY <1>2, <1>4, <1>5

\* DependsOn, CBDInherited and DependenciesOrdered of the objects in cur.
DependsIn(cur, i) == Dependencies(config, i) \cup (IF cur[i] # Nil THEN cur[i].deps ELSE {})

InheritedIn(cur) ==
    \A i \in Inst : cur[i] # Nil /\ cur[i].cbd =>
        \A j \in cur[i].deps : cur[j] # Nil => cur[j].cbd

OrderedIn(cur) ==
    \A S \in (SUBSET Inst) \ {{}} :
        /\ \E i \in S : DependsIn(cur, i) \cap S = {}
        /\ \E i \in S : \A j \in S : i \notin DependsIn(cur, j)

\* Nodes that each destroy for a dependent that is destroyed, too, cannot
\* be: of their instances one has no dependent.
LEMMA NoCircleOfDestroyers ==
  ASSUME NEW cur, OrderedIn(cur), NEW T \in SUBSET Node, T # {},
         \A n \in T : Addr(n) \in Inst,
         \A n \in T : \E m \in T : cur[Addr(m)] # Nil
                                   /\ Addr(n) \in cur[Addr(m)].deps
  PROVE  FALSE
<1> DEFINE S == {Addr(n) : n \in T}
<1>1. S \in (SUBSET Inst) \ {{}}
  <2>1. PICK n \in T : TRUE
    OBVIOUS
  <2>2. S \subseteq Inst /\ Addr(n) \in S
    OBVIOUS
  <2> HIDE DEF S
  <2> QED
    BY <2>2
<1>2. PICK i \in S : \A j \in S : i \notin DependsIn(cur, j)
  BY <1>1 DEF OrderedIn
<1>3. PICK n \in T : i = Addr(n)
  BY <1>2
<1>4. PICK m \in T : cur[Addr(m)] # Nil /\ Addr(n) \in cur[Addr(m)].deps
  OBVIOUS
<1>5. Addr(m) \in S
  OBVIOUS
<1> QED
  BY <1>2, <1>3, <1>4, <1>5 DEF DependsIn

\* The graph has no cycle when create_before_destroy is inherited and the
\* dependencies are ordered: nodes that destroy first wait for such nodes of
\* their dependents, creating nodes for those and for creating nodes of their
\* dependencies, nodes that destroy last for all of them.
LEMMA NoCycle ==
  ASSUME NEW nodes \in SUBSET Node, NEW cur, InheritedIn(cur), OrderedIn(cur),
         \A i \in Inst : D(i) \in nodes => cur[i] # Nil,
         \A i \in Inst, k \in Key : X(i, k) \in nodes /\ cur[i] # Nil => cur[i].cbd
  PROVE  ~Cyclic(Edges(config, cur, nodes))
<1> DEFINE es == Edges(config, cur, nodes)
<1> HIDE DEF es
<1> SUFFICES ASSUME Cyclic(es)
             PROVE  FALSE
  BY DEF es
<1>0. PICK S : S # {} /\ \A n \in S : \E m \in S : <<n, m>> \in es
  BY DEF Cyclic
<1> DEFINE Last(n) == DestroysCBD(cur, n)
           Edge(n, m) == <<n, m>> \in es
<1>1. \A n, m : Edge(n, m) =>
        /\ n \in nodes /\ m \in nodes
        /\ \/ /\ Kind(n) = "apply" /\ Kind(m) = "apply"
              /\ Addr(m) \in Dependencies(config, Addr(n))
           \/ Kind(n) = "apply" /\ Kind(m) # "apply" /\ ~Last(m)
           \/ Kind(n) # "apply" /\ Kind(m) = "apply" /\ Last(n)
           \/ /\ Kind(n) # "apply" /\ Kind(m) # "apply"
              /\ Addr(n) \in StateDependencies(config, cur, m)
  <2> TAKE n, m
  <2> HAVE Edge(n, m)
  <2> DEFINE e == <<n, m>>
  <2>1. e[1] = n /\ e[2] = m /\ e \in Edges(config, cur, nodes)
    BY DEF es
  <2> HIDE DEF e
  <2> QED
    BY <2>1, EdgeForm
<1>2. \A n \in S : \E m \in S : Edge(n, m)
  BY <1>0
<1> HIDE DEF Edge
<1>3. S \subseteq nodes /\ \A n \in S : n \in Node /\ Addr(n) \in Inst
  BY <1>1, <1>2, NodeForm
<1>4. \A m \in S, i \in Inst : Kind(m) # "apply" /\ i \in StateDependencies(config, cur, m)
        => cur[Addr(m)] # Nil /\ i \in cur[Addr(m)].deps
  BY DEF StateDependencies
<1>5. \A m \in S : Kind(m) # "apply" /\ Last(m) /\ cur[Addr(m)] # Nil
                       => cur[Addr(m)].cbd
  BY <1>3, NodeForm DEF DestroysCBD
<1>6. \A n \in S : Kind(n) # "apply" /\ ~Last(n)
                       => cur[Addr(n)] # Nil /\ ~cur[Addr(n)].cbd
  BY <1>3, NodeForm DEF DestroysCBD
<1> HIDE DEF Last
<1>7. \A n \in S : ~(Kind(n) # "apply" /\ ~Last(n))
  <2> DEFINE T == {n \in S : Kind(n) # "apply" /\ ~Last(n)}
  <2>1. ASSUME NEW n \in T
        PROVE  \E m \in T : cur[Addr(m)] # Nil /\ Addr(n) \in cur[Addr(m)].deps
    <3>1. PICK m \in S : Edge(n, m)
      BY <1>2
    <3>2. Kind(m) # "apply" /\ cur[Addr(m)] # Nil /\ Addr(n) \in cur[Addr(m)].deps
      BY <1>1, <1>3, <1>4, <3>1
    <3>3. ~Last(m)
      BY <1>3, <1>5, <1>6, <3>2 DEF InheritedIn
    <3> QED
      BY <3>2, <3>3
  <2>2. T \in SUBSET Node /\ \A n \in T : Addr(n) \in Inst
    BY <1>3
  <2> HIDE DEF T
  <2>3. T = {}
    BY <2>1, <2>2, NoCircleOfDestroyers
  <2> QED
    BY <2>3 DEF T
<1>8. \A n \in S : Kind(n) # "apply"
  <2> DEFINE R == {Addr(n) : n \in {m \in S : Kind(m) = "apply"}}
  <2>1. ASSUME NEW i \in R
        PROVE  DependsIn(cur, i) \cap R # {}
    <3>1. PICK n \in S : Kind(n) = "apply" /\ i = Addr(n)
      OBVIOUS
    <3>2. PICK m \in S : Edge(n, m)
      BY <1>2
    <3>3. Kind(m) = "apply" /\ Addr(m) \in Dependencies(config, i)
      BY <1>1, <1>7, <3>1, <3>2
    <3> QED
      BY <3>3 DEF DependsIn
  <2>2. R \in SUBSET Inst
    BY <1>3
  <2> HIDE DEF R
  <2>3. R = {}
    BY <2>1, <2>2 DEF OrderedIn
  <2> QED
    BY <2>3 DEF R
<1>9. ASSUME NEW n \in S
      PROVE  \E m \in S : cur[Addr(m)] # Nil /\ Addr(n) \in cur[Addr(m)].deps
  <2>1. PICK m \in S : Edge(n, m)
    BY <1>2
  <2> QED
    BY <1>1, <1>3, <1>4, <1>8, <2>1
<1>10. S \in SUBSET Node
  BY <1>3
<1> QED
  BY <1>0, <1>3, <1>9, <1>10, NoCircleOfDestroyers

-----------------------------------------------------------------------------
(* What a step does to the state                                           *)

\* What becomes of a deposed object: the creating node of the instance deposes
\* one under the key of the run, and restores it, or its own node destroys it.
LEMMA DeposedStep ==
  ASSUME IInv, NEW n \in Node, Step(n), NEW i \in Inst, NEW k \in Key
  PROVE  \/ deposed'[i][k] = deposed[i][k]
         \/ /\ n = A(i) /\ k = run /\ change[i] = "CreateThenDelete" /\ pc[n] = "waiting"
            /\ deposed'[i][k] = current[i] /\ current'[i] = Nil
         \/ /\ n = A(i) /\ k = run /\ pc[n] = "provision" /\ err'[n]
            /\ deposed'[i][k] = Nil /\ current'[i] = deposed[i][k] /\ current[i] = Nil
         \/ n = X(i, k) /\ pc[n] = "write" /\ deposed'[i][k] = obj[n]
<1> USE DEF At, Starts, state
<1>0. /\ Addr(n) \in Inst /\ TypeOK /\ run \in Key
      /\ deposed[i] \in [Key -> Object \cup {Nil}]
      /\ deposed[Addr(n)] \in [Key -> Object \cup {Nil}]
      /\ deposed \in [Inst -> [Key -> Object \cup {Nil}]]
  BY AtWork DEF TypeOK
<1>1. CASE ApplyStart(n)
  <2>1. n = A(Addr(n)) /\ pc[n] = "waiting"
    BY <1>1, NodeForm DEF ApplyStart
  <2>2. CASE change[Addr(n)] # "CreateThenDelete"
    BY <1>1, <2>2 DEF ApplyStart
  <2>3. CASE change[Addr(n)] = "CreateThenDelete"
    <3>1. /\ deposed' = [deposed EXCEPT ![Addr(n)][run] = current[Addr(n)]]
          /\ current' = [current EXCEPT ![Addr(n)] = Nil]
      BY <1>1, <2>3 DEF ApplyStart, Depose
    <3>2. CASE i = Addr(n) /\ k = run
      <4>1. deposed'[i][k] = current[i] /\ current'[i] = Nil
        BY <1>0, <3>1, <3>2 DEF TypeOK
      <4> QED
        BY <2>1, <2>3, <3>2, <4>1
    <3>3. CASE ~(i = Addr(n) /\ k = run)
      <4>1. deposed'[i][k] = deposed[i][k]
        BY <1>0, <3>1, <3>3
      <4> QED
        BY <4>1
    <3> QED
      BY <3>2, <3>3
  <2> QED
    BY <2>2, <2>3
<1>2. CASE Provision(n)
  <2>1. n = A(Addr(n)) /\ pc[n] = "provision" /\ obj[n] = current[Addr(n)]
    BY <1>2, AtWork, NodeForm DEF Provision, Applies
  <2>2. PICK fails \in BOOLEAN, hookFails \in BOOLEAN :
          /\ err' = [err EXCEPT ![n] = @ \/ fails \/ hookFails]
          /\ LET failed == err[n] \/ fails
                 o == MaybeTainted(n, obj[n], failed)
                 restore == change[Addr(n)] = "CreateThenDelete" /\ failed /\ Restores(n, o)
             IN  /\ current' = [current EXCEPT ![Addr(n)] =
                                  IF restore THEN deposed[Addr(n)][run] ELSE o]
                 /\ deposed' = IF restore THEN [deposed EXCEPT ![Addr(n)][run] = Nil]
                                          ELSE deposed
    BY <1>2 DEF Provision
  <2>3. obj[n] # Nil => MaybeTainted(n, obj[n], TRUE) # Nil /\ MaybeTainted(n, obj[n], FALSE) # Nil
    <3>1. ASSUME obj[n] # Nil PROVE [obj[n] EXCEPT !.status = "tainted"] \in Result
      <4>1. obj[n] \in Result
        BY <1>0, <3>1 DEF TypeOK
      <4> QED
        BY <4>1 DEF Result, Object
    <3> QED
      BY <3>1, NilAssumption DEF MaybeTainted
  <2>4. \/ deposed' = deposed
        \/ /\ deposed' = [deposed EXCEPT ![Addr(n)][run] = Nil] /\ err'[n] /\ obj[n] = Nil
           /\ current' = [current EXCEPT ![Addr(n)] = deposed[Addr(n)][run]]
    BY <1>0, <2>2, <2>3 DEF Restores, TypeOK
  <2>5. CASE deposed' = deposed
    BY <2>5
  <2>6. CASE /\ deposed' = [deposed EXCEPT ![Addr(n)][run] = Nil] /\ err'[n] /\ obj[n] = Nil
             /\ current' = [current EXCEPT ![Addr(n)] = deposed[Addr(n)][run]]
    <3>1. current[Addr(n)] = Nil /\ current'[Addr(n)] = deposed[Addr(n)][run]
      BY <1>0, <2>1, <2>6 DEF TypeOK
    <3>2. CASE i = Addr(n) /\ k = run
      <4>1. deposed'[i][k] = Nil
        BY <1>0, <2>6, <3>2
      <4> QED
        BY <2>1, <2>6, <3>1, <3>2, <4>1
    <3>3. CASE ~(i = Addr(n) /\ k = run)
      <4>1. deposed'[i][k] = deposed[i][k]
        BY <1>0, <2>6, <3>3
      <4> QED
        BY <4>1
    <3> QED
      BY <3>2, <3>3
  <2> QED
    BY <2>4, <2>5, <2>6
<1>3. CASE WriteDeposed(n)
  BY <1>0, <1>3, NodeForm DEF WriteDeposed
<1> QED
  BY <1>1, <1>2, <1>3
  DEF Step, Skip, UpdateStateHook, Create, Update, WriteApplied, DestroyStart, DeposedStart,
      Destroy, WriteDestroyed

\* What is deposed is configured with create_before_destroy, also in what the
\* state manager holds.
CBDOnly ==
  /\ \A i \in Inst, k \in Key : deposed[i][k] # Nil \/ saved.deposed[i][k] # Nil =>
        i \in config.present /\ CreateBeforeDestroy(config, i)
  /\ \A i \in Inst : change[i] = "CreateThenDelete" =>
        i \in config.present /\ CreateBeforeDestroy(config, i)

LEMMA CBDOnlyStep ==
  ASSUME IInv, CBDOnly, [Next]_vars
  PROVE  CBDOnly'
<1>1. CASE Plan
  <2>1. /\ UNCHANGED <<config, saved>>
        /\ \A i \in Inst : change'[i] \in Planned(i, Refreshed(current[i]), change')
        /\ \A i \in Inst, k \in Key : deposed'[i][k] # Nil => deposed[i][k] # Nil
    BY <1>1 DEF Plan, Refreshed
  <2>2. \A i \in Inst : change'[i] = "CreateThenDelete" =>
          i \in config.present /\ CreateBeforeDestroy(config, i)
    BY <2>1 DEF Planned
  <2> QED
    BY <2>1, <2>2 DEF CBDOnly, CreateBeforeDestroy, Dependencies, Refs
<1>2. CASE Finish
  <2>1. /\ UNCHANGED <<config, deposed>> /\ saved'.deposed = deposed
        /\ \A i \in Inst : change'[i] = "NoOp"
    BY <1>2 DEF Finish, WalkEnded, EndRun, Snapshot, state
  <2> QED
    BY <2>1 DEF CBDOnly, CreateBeforeDestroy, Dependencies, Refs
<1>3. CASE FinishUnstored \/ Crash
  <2>1. /\ UNCHANGED <<config, saved>> /\ deposed' = saved.deposed
        /\ \A i \in Inst : change'[i] = "NoOp"
    BY <1>3, UnstoredIsCrash DEF Crash, StartOver, EndRun
  <2> QED
    BY <2>1 DEF CBDOnly, CreateBeforeDestroy, Dependencies, Refs
<1>4. ASSUME NEW n \in Node, Step(n)
      PROVE  CBDOnly'
  <2>1. UNCHANGED <<config, change>> /\ saved' \in {saved, Snapshot} /\ Addr(n) \in Inst
    BY <1>4, AtWork, StepFrame DEF IInv
  <2>2. ASSUME NEW i \in Inst, NEW k \in Key, deposed'[i][k] # Nil
        PROVE  i \in config.present /\ CreateBeforeDestroy(config, i)
    <3>1. CASE n = X(i, k) /\ pc[n] = "write" /\ deposed'[i][k] = obj[n]
      <4>1. Addr(n) = i
        BY <3>1, NodeNames
      <4>2. Deposes(i, k)
        BY <1>4, <4>1, AtWork
      <4> QED
        BY <2>2, <3>1, <4>2 DEF Deposes, CBDOnly
    <3> QED
      BY <1>4, <2>2, <3>1, DeposedStep DEF CBDOnly
  <2>3. \A i \in Inst, k \in Key :
          saved'.deposed[i][k] # Nil => saved.deposed[i][k] # Nil \/ deposed[i][k] # Nil
    BY <2>1 DEF Snapshot
  <2> QED
    BY <2>1, <2>2, <2>3 DEF CBDOnly, CreateBeforeDestroy, Dependencies, Refs
<1>5. CASE UNCHANGED vars
  BY <1>5 DEF vars, state, CBDOnly, CreateBeforeDestroy, Dependencies, Refs
<1> QED
  BY <1>1, <1>2, <1>3, <1>4, <1>5 DEF Next

LEMMA CBDOnlyInv == Spec => []CBDOnly
<1>1. Init => CBDOnly
  BY DEF Init, CBDOnly, NoDeposed, Snapshot
<1> QED
  BY <1>1, CBDOnlyStep, Invariant, PTL DEF Spec

-----------------------------------------------------------------------------
(* The theorem                                                             *)

\* The nodes of a plan wait for one another only when create_before_destroy is
\* not inherited along the recorded dependencies, or when the recorded and the
\* configured dependencies go round in a circle.
THEOREM PlansAcyclic == Spec => []AcyclicIfInherited
<1>1. Init => AcyclicIfInherited
  BY DEF Init, AcyclicIfInherited
<1>2. ASSUME IInv, CBDOnly, Plan
      PROVE  AcyclicIfInherited'
  <2> DEFINE nodes == Nodes(change', [i \in Inst |-> run'], deposed')
  <2>1. /\ UNCHANGED config
        /\ \A i \in Inst : change'[i] \in Planned(i, Refreshed(current[i]), change')
        /\ \A i \in Inst : current'[i] = Configured(i, Refreshed(current[i]), change'[i])
        /\ edges' = Edges(config, current', nodes)
        /\ \A i \in Inst, k \in Key : deposed'[i][k] # Nil => deposed[i][k] # Nil
        /\ phase' = "cycle" => Cyclic(edges')
        /\ \A i \in Inst : current[i] \in Object \cup {Nil}
    BY <1>2 DEF Plan, Refreshed, IInv, TypeOK
  <2>2. ASSUME NEW i \in Inst, D(i) \in nodes
        PROVE  current'[i] # Nil
    <3>1. change'[i] \in {"Delete", "DeleteThenCreate"}
      BY <2>2, NodeNames DEF Nodes
    <3>2. Refreshed(current[i]) # Nil
      BY <2>1, <3>1 DEF Planned
    <3> QED
      BY <2>1, <3>2, PlannedObject
  <2>3. ASSUME NEW i \in Inst, NEW k \in Key, X(i, k) \in nodes, current'[i] # Nil
        PROVE  current'[i].cbd
    <3>1. deposed'[i][k] # Nil \/ change'[i] = "CreateThenDelete"
      BY <2>3, NodeNames DEF Nodes
    <3>2. i \in config.present /\ CreateBeforeDestroy(config, i)
      <4>1. CASE deposed'[i][k] # Nil
        BY <1>2, <2>1, <4>1 DEF CBDOnly
      <4>2. CASE change'[i] = "CreateThenDelete"
        <5>1. change'[i] \in Planned(i, Refreshed(current[i]), change')
          BY <2>1
        <5> QED
          BY <4>2, <5>1 DEF Planned
      <4> QED
        BY <3>1, <4>1, <4>2
    <3> QED
      BY <2>1, <2>3, <3>2, PlannedObject
  <2>4. nodes \in SUBSET Node
    BY DEF Nodes
  <2> HIDE DEF nodes
  <2>5. ASSUME CBDInherited', DependenciesOrdered' PROVE ~Cyclic(edges')
    <3>1. InheritedIn(current')
      BY <2>5 DEF CBDInherited, InheritedIn
    <3>2. OrderedIn(current')
      BY <2>1, <2>5 DEF DependenciesOrdered, DependsOn, OrderedIn, DependsIn
    <3> QED
      BY <2>1, <2>2, <2>3, <2>4, <3>1, <3>2, NoCycle
  <2> QED
    BY <2>1, <2>5 DEF AcyclicIfInherited
<1>3. ASSUME AcyclicIfInherited, Finish \/ FinishUnstored \/ Crash \/ \E n \in Node : Step(n)
      PROVE  AcyclicIfInherited'
  BY <1>3 DEF AcyclicIfInherited, Finish, FinishUnstored, Crash, StartOver, EndRun, Step, Skip, UpdateStateHook, ApplyStart,
     Create, Update, WriteApplied, Provision, DestroyStart, DeposedStart, Destroy,
     WriteDestroyed, WriteDeposed, At, Starts
<1>4. ASSUME AcyclicIfInherited, UNCHANGED vars
      PROVE  AcyclicIfInherited'
  <2>1. UNCHANGED <<phase, current, config>>
    BY <1>4 DEF vars, state
  <2> QED
    BY <1>4, <2>1 DEF AcyclicIfInherited, CBDInherited, DependenciesOrdered, DependsOn
<1> QED
  BY <1>1, <1>2, <1>3, <1>4, Invariant, CBDOnlyInv, PTL DEF Spec, Next

-----------------------------------------------------------------------------
(* More of what a step does                                                *)

\* A node that takes a step has neither ended nor starts again, and goes on
\* only when the nodes it waits for are done.
LEMMA Moves ==
  ASSUME IInv, NEW n \in Node, Step(n)
  PROVE  /\ pc[n] \notin {"none", "ok", "error"} /\ pc'[n] \notin {"none", "waiting"}
         /\ pc[n] = "waiting" => \/ pc'[n] = "error"
                                 \/ \A m \in Deps(n) : pc[m] = "ok"
         /\ \A m \in Node \ {n} : pc'[m] = pc[m]
<1>1. pc \in [Node -> {"none", "waiting", "apply", "write", "provision", "hook", "ok", "error"}]
  BY DEF IInv, TypeOK
<1>2. /\ pc[n] \notin {"none", "ok", "error"} /\ pc'[n] \notin {"none", "waiting"}
      /\ pc[n] = "waiting" => \/ pc'[n] = "error"
                              \/ \A m \in Deps(n) : pc[m] = "ok"
  BY <1>1 DEF Step, Skip, UpdateStateHook, ApplyStart, Create, Update, WriteApplied, Provision,
     DestroyStart, DeposedStart, Destroy, WriteDestroyed, WriteDeposed, At, Starts, Goto
<1> QED
  BY <1>2, AtWork, StepFrame DEF IInv, SameNode

\* Tainting changes the status only.
LEMMA Tainting ==
  ASSUME NEW n, NEW o \in Result \cup {Nil}, NEW failed \in BOOLEAN
  PROVE  /\ MaybeTainted(n, o, failed) \in Result \cup {Nil}
         /\ MaybeTainted(n, o, failed) = Nil <=> o = Nil
         /\ o # Nil => /\ MaybeTainted(n, o, failed).id = o.id
                       /\ MaybeTainted(n, o, failed).deps = o.deps
         /\ ~failed \/ ~Creates(Addr(n)) => MaybeTainted(n, o, failed) = o
<1>1. CASE o = Nil
  BY <1>1 DEF MaybeTainted
<1>2. CASE o # Nil
  <2>1. o \in Result /\ [o EXCEPT !.status = "tainted"] \in Result
        /\ [o EXCEPT !.status = "tainted"].id = o.id
        /\ [o EXCEPT !.status = "tainted"].deps = o.deps
    BY <1>2 DEF Result, Object
  <2> QED
    BY <1>2, <2>1, NilAssumption DEF MaybeTainted
<1> QED
  BY <1>1, <1>2

\* What becomes of a current object.
LEMMA CurrentStep ==
  ASSUME IInv, NEW n \in Node, Step(n), NEW i \in Inst
  PROVE  \/ current'[i] = current[i]
         \/ /\ n = A(i) /\ pc[n] = "waiting" /\ change[i] = "CreateThenDelete"
            /\ current'[i] = Nil /\ deposed'[i][run] = current[i]
         \/ n = A(i) /\ pc[n] = "write" /\ WriteApplied(n) /\ current'[i] = obj'[n]
         \/ /\ n = A(i) /\ pc[n] = "provision" /\ Provision(n)
            /\ \/ /\ current'[i] = Nil <=> current[i] = Nil
                  /\ current[i] # Nil => /\ current'[i].id = current[i].id
                                         /\ current'[i].deps = current[i].deps
                  /\ ~err'[n] \/ ~Creates(i) => current'[i] = current[i]
               \/ /\ err'[n] /\ change[i] = "CreateThenDelete"
                  /\ current'[i] = deposed[i][run] /\ deposed'[i][run] = Nil
         \/ n = D(i) /\ pc[n] = "write" /\ current'[i] = obj[n]
<1> USE DEF At, Starts, state
<1>0. Addr(n) \in Inst /\ TypeOK /\ run \in Key
  BY AtWork
<1>1. CASE ApplyStart(n)
  BY <1>0, <1>1, NodeForm DEF ApplyStart, Depose, TypeOK
<1>2. CASE WriteApplied(n)
  <2>1. n = A(Addr(n)) /\ pc[n] = "write" /\ current' = [current EXCEPT ![Addr(n)] = obj'[n]]
    BY <1>2, NodeForm DEF WriteApplied
  <2> QED
    BY <1>0, <1>2, <2>1 DEF TypeOK
<1>3. CASE Provision(n)
  <2>1. n = A(Addr(n)) /\ pc[n] = "provision" /\ obj[n] = current[Addr(n)]
    BY <1>3, AtWork, NodeForm DEF Provision, Applies
  <2>2. PICK fails \in BOOLEAN, hookFails \in BOOLEAN :
          /\ err' = [err EXCEPT ![n] = @ \/ fails \/ hookFails]
          /\ LET failed == err[n] \/ fails
                 o == MaybeTainted(n, obj[n], failed)
                 restore == change[Addr(n)] = "CreateThenDelete" /\ failed /\ Restores(n, o)
             IN  /\ current' = [current EXCEPT ![Addr(n)] =
                                  IF restore THEN deposed[Addr(n)][run] ELSE o]
                 /\ deposed' = IF restore THEN [deposed EXCEPT ![Addr(n)][run] = Nil]
                                          ELSE deposed
    BY <1>3 DEF Provision
  <2>3. CASE i # Addr(n)
    BY <1>0, <2>2, <2>3 DEF TypeOK
  <2>4. CASE i = Addr(n)
    <3>1. PICK failed \in BOOLEAN :
            /\ failed => err'[n]
            /\ LET o == MaybeTainted(n, current[i], failed)
                   restore == change[i] = "CreateThenDelete" /\ failed /\ Restores(n, o)
               IN  /\ current' = [current EXCEPT ![i] =
                                    IF restore THEN deposed[i][run] ELSE o]
                   /\ deposed' = IF restore THEN [deposed EXCEPT ![i][run] = Nil] ELSE deposed
      <4>1. (err[n] \/ fails) \in BOOLEAN /\ err \in [Node -> BOOLEAN]
        BY <1>0 DEF TypeOK
      <4> QED
        BY <2>1, <2>2, <2>4, <4>1
    <3>2. current[i] \in Result \cup {Nil}
      BY <1>0 DEF TypeOK, Result
    <3>3. \/ current'[i] = MaybeTainted(n, current[i], failed)
          \/ /\ err'[n] /\ change[i] = "CreateThenDelete"
             /\ current'[i] = deposed[i][run] /\ deposed'[i][run] = Nil
      BY <1>0, <2>4, <3>1 DEF TypeOK
    <3>4. /\ MaybeTainted(n, current[i], failed) = Nil <=> current[i] = Nil
          /\ current[i] # Nil => /\ MaybeTainted(n, current[i], failed).id = current[i].id
                                 /\ MaybeTainted(n, current[i], failed).deps = current[i].deps
          /\ ~failed \/ ~Creates(i) => MaybeTainted(n, current[i], failed) = current[i]
      BY <2>4, <3>2, Tainting
    <3> QED
      BY <1>3, <2>1, <2>4, <3>1, <3>3, <3>4
  <2> QED
    BY <2>3, <2>4
<1>4. CASE WriteDestroyed(n)
  BY <1>0, <1>4, NodeForm DEF WriteDestroyed, TypeOK
<1> QED
  BY <1>1, <1>2, <1>3, <1>4
  DEF Step, Skip, UpdateStateHook, Create, Update, WriteDeposed, DestroyStart, DeposedStart,
      Destroy

\* A remote object goes when a node destroys it, which has it from its record.
LEMMA RemoteStep ==
  ASSUME IInv, NEW n \in Node, Step(n), NEW o \in remote, o \notin remote'
  PROVE  /\ pc[n] = "apply"
         /\ \/ \E i \in Inst : n = D(i) /\ current[i] # Nil /\ o = current[i].id
            \/ \E i \in Inst, k \in Key : n = X(i, k) /\ deposed[i][k] # Nil
                                          /\ o = deposed[i][k].id
<1>1. Destroy(n)
  BY DEF Step, Skip, UpdateStateHook, ApplyStart, Create, Update, WriteApplied, Provision,
     DestroyStart, DeposedStart, WriteDestroyed, WriteDeposed
<1>2. pc[n] = "apply" /\ Kind(n) # "apply" /\ o = obj[n].id
  BY <1>1 DEF Destroy
<1>3. CASE Kind(n) = "destroy"
  <2>1. n = D(Addr(n)) /\ Addr(n) \in Inst
    BY <1>3, NodeForm
  <2> QED
    BY <1>2, <2>1, AtWork DEF Destroys
<1>4. CASE Kind(n) = "deposed"
  <2>1. n = X(Addr(n), n[3]) /\ n[3] \in Key /\ Addr(n) \in Inst
    BY <1>4, NodeForm
  <2>2. Deposes(Addr(n), n[3])
    BY <2>1, AtWork
  <2>3. /\ obj[n] # Nil /\ deposed[Addr(n)][n[3]] # Nil
        /\ obj[n].id = deposed[Addr(n)][n[3]].id
    BY <1>2, <2>1, <2>2 DEF Deposes
  <2> QED
    BY <1>2, <2>1, <2>3
<1> QED
  BY <1>2, <1>3, <1>4, NodeForm

\* What an object refers to changes by the provider's work for its instance.
LEMMA RefsStep ==
  ASSUME IInv, NEW n \in Node, Step(n), NEW o \in Id, refs'[o] # refs[o]
  PROVE  n = A(o[1]) /\ pc[n] = "apply"
<1>1. /\ Addr(n) \in Inst /\ TypeOK /\ run \in Key /\ ObjectsAt(current, deposed, Addr(n))
      /\ Applies(Addr(n))
  BY AtWork
<1>2. Create(n) \/ Update(n)
  BY DEF Step, Skip, UpdateStateHook, ApplyStart, WriteApplied, Provision,
     DestroyStart, DeposedStart, Destroy, WriteDestroyed, WriteDeposed
<1>3. n = A(Addr(n)) /\ pc[n] = "apply"
  BY <1>2, NodeForm DEF Create, Update, At
<1>4. CASE Create(n)
  <2>1. o = <<Addr(n), run>>
    BY <1>1, <1>4 DEF Create, TypeOK
  <2> QED
    BY <1>3, <2>1
<1>5. CASE Update(n)
  <2>1. o = current[Addr(n)].id
    BY <1>1, <1>5 DEF Update, TypeOK
  <2>2. current[Addr(n)] # Nil
    BY <1>1, <1>3, <1>5 DEF Update, Applies
  <2> QED
    BY <1>1, <1>3, <2>1, <2>2 DEF ObjectsAt
<1> QED
  BY <1>2, <1>4, <1>5

\* What is recorded of the provider's answer.
LEMMA Applied ==
  ASSUME IInv, NEW n \in Node, WriteApplied(n)
  PROVE  LET i == Addr(n) IN
         /\ n = A(i) /\ pc[n] = "write"
         /\ current' = [current EXCEPT ![i] = obj'[n]]
         /\ obj'[n] = Nil <=> obj[n] = Nil
         /\ obj'[n] # Nil =>
               /\ obj'[n].id = obj[n].id /\ obj'[n].deps = Dependencies(config, i)
               /\ ~err[n] \/ ~Creates(i) => obj'[n].status = obj[n].status
<1> DEFINE i == Addr(n)
           o == MaybeTainted(n, obj[n], err[n])
<1>1. n = A(i) /\ pc[n] = "write" /\ current' = [current EXCEPT ![i] = obj'[n]]
  BY NodeForm DEF WriteApplied, At
<1>2. obj[n] \in Result \cup {Nil} /\ err[n] \in BOOLEAN /\ obj \in [Node -> Result \cup {Nil}]
  BY DEF IInv, TypeOK
<1>3. /\ o \in Result \cup {Nil} /\ (o = Nil <=> obj[n] = Nil)
      /\ o # Nil => o.id = obj[n].id
      /\ ~err[n] \/ ~Creates(i) => o = obj[n]
  BY <1>2, Tainting
<1>4. obj'[n] = IF o = Nil THEN Nil ELSE [o EXCEPT !.deps = Dependencies(config, i)]
  BY <1>2 DEF WriteApplied
<1> HIDE DEF o
<1>5. CASE o = Nil
  BY <1>1, <1>3, <1>4, <1>5
<1>6. CASE o # Nil
  <2>1. Dependencies(config, i) \subseteq Inst
    BY DEF Dependencies
  <2>2. obj'[n] = [o EXCEPT !.deps = Dependencies(config, i)]
    BY <1>4, <1>6
  <2>3. /\ obj'[n] \in Result /\ obj'[n].id = o.id /\ obj'[n].status = o.status
        /\ obj'[n].deps = Dependencies(config, i)
    BY <1>3, <1>6, <2>1, <2>2 DEF Result, Object
  <2> QED
    BY <1>1, <1>3, <1>6, <2>3, NilAssumption
<1> QED
  BY <1>5, <1>6

\* Which object a record names after a step: a new one of this run only in
\* the current record, otherwise one that was named, of the same instance.
LEMMA RecordStep ==
  ASSUME IInv, NEW n \in Node, Step(n), NEW i \in Inst
  PROVE  /\ current'[i] # Nil =>
              \/ current'[i].id = <<i, run>>
              \/ current[i] # Nil /\ current'[i].id = current[i].id
              \/ /\ deposed[i][run] # Nil /\ current'[i].id = deposed[i][run].id
                 /\ deposed'[i][run] = Nil
         /\ \A k \in Key : deposed'[i][k] # Nil =>
              \/ deposed[i][k] # Nil /\ deposed'[i][k].id = deposed[i][k].id
              \/ /\ k = run /\ current[i] # Nil /\ deposed'[i][k].id = current[i].id
                 /\ current'[i] = Nil
<1>1. ASSUME current'[i] # Nil
      PROVE  \/ current'[i].id = <<i, run>>
             \/ current[i] # Nil /\ current'[i].id = current[i].id
             \/ /\ deposed[i][run] # Nil /\ current'[i].id = deposed[i][run].id
                /\ deposed'[i][run] = Nil
  <2>1. CASE n = A(i) /\ pc[n] = "write" /\ WriteApplied(n) /\ current'[i] = obj'[n]
    <3>1. Addr(n) = i
      BY <2>1, NodeNames
    <3>2. Applies(i)
      BY <3>1, AtWork
    <3>3. obj'[n] # Nil /\ obj[n] # Nil /\ obj'[n].id = obj[n].id
      BY <1>1, <2>1, Applied
    <3> QED
      BY <2>1, <3>2, <3>3 DEF Applies
  <2>2. CASE n = D(i) /\ pc[n] = "write" /\ current'[i] = obj[n]
    <3>1. Addr(n) = i
      BY <2>2, NodeNames
    <3>2. Destroys(i)
      BY <3>1, AtWork
    <3> QED
      BY <1>1, <2>2, <3>2 DEF Destroys
  <2> QED
    BY <1>1, <2>1, <2>2, CurrentStep
<1>2. ASSUME NEW k \in Key, deposed'[i][k] # Nil
      PROVE  \/ deposed[i][k] # Nil /\ deposed'[i][k].id = deposed[i][k].id
             \/ /\ k = run /\ current[i] # Nil /\ deposed'[i][k].id = current[i].id
                /\ current'[i] = Nil
  <2>1. CASE n = X(i, k) /\ pc[n] = "write" /\ deposed'[i][k] = obj[n]
    <3>1. Addr(n) = i
      BY <2>1, NodeNames
    <3>2. Deposes(i, k)
      BY <3>1, AtWork
    <3> QED
      BY <1>2, <2>1, <3>2 DEF Deposes
  <2> QED
    BY <1>2, <2>1, DeposedStep
<1> QED
  BY <1>1, <1>2

-----------------------------------------------------------------------------
(* The order of the nodes                                                  *)

\* A node that works or is done has had what it waits for done.
Worked == \A n \in Node : pc[n] \notin {"none", "waiting", "error"} =>
             \A m \in Node : <<n, m>> \in edges => pc[m] = "ok"

LEMMA WorkedStep ==
  ASSUME IInv, Worked, [Next]_vars
  PROVE  Worked'
<1>1. CASE Plan
  BY <1>1 DEF Plan, Worked
<1>2. CASE Finish \/ FinishUnstored \/ Crash
  BY <1>2 DEF Finish, FinishUnstored, Crash, StartOver, EndRun, Worked
<1>3. ASSUME NEW n \in Node, Step(n)
      PROVE  Worked'
  <2>1. edges' = edges
    BY <1>3, AtWork, StepFrame DEF IInv
  <2>2. ASSUME NEW m \in Node, pc'[m] \notin {"none", "waiting", "error"},
               NEW l \in Node, <<m, l>> \in edges
        PROVE  pc[l] = "ok"
    BY <1>3, <2>2, Moves DEF Worked, Deps
  <2> QED
    BY <1>3, <2>1, <2>2, Moves DEF Worked
<1>4. CASE UNCHANGED vars
  BY <1>4 DEF vars, Worked
<1> QED
  BY <1>1, <1>2, <1>3, <1>4 DEF Next

LEMMA WorkedInv == Spec => []Worked
<1>1. Init => Worked
  BY DEF Init, Worked
<1> QED
  BY <1>1, WorkedStep, Invariant, PTL DEF Spec

-----------------------------------------------------------------------------
(* The objects of an instance, and those that are lost                     *)

\* The current object, and one that was deposed later, are not older than the
\* run in which an object was deposed.
InOrder(cur, dep, i) ==
    \A k \in Key : dep[i][k] # Nil =>
        /\ cur[i] # Nil => k <= cur[i].id[2]
        /\ \A l \in Key : k < l /\ dep[i][l] # Nil => k <= dep[i][l].id[2]

\* A lost object stays where it is, in no record, and is of an earlier run.
Forgotten(o) ==
    /\ o \in remote
    /\ o \notin Recorded(current, deposed)
    /\ o \notin Recorded(saved.current, saved.deposed)
    /\ phase = "apply" => o[2] < run

IdInv ==
    /\ \A i \in Inst : /\ InOrder(current, deposed, i)
                       /\ InOrder(saved.current, saved.deposed, i)
    /\ \A o \in remote : o[2] <= run
    /\ \A o \in lost : Forgotten(o)

\* A step keeps the order of an instance's objects.
LEMMA InOrderStep ==
  ASSUME IInv, NEW n \in Node, Step(n), NEW i \in Inst, InOrder(current, deposed, i)
  PROVE  InOrder(current', deposed', i)
<1>1. run \in Key /\ Key \subseteq Nat /\ ObjectsAt(current, deposed, i)
  BY AtWork DEF IInv, InstInv
<1>2. /\ current[i] # Nil => current[i].id[2] \in Nat
      /\ \A k \in Key : deposed[i][k] # Nil => deposed[i][k].id[2] \in Nat
  BY RunAssumption DEF IInv, TypeOK, Object, Id, Run
<1>3. /\ current'[i] # Nil =>
           \/ current'[i].id = <<i, run>>
           \/ current[i] # Nil /\ current'[i].id = current[i].id
           \/ /\ deposed[i][run] # Nil /\ current'[i].id = deposed[i][run].id
              /\ deposed'[i][run] = Nil
      /\ \A k \in Key : deposed'[i][k] # Nil =>
           \/ deposed[i][k] # Nil /\ deposed'[i][k].id = deposed[i][k].id
           \/ /\ k = run /\ current[i] # Nil /\ deposed'[i][k].id = current[i].id
              /\ current'[i] = Nil
  BY RecordStep
<1> SUFFICES ASSUME NEW k \in Key, deposed'[i][k] # Nil
             PROVE  /\ current'[i] # Nil => k <= current'[i].id[2]
                    /\ \A l \in Key : k < l /\ deposed'[i][l] # Nil => k <= deposed'[i][l].id[2]
  BY DEF InOrder
<1>4. CASE deposed[i][k] # Nil /\ deposed'[i][k].id = deposed[i][k].id
  <2>1. k \in Nat /\ k <= run
    BY <1>1, <1>4 DEF ObjectsAt
  <2>2. ASSUME current'[i] # Nil
        PROVE  k <= current'[i].id[2]
    <3>1. CASE current'[i].id = <<i, run>>
      BY <2>1, <3>1
    <3>2. CASE current[i] # Nil /\ current'[i].id = current[i].id
      BY <1>4, <3>2 DEF InOrder
    <3>3. CASE /\ deposed[i][run] # Nil /\ current'[i].id = deposed[i][run].id
               /\ deposed'[i][run] = Nil
      <4>1. k < run
        BY <1>1, <2>1, <3>3
      <4> QED
        BY <1>1, <1>4, <3>3, <4>1 DEF InOrder
    <3> QED
      BY <1>3, <2>2, <3>1, <3>2, <3>3
  <2>3. ASSUME NEW l \in Key, k < l, deposed'[i][l] # Nil
        PROVE  k <= deposed'[i][l].id[2]
    <3>1. CASE deposed[i][l] # Nil /\ deposed'[i][l].id = deposed[i][l].id
      BY <1>4, <2>3, <3>1 DEF InOrder
    <3>2. CASE current[i] # Nil /\ deposed'[i][l].id = current[i].id
      BY <1>4, <3>2 DEF InOrder
    <3> QED
      BY <1>3, <2>3, <3>1, <3>2
  <2> QED
    BY <2>2, <2>3
<1>5. CASE /\ k = run /\ current[i] # Nil /\ deposed'[i][k].id = current[i].id
           /\ current'[i] = Nil
  <2>1. ASSUME NEW l \in Key, k < l, deposed'[i][l] # Nil
        PROVE  FALSE
    <3>1. deposed[i][l] # Nil
      BY <1>1, <1>3, <1>5, <2>1
    <3>2. l <= run
      BY <1>1, <3>1 DEF ObjectsAt
    <3> QED
      BY <1>1, <1>5, <2>1, <3>2
  <2> QED
    BY <1>5, <2>1
<1> QED
  BY <1>3, <1>4, <1>5

LEMMA IdStep ==
  ASSUME IInv, IdInv, NEW n \in Node, Step(n)
  PROVE  IdInv'
<1>1. /\ Addr(n) \in Inst /\ run \in Nat /\ run \in Key /\ phase = "apply" /\ TypeOK
      /\ UNCHANGED <<run, phase, lost>> /\ saved' \in {saved, Snapshot}
      /\ \A o \in remote' : o \in remote \/ o = <<Addr(n), run>>
  BY AtWork, StepFrame DEF IInv
<1>2. ASSUME NEW i \in Inst
      PROVE  InOrder(current', deposed', i) /\ InOrder(saved'.current, saved'.deposed, i)
  <2>1. InOrder(current', deposed', i)
    BY InOrderStep DEF IdInv
  <2>2. CASE saved' = saved
    BY <2>1, <2>2 DEF IdInv
  <2>3. CASE saved' = Snapshot
    <3>1. saved'.current = current /\ saved'.deposed = deposed
      BY <2>3 DEF Snapshot
    <3> QED
      BY <2>1, <3>1 DEF IdInv
  <2> QED
    BY <1>1, <2>2, <2>3
<1>3. \A o \in remote' : o[2] <= run
  BY <1>1 DEF IdInv
<1>4. ASSUME NEW o \in lost
      PROVE  Forgotten(o)'
  <2>1. /\ o \in remote /\ o \notin Recorded(current, deposed)
        /\ o \notin Recorded(saved.current, saved.deposed) /\ o[2] < run
    BY <1>1 DEF IdInv, Forgotten
  <2>2. o \in remote'
    BY <2>1, RemoteStep, RecordedIs
  <2>3. ASSUME NEW i \in Inst
        PROVE  /\ current'[i] # Nil => o # current'[i].id
               /\ \A k \in Key : deposed'[i][k] # Nil => o # deposed'[i][k].id
    <3>1. /\ current[i] # Nil => o # current[i].id
          /\ \A k \in Key : deposed[i][k] # Nil => o # deposed[i][k].id
      BY <2>1, RecordedIs
    <3>2. o # <<i, run>>
      BY <1>1, <2>1
    <3>3. current'[i] # Nil => o # current'[i].id
      BY <1>1, <3>1, <3>2, RecordStep
    <3>4. \A k \in Key : deposed'[i][k] # Nil => o # deposed'[i][k].id
      BY <3>1, RecordStep
    <3> QED
      BY <3>3, <3>4
  <2>4. o \notin Recorded(current', deposed')
    BY <2>3, RecordedIs
  <2>5. o \notin Recorded(saved'.current, saved'.deposed)
    BY <1>1, <2>1 DEF Snapshot
  <2> QED
    BY <1>1, <2>1, <2>2, <2>4, <2>5 DEF Forgotten
<1> QED
  BY <1>1, <1>2, <1>3, <1>4 DEF IdInv

LEMMA IdInvStep ==
  ASSUME IInv, IdInv, [Next]_vars
  PROVE  IdInv'
<1>1. CASE Plan
  <2>1. /\ UNCHANGED <<saved, remote, lost>> /\ run \in Nat /\ run' = run + 1
        /\ \A o \in Id : o[2] \in Nat
        /\ remote \subseteq Id /\ lost \subseteq Id
    BY <1>1, RunAssumption DEF Plan, IInv, TypeOK, Run, Id
  <2>2. ASSUME NEW i \in Inst
        PROVE  /\ current'[i] # Nil => current[i] # Nil /\ current'[i].id = current[i].id
               /\ \A k \in Key : deposed'[i][k] # Nil => deposed'[i][k] = deposed[i][k]
    <3>1. current[i] \in Object \cup {Nil}
      BY DEF IInv, TypeOK
    <3>2. current'[i] = Configured(i, Refreshed(current[i]), change'[i])
      BY <1>1 DEF Plan
    <3>3. \A k \in Key : deposed'[i][k] = Refreshed(deposed[i][k])
      BY <1>1 DEF Plan
    <3> QED
      BY <3>1, <3>2, <3>3, PlannedObject DEF Refreshed
  <2>3. \A i \in Inst : InOrder(current', deposed', i)
    BY <2>2 DEF IdInv, InOrder
  <2>4. \A o \in Recorded(current', deposed') : o \in Recorded(current, deposed)
    BY <2>2, RecordedIs
  <2>5. \A o \in remote : o[2] < run'
    BY <2>1 DEF IdInv
  <2> QED
    BY <2>1, <2>3, <2>4, <2>5 DEF IdInv, Forgotten
<1>2. CASE Finish
  <2>1. /\ UNCHANGED <<current, deposed, remote, lost, run>> /\ phase' = "plan"
        /\ saved'.current = current /\ saved'.deposed = deposed
    BY <1>2 DEF Finish, WalkEnded, EndRun, Snapshot, state
  <2> QED
    BY <2>1 DEF IdInv, Forgotten
<1>3. CASE FinishUnstored \/ Crash
  <2>1. /\ UNCHANGED <<saved, remote, run>> /\ phase' = "plan"
        /\ current' = saved.current /\ deposed' = saved.deposed
        /\ lost' = lost \cup (remote \ Recorded(current', deposed'))
    BY <1>3, UnstoredIsCrash DEF Crash, StartOver, EndRun
  <2> QED
    BY <2>1 DEF IdInv, Forgotten
<1>4. CASE UNCHANGED vars
  BY <1>4 DEF vars, state, IdInv, Forgotten
<1> QED
  BY <1>1, <1>2, <1>3, <1>4, IdStep DEF Next

LEMMA Ids == Spec => []IdInv
<1>1. Init => IdInv
  <2> SUFFICES ASSUME Init
               PROVE  IdInv
    OBVIOUS
  <2>1. /\ \A i \in Inst, k \in Key : deposed[i][k] = Nil
        /\ saved.deposed = deposed /\ lost = {} /\ run = 0
    BY DEF Init, Snapshot, NoDeposed
  <2>2. \A o \in remote : o[2] = 0
    BY DEF Init
  <2> QED
    BY <2>1, <2>2 DEF IdInv, InOrder
<1> QED
  BY <1>1, IdInvStep, Invariant, PTL DEF Spec

-----------------------------------------------------------------------------
(* What the nodes of a run are, and what they leave                        *)

\* The nodes an instance has are those of its change, and the change is one
\* that the configuration asks for.
Kinds(i) ==
    /\ pc[A(i)] = "none" => change[i] \in {"NoOp", "Delete"}
    /\ pc[A(i)] # "none" => i \in config.present
    /\ pc[D(i)] = "none" => change[i] \notin {"Delete", "DeleteThenCreate"}
    /\ change[i] = "CreateThenDelete" => pc[X(i, run)] # "none"
    /\ change[i] = "Delete" => i \notin config.present
    /\ i \notin config.present /\ current[i] # Nil => change[i] = "Delete"

\* A creating node waits for those it refers to, one that destroys a deposed
\* object for the nodes of what depends on it.
Links(i, j) ==
    /\ pc[A(i)] # "none" /\ pc[A(j)] # "none" /\ j \in Refs(config, i) => <<A(i), A(j)>> \in edges
    /\ \A k \in Key : pc[X(i, k)] # "none" /\ pc[A(j)] # "none" =>
          /\ i \in DependsOn(j) => <<X(i, k), A(j)>> \in edges
          /\ pc[A(j)] \in {"apply", "write", "provision"} /\ deposed[j][run] # Nil
                => (i \in deposed[j][run].deps => <<X(i, k), A(j)>> \in edges)
    /\ \A k \in Key : pc[X(i, k)] # "none" /\ pc[D(j)] # "none" /\ pc[A(j)] = "none" =>
          (current[j] # Nil /\ i \in current[j].deps => <<X(i, k), D(j)>> \in edges)

\* A failed deletion leaves the recorded dependencies alone.
SameDeps(i) == pc[D(i)] = "write" /\ obj[D(i)] # Nil => obj[D(i)].deps = current[i].deps

\* A deposed object has a node, which removes it unless it fails.
Gone(i, k) ==
    /\ pc[X(i, k)] \in {"none", "hook", "ok"} => deposed[i][k] = Nil
    /\ pc[X(i, k)] = "write" /\ ~err[X(i, k)] => obj[X(i, k)] = Nil

\* The object is there, complete, and refers to what its configuration does.
Complete(i, o) ==
    o # Nil /\ o.status = "ready" /\ o.id \in remote /\ refs[o.id] = RefIds(current, i)

\* An instance without a change is complete, and only refers to what keeps its
\* identity; one to be updated has an object; one that was applied is complete.
Good(i) ==
    /\ i \in config.present /\ change[i] = "NoOp" =>
          /\ Complete(i, current[i])
          /\ \A j \in Refs(config, i) : change[j] \in {"NoOp", "Update"}
    /\ change[i] = "Update" =>
          /\ current[i] # Nil /\ current[i].status = "ready" /\ current[i].id \in remote
          /\ pc[A(i)] = "write" => obj[A(i)] # Nil /\ obj[A(i)].status = "ready"
    /\ pc[A(i)] = "write" /\ ~err[A(i)] => Complete(i, obj[A(i)])
    /\ pc[A(i)] \in {"provision", "hook"} /\ ~err[A(i)] => Complete(i, current[i])
    /\ pc[A(i)] = "ok" => Complete(i, current[i])

RunInv ==
    phase = "apply" => \A i \in Inst : /\ Kinds(i) /\ SameDeps(i) /\ Good(i)
                                       /\ \A j \in Inst : Links(i, j)
                                       /\ \A k \in Key : Gone(i, k)

\* What holds while a node takes a step.
LEMMA InRun ==
  ASSUME IInv, RunInv, NEW n \in Node, Step(n)
  PROVE  /\ phase = "apply" /\ run \in Key /\ run \in Nat /\ Key \subseteq Nat /\ TypeOK
         /\ UNCHANGED <<config, run, phase, change, edges, lost>>
         /\ \A i \in Inst :
               /\ Kinds(i) /\ SameDeps(i) /\ Good(i)
               /\ \A j \in Inst : Links(i, j)
               /\ \A k \in Key : Gone(i, k)
               /\ Applies(i) /\ Destroys(i) /\ \A k \in Key : Deposes(i, k)
               /\ ObjectsAt(current, deposed, i)
               /\ \A m \in Node : pc'[m] = "none" <=> pc[m] = "none"
         /\ \A m \in Node \ {n} : SameNode(m)
<1>1. phase = "apply" /\ run \in Key /\ run \in Nat /\ Key \subseteq Nat /\ TypeOK
      /\ InstInv(Addr(n))
  BY AtWork DEF IInv
<1>2. \A i \in Inst : InstInv(i)
  BY DEF IInv
<1>3. /\ UNCHANGED <<config, run, phase, change, edges, lost>>
      /\ \A m \in Node \ {n} : SameNode(m)
  BY <1>1, StepFrame
<1>4. \A m \in Node : pc'[m] = "none" <=> pc[m] = "none"
  BY Moves
<1> QED
  BY <1>1, <1>2, <1>3, <1>4 DEF RunInv, InstInv, Walks

LEMMA KindsStep ==
  ASSUME IInv, RunInv, NEW n \in Node, Step(n), NEW i \in Inst
  PROVE  Kinds(i)'
<1>1. /\ UNCHANGED <<config, run, change>> /\ run \in Key /\ Kinds(i) /\ Applies(i) /\ Destroys(i)
      /\ \A m \in Node : pc'[m] = "none" <=> pc[m] = "none"
  BY InRun
<1>2. A(i) \in Node /\ D(i) \in Node /\ X(i, run) \in Node
  BY <1>1, NodeNames
<1>3. ASSUME i \notin config.present, current'[i] # Nil
      PROVE  change[i] = "Delete"
  <2>1. pc[A(i)] = "none" /\ n # A(i)
    BY <1>1, <1>3, Moves DEF Kinds
  <2>2. CASE n = D(i)
    BY <1>1, <2>1, <2>2, Moves DEF Kinds, Destroys
  <2>3. CASE n # D(i)
    BY <1>1, <1>3, <2>1, <2>3, CurrentStep DEF Kinds
  <2> QED
    BY <2>2, <2>3
<1> QED
  BY <1>1, <1>2, <1>3 DEF Kinds

LEMMA SameDepsStep ==
  ASSUME IInv, RunInv, NEW n \in Node, Step(n), NEW i \in Inst
  PROVE  SameDeps(i)'
<1>1. /\ SameDeps(i) /\ Destroys(i) /\ D(i) \in Node /\ TypeOK
      /\ UNCHANGED change /\ \A m \in Node \ {n} : SameNode(m)
  BY InRun, NodeNames
<1> SUFFICES ASSUME pc'[D(i)] = "write", obj'[D(i)] # Nil
             PROVE  obj'[D(i)].deps = current'[i].deps
  BY DEF SameDeps
<1>2. CASE n = D(i)
  <2>1. Kind(n) = "destroy" /\ Addr(n) = i
    BY <1>2, NodeNames
  <2>2. Destroy(n)
    BY <1>1, <1>2, <2>1 DEF Step, Skip, UpdateStateHook, ApplyStart, Create, Update,
       WriteApplied, Provision, DestroyStart, DeposedStart, WriteDestroyed, WriteDeposed, At,
       Starts, Goto, TypeOK
  <2>3. obj[n] = current[i] /\ obj[n] # Nil /\ current' = current
    BY <1>1, <1>2, <2>2 DEF Destroy, Destroys, state
  <2>4. obj[n] \in Object
    BY <1>1, <2>3 DEF TypeOK
  <2>5. obj'[n] \in {Nil, obj[n], [obj[n] EXCEPT !.cbd = FALSE]}
    BY <1>1, <2>2 DEF Destroy, TypeOK
  <2>6. [obj[n] EXCEPT !.cbd = FALSE].deps = obj[n].deps
    BY <2>4 DEF Object
  <2> QED
    BY <1>2, <2>3, <2>5, <2>6
<1>3. CASE n # D(i)
  <2>1. pc[D(i)] = "write" /\ obj'[D(i)] = obj[D(i)]
    BY <1>1, <1>3 DEF SameNode
  <2>2. pc[A(i)] \in {"none", "waiting"} /\ change[i] # "CreateThenDelete"
    BY <1>1, <2>1 DEF Destroys, Ended
  <2>3. current'[i] = current[i]
    BY <1>3, <2>2, CurrentStep
  <2> QED
    BY <1>1, <2>1, <2>3 DEF SameDeps
<1> QED
  BY <1>2, <1>3

LEMMA GoneStep ==
  ASSUME IInv, RunInv, NEW n \in Node, Step(n), NEW i \in Inst, NEW k \in Key
  PROVE  Gone(i, k)'
<1>1. /\ Gone(i, k) /\ Kinds(i) /\ Deposes(i, k) /\ Deposes(i, run) /\ run \in Key /\ TypeOK
      /\ A(i) \in Node /\ X(i, k) \in Node /\ X(i, run) \in Node
      /\ \A m \in Node \ {n} : SameNode(m)
      /\ \A m \in Node : pc'[m] = "none" <=> pc[m] = "none"
  BY InRun, NodeNames
<1>2. CASE n = X(i, k)
  <2>1. Kind(n) = "deposed" /\ Addr(n) = i /\ n[3] = k
    BY <1>2, NodeNames
  <2>2. CASE Destroy(n)
    <3>1. pc'[n] = "write" /\ (~err'[n] => obj'[n] = Nil)
      BY <1>1, <2>2 DEF Destroy, Goto, TypeOK
    <3> QED
      BY <1>2, <3>1 DEF Gone
  <2>3. CASE WriteDeposed(n)
    <3>1. pc[n] = "write" /\ deposed' = [deposed EXCEPT ![i][k] = obj[n]]
      BY <2>1, <2>3 DEF WriteDeposed, At
    <3>2. deposed'[i][k] = obj[n]
      BY <1>1, <3>1 DEF TypeOK
    <3>3. pc'[n] = "error" \/ (pc'[n] = "hook" /\ ~err[n])
      BY <1>1, <2>3 DEF WriteDeposed, Goto, TypeOK
    <3> QED
      BY <1>1, <1>2, <3>1, <3>2, <3>3 DEF Gone
  <2>4. CASE UpdateStateHook(n)
    <3>1. pc[n] = "hook" /\ pc'[n] \in {"ok", "error"} /\ deposed' = deposed
      BY <1>1, <2>4 DEF UpdateStateHook, Goto, TypeOK, state
    <3> QED
      BY <1>1, <1>2, <3>1 DEF Gone
  <2>5. CASE Skip(n) \/ DeposedStart(n)
    <3>1. pc'[n] \in {"apply", "error"}
      BY <1>1, <2>5 DEF Skip, DeposedStart, Goto, TypeOK
    <3> QED
      BY <1>2, <3>1 DEF Gone
  <2> QED
    BY <2>1, <2>2, <2>3, <2>4, <2>5
    DEF Step, ApplyStart, Create, Update, WriteApplied, Provision, DestroyStart, WriteDestroyed,
        At, Starts
<1>3. CASE n # X(i, k)
  <2>1. SameNode(X(i, k))
    BY <1>1, <1>3
  <2>2. ASSUME pc[X(i, k)] \in {"none", "hook", "ok"}, deposed[i][k] = Nil
        PROVE  deposed'[i][k] = Nil
    <3>1. CASE n = A(i) /\ k = run /\ change[i] = "CreateThenDelete" /\ pc[n] = "waiting"
      BY <1>1, <2>2, <3>1 DEF Kinds, Deposes
    <3> QED
      BY <1>3, <2>2, <3>1, DeposedStep
  <2> QED
    BY <1>1, <2>1, <2>2 DEF Gone, SameNode
<1> QED
  BY <1>2, <1>3

LEMMA LinksStep ==
  ASSUME IInv, RunInv, NEW n \in Node, Step(n), NEW i \in Inst, NEW j \in Inst
  PROVE  Links(i, j)'
<1>1. /\ Links(i, j) /\ SameDeps(j) /\ Applies(j) /\ Destroys(j) /\ Deposes(j, run)
      /\ TypeOK /\ run \in Key
      /\ UNCHANGED <<config, run, change, edges>>
      /\ \A m \in Node \ {n} : SameNode(m)
      /\ \A m \in Node : pc'[m] = "none" <=> pc[m] = "none"
  BY InRun
<1>2. /\ A(i) \in Node /\ A(j) \in Node /\ D(j) \in Node /\ X(j, run) \in Node
      /\ \A k \in Key : X(i, k) \in Node
  BY <1>1, NodeNames
<1>3. ASSUME NEW k \in Key, pc[X(i, k)] # "none", pc[A(j)] # "none", i \in DependsOn(j)'
      PROVE  <<X(i, k), A(j)>> \in edges
  <2>1. i \in DependsOn(j) => <<X(i, k), A(j)>> \in edges
    BY <1>1, <1>3 DEF Links
  <2>2. i \in Dependencies(config, j) \/ (current'[j] # Nil /\ i \in current'[j].deps)
    BY <1>1, <1>3 DEF DependsOn
  <2>3. CASE n = A(j) /\ pc[n] = "write" /\ WriteApplied(n) /\ current'[j] = obj'[n]
    <3>1. Addr(n) = j
      BY <2>3, NodeNames
    <3>2. current'[j] # Nil => current'[j].deps = Dependencies(config, j)
      BY <2>3, <3>1, Applied
    <3> QED
      BY <2>1, <2>2, <3>2 DEF DependsOn
  <2>4. CASE n = A(j) /\ pc[n] = "provision" /\ current'[j] = deposed[j][run]
    BY <1>1, <1>3, <2>1, <2>2, <2>4 DEF Links, DependsOn
  <2>5. CASE n = D(j) /\ pc[n] = "write" /\ current'[j] = obj[n]
    BY <1>1, <2>1, <2>2, <2>5 DEF SameDeps, Destroys, DependsOn
  <2> QED
    BY <2>1, <2>2, <2>3, <2>4, <2>5, CurrentStep DEF DependsOn
<1>4. ASSUME NEW k \in Key, pc[X(i, k)] # "none", pc[A(j)] # "none",
             pc'[A(j)] \in {"apply", "write", "provision"}, deposed'[j][run] # Nil,
             i \in deposed'[j][run].deps
      PROVE  <<X(i, k), A(j)>> \in edges
  <2>1. CASE deposed'[j][run] = deposed[j][run]
    <3>1. pc[A(j)] # "waiting"
      BY <1>4, <2>1, <1>1 DEF Applies
    <3>2. pc[A(j)] \in {"apply", "write", "provision"}
      <4>1. CASE n # A(j)
        BY <1>1, <1>2, <1>4, <4>1 DEF SameNode
      <4>2. CASE n = A(j)
        <5>1. pc[n] # "hook"
          BY <1>1, <1>4, <4>2 DEF Step, Skip, UpdateStateHook, ApplyStart, Create, Update,
             WriteApplied, Provision, DestroyStart, DeposedStart, Destroy, WriteDestroyed,
             WriteDeposed, At, Starts, Goto, TypeOK
        <5>2. pc[n] \notin {"none", "ok", "error"}
          BY Moves
        <5>3. pc[n] \in {"none", "waiting", "apply", "write", "provision", "hook", "ok", "error"}
          BY <1>1 DEF TypeOK
        <5> QED
          BY <3>1, <4>2, <5>1, <5>2, <5>3
      <4> QED
        BY <4>1, <4>2
    <3> QED
      BY <1>1, <1>4, <2>1, <3>2 DEF Links
  <2>2. CASE n = A(j) /\ deposed'[j][run] = current[j]
    BY <1>1, <1>4, <2>2 DEF Links, DependsOn
  <2>3. CASE n = X(j, run) /\ pc[n] = "write"
    <3>1. pc[A(j)] \in {"none", "ok"} /\ n # A(j)
      BY <1>1, <2>3, NodesApart DEF Deposes
    <3> QED
      BY <1>1, <1>2, <1>4, <3>1 DEF SameNode
  <2> QED
    BY <1>1, <1>4, <2>1, <2>2, <2>3, DeposedStep
<1>5. ASSUME NEW k \in Key, pc[X(i, k)] # "none", pc[D(j)] # "none", pc[A(j)] = "none",
             current'[j] # Nil, i \in current'[j].deps
      PROVE  <<X(i, k), D(j)>> \in edges
  <2>1. n # A(j)
    BY <1>5, Moves
  <2>2. current'[j] = current[j] \/ (n = D(j) /\ pc[n] = "write" /\ current'[j] = obj[n])
    BY <2>1, CurrentStep
  <2> QED
    BY <1>1, <1>5, <2>2 DEF Links, SameDeps, Destroys
<1> QED
  BY <1>1, <1>2, <1>3, <1>4, <1>5 DEF Links, Refs

-----------------------------------------------------------------------------
(* Complete objects                                                        *)

\* What a node has begun to apply has all it refers to settled.
LEMMA Settled ==
  ASSUME IInv, Worked, RunInv, NEW n \in Node, Step(n), NEW i \in Inst,
         pc'[A(i)] \in {"apply", "write", "provision", "hook", "ok"},
         NEW j \in Refs(config, i)
  PROVE  current'[j] = current[j] /\ n # A(j)
<1>1. /\ Kinds(i) /\ Kinds(j) /\ Links(i, j) /\ Destroys(j) /\ Applies(j)
      /\ IsConfig(config) /\ j \in Inst /\ TypeOK
      /\ \A m \in Node \ {n} : SameNode(m)
      /\ \A m \in Node : pc'[m] = "none" <=> pc[m] = "none"
  BY InRun DEF TypeOK, Refs
<1>2. A(i) \in Node /\ A(j) \in Node /\ D(j) \in Node
  BY <1>1, NodeNames
<1>3. j \in config.present
  BY DEF Refs, IsConfig, IInv, TypeOK
<1>4. pc[A(i)] # "none" /\ \A m \in Node : <<A(i), m>> \in edges => pc[m] = "ok"
  <2>1. CASE n = A(i)
    BY <1>1, <1>2, <2>1, Moves DEF Worked, Deps
  <2>2. CASE n # A(i)
    BY <1>1, <1>2, <2>2 DEF Worked, SameNode
  <2> QED
    BY <2>1, <2>2
<1>5. pc[A(j)] \in {"none", "ok"}
  BY <1>1, <1>2, <1>4 DEF Links
<1>6. n # A(j)
  BY <1>5, Moves
<1>7. n # D(j)
  <2>1. CASE pc[A(j)] = "none"
    <3>1. pc[D(j)] = "none"
      BY <1>1, <1>3, <2>1 DEF Kinds, Destroys
    <3> QED
      BY <3>1, Moves
  <2>2. CASE pc[A(j)] = "ok"
    BY <1>1, <2>2, Moves DEF Destroys, Ended
  <2> QED
    BY <1>5, <2>1, <2>2
<1> QED
  BY <1>1, <1>6, <1>7, CurrentStep

\* What an instance without a change, or one that has begun to apply, refers
\* to keeps its identity.
LEMMA RefIdsStay ==
  ASSUME IInv, Worked, RunInv, NEW n \in Node, Step(n), NEW i \in Inst,
         \/ i \in config.present /\ change[i] = "NoOp"
         \/ pc'[A(i)] \in {"apply", "write", "provision", "hook", "ok"}
  PROVE  RefIds(current', i) = RefIds(current, i)
<1> SUFFICES ASSUME NEW j \in Refs(config, i)
             PROVE  /\ current'[j] = Nil <=> current[j] = Nil
                    /\ current[j] # Nil => current'[j].id = current[j].id
  BY DEF RefIds
<1>1. CASE pc'[A(i)] \in {"apply", "write", "provision", "hook", "ok"}
  BY <1>1, Settled
<1>2. CASE i \in config.present /\ change[i] = "NoOp"
  <2>1. j \in Inst /\ Good(i) /\ Good(j) /\ Applies(j) /\ Destroys(j) /\ TypeOK
    BY InRun DEF Refs
  <2>2. change[j] \in {"NoOp", "Update"}
    BY <1>2, <2>1 DEF Good
  <2>3. CASE n = A(j) /\ pc[n] = "write" /\ WriteApplied(n) /\ current'[j] = obj'[n]
    <3>1. change[j] = "Update" /\ ~Creates(j)
      BY <2>1, <2>2, <2>3 DEF Applies, Creates, Replace
    <3>2. obj[n] # Nil /\ obj[n].id = current[j].id /\ current[j] # Nil
      BY <2>1, <2>3, <3>1 DEF Good, Applies
    <3>3. obj'[n] # Nil /\ obj'[n].id = obj[n].id
      BY <2>3, <3>2, Applied
    <3> QED
      BY <2>3, <3>2, <3>3
  <2>4. n # D(j)
    BY <2>1, <2>2, Moves DEF Destroys
  <2> QED
    BY <2>1, <2>2, <2>3, <2>4, CurrentStep
<1> QED
  BY <1>1, <1>2

\* A remote object of i is destroyed only by the node that destroys the
\* current one, unless it was deposed.
LEMMA RemoteStays ==
  ASSUME IInv, IdInv, NEW n \in Node, Step(n), NEW i \in Inst, n # D(i), NEW o \in remote,
         o = <<i, run>> \/ (current[i] # Nil /\ o = current[i].id)
  PROVE  o \in remote'
<1>1. /\ run \in Nat /\ Key \subseteq Nat /\ \A j \in Inst : ObjectsAt(current, deposed, j)
      /\ InOrder(current, deposed, i)
  BY AtWork DEF IInv, InstInv, IdInv
<1>2. o[1] = i
  BY <1>1 DEF ObjectsAt
<1>3. ASSUME NEW j \in Inst, n = D(j), current[j] # Nil
      PROVE  o # current[j].id
  BY <1>1, <1>2, <1>3 DEF ObjectsAt
<1>4. ASSUME NEW j \in Inst, NEW k \in Key, deposed[j][k] # Nil
      PROVE  o # deposed[j][k].id
  <2>1. CASE j # i
    BY <1>1, <1>2, <1>4, <2>1 DEF ObjectsAt
  <2>2. CASE j = i
    <3>1. k \in Nat /\ deposed[j][k].id[2] < k /\ k <= run /\ deposed[j][k].id[2] \in Nat
      <4>1. deposed[j][k] \in Object
        BY <1>4 DEF IInv, TypeOK
      <4> QED
        BY <1>1, <1>4, <4>1, RunAssumption DEF ObjectsAt, Object, Id, Run
    <3>2. CASE o = <<i, run>>
      BY <1>1, <3>1, <3>2
    <3>3. CASE current[i] # Nil /\ o = current[i].id
      <4>1. k <= o[2] /\ o[2] \in Nat
        BY <1>1, <1>4, <2>2, <3>3, RunAssumption DEF InOrder, IInv, TypeOK, Object, Id, Run
      <4> QED
        BY <3>1, <4>1
    <3> QED
      BY <3>2, <3>3
  <2> QED
    BY <2>1, <2>2
<1> QED
  BY <1>3, <1>4, RemoteStep

\* A complete object stays complete when its instance has no change, or when
\* it was applied, and its node does not call the provider.
LEMMA CompleteStays ==
  ASSUME IInv, Worked, IdInv, RunInv, NEW n \in Node, Step(n), NEW i \in Inst, n # D(i),
         \/ i \in config.present /\ change[i] = "NoOp"
         \/ pc'[A(i)] \in {"apply", "write", "provision", "hook", "ok"},
         n = A(i) => pc[n] # "apply",
         NEW o, Complete(i, o), o.id = <<i, run>> \/ (current[i] # Nil /\ o.id = current[i].id),
         NEW p, p.id = o.id
  PROVE  p.id \in remote' /\ refs'[p.id] = RefIds(current', i)
<1>1. UNCHANGED config /\ remote \subseteq Id
  BY InRun DEF TypeOK
<1>2. o.id \in remote /\ refs[o.id] = RefIds(current, i)
  BY DEF Complete
<1>3. o.id \in remote'
  BY <1>2, RemoteStays
<1>4. o.id[1] = i
  BY AtWork DEF IInv, InstInv, ObjectsAt
<1>5. refs'[o.id] = refs[o.id]
  BY <1>1, <1>2, <1>4, RefsStep
<1>6. RefIds(current', i) = RefIds(current, i)
  BY RefIdsStay
<1> QED
  BY <1>2, <1>3, <1>5, <1>6

\* What Good says after a step, with what the step is to the creating node.
LEMMA GoodStep ==
  ASSUME IInv, Worked, IdInv, RunInv, NEW n \in Node, Step(n), NEW i \in Inst
  PROVE  Good(i)'
<1>1. /\ Kinds(i) /\ Good(i) /\ Applies(i) /\ Destroys(i) /\ ObjectsAt(current, deposed, i)
      /\ TypeOK /\ run \in Key
      /\ UNCHANGED <<config, run, change>>
      /\ \A m \in Node \ {n} : SameNode(m)
  BY InRun
<1>2. A(i) \in Node /\ D(i) \in Node /\ Addr(A(i)) = i /\ Kind(A(i)) = "apply"
  BY NodeNames
<1>3. (RefIds(current, i))' = RefIds(current', i)
  BY <1>1 DEF RefIds
<1>5. ASSUME i \in config.present, change[i] = "NoOp"
      PROVE  /\ Complete(i, current[i])'
             /\ \A j \in Refs(config, i) : change[j] \in {"NoOp", "Update"}
  <2>1. n # A(i) /\ n # D(i)
    BY <1>1, <1>5, Moves DEF Applies, Destroys, Replace
  <2>2. current'[i] = current[i] /\ Complete(i, current[i])
    BY <1>1, <1>5, <2>1, CurrentStep DEF Good
  <2>3. current'[i].id \in remote' /\ refs'[current'[i].id] = RefIds(current', i)
    BY <1>5, <2>1, <2>2, CompleteStays DEF Complete
  <2> QED
    BY <1>1, <1>3, <1>5, <2>2, <2>3 DEF Good, Complete
<1>6. ASSUME change[i] = "Update"
      PROVE  /\ current'[i] # Nil /\ current'[i].status = "ready" /\ current'[i].id \in remote'
             /\ pc'[A(i)] = "write" => obj'[A(i)] # Nil /\ obj'[A(i)].status = "ready"
  <2>1. /\ current[i] # Nil /\ current[i].status = "ready" /\ current[i].id \in remote
        /\ pc[A(i)] = "write" => obj[A(i)] # Nil /\ obj[A(i)].status = "ready"
        /\ ~Creates(i) /\ n # D(i)
    BY <1>1, <1>6, Moves DEF Good, Creates, Destroys
  <2>2. current'[i] # Nil /\ current'[i].status = "ready" /\ current'[i].id = current[i].id
    <3>1. CASE n = A(i) /\ pc[n] = "write" /\ WriteApplied(n) /\ current'[i] = obj'[n]
      <4>1. obj[n] # Nil /\ obj[n].status = "ready" /\ obj[n].id = current[i].id
        BY <1>1, <2>1, <3>1 DEF Applies
      <4>2. obj'[n] # Nil /\ obj'[n].status = obj[n].status /\ obj'[n].id = obj[n].id
        BY <1>2, <2>1, <3>1, <4>1, Applied
      <4> QED
        BY <3>1, <4>1, <4>2
    <3> QED
      BY <1>6, <2>1, <3>1, CurrentStep
  <2>3. current[i].id \in remote'
    BY <2>1, RemoteStays
  <2>4. ASSUME pc'[A(i)] = "write"
        PROVE  obj'[A(i)] # Nil /\ obj'[A(i)].status = "ready"
    <3>1. CASE n # A(i)
      BY <1>1, <1>2, <2>1, <2>4, <3>1 DEF SameNode
    <3>2. CASE n = A(i)
      <4>1. Update(n)
        BY <1>1, <1>2, <2>1, <2>4, <3>2 DEF Step, Skip, UpdateStateHook, ApplyStart, Create,
           WriteApplied, Provision, DestroyStart, DeposedStart, Destroy, WriteDestroyed,
           WriteDeposed, At, Starts, Goto, TypeOK
      <4>2. obj'[n] = [current[i] EXCEPT !.cbd = CreateBeforeDestroy(config, i)]
        BY <1>1, <1>2, <3>2, <4>1 DEF Update, TypeOK
      <4>3. current[i] \in Object /\ CreateBeforeDestroy(config, i) \in BOOLEAN
        BY <1>1, <2>1 DEF TypeOK, CreateBeforeDestroy
      <4>4. [current[i] EXCEPT !.cbd = CreateBeforeDestroy(config, i)] \in Object
            /\ [current[i] EXCEPT !.cbd = CreateBeforeDestroy(config, i)].status = current[i].status
        BY <4>3 DEF Object
      <4> QED
        BY <2>1, <3>2, <4>2, <4>4, NilAssumption DEF Result
    <3> QED
      BY <3>1, <3>2
  <2> QED
    BY <2>2, <2>3, <2>4
<1>7. ASSUME n # A(i), pc'[A(i)] \in {"write", "provision", "hook", "ok"}
      PROVE  /\ SameNode(A(i)) /\ current'[i] = current[i] /\ n # D(i)
  <2>1. SameNode(A(i)) /\ pc[A(i)] \notin {"none", "waiting"}
    BY <1>1, <1>2, <1>7 DEF SameNode
  <2>2. n # D(i)
    BY <1>1, <2>1, Moves DEF Destroys, Ended
  <2> QED
    BY <1>7, <2>1, <2>2, CurrentStep
<1>8. ASSUME pc'[A(i)] = "write", ~err'[A(i)]
      PROVE  Complete(i, obj[A(i)])'
  <2>1. CASE n # A(i)
    <3>1. SameNode(A(i)) /\ n # D(i) /\ pc[A(i)] = "write" /\ Complete(i, obj[A(i)])
      BY <1>1, <1>7, <1>8, <2>1 DEF Good, SameNode
    <3>2. obj[A(i)] # Nil /\ (obj[A(i)].id = <<i, run>> \/ (current[i] # Nil
                                /\ obj[A(i)].id = current[i].id))
      BY <1>1, <3>1 DEF Applies, Complete
    <3>3. obj[A(i)].id \in remote' /\ refs'[obj[A(i)].id] = RefIds(current', i)
      BY <1>8, <2>1, <3>1, <3>2, CompleteStays
    <3> QED
      BY <1>3, <3>1, <3>2, <3>3 DEF Complete, SameNode
  <2>2. CASE n = A(i)
    <3>1. Create(n) \/ Update(n)
      BY <1>1, <1>2, <1>8, <2>2 DEF Step, Skip, UpdateStateHook, ApplyStart,
         WriteApplied, Provision, DestroyStart, DeposedStart, Destroy, WriteDestroyed,
         WriteDeposed, At, Starts, Goto, TypeOK
    <3>2. current' = current
      BY <3>1 DEF Create, Update, state
    <3>3. CASE Create(n)
      <4>1. err'[n] \in BOOLEAN /\ ~err'[n]
        BY <1>1, <1>8, <2>2, <3>3 DEF Create, TypeOK
      <4>2. /\ remote' = remote \cup {<<i, run>>} /\ obj'[n] = NewObject(i, "ready")
            /\ refs' = [refs EXCEPT ![<<i, run>>] = RefIds(current, i)]
        BY <1>1, <1>2, <2>2, <3>3, <4>1 DEF Create, TypeOK
      <4>3. <<i, run>> \in Id /\ NewObject(i, "ready").id = <<i, run>>
            /\ NewObject(i, "ready").status = "ready" /\ NewObject(i, "ready") \in Object
        BY <1>1 DEF NewObject, Object, Id, TypeOK, CreateBeforeDestroy
      <4>4. refs'[<<i, run>>] = RefIds(current, i)
        BY <1>1, <4>2, <4>3 DEF TypeOK
      <4> QED
        BY <1>3, <2>2, <3>2, <4>2, <4>3, <4>4, NilAssumption DEF Complete, Result
    <3>4. CASE Update(n)
      <4>1. change[i] = "Update" /\ refs' = [refs EXCEPT ![current[i].id] = RefIds(current, i)]
            /\ obj'[n] = [current[i] EXCEPT !.cbd = CreateBeforeDestroy(config, i)]
        BY <1>1, <1>2, <1>8, <2>2, <3>4 DEF Update, Creates, TypeOK
      <4>2. current[i] \in Object
        BY <1>1, <4>1 DEF Good, TypeOK
      <4>3. obj'[n].id = current[i].id
        BY <4>1, <4>2 DEF Object
      <4>4. refs'[current[i].id] = RefIds(current, i)
        BY <1>1, <4>1, <4>2 DEF TypeOK, Object
      <4> QED
        BY <1>3, <1>6, <1>8, <2>2, <3>2, <4>1, <4>3, <4>4 DEF Complete
    <3> QED
      BY <3>1, <3>3, <3>4
  <2> QED
    BY <2>1, <2>2
<1>9. ASSUME \/ pc'[A(i)] \in {"provision", "hook"} /\ ~err'[A(i)]
             \/ pc'[A(i)] = "ok"
      PROVE  Complete(i, current[i])'
  <2>1. CASE n # A(i)
    <3>1. /\ SameNode(A(i)) /\ n # D(i) /\ current'[i] = current[i]
          /\ Complete(i, current[i])
      BY <1>1, <1>7, <1>9, <2>1 DEF Good, SameNode
    <3>2. current'[i].id \in remote' /\ refs'[current'[i].id] = RefIds(current', i)
      BY <1>9, <2>1, <3>1, CompleteStays DEF Complete
    <3> QED
      BY <1>3, <3>1, <3>2 DEF Complete
  <2>2. CASE n = A(i)
    <3>1. \/ WriteApplied(n) \/ Provision(n) \/ UpdateStateHook(n) \/ ApplyStart(n)
      BY <1>1, <1>2, <1>9, <2>2 DEF Step, Skip, Create, Update,
         DestroyStart, DeposedStart, Destroy, WriteDestroyed,
         WriteDeposed, At, Starts, Goto, TypeOK
    <3>2. CASE WriteApplied(n)
      <4>1. pc[n] = "write" /\ ~err[n] /\ current'[i] = obj'[n]
        BY <1>1, <1>2, <1>9, <2>2, <3>2, Applied DEF WriteApplied, Goto, TypeOK
      <4>2. Complete(i, obj[n])
        BY <1>1, <2>2, <4>1 DEF Good
      <4>3. obj'[n] # Nil /\ obj'[n].id = obj[n].id /\ obj'[n].status = "ready"
        BY <3>2, <4>1, <4>2, Applied DEF Complete
      <4>4. obj[n].id = <<i, run>> \/ (current[i] # Nil /\ obj[n].id = current[i].id)
        BY <1>1, <2>2, <4>1, <4>2 DEF Applies, Complete
      <4>5. n # D(i)
        BY <2>2, NodesApart, <1>1
      <4>6. current'[i].id \in remote' /\ refs'[current'[i].id] = RefIds(current', i)
        BY <1>9, <2>2, <4>1, <4>2, <4>3, <4>4, <4>5, CompleteStays
      <4> QED
        BY <1>3, <4>1, <4>3, <4>6 DEF Complete
    <3>3. CASE Provision(n)
      <4>1. pc[n] = "provision" /\ pc'[n] = "hook"
        BY <1>1, <3>3 DEF Provision, At, Goto, TypeOK
      <4>2. ~err'[n] /\ (err[n] => err'[n])
        <5>1. err'[n] \in BOOLEAN /\ err[n] \in BOOLEAN /\ (err[n] => err'[n])
          BY <1>1, <3>3 DEF Provision, TypeOK
        <5> QED
          BY <1>9, <2>2, <4>1, <5>1
      <4>3. current'[i] = current[i] /\ Complete(i, current[i])
        BY <1>1, <2>2, <4>1, <4>2, CurrentStep DEF Good
      <4>4. n # D(i)
        BY <2>2, NodesApart, <1>1
      <4>5. current'[i].id \in remote' /\ refs'[current'[i].id] = RefIds(current', i)
        BY <1>9, <2>2, <4>1, <4>3, <4>4, CompleteStays DEF Complete
      <4> QED
        BY <1>3, <4>3, <4>5 DEF Complete
    <3>4. CASE UpdateStateHook(n)
      <4>1. pc[n] = "hook" /\ ~err[n] /\ UNCHANGED <<current, remote, refs>>
        BY <1>1, <1>9, <2>2, <3>4 DEF UpdateStateHook, Goto, TypeOK, state
      <4>2. Complete(i, current[i])
        BY <1>1, <2>2, <4>1 DEF Good
      <4> QED
        BY <1>3, <4>1, <4>2 DEF Complete
    <3>5. CASE ApplyStart(n)
      <4>1. ~Creates(i) /\ refs[current[i].id] = RefIds(current, i)
        BY <1>1, <1>2, <1>9, <2>2, <3>5 DEF ApplyStart, Goto, TypeOK
      <4>2. change[i] = "Update" /\ UNCHANGED <<current, remote, refs>>
        BY <1>2, <2>2, <3>5, <4>1 DEF ApplyStart, Creates, state
      <4> QED
        BY <1>1, <1>3, <4>1, <4>2 DEF Complete, Good
    <3> QED
      BY <3>1, <3>2, <3>3, <3>4, <3>5
  <2> QED
    BY <2>1, <2>2
<1>10. (Refs(config, i))' = Refs(config, i)
  BY <1>1 DEF Refs
<1> QED
  BY <1>1, <1>5, <1>6, <1>8, <1>9, <1>10 DEF Good

LEMMA RunStep ==
  ASSUME IInv, Worked, IdInv, RunInv, NEW n \in Node, Step(n)
  PROVE  RunInv'
<1>1. ASSUME NEW i \in Inst
      PROVE  /\ (Kinds(i) /\ SameDeps(i) /\ Good(i))'
             /\ \A j \in Inst : Links(i, j)'
             /\ \A k \in Key : Gone(i, k)'
  BY KindsStep, SameDepsStep, GoodStep, LinksStep, GoneStep
<1> QED
  BY <1>1 DEF RunInv

-----------------------------------------------------------------------------
(* What a plan gives                                                       *)

\* What is referred to is a dependency.
LEMMA RefIsDependency ==
  ASSUME NEW i \in Inst, NEW j \in Refs(config, i)
  PROVE  j \in Dependencies(config, i)
  BY DEF Dependencies, Refs

\* A creating node waits for one it refers to.
LEMMA ReferenceEdge ==
  ASSUME NEW nodes, NEW cur, NEW i \in Inst, NEW j \in Refs(config, i),
         A(i) \in nodes, A(j) \in nodes
  PROVE  <<A(i), A(j)>> \in Edges(config, cur, nodes)
<1>1. j \in Inst /\ j \in Dependencies(config, i)
  BY RefIsDependency DEF Refs
<1>2. /\ Kind(A(i)) = "apply" /\ Kind(A(j)) = "apply" /\ Addr(A(i)) = i /\ Addr(A(j)) = j
  BY <1>1, NodeNames
<1>3. <<A(i), A(j)>> \in References(config, nodes)
  BY <1>1, <1>2 DEF References
<1>4. ~DestroysCBD(cur, A(j))
  BY <1>2 DEF DestroysCBD
<1> QED
  BY <1>3, <1>4 DEF Edges, CBDEdges

\* A node that destroys a deposed object waits for the nodes that create, or
\* destroy, what depends on it.
LEMMA DependentEdge ==
  ASSUME NEW nodes, NEW cur, NEW i \in Inst, NEW k \in Key, NEW j \in Inst, X(i, k) \in nodes
  PROVE  /\ A(j) \in nodes /\ i \in StateDependencies(config, cur, A(j))
               => <<X(i, k), A(j)>> \in Edges(config, cur, nodes)
         /\ D(j) \in nodes /\ cur[j] # Nil /\ i \in cur[j].deps
               => <<X(i, k), D(j)>> \in Edges(config, cur, nodes)
<1> DEFINE edgeSet == References(config, nodes) \cup DestroyEdges(config, cur, nodes)
<1>1. /\ Kind(A(j)) = "apply" /\ Addr(A(j)) = j /\ Kind(D(j)) = "destroy" /\ Addr(D(j)) = j
      /\ Kind(X(i, k)) = "deposed" /\ Addr(X(i, k)) = i
  BY NodeNames
<1>2. ASSUME A(j) \in nodes, i \in StateDependencies(config, cur, A(j))
      PROVE  <<X(i, k), A(j)>> \in Edges(config, cur, nodes)
  <2> DEFINE e == <<A(j), X(i, k)>>
  <2>1. e \in edgeSet
    BY <1>1, <1>2 DEF DestroyEdges
  <2>2. e[1] = A(j) /\ e[2] = X(i, k) /\ DestroysCBD(cur, X(i, k))
    BY <1>1 DEF DestroysCBD
  <2> HIDE DEF e, edgeSet
  <2>3. <<e[2], e[1]>> \in CBDEdges(cur, edgeSet)
    BY <1>1, <2>1, <2>2 DEF CBDEdges
  <2> QED
    BY <2>2, <2>3 DEF Edges, edgeSet
<1>3. ASSUME D(j) \in nodes, cur[j] # Nil, i \in cur[j].deps
      PROVE  <<X(i, k), D(j)>> \in Edges(config, cur, nodes)
  <2> DEFINE e == <<X(i, k), D(j)>>
  <2>1. i \in StateDependencies(config, cur, D(j))
    BY <1>1, <1>3 DEF StateDependencies
  <2>2. e \in edgeSet
    BY <1>1, <1>3, <2>1 DEF DestroyEdges
  <2>3. e[1] = X(i, k)
    OBVIOUS
  <2> HIDE DEF e, edgeSet
  <2>4. e \in CBDEdges(cur, edgeSet)
    BY <1>1, <2>2, <2>3 DEF CBDEdges
  <2> QED
    BY <2>4 DEF Edges, edgeSet, e
<1> QED
  BY <1>2, <1>3

\* A planned object has the dependencies of its configuration.
LEMMA PlannedDeps ==
  ASSUME NEW i \in config.present, NEW o \in Object \cup {Nil}, NEW action,
         Configured(i, Refreshed(o), action) # Nil
  PROVE  Dependencies(config, i) \subseteq Configured(i, Refreshed(o), action).deps
<1>1. o \in Object /\ Refreshed(o) = o
  BY DEF Refreshed, Configured
<1>2. o # Nil
  BY <1>1, NilAssumption DEF Result
<1> DEFINE d == Dependencies(config, i) \cup (IF action = "NoOp" THEN {} ELSE o.deps)
<1>3. Configured(i, Refreshed(o), action)
        = [o EXCEPT !.deps = d, !.cbd = CreateBeforeDestroy(config, i)]
  BY <1>1, <1>2 DEF Configured
<1> HIDE DEF d
<1>4. [o EXCEPT !.deps = d, !.cbd = CreateBeforeDestroy(config, i)].deps = d
  BY <1>1 DEF Object
<1> QED
  BY <1>3, <1>4 DEF d

\* A plan gives every instance the nodes of its change and the edges between
\* them, and finds what it has no change for complete.
LEMMA PlanGives ==
  ASSUME IInv, Plan
  PROVE  RunInv'
<1> DEFINE nodes == Nodes(change', [i \in Inst |-> run'], deposed')
<1>1. /\ phase = "plan" /\ run' \in Key
      /\ change' \in [Inst -> Action]
      /\ \A i \in Inst : change'[i] \in Planned(i, Refreshed(current[i]), change')
      /\ \A i \in Inst : current'[i] = Configured(i, Refreshed(current[i]), change'[i])
      /\ edges' = Edges(config, current', nodes)
      /\ \A n \in Node : pc'[n] = IF n \in nodes THEN "waiting" ELSE "none"
      /\ UNCHANGED <<config, remote, refs, obj, err>>
      /\ IsConfig(config)
  BY RunAssumption DEF Plan, IInv, TypeOK, Idle, Run
<1>2. \A i \in Inst :
        /\ A(i) \in nodes <=> change'[i] \in {"Create", "Update"} \cup Replace
        /\ D(i) \in nodes <=> change'[i] \in {"Delete", "DeleteThenCreate"}
        /\ \A k \in Key : X(i, k) \in nodes
             <=> deposed'[i][k] # Nil \/ (change'[i] = "CreateThenDelete" /\ k = run')
  BY NodeNames DEF Nodes
<1> HIDE DEF nodes
<1>3. \A i \in Inst : /\ A(i) \in Node /\ D(i) \in Node
                      /\ \A k \in Key : X(i, k) \in Node
  BY NodeNames
<1>4. \A i \in Inst : current[i] \in Object \cup {Nil}
  BY DEF IInv, TypeOK
<1>5. ASSUME NEW i \in Inst
      PROVE  Kinds(i)'
  <2>1. change'[i] \in Action /\ change'[i] \in Planned(i, Refreshed(current[i]), change')
    BY <1>1
  <2>2. /\ change'[i] \notin {"NoOp", "Delete"} => i \in config.present
        /\ change'[i] = "Delete" => i \notin config.present
        /\ i \notin config.present /\ Refreshed(current[i]) # Nil => change'[i] = "Delete"
    BY <2>1 DEF Planned
  <2>3. current'[i] # Nil => Refreshed(current[i]) # Nil
    BY <1>1, <1>4, PlannedObject
  <2> QED
    BY <1>1, <1>2, <1>3, <2>1, <2>2, <2>3 DEF Kinds, Action, Replace
<1>6. ASSUME NEW i \in Inst
      PROVE  SameDeps(i)' /\ \A k \in Key : Gone(i, k)'
  BY <1>1, <1>2, <1>3 DEF SameDeps, Gone
<1>7. ASSUME NEW i \in Inst, NEW j \in Inst
      PROVE  Links(i, j)'
  <2>1. ASSUME pc'[A(i)] # "none", pc'[A(j)] # "none", j \in Refs(config, i)
        PROVE  <<A(i), A(j)>> \in edges'
    BY <1>1, <1>3, <2>1, ReferenceEdge
  <2>2. ASSUME NEW k \in Key, pc'[X(i, k)] # "none", pc'[A(j)] # "none", i \in DependsOn(j)'
        PROVE  <<X(i, k), A(j)>> \in edges'
    <3>1. X(i, k) \in nodes /\ A(j) \in nodes
      BY <1>1, <1>3, <2>2
    <3>2. j \in config.present
      <4>1. change'[j] \in {"Create", "Update"} \cup Replace
        BY <1>2, <3>1
      <4> QED
        BY <1>1, <4>1 DEF Planned, Replace
    <3>3. i \in Dependencies(config, j) \/ (current'[j] # Nil /\ i \in current'[j].deps)
      BY <1>1, <2>2 DEF DependsOn
    <3>4. current'[j] # Nil => Dependencies(config, j) \subseteq current'[j].deps
      BY <1>1, <1>4, <3>2, PlannedDeps
    <3>5. Kind(A(j)) = "apply" /\ Addr(A(j)) = j
      BY NodeNames
    <3>6. i \in StateDependencies(config, current', A(j))
      BY <3>3, <3>4, <3>5 DEF StateDependencies
    <3> QED
      BY <1>1, <3>1, <3>6, DependentEdge
  <2>3. ASSUME NEW k \in Key, pc'[X(i, k)] # "none", pc'[D(j)] # "none",
               current'[j] # Nil, i \in current'[j].deps
        PROVE  <<X(i, k), D(j)>> \in edges'
    BY <1>1, <1>3, <2>3, DependentEdge
  <2>4. pc'[A(j)] \notin {"apply", "write", "provision"}
    BY <1>1, <1>3
  <2> QED
    BY <1>1, <2>1, <2>2, <2>3, <2>4 DEF Links, Refs
<1>8. ASSUME NEW i \in Inst
      PROVE  Good(i)'
  <2>1. pc'[A(i)] \in {"none", "waiting"}
    BY <1>1, <1>3
  <2>2. current[i] \in Object \cup {Nil} /\ change'[i] \in Planned(i, Refreshed(current[i]), change')
        /\ current'[i] = Configured(i, Refreshed(current[i]), change'[i])
    BY <1>1, <1>4
  <2>3. \A o \in Object : o.status \in {"ready", "tainted"}
    BY DEF Object
  <2>4. ASSUME i \in config.present, change'[i] \in {"NoOp", "Update"}
        PROVE  /\ Refreshed(current[i]) = current[i] /\ current[i] \in Object
               /\ current[i].id \in remote
               /\ current'[i] # Nil /\ current'[i].status = "ready"
               /\ current'[i].id = current[i].id
    <3>1. Refreshed(current[i]) # Nil /\ Refreshed(current[i]).status # "tainted"
      BY <2>2, <2>4 DEF Planned
    <3>2. /\ Refreshed(current[i]) = current[i] /\ current[i] \in Object
          /\ current[i].id \in remote
      BY <2>2, <3>1 DEF Refreshed
    <3>3. current'[i] # Nil /\ current'[i].status = current[i].status
          /\ current'[i].id = current[i].id
      BY <2>2, <3>1, PlannedObject
    <3> QED
      BY <2>3, <3>1, <3>2, <3>3
  <2>5. ASSUME i \in config.present, change'[i] = "NoOp"
        PROVE  /\ refs[current[i].id] = RefIds(current, i)
               /\ \A j \in Refs(config, i) : change'[j] \in {"NoOp", "Update"}
    BY <2>2, <2>4, <2>5 DEF Planned
  <2>6. ASSUME i \in config.present, change'[i] = "NoOp"
        PROVE  (RefIds(current, i))' = RefIds(current, i)
    <3>1. ASSUME NEW j \in Refs(config, i)
          PROVE  current[j] # Nil /\ current'[j] # Nil /\ current'[j].id = current[j].id
      <4>1. j \in Inst /\ j \in config.present /\ change'[j] \in {"NoOp", "Update"}
        BY <1>1, <2>5, <2>6, <3>1 DEF Refs, IsConfig
      <4>2. Refreshed(current[j]) # Nil
        BY <1>1, <4>1 DEF Planned
      <4>3. Refreshed(current[j]) = current[j]
        BY <4>2 DEF Refreshed
      <4> QED
        BY <1>1, <1>4, <4>1, <4>2, <4>3, PlannedObject
    <3>2. (RefIds(current, i))' = {current'[j].id : j \in {k \in Refs(config, i) : current'[k] # Nil}}
      BY <1>1 DEF RefIds, Refs
    <3> QED
      BY <3>1, <3>2 DEF RefIds
  <2>7. i \in config.present /\ change'[i] = "NoOp" => Complete(i, current[i])'
    BY <1>1, <2>4, <2>5, <2>6 DEF Complete
  <2>8. change'[i] = "Update" => i \in config.present
    BY <2>2 DEF Planned
  <2> QED
    BY <1>1, <2>1, <2>4, <2>5, <2>7, <2>8 DEF Good, Refs
<1> QED
  BY <1>5, <1>6, <1>7, <1>8 DEF RunInv

LEMMA RunHolds == Spec => []RunInv
<1>1. Init => RunInv
  BY DEF Init, RunInv
<1>2. ASSUME IInv, Worked, IdInv, RunInv, [Next]_vars
      PROVE  RunInv'
  <2>1. CASE Finish \/ FinishUnstored \/ Crash
    BY <2>1 DEF Finish, FinishUnstored, Crash, StartOver, EndRun, RunInv
  <2>2. CASE UNCHANGED vars
    <3>1. RunInv' <=> RunInv
      BY <2>2 DEF vars, state, RunInv, Kinds, SameDeps, Good, Links, Gone, Complete, RefIds,
         DependsOn
    <3> QED
      BY <1>2, <3>1
  <2> QED
    BY <1>2, <2>1, <2>2, PlanGives, RunStep DEF Next
<1> QED
  BY <1>1, <1>2, Invariant, WorkedInv, Ids, PTL DEF Spec

-----------------------------------------------------------------------------
(* What the runs leave                                                     *)

\* A configured instance is complete once its creating node is done, or when
\* it has none.
LEMMA Done ==
  ASSUME NEW i \in Inst, Kinds(i), Good(i), i \in config.present, pc[A(i)] \in {"none", "ok"}
  PROVE  Complete(i, current[i])
  BY DEF Kinds, Good

\* An object is destroyed after it was deposed when nothing in use refers to it.
LEMMA DestroyedUnused ==
  ASSUME IInv, Worked, IdInv, RunInv, NEW n \in Node, Destroy(n), Kind(n) = "deposed"
  PROVE  LET i == Addr(n) IN
         /\ i \in config.present => current[i] # Nil /\ current[i].id # obj[n].id
         /\ \A j \in Inst : current[j] # Nil /\ i \in current[j].deps
                               => obj[n].id \notin refs[current[j].id]
<1> DEFINE i == Addr(n)
           k == n[3]
<1>1. n = X(i, k) /\ i \in Inst /\ k \in Key
  BY NodeForm
<1>2. pc[n] = "apply" /\ Step(n)
  BY DEF Destroy, Step
<1>3. /\ TypeOK /\ Key \subseteq Nat
      /\ \A j \in Inst : /\ Kinds(j) /\ Good(j) /\ Destroys(j) /\ Links(i, j)
                         /\ ObjectsAt(current, deposed, j)
      /\ Deposes(i, k)
  BY <1>1, <1>2, InRun
<1> HIDE DEF i, k
<1>4. /\ deposed[i][k] # Nil /\ obj[n] # Nil /\ obj[n].id = deposed[i][k].id
      /\ pc[A(i)] \in {"none", "ok"}
  BY <1>1, <1>2, <1>3 DEF Deposes
<1>5. obj[n].id[1] = i /\ obj[n].id[2] < k /\ obj[n].id[2] \in Nat /\ k \in Nat
  <2>1. deposed[i][k] \in Object
    BY <1>1, <1>3, <1>4 DEF TypeOK
  <2> QED
    BY <1>1, <1>3, <1>4, <2>1, RunAssumption DEF ObjectsAt, Object, Id, Run
<1>6. ASSUME NEW m \in Inst, current[m] # Nil
      PROVE  current[m].id # obj[n].id
  <2>1. CASE m = i
    <3>1. current[i] \in Object
      BY <1>3, <1>6, <2>1 DEF TypeOK
    <3>2. current[i].id[2] \in Nat /\ k <= current[i].id[2]
      BY <1>1, <1>4, <1>6, <2>1, <3>1, RunAssumption DEF IdInv, InOrder, Object, Id, Run
    <3> QED
      BY <1>5, <2>1, <3>2
  <2>2. CASE m # i
    BY <1>3, <1>5, <1>6, <2>2 DEF ObjectsAt
  <2> QED
    BY <2>1, <2>2
<1>7. ASSUME i \in config.present
      PROVE  current[i] # Nil /\ current[i].id # obj[n].id
  BY <1>1, <1>3, <1>4, <1>6, <1>7, Done DEF Complete
<1>8. ASSUME NEW j \in Inst, current[j] # Nil, i \in current[j].deps
      PROVE  obj[n].id \notin refs[current[j].id]
  <2>1. A(j) \in Node /\ D(j) \in Node
    BY NodeNames
  <2>2. Complete(j, current[j])
    <3>1. CASE pc[A(j)] # "none"
      <4>1. <<n, A(j)>> \in edges
        BY <1>1, <1>2, <1>3, <1>8, <3>1 DEF Links, DependsOn
      <4>2. pc[A(j)] = "ok"
        BY <1>2, <2>1, <4>1 DEF Worked
      <4> QED
        BY <1>3, <4>2 DEF Good
    <3>2. CASE pc[A(j)] = "none" /\ j \in config.present
      BY <1>3, <3>2, Done
    <3>3. CASE pc[A(j)] = "none" /\ j \notin config.present
      <4>1. pc[D(j)] # "none"
        BY <1>3, <1>8, <3>3 DEF Kinds
      <4>2. <<n, D(j)>> \in edges
        BY <1>1, <1>2, <1>3, <1>8, <3>3, <4>1 DEF Links
      <4>3. pc[D(j)] = "ok"
        BY <1>2, <2>1, <4>2 DEF Worked
      <4> QED
        BY <1>3, <1>8, <3>3, <4>3 DEF Destroys
    <3> QED
      BY <3>1, <3>2, <3>3
  <2>3. \A o \in RefIds(current, j) : \E m \in Inst : current[m] # Nil /\ o = current[m].id
    BY DEF RefIds, Refs
  <2> QED
    BY <1>6, <2>2, <2>3 DEF Complete
<1> QED
  BY <1>7, <1>8 DEF i

\* A replaced object is destroyed only when the new one is there, and when no
\* current object that is recorded to depend on it still refers to it.
THEOREM ReplacedAreUnused == Spec => ReplacedIsUnused
<1>1. IInv /\ Worked /\ IdInv /\ RunInv =>
        \A n \in Node : Destroy(n) /\ Kind(n) = "deposed" =>
          LET i == Addr(n) IN
          /\ i \in config.present => current[i] # Nil /\ current[i].id # obj[n].id
          /\ \A j \in Inst : current[j] # Nil /\ i \in current[j].deps
                                => obj[n].id \notin refs[current[j].id]
  BY DestroyedUnused
<1> QED
  BY <1>1, Invariant, WorkedInv, Ids, RunHolds, PTL DEF ReplacedIsUnused

\* What a walk without an error leaves.
LEMMA FinishedClean ==
  ASSUME IInv, IdInv, RunInv, Finish, \A n \in Node : pc[n] # "error"
  PROVE  /\ deposed = NoDeposed
         /\ {i \in Inst : current[i] # Nil} = config.present
         /\ \A i \in config.present : /\ current[i].status = "ready"
                                      /\ refs[current[i].id] = RefIds(current, i)
         /\ remote = Recorded(current, deposed) \cup lost
<1>1. /\ TypeOK /\ IsConfig(config) /\ NoObjectLost
      /\ \A n \in Node : pc[n] \in {"none", "ok"}
      /\ \A i \in Inst : /\ Kinds(i) /\ Good(i) /\ Destroys(i)
                         /\ \A k \in Key : Gone(i, k)
      /\ \A i \in Inst : /\ A(i) \in Node /\ D(i) \in Node
                         /\ \A k \in Key : X(i, k) \in Node
  BY NodeNames DEF IInv, TypeOK, InstInv, Walks, RunInv, Finish, WalkEnded, Ended
<1>2. \A i \in Inst, k \in Key : deposed[i][k] = Nil
  BY <1>1 DEF Gone
<1>3. deposed = NoDeposed
  BY <1>1, <1>2 DEF TypeOK, NoDeposed
<1>4. \A i \in config.present : Complete(i, current[i])
  BY <1>1, Done DEF IsConfig
<1>5. ASSUME NEW i \in Inst, i \notin config.present
      PROVE  current[i] = Nil
  <2>1. Kinds(i) /\ Destroys(i) /\ pc[D(i)] \in {"none", "ok"}
    BY <1>1
  <2>2. pc[A(i)] = "none"
    BY <1>5, <2>1 DEF Kinds
  <2>3. CASE current[i] # Nil
    <3>1. pc[D(i)] = "ok"
      BY <1>5, <2>1, <2>3 DEF Kinds
    <3> QED
      BY <2>1, <2>2, <3>1 DEF Destroys
  <2> QED
    BY <2>3
<1>6. {i \in Inst : current[i] # Nil} = config.present
  BY <1>1, <1>4, <1>5 DEF Complete, IsConfig
<1>7. \A o \in remote : o \in Recorded(current, deposed) \/ o \in lost
  BY <1>1, InHandIs DEF NoObjectLost
<1>8. \A o \in Recorded(current, deposed) : o \in remote
  BY <1>2, <1>4, <1>5, RecordedIs DEF Complete
<1>9. \A o \in lost : o \in remote
  BY DEF IdInv, Forgotten
<1> QED
  BY <1>3, <1>4, <1>6, <1>7, <1>8, <1>9 DEF Complete

\* A run without an error leaves what is configured, complete, and nothing
\* else, whatever failed in the runs before it.
THEOREM CleanRuns == Spec => CleanRun
<1>1. IInv /\ IdInv /\ RunInv /\ Finish /\ (\A n \in Node : pc[n] # "error") =>
          /\ deposed = NoDeposed
          /\ {i \in Inst : current[i] # Nil} = config.present
          /\ \A i \in config.present : /\ current[i].status = "ready"
                                       /\ refs[current[i].id] = RefIds(current, i)
          /\ remote = Recorded(current, deposed) \cup lost
  BY FinishedClean
<1> QED
  BY <1>1, Invariant, Ids, RunHolds, PTL DEF CleanRun
=============================================================================
