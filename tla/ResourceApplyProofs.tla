------------------------ MODULE ResourceApplyProofs ------------------------
(***************************************************************************)
(* Proofs about the apply of managed resources, for any instances,         *)
(* configurations and numbers of runs: every remote object stays in the    *)
(* state, what has failed is tainted, and a crash loses only objects of    *)
(* nodes at work.                                                          *)
(***************************************************************************)
EXTENDS ResourceApply, TLAPS

-----------------------------------------------------------------------------
(* The inductive invariant                                                 *)

\* The nodes of an instance.
A(i) == <<"apply", i, NotDeposed>>
D(i) == <<"destroy", i, NotDeposed>>
X(i, k) == <<"deposed", i, k>>

\* Nodes are at work only during a walk, in a run within the bounds.
Idle ==
    /\ phase = "apply" => run \in Key
    /\ phase # "apply" => \A n \in Node : pc[n] \in {"none", "waiting"} /\ obj[n] = Nil
    /\ phase = "plan" => \A n \in Node : pc[n] = "none"
    /\ Runs(config) \in Run

\* An object is of its instance, and was deposed by a later run than the one
\* that made it.
ObjectsAt(cur, dep, i) ==
    /\ cur[i] # Nil => cur[i].id[1] = i /\ cur[i].id[2] <= run
    /\ \A k \in Key : dep[i][k] # Nil =>
          dep[i][k].id[1] = i /\ dep[i][k].id[2] < k /\ k <= run

\* A broken object is tainted, also when it is deposed.
Marked(o) == o # Nil /\ o.id \in broken => o.status = "tainted"

MarksAt(i) == Marked(current[i]) /\ \A k \in Key : Marked(deposed[i][k])

\* The node that creates or updates i: what it may write over has been
\* deposed, destroyed, or is the object it has updated.
Applies(i) ==
    /\ pc[A(i)] # "none" => change[i] \in {"Create", "Update"} \cup Replace
    /\ pc[A(i)] \in {"waiting", "apply"} =>
          /\ obj[A(i)] = Nil /\ <<i, run>> \notin broken
          /\ current[i] # Nil => current[i].id[2] < run
    /\ pc[A(i)] = "waiting" =>
          /\ deposed[i][run] = Nil
          /\ change[i] = "Create" => current[i] = Nil
          /\ change[i] = "Update" => current[i] # Nil
    /\ pc[A(i)] \in {"apply", "write"} => (current[i] = Nil <=> Creates(i))
    /\ pc[A(i)] = "write" =>
          IF obj[A(i)] = Nil THEN Creates(i)
          ELSE /\ obj[A(i)].id = IF Creates(i) THEN <<i, run>> ELSE current[i].id
               /\ obj[A(i)].status = "none" => err[A(i)] /\ Creates(i)
               /\ Marked(obj[A(i)]) \/ (err[A(i)] /\ Creates(i))
    /\ pc[A(i)] = "provision" =>
          /\ obj[A(i)] = current[i]
          /\ Creates(i) /\ obj[A(i)] # Nil => obj[A(i)].id = <<i, run>>

\* The node that destroys the current object of i, before one is created.
Destroys(i) ==
    /\ change[i] = "DeleteThenCreate" => <<A(i), D(i)>> \in edges
    /\ pc[D(i)] # "none" => change[i] \in {"Delete", "DeleteThenCreate"}
    /\ pc[D(i)] \notin Ended => pc[A(i)] \in {"none", "waiting"}
    /\ pc[D(i)] = "apply" => obj[D(i)] # Nil /\ obj[D(i)] = current[i]
    /\ pc[D(i)] = "write" =>
          /\ current[i] # Nil
          /\ IF obj[D(i)] = Nil THEN current[i].id \notin remote
             ELSE /\ obj[D(i)] \in Object
                  /\ obj[D(i)].id = current[i].id /\ obj[D(i)].status = current[i].status
    /\ pc[D(i)] = "hook" => obj[D(i)] = current[i]
    /\ pc[D(i)] \in {"write", "hook"} /\ ~err[D(i)] => obj[D(i)] = Nil
    /\ pc[D(i)] = "ok" /\ pc[A(i)] \in {"none", "waiting"} => current[i] = Nil

\* A node that destroys a deposed object of i, after one is created.
Deposes(i, k) ==
    /\ pc[X(i, k)] # "none" /\ pc[A(i)] # "none" => <<X(i, k), A(i)>> \in edges
    /\ pc[X(i, k)] \notin {"none", "waiting", "error"} => pc[A(i)] \in {"none", "ok"}
    /\ pc[X(i, k)] = "apply" => obj[X(i, k)] # Nil
    /\ pc[X(i, k)] \in {"apply", "write"} =>
          /\ obj[X(i, k)] # Nil =>
                /\ deposed[i][k] # Nil
                /\ obj[X(i, k)] \in Object /\ Marked(obj[X(i, k)])
                /\ obj[X(i, k)].id[1] = i /\ obj[X(i, k)].id[2] < k /\ k <= run
          /\ deposed[i][k] # Nil =>
                IF obj[X(i, k)] = Nil THEN deposed[i][k].id \notin remote
                ELSE obj[X(i, k)].id = deposed[i][k].id

Walks(i) == Applies(i) /\ Destroys(i) /\ \A k \in Key : Deposes(i, k)

InstInv(i) ==
    /\ ObjectsAt(current, deposed, i) /\ ObjectsAt(saved.current, saved.deposed, i)
    /\ MarksAt(i)
    /\ phase = "apply" => Walks(i)

IInv ==
    /\ TypeOK /\ Idle /\ NoObjectLost
    /\ \A o \in broken : o[2] <= run
    /\ \A i \in Inst : InstInv(i)

-----------------------------------------------------------------------------
(* Nodes and records                                                       *)

\* A node is one of its instance.
LEMMA NodeForm ==
  ASSUME NEW n \in Node
  PROVE  /\ Addr(n) \in Inst
         /\ Kind(n) \in {"apply", "destroy", "deposed"}
         /\ Kind(n) = "apply" => n = A(Addr(n))
         /\ Kind(n) = "destroy" => n = D(Addr(n))
         /\ Kind(n) = "deposed" => n[3] \in Key /\ n = X(Addr(n), n[3])
  BY DEF Node, Addr, Kind, A, D, X

\* Every instance has these nodes, and they are what they are named.
LEMMA NodeNames ==
  ASSUME NEW i \in Inst
  PROVE  /\ A(i) \in Node /\ Kind(A(i)) = "apply" /\ Addr(A(i)) = i
         /\ D(i) \in Node /\ Kind(D(i)) = "destroy" /\ Addr(D(i)) = i
         /\ \A k \in Key : /\ X(i, k) \in Node /\ Kind(X(i, k)) = "deposed"
                           /\ Addr(X(i, k)) = i /\ X(i, k)[3] = k
  BY DEF Node, Addr, Kind, A, D, X

\* The nodes of an instance differ from each other and from those of others.
LEMMA NodesApart ==
  ASSUME NEW i \in Inst, NEW j \in Inst, NEW k \in Key, NEW l \in Key
  PROVE  /\ A(i) # D(j) /\ A(i) # X(j, k) /\ D(i) # X(j, k)
         /\ i # j => A(i) # A(j) /\ D(i) # D(j) /\ X(i, k) # X(j, l)
         /\ k # l => X(i, k) # X(j, l)
  BY DEF A, D, X

\* Something knows the object o.
Held(o) ==
    \/ o \in lost
    \/ \E i \in Inst : current[i] # Nil /\ o = current[i].id
    \/ \E i \in Inst, k \in Key : deposed[i][k] # Nil /\ o = deposed[i][k].id
    \/ \E n \in Node : pc[n] = "write" /\ obj[n] # Nil /\ o = obj[n].id

\* What it is to be in the record of a state.
LEMMA RecordedIs ==
  ASSUME NEW cur, NEW dep, NEW o
  PROVE  o \in Recorded(cur, dep) <=>
           \/ \E i \in Inst : cur[i] # Nil /\ o = cur[i].id
           \/ \E i \in Inst, k \in Key : dep[i][k] # Nil /\ o = dep[i][k].id
  BY DEF Recorded

\* What it is to be in hand, before a step and after it.
LEMMA InHandIs ==
  /\ \A o : o \in InHand <=> \E n \in Node : pc[n] = "write" /\ obj[n] # Nil /\ o = obj[n].id
  /\ \A o : o \in InHand' <=>
        \E n \in Node : pc'[n] = "write" /\ obj'[n] # Nil /\ o = obj'[n].id
  BY DEF InHand

\* No object is lost when something knows each remote object.
LEMMA HeldIs == /\ NoObjectLost <=> \A o \in remote : Held(o)
                /\ NoObjectLost' <=> \A o \in remote' : Held(o)'
  BY RecordedIs, InHandIs DEF NoObjectLost, Held

-----------------------------------------------------------------------------
(* What a step leaves alone                                                *)

SameNode(n) == pc'[n] = pc[n] /\ obj'[n] = obj[n] /\ err'[n] = err[n]
SameRecord(i) == current'[i] = current[i] /\ deposed'[i] = deposed[i]

\* The creating node of i is as it was when the step is not of i.
LEMMA AppliesFrame ==
  ASSUME NEW i \in Inst, Applies(i), ObjectsAt(current, deposed, i),
         SameNode(A(i)),
         current'[i] = current[i], deposed'[i][run] = deposed[i][run],
         UNCHANGED <<run, change>>,
         \A o \in broken' : o \in broken \/ o[1] # i
  PROVE  Applies(i)'
  BY DEF Applies, ObjectsAt, SameNode, Creates, Marked

\* So is the node that destroys the current object of i.
LEMMA DestroysFrame ==
  ASSUME NEW i \in Inst, Destroys(i), ObjectsAt(current, deposed, i),
         SameNode(A(i)), SameNode(D(i)), current'[i] = current[i],
         UNCHANGED <<run, change, edges>>,
         \A o \in remote' : o \in remote \/ o[1] # i
  PROVE  Destroys(i)'
  BY DEF Destroys, ObjectsAt, SameNode

\* So is the one that destroys a deposed object, also when i creates.
LEMMA DeposesFrame ==
  ASSUME NEW i \in Inst, NEW k \in Key, Deposes(i, k), ObjectsAt(current, deposed, i),
         TypeOK, SameNode(A(i)), SameNode(X(i, k)), deposed'[i][k] = deposed[i][k],
         UNCHANGED <<run, edges>>, run \in Key,
         \A o \in remote' : o \in remote \/ o[1] # i \/ o[2] = run,
         \A o \in broken' : o \in broken \/ o[1] # i \/ o[2] = run
  PROVE  Deposes(i, k)'
  BY RunAssumption DEF Deposes, ObjectsAt, SameNode, Marked

\* A step of n leaves alone the other nodes and the records of other
\* instances, and may make the object of its instance and this run.
LEMMA StepFrame ==
  ASSUME TypeOK, NEW n \in Node, Step(n), InstInv(Addr(n))
  PROVE  /\ phase = "apply" /\ UNCHANGED <<config, run, phase, change, edges, lost>>
         /\ saved' \in {saved, Snapshot}
         /\ \A m \in Node \ {n} : SameNode(m)
         /\ \A i \in Inst \ {Addr(n)} : SameRecord(i)
         /\ \A o \in remote' : o \in remote \/ o = <<Addr(n), run>>
         /\ \A o \in broken' : o \in broken \/ o = <<Addr(n), run>>
<1> USE DEF TypeOK, SameNode, SameRecord, At, Starts, Goto, state
<1>0. Addr(n) \in Inst
  BY NodeForm
<1>1. CASE Skip(n)
  BY <1>0, <1>1 DEF Skip
<1>2. CASE UpdateStateHook(n)
  BY <1>0, <1>2 DEF UpdateStateHook, Saved
<1>3. CASE ApplyStart(n)
  BY <1>0, <1>3 DEF ApplyStart, Depose
<1>4. CASE Create(n)
  BY <1>0, <1>4 DEF Create
<1>5. CASE Update(n)
  BY <1>0, <1>5 DEF Update
<1>6. CASE WriteApplied(n)
  BY <1>0, <1>6 DEF WriteApplied
<1>7. CASE Provision(n)
  <2>1. PICK fails \in BOOLEAN, o \in {obj'[n]}, new \in {current'[Addr(n)]} :
          /\ obj' = [obj EXCEPT ![n] = o]
          /\ current' = [current EXCEPT ![Addr(n)] = new]
          /\ \/ deposed' = deposed
             \/ deposed' = [deposed EXCEPT ![Addr(n)][run] = Nil]
          /\ broken' = IF fails THEN broken \cup {obj[n].id} ELSE broken
          /\ fails => Creates(Addr(n)) /\ obj[n] # Nil
    BY <1>0, <1>7 DEF Provision
  <2>2. phase = "apply" /\ UNCHANGED <<config, run, phase, change, edges, lost, saved, remote>>
    BY <1>7 DEF Provision
  <2>3. pc' = [pc EXCEPT ![n] = "hook"] /\ \A m \in Node \ {n} : err'[m] = err[m]
    BY <1>7 DEF Provision
  <2>4. \A x \in broken' : x \in broken \/ x = <<Addr(n), run>>
    <3>1. n = A(Addr(n)) /\ pc[n] = "provision" /\ phase = "apply"
      BY <1>7, NodeForm DEF Provision
    <3>2. Applies(Addr(n))
      BY <3>1 DEF InstInv, Walks
    <3>3. fails => obj[n].id = <<Addr(n), run>>
      BY <2>1, <3>1, <3>2 DEF Applies
    <3> QED
      BY <2>1, <3>3
  <2> QED
    BY <1>0, <2>1, <2>2, <2>3, <2>4
<1>8. CASE DestroyStart(n)
  BY <1>0, <1>8 DEF DestroyStart
<1>9. CASE DeposedStart(n)
  BY <1>0, <1>9 DEF DeposedStart
<1>10. CASE Destroy(n)
  BY <1>0, <1>10 DEF Destroy
<1>11. CASE WriteDestroyed(n)
  BY <1>0, <1>11 DEF WriteDestroyed
<1>12. CASE WriteDeposed(n)
  BY <1>0, <1>12 DEF WriteDeposed
<1> QED
  BY <1>1, <1>2, <1>3, <1>4, <1>5, <1>6, <1>7, <1>8, <1>9, <1>10, <1>11, <1>12 DEF Step

\* With what a step does to its own instance, the invariant holds after it.
LEMMA StepOthers ==
  ASSUME IInv, NEW n \in Node, Step(n), TypeOK', NoObjectLost',
         ObjectsAt(current, deposed, Addr(n))', MarksAt(Addr(n))', Walks(Addr(n))'
  PROVE  IInv'
<1> DEFINE i == Addr(n)
<1>0. i \in Inst /\ TypeOK /\ run \in Key /\ run \in Nat
  <2>1. Addr(n) \in Inst /\ TypeOK /\ InstInv(Addr(n))
    BY NodeForm DEF IInv
  <2>2. phase = "apply"
    BY <2>1, StepFrame
  <2> QED
    BY <2>1, <2>2, RunAssumption DEF IInv, Idle
<1>1. /\ phase = "apply" /\ UNCHANGED <<config, run, phase, change, edges, lost>>
      /\ saved' \in {saved, Snapshot}
      /\ \A m \in Node \ {n} : SameNode(m)
      /\ \A j \in Inst \ {i} : SameRecord(j)
      /\ \A o \in remote' : o \in remote \/ o = <<i, run>>
      /\ \A o \in broken' : o \in broken \/ o = <<i, run>>
  <2>1. InstInv(i)
    BY <1>0 DEF IInv
  <2> QED
    BY <1>0, <2>1, StepFrame
<1>2. ObjectsAt(current, deposed, i)' /\ MarksAt(i)' /\ Walks(i)'
  OBVIOUS
<1> HIDE DEF i
<1>3. Idle'
  BY <1>0, <1>1 DEF IInv, Idle
<1>4. \A o \in broken' : o[2] <= run'
  BY <1>0, <1>1 DEF IInv
<1>5. ASSUME NEW j \in Inst \ {i}
      PROVE  ObjectsAt(current, deposed, j)' /\ MarksAt(j)' /\ Walks(j)'
  <2>1. ObjectsAt(current, deposed, j) /\ MarksAt(j) /\ Walks(j)
    <3>1. InstInv(j)
      BY DEF IInv
    <3> QED
      BY <1>1, <3>1 DEF InstInv
  <2>2. ObjectsAt(current, deposed, j)'
    BY <1>1, <2>1 DEF ObjectsAt, SameRecord
  <2>3. MarksAt(j)'
    BY <1>1, <2>1 DEF ObjectsAt, SameRecord, MarksAt, Marked
  <2>4. SameNode(A(j)) /\ SameNode(D(j)) /\ \A k \in Key : SameNode(X(j, k))
    BY <1>1, NodeNames DEF i
  <2>5. Applies(j)'
    BY <1>0, <1>1, <2>1, <2>4, AppliesFrame DEF Walks, SameRecord
  <2>6. Destroys(j)'
    BY <1>0, <1>1, <2>1, <2>4, DestroysFrame DEF Walks, SameRecord
  <2>7. \A k \in Key : Deposes(j, k)'
    BY <1>0, <1>1, <2>1, <2>4, DeposesFrame DEF Walks, SameRecord
  <2> QED
    BY <2>2, <2>3, <2>5, <2>6, <2>7 DEF Walks
<1>6. ASSUME NEW j \in Inst
      PROVE  ObjectsAt(saved.current, saved.deposed, j)'
  <2>1. ObjectsAt(saved.current, saved.deposed, j) /\ ObjectsAt(current, deposed, j)
    <3>1. InstInv(j)
      BY DEF IInv
    <3> QED
      BY <3>1 DEF InstInv
  <2>2. run' = run
    BY <1>1
  <2>3. CASE saved' = saved
    BY <2>1, <2>2, <2>3 DEF ObjectsAt
  <2>4. CASE saved' = Snapshot
    <3>1. saved'.current = current /\ saved'.deposed = deposed
      BY <2>4 DEF Snapshot
    <3> QED
      BY <2>1, <2>2, <3>1 DEF ObjectsAt
  <2> QED
    BY <1>1, <2>3, <2>4
<1> QED
  <2>1. \A j \in Inst : InstInv(j)'
    BY <1>1, <1>2, <1>5, <1>6 DEF InstInv
  <2> QED
    BY <1>3, <1>4, <2>1 DEF IInv

\* Objects that are known stay known, but for those of one instance and node.
LEMMA HeldStep ==
  ASSUME NEW i \in Inst, NEW n \in Node, NoObjectLost, lost' = lost,
         \A m \in Node \ {n} : SameNode(m),
         \A j \in Inst \ {i} : SameRecord(j),
         \A o \in remote' : o \in remote \/ Held(o)',
         \A o \in remote' : current[i] # Nil /\ o = current[i].id => Held(o)',
         \A o \in remote' : \A k \in Key :
            deposed[i][k] # Nil /\ o = deposed[i][k].id => Held(o)',
         \A o \in remote' : pc[n] = "write" /\ obj[n] # Nil /\ o = obj[n].id => Held(o)'
  PROVE  NoObjectLost'
<1> SUFFICES ASSUME NEW o \in remote'
             PROVE  Held(o)'
  BY HeldIs
<1>1. CASE o \in remote
  <2>1. Held(o)
    BY <1>1, HeldIs
  <2>2. CASE o \in lost
    BY <2>2 DEF Held
  <2>3. ASSUME NEW j \in Inst, current[j] # Nil, o = current[j].id
        PROVE  Held(o)'
    BY <2>3 DEF Held, SameRecord
  <2>4. ASSUME NEW j \in Inst, NEW k \in Key, deposed[j][k] # Nil, o = deposed[j][k].id
        PROVE  Held(o)'
    BY <2>4 DEF Held, SameRecord
  <2>5. ASSUME NEW m \in Node, pc[m] = "write", obj[m] # Nil, o = obj[m].id
        PROVE  Held(o)'
    BY <2>5 DEF Held, SameNode
  <2> QED
    BY <2>1, <2>2, <2>3, <2>4, <2>5 DEF Held
<1> QED
  BY <1>1

-----------------------------------------------------------------------------
(* Steps of a node                                                         *)

\* What a step has to keep of its own instance.
KeptAt(i) ==
    /\ TypeOK' /\ NoObjectLost'
    /\ ObjectsAt(current, deposed, i)' /\ MarksAt(i)' /\ Walks(i)'

\* What holds of the instance of a node that takes a step.
LEMMA AtWork ==
  ASSUME IInv, NEW n \in Node, Step(n)
  PROVE  /\ Addr(n) \in Inst /\ TypeOK /\ NoObjectLost
         /\ phase = "apply" /\ run \in Key /\ run \in Nat /\ Key \subseteq Nat
         /\ ObjectsAt(current, deposed, Addr(n)) /\ MarksAt(Addr(n))
         /\ Applies(Addr(n)) /\ Destroys(Addr(n))
         /\ \A k \in Key : Deposes(Addr(n), k)
<1>1. Addr(n) \in Inst /\ TypeOK /\ InstInv(Addr(n)) /\ NoObjectLost /\ Idle
  BY NodeForm DEF IInv
<1>2. phase = "apply"
  BY <1>1, StepFrame
<1>3. run \in Key /\ run \in Nat /\ Key \subseteq Nat
  BY <1>1, <1>2, RunAssumption DEF Idle
<1> QED
  BY <1>1, <1>2, <1>3 DEF InstInv, Walks

\* A node that is not at work knows no object alone.
LEMMA HeldSame ==
  ASSUME NEW n \in Node, NoObjectLost, UNCHANGED <<lost, current, deposed>>,
         \A m \in Node \ {n} : SameNode(m),
         \A o \in remote' : o \in remote, pc[n] # "write"
  PROVE  NoObjectLost'
<1> SUFFICES ASSUME NEW o \in remote'
             PROVE  Held(o)'
  BY HeldIs
<1>1. Held(o)
  BY HeldIs
<1> QED
  BY <1>1 DEF Held, SameNode

\* The node that creates or updates takes a step.
LEMMA ApplierMoves ==
  ASSUME TypeOK, run \in Key, Key \subseteq Nat, NEW i \in Inst, ObjectsAt(current, deposed, i),
         Applies(i), Destroys(i), \A k \in Key : Deposes(i, k),
         SameNode(D(i)), \A k \in Key : SameNode(X(i, k)),
         pc[A(i)] \notin {"none", "ok", "error"}, pc'[A(i)] \notin {"none", "waiting"},
         pc[A(i)] = "waiting" => \A m \in Node : <<A(i), m>> \in edges => pc[m] \in Ended,
         UNCHANGED <<run, change, edges>>,
         \A o \in remote' : o \in remote \/ o = <<i, run>>,
         \A o \in broken' : o \in broken \/ o = <<i, run>>,
         Applies(i)'
  PROVE  Walks(i)'
<1>1. pc[D(i)] \in Ended
  BY NodeNames DEF Applies, Destroys, Ended, Replace
<1>2. Destroys(i)'
  BY <1>1 DEF Destroys, SameNode, Ended
<1>3. ASSUME NEW k \in Key
      PROVE  Deposes(i, k)'
  BY DEF Deposes, SameNode
<1> QED
  BY <1>2, <1>3 DEF Walks

\* The node that destroys the current object takes a step.
LEMMA DestroyerMoves ==
  ASSUME TypeOK, run \in Key, Key \subseteq Nat, NEW i \in Inst, ObjectsAt(current, deposed, i),
         Applies(i), Destroys(i), \A k \in Key : Deposes(i, k),
         SameNode(A(i)), \A k \in Key : SameNode(X(i, k)), pc[D(i)] \notin Ended,
         current'[i] # Nil => current[i] # Nil /\ current'[i].id = current[i].id,
         deposed'[i] = deposed[i], UNCHANGED <<run, change, edges, broken>>,
         \A o \in remote' : o \in remote,
         Destroys(i)'
  PROVE  Walks(i)'
<1>1. pc[A(i)] \in {"none", "waiting"}
  BY DEF Destroys
<1>2. pc[A(i)] = "waiting" => change[i] = "DeleteThenCreate"
  BY DEF Applies, Destroys, Replace, Ended
<1>3. Applies(i)'
  BY <1>1, <1>2 DEF Applies, SameNode, Creates, Marked
<1>4. \A k \in Key : Deposes(i, k)'
  BY DeposesFrame
<1> QED
  BY <1>3, <1>4 DEF Walks

\* A node that destroys a deposed object takes a step.
LEMMA DeposedMoves ==
  ASSUME TypeOK, run \in Key, Key \subseteq Nat, NEW i \in Inst, NEW k \in Key,
         ObjectsAt(current, deposed, i),
         Applies(i), Destroys(i), \A l \in Key : Deposes(i, l),
         SameNode(A(i)), SameNode(D(i)), \A l \in Key \ {k} : SameNode(X(i, l)),
         current'[i] = current[i], \A l \in Key \ {k} : deposed'[i][l] = deposed[i][l],
         k = run /\ pc[A(i)] = "waiting" => deposed'[i][k] = Nil,
         UNCHANGED <<run, change, edges, broken>>,
         \A o \in remote' : o \in remote,
         Deposes(i, k)'
  PROVE  Walks(i)'
<1>1. Destroys(i)'
  BY DestroysFrame
<1>2. Applies(i)'
  <2>1. pc[A(i)] = "waiting" => deposed'[i][run] = Nil
    BY DEF Applies, SameNode
  <2> QED
    BY <2>1 DEF Applies, SameNode, Creates, Marked
<1>3. ASSUME NEW l \in Key \ {k}
      PROVE  Deposes(i, l)'
  BY DeposesFrame
<1> QED
  BY <1>1, <1>2, <1>3 DEF Walks

\* A node that is skipped, or whose hook is called, changes only its point.
LEMMA PointOnly ==
  ASSUME IInv, NEW n \in Node, Skip(n) \/ UpdateStateHook(n)
  PROVE  KeptAt(Addr(n))
<1> DEFINE i == Addr(n)
<1>1. /\ i \in Inst /\ TypeOK /\ NoObjectLost
      /\ phase = "apply" /\ run \in Key /\ run \in Nat /\ Key \subseteq Nat
      /\ ObjectsAt(current, deposed, i) /\ MarksAt(i)
      /\ Applies(i) /\ Destroys(i) /\ \A k \in Key : Deposes(i, k)
  BY AtWork DEF Step
<1>2. /\ pc[n] \in {"waiting", "hook"}
      /\ \/ pc' = [pc EXCEPT ![n] = "error"]
         \/ pc[n] = "hook" /\ ~err[n] /\ pc' = [pc EXCEPT ![n] = "ok"]
      /\ pc[n] = "waiting" => \A m \in Node : <<n, m>> \in edges => pc[m] \in Ended
      /\ saved' \in {saved, Snapshot} /\ unstored' \in {unstored, {}, unstored \cup {n}}
      /\ UNCHANGED <<config, run, phase, change, edges, current, deposed, remote,
                     refs, obj, err, lost, broken>>
  BY DEF Skip, UpdateStateHook, Saved, Goto, Deps, state
<1>3. \A m \in Node \ {n} : SameNode(m)
  BY <1>1, <1>2 DEF TypeOK, SameNode
<1>4. pc'[n] \in {"error", "ok"} /\ (pc'[n] = "ok" => pc[n] = "hook" /\ ~err[n])
  BY <1>1, <1>2 DEF TypeOK
<1>5. TypeOK'
  <2>1. unstored' \subseteq Node
    BY <1>1, <1>2 DEF TypeOK
  <2>2. pc' \in [Node -> {"none", "waiting", "apply", "write", "provision", "hook",
                         "ok", "error"}]
    BY <1>1, <1>2 DEF TypeOK
  <2>3. saved' \in [current : [Inst -> Object \cup {Nil}],
                    deposed : [Inst -> [Key -> Object \cup {Nil}]]]
    BY <1>1, <1>2 DEF TypeOK, Snapshot
  <2> QED
    BY <1>1, <1>2, <2>1, <2>2, <2>3 DEF TypeOK
<1>6. NoObjectLost'
  BY <1>1, <1>2, <1>3, HeldSame
<1>7. ObjectsAt(current, deposed, i)' /\ MarksAt(i)'
  BY <1>1, <1>2 DEF ObjectsAt, MarksAt, Marked
<1>8. CASE n = A(i)
  <2>1. Applies(i)'
    BY <1>1, <1>2, <1>4, <1>8 DEF Applies
  <2>2. SameNode(D(i)) /\ \A k \in Key : SameNode(X(i, k))
    BY <1>1, <1>3, <1>8, NodeNames, NodesApart
  <2>3. Walks(i)'
    BY <1>1, <1>2, <1>4, <1>8, <2>1, <2>2, ApplierMoves
  <2> QED
    BY <1>5, <1>6, <1>7, <2>3 DEF KeptAt
<1>9. CASE n = D(i)
  <2>1. SameNode(A(i)) /\ \A k \in Key : SameNode(X(i, k))
    BY <1>1, <1>3, <1>9, NodeNames, NodesApart
  <2>2. Destroys(i)'
    BY <1>1, <1>2, <1>4, <1>9, <2>1 DEF Destroys, SameNode, Ended
  <2>3. Walks(i)'
    BY <1>1, <1>2, <1>9, <2>1, <2>2, DestroyerMoves DEF Ended
  <2> QED
    BY <1>5, <1>6, <1>7, <2>3 DEF KeptAt
<1>10. ASSUME NEW k \in Key, n = X(i, k)
       PROVE  KeptAt(i)
  <2>1. SameNode(A(i)) /\ SameNode(D(i)) /\ \A l \in Key \ {k} : SameNode(X(i, l))
    BY <1>1, <1>3, <1>10, NodeNames, NodesApart
  <2>2. Deposes(i, k)'
    BY <1>1, <1>2, <1>4, <1>10, <2>1 DEF Deposes, SameNode
  <2>3. k = run /\ pc[A(i)] = "waiting" => deposed'[i][k] = Nil
    BY <1>1, <1>2 DEF Applies
  <2>4. Walks(i)'
    BY <1>1, <1>2, <1>4, <1>10, <2>1, <2>2, <2>3, DeposedMoves
  <2> QED
    BY <1>5, <1>6, <1>7, <2>4 DEF KeptAt
<1> QED
  BY <1>8, <1>9, <1>10, NodeForm

\* What an object refers to are objects.
LEMMA RefIdsType ==
  ASSUME TypeOK, NEW i \in Inst
  PROVE  RefIds(current, i) \subseteq Id
<1> SUFFICES ASSUME NEW j \in Inst, current[j] # Nil
             PROVE  current[j].id \in Id
  BY DEF RefIds, Refs
<1> QED
  BY DEF TypeOK, Object

\* The prior object moves to a key that was free, before any failure.
LEMMA ApplyStartKeeps ==
  ASSUME IInv, NEW n \in Node, ApplyStart(n)
  PROVE  KeptAt(Addr(n))
<1> DEFINE i == Addr(n)
<1>1. /\ i \in Inst /\ TypeOK /\ NoObjectLost
      /\ phase = "apply" /\ run \in Key /\ run \in Nat /\ Key \subseteq Nat
      /\ ObjectsAt(current, deposed, i) /\ MarksAt(i)
      /\ Applies(i) /\ Destroys(i) /\ \A k \in Key : Deposes(i, k)
  BY AtWork DEF Step
<1>2. n = A(i)
  BY NodeForm DEF ApplyStart, Starts, At
<1> HIDE DEF i
<1>3. /\ pc[n] = "waiting" /\ \A m \in Node : <<n, m>> \in edges => pc[m] = "ok"
      /\ \E l \in {"apply", "error", "ok"} : pc' = [pc EXCEPT ![n] = l]
      /\ UNCHANGED <<config, run, phase, change, edges, saved, remote, refs, obj, err,
                     unstored, lost, broken>>
  BY DEF ApplyStart, Starts, At, Deps, Goto
<1>4. IF change[i] = "CreateThenDelete"
      THEN /\ deposed' = [deposed EXCEPT ![i][run] = current[i]]
           /\ current' = [current EXCEPT ![i] = Nil]
      ELSE UNCHANGED <<current, deposed>>
  BY DEF ApplyStart, Depose, state, i
<1>5. \A m \in Node \ {n} : SameNode(m)
  BY <1>1, <1>3 DEF TypeOK, SameNode
<1>6. pc'[n] \in {"apply", "error", "ok"}
  BY <1>1, <1>3 DEF TypeOK
<1>7. /\ current' \in [Inst -> Object \cup {Nil}]
      /\ deposed' \in [Inst -> [Key -> Object \cup {Nil}]]
      /\ \A j \in Inst \ {i} : SameRecord(j)
      /\ current'[i] \in {current[i], Nil}
      /\ \A k \in Key \ {run} : deposed'[i][k] = deposed[i][k]
      /\ deposed'[i][run] \in {current[i], deposed[i][run]}
      /\ current[i] # Nil => current[i] \in {current'[i], deposed'[i][run]}
      /\ change[i] = "CreateThenDelete" => current'[i] = Nil
      /\ change[i] # "CreateThenDelete" => current'[i] = current[i]
  <2>1. CASE change[i] = "CreateThenDelete"
    <3>1. /\ deposed' = [deposed EXCEPT ![i] = [deposed[i] EXCEPT ![run] = current[i]]]
          /\ current' = [current EXCEPT ![i] = Nil]
      BY <1>4, <2>1
    <3>2. [deposed[i] EXCEPT ![run] = current[i]] \in [Key -> Object \cup {Nil}]
      BY <1>1 DEF TypeOK
    <3>3. deposed'[i] = [deposed[i] EXCEPT ![run] = current[i]] /\ current'[i] = Nil
      BY <1>1, <3>1 DEF TypeOK
    <3>4. /\ deposed'[i][run] = current[i]
          /\ \A k \in Key \ {run} : deposed'[i][k] = deposed[i][k]
      BY <1>1, <3>3 DEF TypeOK
    <3>5. \A j \in Inst \ {i} : SameRecord(j)
      BY <1>1, <3>1 DEF TypeOK, SameRecord
    <3>6. /\ current' \in [Inst -> Object \cup {Nil}]
          /\ deposed' \in [Inst -> [Key -> Object \cup {Nil}]]
      BY <1>1, <3>1, <3>2 DEF TypeOK
    <3> QED
      BY <2>1, <3>3, <3>4, <3>5, <3>6
  <2>2. CASE change[i] # "CreateThenDelete"
    BY <1>1, <1>4, <2>2 DEF TypeOK, SameRecord
  <2> QED
    BY <2>1, <2>2
<1>8. TypeOK'
  BY <1>1, <1>3, <1>7 DEF TypeOK
<1>9. deposed[i][run] = Nil /\ (current[i] # Nil => current[i].id[2] < run)
  BY <1>1, <1>2, <1>3 DEF Applies
<1>10. NoObjectLost'
  <2>1. \A o \in remote' : current[i] # Nil /\ o = current[i].id => Held(o)'
    BY <1>1, <1>7 DEF Held
  <2>2. \A o \in remote' : \A k \in Key :
           deposed[i][k] # Nil /\ o = deposed[i][k].id => Held(o)'
    BY <1>1, <1>7, <1>9 DEF Held
  <2> QED
    BY <1>1, <1>3, <1>5, <1>7, <2>1, <2>2, HeldStep
<1>11. ObjectsAt(current, deposed, i)' /\ MarksAt(i)'
  BY <1>1, <1>3, <1>7, <1>9 DEF ObjectsAt, MarksAt, Marked
<1>12. Applies(i)'
  <2>1. CASE pc'[n] = "apply"
    <3>1. change[i] \in {"Create", "Update"} \cup Replace
      BY <1>1, <1>2, <1>3 DEF Applies
    <3>2. change[i] = "DeleteThenCreate" => current[i] = Nil
      BY <1>1, <1>2, <1>3, NodeNames DEF Destroys
    <3>3. current'[i] = Nil <=> Creates(i)
      BY <1>1, <1>2, <1>3, <1>7, <3>1, <3>2 DEF Applies, Creates, Replace
    <3> QED
      BY <1>1, <1>2, <1>3, <1>7, <2>1, <3>1, <3>3 DEF Applies, Creates
  <2>2. CASE pc'[n] \in {"error", "ok"}
    BY <1>1, <1>2, <1>3, <2>2 DEF Applies
  <2> QED
    BY <1>6, <2>1, <2>2
<1>13. Walks(i)'
  <2>1. SameNode(D(i)) /\ \A k \in Key : SameNode(X(i, k))
    BY <1>1, <1>2, <1>5, NodeNames, NodesApart
  <2> QED
    BY <1>1, <1>2, <1>3, <1>6, <1>12, <2>1, ApplierMoves DEF Ended
<1> QED
  BY <1>8, <1>10, <1>11, <1>13 DEF KeptAt, i

\* A created object is in the hand of its node, with its error.
LEMMA CreateKeeps ==
  ASSUME IInv, NEW n \in Node, Create(n)
  PROVE  KeptAt(Addr(n))
<1> DEFINE i == Addr(n)
<1>1. /\ i \in Inst /\ TypeOK /\ NoObjectLost
      /\ phase = "apply" /\ run \in Key /\ run \in Nat /\ Key \subseteq Nat
      /\ ObjectsAt(current, deposed, i) /\ MarksAt(i)
      /\ Applies(i) /\ Destroys(i) /\ \A k \in Key : Deposes(i, k)
  BY AtWork DEF Step
<1>2. n = A(i)
  BY NodeForm DEF Create, At
<1> HIDE DEF i
<1>3. /\ pc[n] = "apply" /\ pc' = [pc EXCEPT ![n] = "write"] /\ Creates(i)
      /\ \E e \in BOOLEAN : err' = [err EXCEPT ![n] = e]
      /\ broken' = IF err'[n] THEN broken \cup {<<i, run>>} ELSE broken
      /\ UNCHANGED <<config, run, phase, change, edges, current, deposed, saved, unstored, lost>>
      /\ \/ /\ remote' = remote \cup {<<i, run>>}
            /\ refs' = [refs EXCEPT ![<<i, run>>] = RefIds(current, i)]
            /\ obj' = [obj EXCEPT ![n] = NewObject(i, IF err'[n] THEN "none" ELSE "ready")]
         \/ UNCHANGED <<remote, refs, obj>>
  <2>1. err' \in {err, [err EXCEPT ![n] = TRUE]}
    BY DEF Create
  <2>2. \E e \in BOOLEAN : err' = [err EXCEPT ![n] = e]
    BY <1>1, <2>1 DEF TypeOK
  <2> QED
    BY <2>2 DEF Create, At, Goto, state, i
<1>4. <<i, run>> \in Id
  BY <1>1, RunAssumption DEF Id, Run, TypeOK
<1>5. err' \in [Node -> BOOLEAN] /\ err'[n] \in BOOLEAN /\ pc' \in [Node -> {"none", "waiting",
         "apply", "write", "provision", "hook", "ok", "error"}]
  BY <1>1, <1>3 DEF TypeOK
<1>6. \A s \in {"none", "ready"} : /\ NewObject(i, s) \in Result /\ NewObject(i, s) # Nil
                                   /\ NewObject(i, s).id = <<i, run>>
                                   /\ NewObject(i, s).status = s
                                   /\ s = "ready" => NewObject(i, s) \in Object
  <2>1. CreateBeforeDestroy(config, i) \in BOOLEAN
    BY DEF CreateBeforeDestroy
  <2> QED
    BY <1>4, <2>1, NilAssumption DEF NewObject, Result, Object
<1>7. \/ obj' = obj /\ remote' = remote
      \/ /\ obj' = [obj EXCEPT ![n] = NewObject(i, IF err'[n] THEN "none" ELSE "ready")]
         /\ remote' = remote \cup {<<i, run>>}
  BY <1>3
<1>8. obj[n] = Nil
  BY <1>1, <1>2, <1>3 DEF Applies
<1>9. /\ obj' \in [Node -> Result \cup {Nil}]
      /\ obj'[n] # Nil => /\ obj'[n].id = <<i, run>>
                          /\ obj'[n].status = IF err'[n] THEN "none" ELSE "ready"
      /\ \A m \in Node \ {n} : SameNode(m)
      /\ <<i, run>> \in remote' => <<i, run>> \in remote \/ obj'[n] # Nil
  BY <1>1, <1>3, <1>5, <1>6, <1>7, <1>8 DEF TypeOK, SameNode
<1>10. refs' \in [Id -> SUBSET Id] /\ remote' \subseteq Id /\ broken' \subseteq Id
  <2>1. RefIds(current, i) \subseteq Id
    BY <1>1, RefIdsType
  <2>2. remote' \subseteq Id /\ broken' \subseteq Id
    BY <1>1, <1>3, <1>4 DEF TypeOK
  <2>3. refs' \in [Id -> SUBSET Id]
    <3>1. refs \in [Id -> SUBSET Id]
      BY <1>1 DEF TypeOK
    <3>2. \/ refs' = refs
          \/ refs' = [refs EXCEPT ![<<i, run>>] = RefIds(current, i)]
      BY <1>3
    <3> QED
      BY <1>4, <2>1, <3>1, <3>2
  <2> QED
    BY <2>2, <2>3
<1>11. TypeOK'
  BY <1>1, <1>3, <1>5, <1>9, <1>10 DEF TypeOK
<1>12. pc'[n] = "write"
  BY <1>1, <1>3 DEF TypeOK
<1>13. NoObjectLost'
  <2>1. \A j \in Inst : SameRecord(j)
    BY <1>3 DEF SameRecord
  <2>2. \A o \in remote' : o \in remote \/ Held(o)'
    BY <1>3, <1>9, <1>12 DEF Held
  <2>3. \A o \in remote' : current[i] # Nil /\ o = current[i].id => Held(o)'
    BY <1>1, <1>3 DEF Held
  <2>4. \A o \in remote' : \A k \in Key :
           deposed[i][k] # Nil /\ o = deposed[i][k].id => Held(o)'
    BY <1>1, <1>3 DEF Held
  <2> QED
    BY <1>1, <1>3, <1>9, <2>1, <2>2, <2>3, <2>4, HeldStep
<1>14. current[i] = Nil
  BY <1>1, <1>2, <1>3 DEF Applies
<1>15. ObjectsAt(current, deposed, i)' /\ MarksAt(i)'
  BY <1>1, <1>3, <1>14 DEF ObjectsAt, MarksAt, Marked
<1>16. Applies(i)'
  BY <1>1, <1>2, <1>3, <1>9, <1>12, <1>14 DEF Applies, Creates, Marked
<1>17. Walks(i)'
  <2>1. SameNode(D(i)) /\ \A k \in Key : SameNode(X(i, k))
    BY <1>1, <1>2, <1>9, NodeNames, NodesApart
  <2>2. /\ \A o \in remote' : o \in remote \/ o = <<i, run>>
        /\ \A o \in broken' : o \in broken \/ o = <<i, run>>
    BY <1>3
  <2> QED
    BY <1>1, <1>2, <1>3, <1>12, <1>16, <2>1, <2>2, ApplierMoves
<1> QED
  BY <1>11, <1>13, <1>15, <1>17 DEF KeptAt, i

\* An update keeps the object.
LEMMA UpdateKeeps ==
  ASSUME IInv, NEW n \in Node, Update(n)
  PROVE  KeptAt(Addr(n))
<1> DEFINE i == Addr(n)
<1>1. /\ i \in Inst /\ TypeOK /\ NoObjectLost
      /\ phase = "apply" /\ run \in Key /\ run \in Nat /\ Key \subseteq Nat
      /\ ObjectsAt(current, deposed, i) /\ MarksAt(i)
      /\ Applies(i) /\ Destroys(i) /\ \A k \in Key : Deposes(i, k)
  BY AtWork DEF Step
<1>2. n = A(i)
  BY NodeForm DEF Update, At
<1> DEFINE o == [current[i] EXCEPT !.cbd = CreateBeforeDestroy(config, i)]
<1>3. /\ pc[n] = "apply" /\ pc' = [pc EXCEPT ![n] = "write"] /\ ~Creates(i)
      /\ obj' = [obj EXCEPT ![n] = o]
      /\ err' \in {err, [err EXCEPT ![n] = TRUE]}
      /\ \/ refs' = [refs EXCEPT ![current[i].id] = RefIds(current, i)]
         \/ refs' = refs
      /\ UNCHANGED <<config, run, phase, change, edges, current, deposed, saved, remote,
                     unstored, lost, broken>>
  BY DEF Update, At, Goto, state
<1>4. current[i] # Nil /\ current[i] \in Object
  <2>1. current[i] # Nil
    BY <1>1, <1>2, <1>3 DEF Applies
  <2> QED
    BY <1>1, <2>1 DEF TypeOK
<1>5. o \in Object /\ o.id = current[i].id /\ o.status = current[i].status
  <2>1. CreateBeforeDestroy(config, i) \in BOOLEAN
    BY DEF CreateBeforeDestroy
  <2> QED
    BY <1>4, <2>1 DEF Object
<1>6. o # Nil /\ o \in Result /\ o.status # "none"
  BY <1>5, NilAssumption DEF Result, Object
<1> HIDE DEF i, o
<1>7. err' \in [Node -> BOOLEAN] /\ pc' \in [Node -> {"none", "waiting", "apply", "write",
         "provision", "hook", "ok", "error"}] /\ obj' \in [Node -> Result \cup {Nil}]
  BY <1>1, <1>3, <1>6 DEF TypeOK
<1>8. pc'[n] = "write" /\ obj'[n] = o /\ \A m \in Node \ {n} : SameNode(m)
  BY <1>1, <1>3 DEF TypeOK, SameNode
<1>9. refs' \in [Id -> SUBSET Id]
  <2>1. RefIds(current, i) \subseteq Id /\ current[i].id \in Id
    BY <1>1, <1>4, RefIdsType DEF Object
  <2>2. refs \in [Id -> SUBSET Id]
    BY <1>1 DEF TypeOK
  <2> QED
    BY <1>3, <2>1, <2>2
<1>10. TypeOK'
  BY <1>1, <1>3, <1>7, <1>9 DEF TypeOK
<1>11. NoObjectLost'
  BY <1>1, <1>3, <1>8, HeldSame
<1>12. ObjectsAt(current, deposed, i)' /\ MarksAt(i)'
  BY <1>1, <1>3 DEF ObjectsAt, MarksAt, Marked
<1>13. Applies(i)'
  BY <1>1, <1>2, <1>3, <1>4, <1>5, <1>6, <1>8 DEF Applies, Creates, Marked, MarksAt
<1>14. Walks(i)'
  <2>1. SameNode(D(i)) /\ \A k \in Key : SameNode(X(i, k))
    BY <1>1, <1>2, <1>8, NodeNames, NodesApart
  <2> QED
    BY <1>1, <1>2, <1>3, <1>8, <1>13, <2>1, ApplierMoves
<1> QED
  BY <1>10, <1>11, <1>12, <1>14 DEF KeptAt, i

\* The object in hand is recorded where there was none, or where there was the
\* same, and is tainted when its creation failed.
LEMMA WriteAppliedKeeps ==
  ASSUME IInv, NEW n \in Node, WriteApplied(n)
  PROVE  KeptAt(Addr(n))
<1> DEFINE i == Addr(n)
<1>1. /\ i \in Inst /\ TypeOK /\ NoObjectLost
      /\ phase = "apply" /\ run \in Key /\ run \in Nat /\ Key \subseteq Nat
      /\ ObjectsAt(current, deposed, i) /\ MarksAt(i)
      /\ Applies(i) /\ Destroys(i) /\ \A k \in Key : Deposes(i, k)
  BY AtWork DEF Step
<1>2. n = A(i)
  BY NodeForm DEF WriteApplied, At
<1> DEFINE t == MaybeTainted(n, obj[n], err[n])
           o == IF t = Nil THEN Nil ELSE [t EXCEPT !.deps = Dependencies(config, i)]
<1>3. /\ pc[n] = "write" /\ pc' = [pc EXCEPT ![n] = "provision"]
      /\ obj' = [obj EXCEPT ![n] = o]
      /\ current' = [current EXCEPT ![i] = obj'[n]]
      /\ UNCHANGED <<config, run, phase, change, edges, deposed, saved, remote, refs, err,
                     unstored, lost, broken>>
  BY DEF WriteApplied, At, Goto
<1>4. IF obj[n] = Nil THEN Creates(i)
      ELSE /\ obj[n].id = IF Creates(i) THEN <<i, run>> ELSE current[i].id
           /\ obj[n].status = "none" => err[n] /\ Creates(i)
           /\ Marked(obj[n]) \/ (err[n] /\ Creates(i))
  BY <1>1, <1>2, <1>3 DEF Applies
<1>5. obj[n] \in Result \cup {Nil} /\ err[n] \in BOOLEAN
  BY <1>1 DEF TypeOK
<1>6. obj[n] = Nil => o = Nil
  BY DEF MaybeTainted
<1>7. obj[n] # Nil => /\ o \in Object /\ o # Nil
                      /\ o.id = obj[n].id
                      /\ Marked(o)
  <2> SUFFICES ASSUME obj[n] # Nil
               PROVE  o \in Object /\ o # Nil /\ o.id = obj[n].id /\ Marked(o)
    OBVIOUS
  <2>1. Dependencies(config, i) \subseteq Inst
    BY DEF Dependencies
  <2>2. obj[n] \in Result
    BY <1>5
  <2>3. t = IF err[n] /\ Creates(i) THEN [obj[n] EXCEPT !.status = "tainted"] ELSE obj[n]
    BY DEF MaybeTainted
  <2>4. t \in Object /\ t.id = obj[n].id /\ (t.id \in broken => t.status = "tainted")
    <3>1. CASE err[n] /\ Creates(i)
      BY <2>2, <2>3, <3>1 DEF Result, Object
    <3>2. CASE ~(err[n] /\ Creates(i))
      <4>1. obj[n].status # "none" /\ Marked(obj[n])
        BY <1>4, <3>2
      <4> QED
        BY <2>2, <2>3, <3>2, <4>1 DEF Result, Object, Marked
    <3> QED
      BY <3>1, <3>2
  <2>5. t # Nil
    BY <2>4, NilAssumption DEF Result
  <2> HIDE DEF t
  <2>6. o = [t EXCEPT !.deps = Dependencies(config, i)]
    BY <2>5
  <2>7. o \in Object /\ o.id = t.id /\ o.status = t.status
    BY <2>1, <2>4, <2>6 DEF Object
  <2> QED
    BY <2>4, <2>7, NilAssumption DEF Result, Marked
<1> HIDE DEF i, t, o
<1>8. o \in Object \cup {Nil}
  BY <1>6, <1>7
<1>9. /\ pc'[n] = "provision" /\ obj'[n] = o /\ current'[i] = o
      /\ \A m \in Node \ {n} : SameNode(m)
      /\ \A j \in Inst \ {i} : SameRecord(j)
  BY <1>1, <1>3 DEF TypeOK, SameNode, SameRecord
<1>10. TypeOK'
  <2>1. /\ obj' \in [Node -> Result \cup {Nil}]
        /\ current' \in [Inst -> Object \cup {Nil}]
        /\ pc' \in [Node -> {"none", "waiting", "apply", "write", "provision", "hook", "ok",
                             "error"}]
    BY <1>1, <1>3, <1>8, <1>9 DEF TypeOK, Result
  <2> QED
    BY <1>1, <1>3, <2>1 DEF TypeOK
<1>11. current[i] = Nil <=> Creates(i)
  BY <1>1, <1>2, <1>3 DEF Applies
<1>12. NoObjectLost'
  <2>1. \A x \in remote' : current[i] # Nil /\ x = current[i].id => Held(x)'
    BY <1>1, <1>4, <1>7, <1>9, <1>11 DEF Held
  <2>2. \A x \in remote' : \A k \in Key :
           deposed[i][k] # Nil /\ x = deposed[i][k].id => Held(x)'
    BY <1>1, <1>3 DEF Held
  <2>3. \A x \in remote' : obj[n] # Nil /\ x = obj[n].id => Held(x)'
    BY <1>1, <1>7, <1>9 DEF Held
  <2> QED
    BY <1>1, <1>3, <1>9, <2>1, <2>2, <2>3, HeldStep
<1>13. ObjectsAt(current, deposed, i)' /\ MarksAt(i)'
  BY <1>1, <1>3, <1>4, <1>6, <1>7, <1>9, <1>11 DEF ObjectsAt, MarksAt, Marked
<1>14. Applies(i)'
  BY <1>1, <1>2, <1>3, <1>4, <1>6, <1>7, <1>9 DEF Applies, Creates
<1>15. Walks(i)'
  <2>1. SameNode(D(i)) /\ \A k \in Key : SameNode(X(i, k))
    BY <1>1, <1>2, <1>9, NodeNames, NodesApart
  <2> QED
    BY <1>1, <1>2, <1>3, <1>9, <1>14, <2>1, ApplierMoves
<1> QED
  BY <1>10, <1>12, <1>13, <1>15 DEF KeptAt, i

\* A deposed object comes back only when there is no current one, and a failed
\* provisioner taints the object.
LEMMA ProvisionKeeps ==
  ASSUME IInv, NEW n \in Node, Provision(n)
  PROVE  KeptAt(Addr(n))
<1> DEFINE i == Addr(n)
<1>1. /\ i \in Inst /\ TypeOK /\ NoObjectLost
      /\ phase = "apply" /\ run \in Key /\ run \in Nat /\ Key \subseteq Nat
      /\ ObjectsAt(current, deposed, i) /\ MarksAt(i)
      /\ Applies(i) /\ Destroys(i) /\ \A k \in Key : Deposes(i, k)
  BY AtWork DEF Step
<1>2. n = A(i)
  BY NodeForm DEF Provision, At
<1>3. PICK fails \in BOOLEAN, hookFails \in BOOLEAN :
        /\ fails => Creates(i) /\ obj[n] # Nil /\ obj[n].status = "ready"
        /\ err' = [err EXCEPT ![n] = @ \/ fails \/ hookFails]
        /\ broken' = IF fails THEN broken \cup {obj[n].id} ELSE broken
        /\ LET failed == err[n] \/ fails
               o == MaybeTainted(n, obj[n], failed)
               restore == change[i] = "CreateThenDelete" /\ failed /\ Restores(n, o)
           IN  /\ obj' = [obj EXCEPT ![n] = o]
               /\ current' = [current EXCEPT ![i] = IF restore THEN deposed[i][run] ELSE o]
               /\ deposed' = IF restore THEN [deposed EXCEPT ![i][run] = Nil] ELSE deposed
  BY DEF Provision
<1> DEFINE failed == err[n] \/ fails
           o == MaybeTainted(n, obj[n], failed)
           restore == change[i] = "CreateThenDelete" /\ failed /\ o = Nil
           new == IF restore THEN deposed[i][run] ELSE o
<1>4. /\ pc[n] = "provision" /\ pc' = [pc EXCEPT ![n] = "hook"]
      /\ obj' = [obj EXCEPT ![n] = o]
      /\ current' = [current EXCEPT ![i] = new]
      /\ deposed' = IF restore THEN [deposed EXCEPT ![i][run] = Nil] ELSE deposed
      /\ UNCHANGED <<config, run, phase, change, edges, saved, remote, refs, unstored, lost>>
  BY <1>3 DEF Provision, At, Goto, Restores
<1>5. obj[n] = current[i] /\ (Creates(i) /\ obj[n] # Nil => obj[n].id = <<i, run>>)
  BY <1>1, <1>2, <1>4 DEF Applies
<1>6. obj[n] = Nil => o = Nil
  BY DEF MaybeTainted
<1>7. obj[n] # Nil => /\ o \in Object /\ o # Nil /\ o.id = obj[n].id
                      /\ o.id \in broken' => o.status = "tainted"
  <2> SUFFICES ASSUME obj[n] # Nil
               PROVE  /\ o \in Object /\ o # Nil /\ o.id = obj[n].id
                      /\ o.id \in broken' => o.status = "tainted"
    OBVIOUS
  <2>1. obj[n] \in Object /\ Marked(obj[n])
    BY <1>1, <1>5 DEF TypeOK, MarksAt
  <2>2. o = IF failed /\ Creates(i) THEN [obj[n] EXCEPT !.status = "tainted"] ELSE obj[n]
    BY DEF MaybeTainted
  <2>3. CASE failed /\ Creates(i)
    BY <2>1, <2>2, <2>3, NilAssumption DEF Object, Result
  <2>4. CASE ~(failed /\ Creates(i))
    <3>1. ~fails /\ o = obj[n]
      BY <1>3, <2>2, <2>4
    <3>2. broken' = broken
      BY <1>3, <3>1
    <3> QED
      BY <2>1, <3>1, <3>2 DEF Marked
  <2> QED
    BY <2>3, <2>4
<1>8. restore => obj[n] = Nil
  BY <1>7
<1>9. \A x \in broken' : x \in broken \/ (x = <<i, run>> /\ obj[n] # Nil /\ x = obj[n].id)
  BY <1>3, <1>5
<1>10. err' \in [Node -> BOOLEAN]
  <2>1. (err[n] \/ fails \/ hookFails) \in BOOLEAN
    OBVIOUS
  <2>2. err' = [err EXCEPT ![n] = err[n] \/ fails \/ hookFails]
    BY <1>3
  <2> QED
    BY <1>1, <2>1, <2>2 DEF TypeOK
<1>11. \A m \in Node \ {n} : err'[m] = err[m]
  BY <1>1, <1>3 DEF TypeOK
<1>12. broken' \subseteq Id
  <2>1. obj[n] # Nil => obj[n].id \in Id
    BY <1>1, <1>5 DEF TypeOK, Object
  <2> QED
    BY <1>1, <1>3, <2>1 DEF TypeOK
<1> HIDE DEF i, o, failed, restore, new
<1>13. /\ pc' \in [Node -> {"none", "waiting", "apply", "write", "provision", "hook", "ok",
                            "error"}]
       /\ pc'[n] = "hook" /\ obj'[n] = o
       /\ obj' \in [Node -> Result \cup {Nil}]
       /\ \A m \in Node \ {n} : SameNode(m)
  BY <1>1, <1>4, <1>6, <1>7, <1>11 DEF TypeOK, SameNode, Result
<1>14. /\ deposed' \in [Inst -> [Key -> Object \cup {Nil}]]
       /\ \A j \in Inst \ {i} : deposed'[j] = deposed[j]
       /\ \A k \in Key \ {run} : deposed'[i][k] = deposed[i][k]
       /\ deposed'[i][run] = IF restore THEN Nil ELSE deposed[i][run]
  <2>1. CASE restore
    <3>1. deposed' = [deposed EXCEPT ![i] = [deposed[i] EXCEPT ![run] = Nil]]
      BY <1>4, <2>1
    <3>2. [deposed[i] EXCEPT ![run] = Nil] \in [Key -> Object \cup {Nil}]
      BY <1>1 DEF TypeOK
    <3>3. deposed'[i] = [deposed[i] EXCEPT ![run] = Nil]
      BY <1>1, <3>1 DEF TypeOK
    <3> QED
      BY <1>1, <2>1, <3>1, <3>2, <3>3 DEF TypeOK
  <2>2. CASE ~restore
    BY <1>1, <1>4, <2>2 DEF TypeOK
  <2> QED
    BY <2>1, <2>2
<1>15. /\ new \in Object \cup {Nil}
       /\ new = IF restore THEN deposed[i][run] ELSE o
  BY <1>1, <1>6, <1>7 DEF TypeOK, new
<1>16. /\ current' \in [Inst -> Object \cup {Nil}] /\ current'[i] = new
       /\ \A j \in Inst \ {i} : SameRecord(j)
  BY <1>1, <1>4, <1>14, <1>15 DEF TypeOK, SameRecord
<1>17. TypeOK'
  BY <1>1, <1>4, <1>10, <1>12, <1>13, <1>14, <1>16 DEF TypeOK
<1>18. NoObjectLost'
  <2>1. \A x \in remote' : current[i] # Nil /\ x = current[i].id => Held(x)'
    BY <1>1, <1>5, <1>7, <1>8, <1>15, <1>16 DEF Held
  <2>2. \A x \in remote' : \A k \in Key :
           deposed[i][k] # Nil /\ x = deposed[i][k].id => Held(x)'
    BY <1>1, <1>14, <1>15, <1>16 DEF Held
  <2> QED
    BY <1>1, <1>4, <1>13, <1>16, <2>1, <2>2, HeldStep
<1>19. ObjectsAt(current, deposed, i)'
  <2>1. CASE restore
    <3>1. deposed[i][run] # Nil => /\ deposed[i][run].id[1] = i
                                   /\ deposed[i][run].id[2] <= run
      <4>1. deposed[i][run] # Nil => deposed[i][run].id \in Id
        BY <1>1 DEF TypeOK, Object
      <4> QED
        BY <1>1, <4>1, RunAssumption DEF ObjectsAt, Id, Run
    <3>2. \A k \in Key : deposed'[i][k] \in {deposed[i][k], Nil}
      BY <1>14
    <3> QED
      BY <1>1, <1>4, <1>15, <1>16, <2>1, <3>1, <3>2 DEF ObjectsAt
  <2>2. CASE ~restore
    <3>1. current'[i] # Nil => current[i] # Nil /\ current'[i].id = current[i].id
      BY <1>5, <1>6, <1>7, <1>15, <1>16, <2>2
    <3> QED
      BY <1>1, <1>4, <1>14, <2>2, <3>1 DEF ObjectsAt
  <2> QED
    BY <2>1, <2>2
<1>20. MarksAt(i)'
  <2>1. \A k \in Key : deposed[i][k] # Nil /\ deposed[i][k].id \in broken' =>
           deposed[i][k].status = "tainted"
    BY <1>1, <1>9 DEF ObjectsAt, MarksAt, Marked
  <2>2. Marked(current[i])'
    BY <1>1, <1>6, <1>7, <1>15, <1>16, <2>1 DEF Marked
  <2>3. \A k \in Key : Marked(deposed[i][k])'
    BY <1>1, <1>14, <2>1 DEF Marked
  <2> QED
    BY <2>2, <2>3 DEF MarksAt
<1>21. Applies(i)'
  BY <1>1, <1>2, <1>4, <1>13 DEF Applies
<1>22. Walks(i)'
  <2>1. SameNode(D(i)) /\ \A k \in Key : SameNode(X(i, k))
    BY <1>1, <1>2, <1>13, NodeNames, NodesApart
  <2>2. \A k \in Key : deposed'[i][k] \in {deposed[i][k], Nil}
    BY <1>14
  <2>3. \A x \in broken' : x \in broken \/ x = <<i, run>>
    BY <1>9
  <2> QED
    BY <1>1, <1>2, <1>4, <1>13, <1>21, <2>1, <2>2, <2>3, ApplierMoves
<1> QED
  BY <1>17, <1>18, <1>19, <1>20, <1>22 DEF KeptAt, i

\* The node takes the current object in hand.
LEMMA DestroyStartKeeps ==
  ASSUME IInv, NEW n \in Node, DestroyStart(n)
  PROVE  KeptAt(Addr(n))
<1> DEFINE i == Addr(n)
<1>1. /\ i \in Inst /\ TypeOK /\ NoObjectLost
      /\ phase = "apply" /\ run \in Key /\ run \in Nat /\ Key \subseteq Nat
      /\ ObjectsAt(current, deposed, i) /\ MarksAt(i)
      /\ Applies(i) /\ Destroys(i) /\ \A k \in Key : Deposes(i, k)
  BY AtWork DEF Step
<1>2. n = D(i)
  BY NodeForm DEF DestroyStart, Starts, At
<1>3. /\ pc[n] = "waiting"
      /\ \/ current[i] = Nil /\ pc' = [pc EXCEPT ![n] = "ok"] /\ obj' = obj
         \/ pc' = [pc EXCEPT ![n] = "error"] /\ obj' = obj
         \/ /\ current[i] # Nil /\ pc' = [pc EXCEPT ![n] = "apply"]
            /\ obj' = [obj EXCEPT ![n] = current[i]]
      /\ UNCHANGED <<config, run, phase, change, edges, current, deposed, saved, remote,
                     refs, err, unstored, lost, broken>>
  BY DEF DestroyStart, Starts, At, Goto, state
<1> HIDE DEF i
<1>4. /\ pc' \in [Node -> {"none", "waiting", "apply", "write", "provision", "hook", "ok",
                           "error"}]
      /\ obj' \in [Node -> Result \cup {Nil}]
      /\ \A m \in Node \ {n} : SameNode(m)
      /\ \/ pc'[n] = "ok" /\ current[i] = Nil
         \/ pc'[n] = "error"
         \/ pc'[n] = "apply" /\ current[i] # Nil /\ obj'[n] = current[i]
  BY <1>1, <1>3 DEF TypeOK, SameNode, Result
<1>5. TypeOK'
  BY <1>1, <1>3, <1>4 DEF TypeOK
<1>6. NoObjectLost'
  BY <1>1, <1>3, <1>4, HeldSame
<1>7. ObjectsAt(current, deposed, i)' /\ MarksAt(i)'
  BY <1>1, <1>3 DEF ObjectsAt, MarksAt, Marked
<1>8. SameNode(A(i)) /\ \A k \in Key : SameNode(X(i, k))
  BY <1>1, <1>2, <1>4, NodeNames, NodesApart
<1>9. Destroys(i)'
  BY <1>1, <1>2, <1>3, <1>4, <1>8 DEF Destroys, SameNode, Ended
<1>10. Walks(i)'
  BY <1>1, <1>2, <1>3, <1>8, <1>9, DestroyerMoves DEF Ended
<1> QED
  BY <1>5, <1>6, <1>7, <1>10 DEF KeptAt, i

\* The node takes the deposed object in hand.
LEMMA DeposedStartKeeps ==
  ASSUME IInv, NEW n \in Node, DeposedStart(n)
  PROVE  KeptAt(Addr(n))
<1> DEFINE i == Addr(n)
           k == n[3]
<1>1. /\ i \in Inst /\ TypeOK /\ NoObjectLost
      /\ phase = "apply" /\ run \in Key /\ run \in Nat /\ Key \subseteq Nat
      /\ ObjectsAt(current, deposed, i) /\ MarksAt(i)
      /\ Applies(i) /\ Destroys(i) /\ \A l \in Key : Deposes(i, l)
  BY AtWork DEF Step
<1>2. k \in Key /\ n = X(i, k)
  BY NodeForm DEF DeposedStart, Starts, At
<1>3. /\ pc[n] = "waiting" /\ \A m \in Node : <<n, m>> \in edges => pc[m] = "ok"
      /\ \/ /\ deposed[i][k] # Nil /\ pc' = [pc EXCEPT ![n] = "apply"]
            /\ obj' = [obj EXCEPT ![n] = deposed[i][k]]
         \/ pc' = [pc EXCEPT ![n] = "error"] /\ obj' = obj
      /\ UNCHANGED <<config, run, phase, change, edges, current, deposed, saved, remote,
                     refs, err, unstored, lost, broken>>
  BY DEF DeposedStart, Starts, At, Deps, Goto, state
<1> HIDE DEF i, k
<1>4. deposed[i][k] \in Object \cup {Nil}
  BY <1>1, <1>2 DEF TypeOK
<1>5. /\ pc' \in [Node -> {"none", "waiting", "apply", "write", "provision", "hook", "ok",
                           "error"}]
      /\ obj' \in [Node -> Result \cup {Nil}]
      /\ \A m \in Node \ {n} : SameNode(m)
      /\ \/ pc'[n] = "error"
         \/ pc'[n] = "apply" /\ deposed[i][k] # Nil /\ obj'[n] = deposed[i][k]
  BY <1>1, <1>3, <1>4 DEF TypeOK, SameNode, Result
<1>6. TypeOK'
  BY <1>1, <1>3, <1>5 DEF TypeOK
<1>7. NoObjectLost'
  BY <1>1, <1>3, <1>5, HeldSame
<1>8. ObjectsAt(current, deposed, i)' /\ MarksAt(i)'
  BY <1>1, <1>3 DEF ObjectsAt, MarksAt, Marked
<1>9. SameNode(A(i)) /\ SameNode(D(i)) /\ \A l \in Key \ {k} : SameNode(X(i, l))
  BY <1>1, <1>2, <1>5, NodeNames, NodesApart
<1>10. Deposes(i, k)'
  <2>1. A(i) \in Node
    BY <1>1, NodeNames
  <2>2. pc[A(i)] \in {"none", "ok"}
    BY <1>1, <1>2, <1>3, <2>1 DEF Deposes
  <2>3. /\ pc'[A(i)] = pc[A(i)] /\ edges' = edges
        /\ pc[X(i, k)] # "none" /\ pc[A(i)] # "none" => <<X(i, k), A(i)>> \in edges
    BY <1>1, <1>2, <1>3, <1>9 DEF Deposes, SameNode
  <2>4. pc'[n] = "apply" => /\ obj'[n] \in Object /\ Marked(obj'[n])
                            /\ obj'[n].id[1] = i /\ obj'[n].id[2] < k /\ k <= run
                            /\ obj'[n] = deposed'[i][k] /\ obj'[n] # Nil
    BY <1>1, <1>2, <1>3, <1>4, <1>5 DEF ObjectsAt, MarksAt
  <2> QED
    BY <1>2, <1>3, <1>5, <2>2, <2>3, <2>4 DEF Deposes, Marked
<1>11. k = run /\ pc[A(i)] = "waiting" => deposed'[i][k] = Nil
  BY <1>1, <1>3 DEF Applies
<1>12. Walks(i)'
  BY <1>1, <1>2, <1>3, <1>9, <1>10, <1>11, DeposedMoves
<1> QED
  BY <1>6, <1>7, <1>8, <1>12 DEF KeptAt, i

\* The record goes only when the object is gone.
LEMMA WriteDestroyedKeeps ==
  ASSUME IInv, NEW n \in Node, WriteDestroyed(n)
  PROVE  KeptAt(Addr(n))
<1> DEFINE i == Addr(n)
<1>1. /\ i \in Inst /\ TypeOK /\ NoObjectLost
      /\ phase = "apply" /\ run \in Key /\ run \in Nat /\ Key \subseteq Nat
      /\ ObjectsAt(current, deposed, i) /\ MarksAt(i)
      /\ Applies(i) /\ Destroys(i) /\ \A k \in Key : Deposes(i, k)
  BY AtWork DEF Step
<1>2. n = D(i)
  BY NodeForm DEF WriteDestroyed, At
<1>3. /\ pc[n] = "write" /\ pc' = [pc EXCEPT ![n] = "hook"]
      /\ current' = [current EXCEPT ![i] = obj[n]]
      /\ err' \in {err, [err EXCEPT ![n] = TRUE]}
      /\ UNCHANGED <<config, run, phase, change, edges, deposed, saved, remote, refs, obj,
                     unstored, lost, broken>>
  BY DEF WriteDestroyed, At, Goto
<1> HIDE DEF i
<1>4. /\ current[i] # Nil
      /\ IF obj[n] = Nil THEN current[i].id \notin remote
         ELSE /\ obj[n] \in Object
              /\ obj[n].id = current[i].id /\ obj[n].status = current[i].status
      /\ ~err[n] => obj[n] = Nil
  BY <1>1, <1>2, <1>3 DEF Destroys
<1>5. /\ pc' \in [Node -> {"none", "waiting", "apply", "write", "provision", "hook", "ok",
                           "error"}]
      /\ err' \in [Node -> BOOLEAN]
      /\ current' \in [Inst -> Object \cup {Nil}]
      /\ \A m \in Node \ {n} : SameNode(m)
      /\ \A j \in Inst \ {i} : SameRecord(j)
      /\ pc'[n] = "hook" /\ current'[i] = obj[n] /\ (~err'[n] => ~err[n])
  BY <1>1, <1>3, <1>4 DEF TypeOK, SameNode, SameRecord
<1>6. TypeOK'
  BY <1>1, <1>3, <1>5 DEF TypeOK
<1>7. NoObjectLost'
  <2>1. \A x \in remote' : current[i] # Nil /\ x = current[i].id => Held(x)'
    BY <1>1, <1>3, <1>4, <1>5 DEF Held
  <2>2. \A x \in remote' : \A k \in Key :
           deposed[i][k] # Nil /\ x = deposed[i][k].id => Held(x)'
    BY <1>1, <1>3 DEF Held
  <2>3. \A x \in remote' : obj[n] # Nil /\ x = obj[n].id => Held(x)'
    BY <1>1, <1>5 DEF Held
  <2> QED
    BY <1>1, <1>3, <1>5, <2>1, <2>2, <2>3, HeldStep
<1>8. ObjectsAt(current, deposed, i)' /\ MarksAt(i)'
  BY <1>1, <1>3, <1>4, <1>5 DEF ObjectsAt, MarksAt, Marked
<1>9. SameNode(A(i)) /\ \A k \in Key : SameNode(X(i, k))
  BY <1>1, <1>2, <1>5, NodeNames, NodesApart
<1>10. Destroys(i)'
  BY <1>1, <1>2, <1>3, <1>4, <1>5, <1>9 DEF Destroys, SameNode, Ended
<1>11. Walks(i)'
  BY <1>1, <1>2, <1>3, <1>4, <1>5, <1>9, <1>10, DestroyerMoves DEF Ended
<1> QED
  BY <1>6, <1>7, <1>8, <1>11 DEF KeptAt, i

\* So does that of a deposed object.
LEMMA WriteDeposedKeeps ==
  ASSUME IInv, NEW n \in Node, WriteDeposed(n)
  PROVE  KeptAt(Addr(n))
<1> DEFINE i == Addr(n)
           k == n[3]
<1>1. /\ i \in Inst /\ TypeOK /\ NoObjectLost
      /\ phase = "apply" /\ run \in Key /\ run \in Nat /\ Key \subseteq Nat
      /\ ObjectsAt(current, deposed, i) /\ MarksAt(i)
      /\ Applies(i) /\ Destroys(i) /\ \A l \in Key : Deposes(i, l)
  BY AtWork DEF Step
<1>2. k \in Key /\ n = X(i, k)
  BY NodeForm DEF WriteDeposed, At
<1>3. /\ pc[n] = "write"
      /\ deposed' = [deposed EXCEPT ![i][k] = obj[n]]
      /\ \/ pc' = [pc EXCEPT ![n] = "error"]
         \/ pc' = [pc EXCEPT ![n] = "hook"]
      /\ err' \in {err, [err EXCEPT ![n] = TRUE]}
      /\ UNCHANGED <<config, run, phase, change, edges, current, saved, remote, refs, obj,
                     unstored, lost, broken>>
  BY DEF WriteDeposed, At, Goto
<1> HIDE DEF i, k
<1>4. /\ obj[n] # Nil => /\ obj[n] \in Object /\ Marked(obj[n])
                         /\ obj[n].id[1] = i /\ obj[n].id[2] < k /\ k <= run
      /\ deposed[i][k] # Nil => IF obj[n] = Nil THEN deposed[i][k].id \notin remote
                                ELSE obj[n].id = deposed[i][k].id
  BY <1>1, <1>2, <1>3 DEF Deposes
<1>5. /\ deposed' \in [Inst -> [Key -> Object \cup {Nil}]]
      /\ \A j \in Inst \ {i} : deposed'[j] = deposed[j]
      /\ \A l \in Key \ {k} : deposed'[i][l] = deposed[i][l]
      /\ deposed'[i][k] = obj[n]
  <2>1. deposed' = [deposed EXCEPT ![i] = [deposed[i] EXCEPT ![k] = obj[n]]]
    BY <1>3
  <2>2. [deposed[i] EXCEPT ![k] = obj[n]] \in [Key -> Object \cup {Nil}]
    BY <1>1, <1>2, <1>4 DEF TypeOK
  <2>3. deposed'[i] = [deposed[i] EXCEPT ![k] = obj[n]]
    BY <1>1, <2>1 DEF TypeOK
  <2> QED
    BY <1>1, <1>2, <2>1, <2>2, <2>3 DEF TypeOK
<1>6. /\ pc' \in [Node -> {"none", "waiting", "apply", "write", "provision", "hook", "ok",
                           "error"}]
      /\ err' \in [Node -> BOOLEAN]
      /\ \A m \in Node \ {n} : SameNode(m)
      /\ \A j \in Inst \ {i} : SameRecord(j)
      /\ pc'[n] \in {"error", "hook"}
  BY <1>1, <1>3, <1>5 DEF TypeOK, SameNode, SameRecord
<1>7. TypeOK'
  BY <1>1, <1>3, <1>5, <1>6 DEF TypeOK
<1>8. NoObjectLost'
  <2>1. \A x \in remote' : current[i] # Nil /\ x = current[i].id => Held(x)'
    BY <1>1, <1>3 DEF Held
  <2>2. \A x \in remote' : \A l \in Key :
           deposed[i][l] # Nil /\ x = deposed[i][l].id => Held(x)'
    BY <1>1, <1>2, <1>3, <1>4, <1>5 DEF Held
  <2>3. \A x \in remote' : obj[n] # Nil /\ x = obj[n].id => Held(x)'
    BY <1>1, <1>2, <1>5 DEF Held
  <2> QED
    BY <1>1, <1>3, <1>6, <2>1, <2>2, <2>3, HeldStep
<1>9. ObjectsAt(current, deposed, i)' /\ MarksAt(i)'
  BY <1>1, <1>2, <1>3, <1>4, <1>5 DEF ObjectsAt, MarksAt, Marked
<1>10. SameNode(A(i)) /\ SameNode(D(i)) /\ \A l \in Key \ {k} : SameNode(X(i, l))
  BY <1>1, <1>2, <1>6, NodeNames, NodesApart
<1>11. Deposes(i, k)'
  BY <1>1, <1>2, <1>3, <1>6, <1>10 DEF Deposes, SameNode
<1>12. pc[A(i)] # "waiting"
  BY <1>1, <1>2, <1>3 DEF Deposes
<1>13. Walks(i)'
  BY <1>1, <1>2, <1>3, <1>5, <1>10, <1>11, <1>12, DeposedMoves
<1> QED
  BY <1>7, <1>8, <1>9, <1>13 DEF KeptAt, i

\* After a failed deletion the object stays in hand.
LEMMA DestroyKeeps ==
  ASSUME IInv, NEW n \in Node, Destroy(n)
  PROVE  KeptAt(Addr(n))
<1> DEFINE i == Addr(n)
<1>1. /\ i \in Inst /\ TypeOK /\ NoObjectLost
      /\ phase = "apply" /\ run \in Key /\ run \in Nat /\ Key \subseteq Nat
      /\ ObjectsAt(current, deposed, i) /\ MarksAt(i)
      /\ Applies(i) /\ Destroys(i) /\ \A k \in Key : Deposes(i, k)
  BY AtWork DEF Step
<1>2. \/ Kind(n) = "destroy" /\ n = D(i)
      \/ Kind(n) = "deposed" /\ \E k \in Key : n = X(i, k)
  BY NodeForm DEF Destroy
<1>3. /\ pc[n] = "apply" /\ pc' = [pc EXCEPT ![n] = "write"]
      /\ UNCHANGED <<config, run, phase, change, edges, current, deposed, saved, refs, unstored, lost,
                     broken>>
      /\ remote' \in {remote, remote \ {obj[n].id}}
      /\ \/ /\ obj' = [obj EXCEPT ![n] = Nil] /\ err' = err
            /\ remote' = remote \ {obj[n].id}
         \/ /\ err' = [err EXCEPT ![n] = TRUE]
            /\ \/ obj' = obj
               \/ Kind(n) = "destroy" /\ obj' = [obj EXCEPT ![n].cbd = FALSE]
  BY DEF Destroy, Goto, state
<1> HIDE DEF i
<1>4. obj[n] # Nil
  <2>1. CASE n = D(i)
    BY <1>1, <1>3, <2>1 DEF Destroys
  <2>2. ASSUME NEW k \in Key, n = X(i, k)
        PROVE  obj[n] # Nil
    BY <1>1, <1>3, <2>2 DEF Deposes
  <2> QED
    BY <1>2, <2>1, <2>2
<1>5. obj[n] \in Object
  <2>1. CASE n = D(i)
    BY <1>1, <1>3, <1>4, <2>1 DEF Destroys, TypeOK
  <2>2. ASSUME NEW k \in Key, n = X(i, k)
        PROVE  obj[n] \in Object
    BY <1>1, <1>3, <1>4, <2>2 DEF Deposes
  <2> QED
    BY <1>2, <2>1, <2>2
<1>6. /\ obj' \in [Node -> Result \cup {Nil}]
      /\ err' \in [Node -> BOOLEAN]
      /\ \A m \in Node \ {n} : SameNode(m)
      /\ \/ /\ obj'[n] = Nil
            /\ remote' = remote \ {obj[n].id}
         \/ /\ err'[n] /\ obj'[n] \in Object /\ obj'[n] # Nil
            /\ obj'[n].id = obj[n].id /\ obj'[n].status = obj[n].status
            /\ Kind(n) = "deposed" => obj'[n] = obj[n]
  <2>1. CASE obj' = [obj EXCEPT ![n] = Nil] /\ err' = err /\ remote' = remote \ {obj[n].id}
    BY <1>1, <1>3, <2>1 DEF TypeOK, SameNode
  <2>2. CASE err' = [err EXCEPT ![n] = TRUE] /\ obj' = obj
    BY <1>1, <1>3, <1>4, <1>5, <2>2 DEF TypeOK, SameNode
  <2>3. CASE err' = [err EXCEPT ![n] = TRUE] /\ Kind(n) = "destroy"
             /\ obj' = [obj EXCEPT ![n].cbd = FALSE]
    <3> DEFINE o == [obj[n] EXCEPT !.cbd = FALSE]
    <3>1. o \in Object /\ o.id = obj[n].id /\ o.status = obj[n].status
      BY <1>5 DEF Object
    <3>2. o # Nil /\ o \in Result
      BY <3>1, NilAssumption DEF Result
    <3>3. obj' = [obj EXCEPT ![n] = o]
      BY <2>3
    <3> HIDE DEF o
    <3>4. /\ obj \in [Node -> Result \cup {Nil}] /\ err \in [Node -> BOOLEAN]
          /\ pc' = [pc EXCEPT ![n] = "write"] /\ pc[n] = "apply"
      BY <1>1, <1>3 DEF TypeOK
    <3>5. obj' \in [Node -> Result \cup {Nil}] /\ err' \in [Node -> BOOLEAN]
      BY <2>3, <3>2, <3>3, <3>4
    <3>6. obj'[n] = o /\ err'[n]
      BY <2>3, <3>3, <3>4
    <3>7. ASSUME NEW m \in Node \ {n}
          PROVE  SameNode(m)
      BY <1>1, <2>3, <3>3, <3>4 DEF TypeOK, SameNode
    <3> QED
      BY <2>3, <3>1, <3>2, <3>5, <3>6, <3>7
  <2> QED
    BY <1>3, <2>1, <2>2, <2>3
<1>7. /\ pc' \in [Node -> {"none", "waiting", "apply", "write", "provision", "hook", "ok",
                           "error"}]
      /\ pc'[n] = "write"
  BY <1>1, <1>3 DEF TypeOK
<1>8. TypeOK'
  BY <1>1, <1>3, <1>6, <1>7 DEF TypeOK
<1>9. NoObjectLost'
  BY <1>1, <1>3, <1>6, HeldSame
<1>10. ObjectsAt(current, deposed, i)' /\ MarksAt(i)'
  BY <1>1, <1>3 DEF ObjectsAt, MarksAt, Marked
<1>11. CASE n = D(i)
  <2>1. SameNode(A(i)) /\ \A k \in Key : SameNode(X(i, k))
    BY <1>1, <1>6, <1>11, NodeNames, NodesApart
  <2>2. obj[n] = current[i] /\ pc[A(i)] \in {"none", "waiting"}
    BY <1>1, <1>3, <1>11 DEF Destroys, Ended
  <2>3. current[i].id \notin remote' \/ (err'[n] /\ obj'[n] # Nil)
    BY <1>6, <2>2
  <2>4. Destroys(i)'
    BY <1>1, <1>3, <1>4, <1>6, <1>7, <1>11, <2>1, <2>2, <2>3
    DEF Destroys, SameNode, Ended
  <2>5. Walks(i)'
    BY <1>1, <1>3, <1>11, <2>1, <2>4, DestroyerMoves DEF Ended
  <2> QED
    BY <1>8, <1>9, <1>10, <2>5 DEF KeptAt, i
<1>12. ASSUME NEW k \in Key, n = X(i, k)
       PROVE  KeptAt(i)
  <2>1. SameNode(A(i)) /\ SameNode(D(i)) /\ \A l \in Key \ {k} : SameNode(X(i, l))
    BY <1>1, <1>6, <1>12, NodeNames, NodesApart
  <2>2. /\ Marked(obj[n]) /\ obj[n].id[1] = i /\ obj[n].id[2] < k /\ k <= run
        /\ deposed[i][k] # Nil => obj[n].id = deposed[i][k].id
    BY <1>1, <1>3, <1>4, <1>12 DEF Deposes
  <2>3. Kind(n) = "deposed"
    BY <1>1, <1>12, NodeNames
  <2>4. Deposes(i, k)'
    BY <1>1, <1>3, <1>4, <1>6, <1>7, <1>12, <2>1, <2>2, <2>3 DEF Deposes, Marked, SameNode
  <2>5. pc[A(i)] # "waiting"
    BY <1>1, <1>3, <1>12 DEF Deposes
  <2>6. Walks(i)'
    BY <1>1, <1>3, <1>12, <2>1, <2>4, <2>5, DeposedMoves
  <2> QED
    BY <1>8, <1>9, <1>10, <2>6 DEF KeptAt
<1> QED
  BY <1>2, <1>11, <1>12 DEF i

\* A step of a node keeps the invariant.
LEMMA StepKeeps ==
  ASSUME IInv, NEW n \in Node, Step(n)
  PROVE  IInv'
<1>1. KeptAt(Addr(n))
  BY PointOnly, ApplyStartKeeps, CreateKeeps, UpdateKeeps, WriteAppliedKeeps, ProvisionKeeps,
     DestroyStartKeeps, DeposedStartKeeps, DestroyKeeps, WriteDestroyedKeeps,
     WriteDeposedKeeps DEF Step
<1> QED
  BY <1>1, StepOthers DEF KeptAt

-----------------------------------------------------------------------------
(* Runs                                                                    *)

\* What a plan makes of a recorded object: the same one, or none when there is
\* none remotely.
LEMMA PlannedObject ==
  ASSUME NEW i \in Inst, NEW o \in Object \cup {Nil}, NEW action
  PROVE  /\ Configured(i, Refreshed(o), action) \in Object \cup {Nil}
         /\ Configured(i, Refreshed(o), action) = Nil <=> Refreshed(o) = Nil
         /\ Refreshed(o) \in {o, Nil}
         /\ o # Nil /\ o.id \in remote => Refreshed(o) = o
         /\ Configured(i, Refreshed(o), action) # Nil =>
               /\ Configured(i, Refreshed(o), action).id = o.id
               /\ Configured(i, Refreshed(o), action).status = o.status
               /\ i \in config.present => Configured(i, Refreshed(o), action).cbd
                                            = CreateBeforeDestroy(config, i)
<1> DEFINE r == Refreshed(o)
           c == Configured(i, r, action)
<1>1. /\ r \in {o, Nil} /\ (o # Nil /\ o.id \in remote => r = o)
      /\ r # Nil => r = o /\ o \in Object
  BY DEF Refreshed
<1>2. CASE r = Nil \/ i \notin config.present
  BY <1>1, <1>2 DEF Configured
<1>3. CASE r # Nil /\ i \in config.present
  <2> DEFINE d == Dependencies(config, i) \cup (IF action = "NoOp" THEN {} ELSE o.deps)
  <2>1. d \subseteq Inst /\ CreateBeforeDestroy(config, i) \in BOOLEAN
    BY <1>1, <1>3 DEF Dependencies, CreateBeforeDestroy, Object
  <2>2. c = [o EXCEPT !.deps = d, !.cbd = CreateBeforeDestroy(config, i)]
    BY <1>1, <1>3 DEF Configured
  <2> HIDE DEF c, d
  <2>3. c \in Object /\ c.id = o.id /\ c.status = o.status
        /\ c.cbd = CreateBeforeDestroy(config, i)
    BY <1>1, <1>3, <2>1, <2>2 DEF Object
  <2>4. c # Nil
    BY <2>3, NilAssumption DEF Result
  <2> QED
    BY <1>1, <1>3, <2>3, <2>4 DEF c
<1> QED
  BY <1>2, <1>3

\* The object that a replacement destroys first is destroyed by a node that
\* the new object's node waits for.
LEMMA DestroyedFirst ==
  ASSUME NEW nodes, NEW cur, NEW i \in Inst, A(i) \in nodes, D(i) \in nodes, ~cur[i].cbd
  PROVE  <<A(i), D(i)>> \in Edges(config, cur, nodes)
<1>1. /\ Kind(A(i)) = "apply" /\ Kind(D(i)) = "destroy"
      /\ Addr(A(i)) = i /\ Addr(D(i)) = i
  BY NodeNames
<1>2. <<A(i), D(i)>> \in DestroyEdges(config, cur, nodes)
  BY <1>1 DEF DestroyEdges
<1>3. ~DestroysCBD(cur, D(i))
  BY <1>1 DEF DestroysCBD
<1> QED
  BY <1>2, <1>3 DEF Edges, CBDEdges

\* A node that destroys a deposed object waits for the node that creates.
LEMMA DestroyedLast ==
  ASSUME NEW nodes, NEW cur, NEW i \in Inst, NEW k \in Key, A(i) \in nodes, X(i, k) \in nodes
  PROVE  <<X(i, k), A(i)>> \in Edges(config, cur, nodes)
<1>1. /\ Kind(A(i)) = "apply" /\ Kind(X(i, k)) = "deposed"
      /\ Addr(A(i)) = i /\ Addr(X(i, k)) = i
  BY NodeNames
<1> DEFINE e == <<A(i), X(i, k)>>
           edgeSet == References(config, nodes) \cup DestroyEdges(config, cur, nodes)
<1>2. e \in edgeSet
  BY <1>1 DEF DestroyEdges
<1>3. e[1] = A(i) /\ e[2] = X(i, k) /\ DestroysCBD(cur, X(i, k))
  BY <1>1 DEF DestroysCBD
<1> HIDE DEF e, edgeSet
<1>4. <<e[2], e[1]>> \in CBDEdges(cur, edgeSet)
  BY <1>1, <1>2, <1>3 DEF CBDEdges
<1> QED
  BY <1>3, <1>4 DEF Edges, edgeSet

\* Edges are between nodes.
LEMMA EdgesType ==
  ASSUME NEW nodes \in SUBSET Node, NEW cur
  PROVE  Edges(config, cur, nodes) \subseteq Node \X Node
<1>1. References(config, nodes) \cup DestroyEdges(config, cur, nodes) \subseteq Node \X Node
  BY DEF References, DestroyEdges
<1> DEFINE es == References(config, nodes) \cup DestroyEdges(config, cur, nodes)
<1>2. \A e \in es : e[1] \in Node /\ e[2] \in Node
  BY <1>1
<1> QED
  BY <1>1, <1>2 DEF Edges, CBDEdges

\* A plan drops only what is gone, and gives every instance nodes that have not
\* started, for which the key of this run is free.
LEMMA PlanKeeps ==
  ASSUME IInv, Plan
  PROVE  IInv'
<1>1. /\ TypeOK /\ Idle /\ NoObjectLost
      /\ \A o \in broken : o[2] <= run
      /\ \A i \in Inst : /\ ObjectsAt(current, deposed, i)
                         /\ ObjectsAt(saved.current, saved.deposed, i)
                         /\ MarksAt(i)
  BY DEF IInv, InstInv
<1> DEFINE nodes == Nodes(change', [i \in Inst |-> run'], deposed')
<1>2. /\ phase = "plan" /\ run < Runs(config) /\ run' = run + 1
      /\ change' \in [Inst -> Action]
      /\ \A i \in Inst : change'[i] \in Planned(i, Refreshed(current[i]), change')
      /\ current' = [i \in Inst |-> Configured(i, Refreshed(current[i]), change'[i])]
      /\ deposed' = [i \in Inst |-> [k \in Key |-> Refreshed(deposed[i][k])]]
      /\ edges' = Edges(config, current', nodes)
      /\ pc' = [n \in Node |-> IF n \in nodes THEN "waiting" ELSE "none"]
      /\ phase' \in {"cycle", "apply"}
      /\ UNCHANGED <<config, saved, remote, refs, obj, err, unstored, lost, broken>>
  BY DEF Plan
<1>3. nodes \subseteq Node
  BY DEF Nodes
<1>4. \A i \in Inst : /\ A(i) \in nodes <=> change'[i] \in {"Create", "Update"} \cup Replace
                      /\ D(i) \in nodes <=> change'[i] \in {"Delete", "DeleteThenCreate"}
  BY NodeNames DEF Nodes
<1> HIDE DEF nodes
<1>5. /\ run \in Nat /\ run' \in Key /\ run' \in Run /\ Key \subseteq Nat
      /\ \A o \in Id : o[1] \in Inst /\ o[2] \in Nat
  BY <1>1, <1>2, RunAssumption DEF Idle, TypeOK, Run, Id
<1>6. \A i \in Inst : current[i] \in Object \cup {Nil} /\ current'[i] \in Object \cup {Nil}
                      /\ current'[i] = Configured(i, Refreshed(current[i]), change'[i])
  BY <1>1, <1>2, PlannedObject DEF TypeOK
<1>7. \A i \in Inst, k \in Key :
         /\ deposed[i][k] \in Object \cup {Nil} /\ deposed'[i][k] \in {deposed[i][k], Nil}
         /\ deposed'[i][k] = Refreshed(deposed[i][k])
  BY <1>1, <1>2 DEF TypeOK, Refreshed
<1>8. \A i \in Inst : current'[i] # Nil => /\ current[i] # Nil
                                           /\ current'[i].id = current[i].id
                                           /\ current'[i].status = current[i].status
  BY <1>6, PlannedObject
<1>9. /\ \A n \in Node : pc[n] = "none" /\ obj[n] = Nil
      /\ \A n \in Node : pc'[n] \in {"none", "waiting"} /\ obj'[n] = Nil
      /\ \A n \in Node : pc'[n] = "waiting" <=> n \in nodes
  BY <1>1, <1>2 DEF Idle
<1>10. TypeOK'
  <2>1. edges' \subseteq Node \X Node
    BY <1>2, <1>3, EdgesType
  <2>2. current' \in [Inst -> Object \cup {Nil}]
    BY <1>2, <1>6
  <2>3. deposed' \in [Inst -> [Key -> Object \cup {Nil}]]
    BY <1>2, <1>7
  <2>4. pc' \in [Node -> {"none", "waiting", "apply", "write", "provision", "hook", "ok",
                          "error"}]
    BY <1>2
  <2> QED
    BY <1>1, <1>2, <1>5, <2>1, <2>2, <2>3, <2>4 DEF TypeOK
<1>11. Idle'
  BY <1>1, <1>2, <1>5, <1>9 DEF Idle
<1>12. NoObjectLost'
  <2> SUFFICES ASSUME NEW o \in remote
               PROVE  Held(o)'
    BY <1>2, HeldIs
  <2>1. Held(o)
    BY <1>1, HeldIs
  <2>2. ASSUME NEW i \in Inst, current[i] # Nil, o = current[i].id
        PROVE  Held(o)'
    <3>1. current'[i] # Nil
      BY <1>6, <2>2, PlannedObject
    <3> QED
      BY <1>8, <2>2, <3>1 DEF Held
  <2>3. ASSUME NEW i \in Inst, NEW k \in Key, deposed[i][k] # Nil, o = deposed[i][k].id
        PROVE  Held(o)'
    <3>1. deposed'[i][k] = deposed[i][k]
      BY <1>7, <2>3 DEF Refreshed
    <3> QED
      BY <2>3, <3>1 DEF Held
  <2> QED
    BY <1>2, <1>9, <2>1, <2>2, <2>3 DEF Held
<1>13. \A o \in broken' : o[2] <= run'
  BY <1>1, <1>2, <1>5 DEF TypeOK
<1>14. ASSUME NEW i \in Inst
       PROVE  InstInv(i)'
  <2>1. /\ ObjectsAt(current, deposed, i) /\ ObjectsAt(saved.current, saved.deposed, i)
        /\ MarksAt(i)
    BY <1>1
  <2>2. ObjectsAt(saved.current, saved.deposed, i)'
    <3>1. saved.current[i] # Nil => saved.current[i].id \in Id
      BY <1>1 DEF TypeOK, Object
    <3> QED
      BY <1>2, <1>5, <2>1, <3>1 DEF ObjectsAt
  <2>3. current[i] # Nil => current[i].id \in Id
    BY <1>6 DEF Object
  <2>4. ObjectsAt(current, deposed, i)'
    BY <1>2, <1>5, <1>7, <1>8, <2>1, <2>3 DEF ObjectsAt
  <2>5. MarksAt(i)'
    BY <1>2, <1>7, <1>8, <2>1 DEF MarksAt, Marked
  <2>6. /\ A(i) \in Node /\ D(i) \in Node /\ \A k \in Key : X(i, k) \in Node
    BY NodeNames
  <2>7. Applies(i)'
    <3>1. pc'[A(i)] # "none" => change'[i] \in {"Create", "Update"} \cup Replace
      BY <1>4, <1>9, <2>6
    <3>2. <<i, run'>> \notin broken'
      BY <1>1, <1>2, <1>5
    <3>3. current'[i] # Nil => current'[i].id[2] < run'
      BY <1>2, <1>5, <1>8, <2>1, <2>3 DEF ObjectsAt
    <3>4. deposed'[i][run'] = Nil
      BY <1>2, <1>5, <1>7, <2>1 DEF ObjectsAt
    <3>5. /\ change'[i] = "Create" => current'[i] = Nil
          /\ change'[i] = "Update" => current'[i] # Nil
      <4>1. change'[i] \in Planned(i, Refreshed(current[i]), change')
        BY <1>2
      <4>2. /\ change'[i] = "Create" => Refreshed(current[i]) = Nil
            /\ change'[i] = "Update" => Refreshed(current[i]) # Nil
        BY <4>1 DEF Planned
      <4> QED
        BY <1>6, <4>2, PlannedObject
    <3> QED
      BY <1>5, <1>9, <2>6, <3>1, <3>2, <3>3, <3>4, <3>5 DEF Applies
  <2>8. Destroys(i)'
    <3>1. change'[i] = "DeleteThenCreate" => <<A(i), D(i)>> \in edges'
      <4> SUFFICES ASSUME change'[i] = "DeleteThenCreate"
                   PROVE  <<A(i), D(i)>> \in edges'
        OBVIOUS
      <4>1. change'[i] \in Planned(i, Refreshed(current[i]), change')
        BY <1>2
      <4>2. /\ Refreshed(current[i]) # Nil /\ i \in config.present
            /\ ~CreateBeforeDestroy(config, i)
        BY <4>1 DEF Planned
      <4>3. ~current'[i].cbd
        BY <1>6, <4>2, PlannedObject
      <4>4. A(i) \in nodes /\ D(i) \in nodes
        BY <1>4 DEF Replace
      <4> QED
        BY <1>2, <4>3, <4>4, DestroyedFirst
    <3> QED
      BY <1>4, <1>9, <2>6, <3>1 DEF Destroys, Ended
  <2>9. \A k \in Key : Deposes(i, k)'
    BY <1>2, <1>9, <2>6, DestroyedLast DEF Deposes
  <2> QED
    BY <2>2, <2>4, <2>5, <2>7, <2>8, <2>9 DEF InstInv, Walks
<1> QED
  BY <1>10, <1>11, <1>12, <1>13, <1>14 DEF IInv

\* A state that is not stored at the end is lost as by a crash.
LEMMA UnstoredIsCrash == FinishUnstored => Crash
BY DEF FinishUnstored, WalkEnded, Crash

\* The end of a run, however it ends: what is recorded holds of the next run.
LEMMA EndKeeps ==
  ASSUME IInv, Finish \/ FinishUnstored \/ Crash
  PROVE  IInv'
<1>1. /\ TypeOK /\ Idle /\ NoObjectLost
      /\ \A o \in broken : o[2] <= run
      /\ \A i \in Inst : /\ ObjectsAt(current, deposed, i)
                         /\ ObjectsAt(saved.current, saved.deposed, i)
                         /\ MarksAt(i)
  BY DEF IInv, InstInv
<1>2. /\ phase = "apply" /\ phase' = "plan"
      /\ change' = [i \in Inst |-> "NoOp"] /\ edges' = {}
      /\ pc' = [n \in Node |-> "none"]
      /\ obj' = [n \in Node |-> Nil]
      /\ err' = [n \in Node |-> FALSE]
      /\ unstored' = {} /\ UNCHANGED <<config, run, remote, refs>>
  BY UnstoredIsCrash DEF Finish, Crash, StartOver, WalkEnded, EndRun
<1>3. Idle'
  BY <1>1, <1>2 DEF Idle
<1>4. CASE Finish
  <2>1. /\ \A n \in Node : pc[n] # "write"
        /\ saved' = Snapshot /\ UNCHANGED <<current, deposed, lost, broken>>
    BY <1>4 DEF Finish, WalkEnded, Ended, state
  <2>2. saved'.current = current /\ saved'.deposed = deposed
    BY <2>1 DEF Snapshot
  <2>3. TypeOK'
    BY <1>1, <1>2, <2>1 DEF TypeOK, Snapshot, Action
  <2>4. NoObjectLost'
    <3>1. \A o \in remote : Held(o)'
      BY <1>1, <1>2, <2>1, HeldIs DEF Held
    <3> QED
      BY <1>2, <3>1, HeldIs
  <2>5. \A i \in Inst : InstInv(i)'
    BY <1>1, <1>2, <2>1, <2>2 DEF InstInv, ObjectsAt, MarksAt, Marked
  <2> QED
    BY <1>1, <1>2, <1>3, <2>1, <2>3, <2>4, <2>5 DEF IInv
<1>5. CASE Crash
  <2>1. /\ current' = saved.current /\ deposed' = saved.deposed
        /\ lost' = lost \cup (remote \ Recorded(current', deposed'))
        /\ broken' = {} /\ saved' = saved
    BY <1>5 DEF Crash, StartOver
  <2>2. TypeOK'
    BY <1>1, <1>2, <2>1 DEF TypeOK, Action
  <2>3. NoObjectLost'
    BY <1>2, <2>1 DEF NoObjectLost
  <2>4. \A i \in Inst : InstInv(i)'
    BY <1>1, <1>2, <2>1 DEF InstInv, ObjectsAt, MarksAt, Marked
  <2> QED
    BY <1>3, <2>1, <2>2, <2>3, <2>4 DEF IInv
<1> QED
  BY <1>4, <1>5, UnstoredIsCrash

\* The state before the first run records the objects there are.
LEMMA InitInv ==
  ASSUME Init
  PROVE  IInv
<1>1. PICK s \in Setups :
        /\ config = s.config
        /\ current = [i \in Inst |-> IF i \in s.before.present
                THEN [id |-> <<i, 0>>, status |-> "ready",
                      deps |-> Dependencies(s.before, i),
                      cbd |-> CreateBeforeDestroy(s.before, i)]
                ELSE Nil]
        /\ remote = s.before.present \X {0}
        /\ refs = [o \in Id |-> IF o \in remote THEN Refs(s.before, o[1]) \X {0} ELSE {}]
  BY DEF Init
<1>2. /\ run = 0 /\ phase = "plan" /\ change = [i \in Inst |-> "NoOp"] /\ edges = {}
      /\ deposed = NoDeposed /\ saved = Snapshot
      /\ pc = [n \in Node |-> "none"] /\ obj = [n \in Node |-> Nil]
      /\ err = [n \in Node |-> FALSE] /\ unstored = {} /\ lost = {} /\ broken = {}
  BY DEF Init
<1>3. IsConfig(s.config) /\ s.before.present \subseteq Inst /\ Runs(s.config) \in Run
  BY SetupsAssumption DEF IsConfig
<1>4. 0 \in Run /\ \A i \in Inst : <<i, 0>> \in Id
  BY RunAssumption DEF Run, Id
<1>5. \A i \in Inst : /\ current[i] \in Object \cup {Nil}
                      /\ current[i] # Nil => current[i].id = <<i, 0>>
                      /\ i \in s.before.present => current[i] # Nil
  <2> TAKE i \in Inst
  <2> DEFINE o == [id |-> <<i, 0>>, status |-> "ready", deps |-> Dependencies(s.before, i),
                   cbd |-> CreateBeforeDestroy(s.before, i)]
  <2>1. Dependencies(s.before, i) \subseteq Inst /\ CreateBeforeDestroy(s.before, i) \in BOOLEAN
    BY DEF Dependencies, CreateBeforeDestroy
  <2>2. o \in Object /\ o.id = <<i, 0>>
    BY <1>4, <2>1 DEF Object
  <2>3. o # Nil
    BY <2>2, NilAssumption DEF Result
  <2>4. current[i] = IF i \in s.before.present THEN o ELSE Nil
    BY <1>1
  <2> HIDE DEF o
  <2> QED
    BY <2>2, <2>3, <2>4
<1>6. TypeOK
  <2>1. current \in [Inst -> Object \cup {Nil}]
    BY <1>1, <1>5
  <2>2. deposed \in [Inst -> [Key -> Object \cup {Nil}]]
    BY <1>2 DEF NoDeposed
  <2>3. remote \subseteq Id
    BY <1>1, <1>3, <1>4
  <2>4. refs \in [Id -> SUBSET Id]
    <3>1. \A o \in Id : Refs(s.before, o[1]) \X {0} \subseteq Id
      BY <1>4 DEF Refs
    <3> QED
      BY <1>1, <3>1
  <2> QED
    BY <1>1, <1>2, <1>3, <1>4, <2>1, <2>2, <2>3, <2>4 DEF TypeOK, Snapshot, Action
<1>7. NoObjectLost
  <2>1. ASSUME NEW o \in remote
        PROVE  Held(o)
    <3>1. PICK i \in s.before.present : o = <<i, 0>>
      BY <1>1
    <3>2. i \in Inst /\ current[i] # Nil /\ o = current[i].id
      BY <1>3, <1>5, <3>1
    <3> QED
      BY <3>2 DEF Held
  <2> QED
    BY <2>1, HeldIs
<1>8. Idle
  BY <1>1, <1>2, <1>3 DEF Idle
<1>9. \A i \in Inst : InstInv(i)
  <2> TAKE i \in Inst
  <2>1. saved.current = current /\ saved.deposed = deposed
    BY <1>2 DEF Snapshot
  <2>2. \A k \in Key : deposed[i][k] = Nil
    BY <1>2 DEF NoDeposed
  <2> QED
    BY <1>2, <1>5, <2>1, <2>2 DEF InstInv, ObjectsAt, MarksAt, Marked
<1> QED
  BY <1>2, <1>6, <1>7, <1>8, <1>9 DEF IInv

\* A step that changes nothing keeps the invariant.
LEMMA StutterKeeps ==
  ASSUME IInv, UNCHANGED vars
  PROVE  IInv'
<1>1. UNCHANGED <<config, run, phase, change, edges, current, deposed, saved, remote, refs,
                  pc, obj, err, unstored, lost, broken>>
  BY DEF vars, state
<1>2. TypeOK' /\ Idle' /\ NoObjectLost'
  BY <1>1 DEF IInv, TypeOK, Idle, NoObjectLost, InHand
<1>3. \A o \in broken' : o[2] <= run'
  BY <1>1 DEF IInv
<1>4. ASSUME NEW i \in Inst
      PROVE  InstInv(i)'
  <2>1. InstInv(i)
    BY DEF IInv
  <2>2. ObjectsAt(current, deposed, i)' /\ ObjectsAt(saved.current, saved.deposed, i)'
        /\ MarksAt(i)'
    BY <1>1, <2>1 DEF InstInv, ObjectsAt, MarksAt, Marked
  <2>3. phase' = "apply" => Walks(i)'
    BY <1>1, <2>1 DEF InstInv, Walks, Applies, Destroys, Deposes, Creates, Marked
  <2> QED
    BY <2>2, <2>3 DEF InstInv
<1> QED
  BY <1>2, <1>3, <1>4 DEF IInv

\* The invariant holds in every state.
LEMMA Invariant == Spec => []IInv
<1>1. Init => IInv
  BY InitInv
<1>2. IInv /\ [Next]_vars => IInv'
  BY PlanKeeps, EndKeeps, StepKeeps, StutterKeeps DEF Next
<1> QED
  BY <1>1, <1>2, PTL DEF Spec

-----------------------------------------------------------------------------
(* What is stored                                                          *)

\* The node that creates or updates i has asked for something that is not
\* stored yet.
Unsaved(i) == pc[A(i)] \in {"write", "provision", "hook"} \/ A(i) \in unstored

\* An object that is not stored was lost before, or is of such a node.
SavedInv ==
    \A o \in remote : \/ o \in lost
                      \/ o \in Recorded(saved.current, saved.deposed)
                      \/ Unsaved(o[1])

\* What is in hand of a node is recorded, or of a node that creates.
LEMMA HeldIsRecorded ==
  ASSUME IInv, NEW o \in remote
  PROVE  \/ o \in lost \/ o \in Recorded(current, deposed)
         \/ o[1] \in Inst /\ pc[A(o[1])] = "write"
<1>1. Held(o)
  BY HeldIs DEF IInv
<1>2. ASSUME NEW n \in Node, pc[n] = "write", obj[n] # Nil, o = obj[n].id
      PROVE  o \in Recorded(current, deposed) \/ (o[1] \in Inst /\ pc[A(o[1])] = "write")
  <2> DEFINE i == Addr(n)
  <2>1. i \in Inst
    BY NodeForm
  <2>2. InstInv(i) /\ phase = "apply"
    BY <1>2, <2>1 DEF IInv, Idle
  <2>3. /\ ObjectsAt(current, deposed, i)
        /\ Applies(i) /\ Destroys(i) /\ \A k \in Key : Deposes(i, k)
    BY <2>2 DEF InstInv, Walks
  <2>4. CASE n = A(i)
    <3>1. o = IF Creates(i) THEN <<i, run>> ELSE current[i].id
      BY <1>2, <2>3, <2>4 DEF Applies
    <3>2. ~Creates(i) => current[i] # Nil /\ current[i].id[1] = i
      BY <1>2, <2>3, <2>4 DEF Applies, ObjectsAt
    <3> QED
      BY <1>2, <2>1, <2>4, <3>1, <3>2
  <2>5. CASE n = D(i)
    <3>1. current[i] # Nil /\ o = current[i].id
      BY <1>2, <2>3, <2>5 DEF Destroys
    <3> QED
      BY <2>1, <3>1, RecordedIs
  <2>6. ASSUME NEW k \in Key, n = X(i, k)
        PROVE  o \in Recorded(current, deposed)
    <3>1. deposed[i][k] # Nil /\ o = deposed[i][k].id
      BY <1>2, <2>3, <2>6 DEF Deposes
    <3> QED
      BY <2>1, <3>1, RecordedIs
  <2> QED
    BY <2>4, <2>5, <2>6, NodeForm
<1> QED
  BY <1>1, <1>2, RecordedIs DEF Held

\* A node that has asked for something is at its hook before it has ended, and
\* a hook that stores the state stores all that is recorded.
LEMMA StepSaves ==
  ASSUME IInv, SavedInv, NEW n \in Node, Step(n)
  PROVE  SavedInv'
<1> DEFINE i == Addr(n)
<1>1. i \in Inst /\ TypeOK /\ InstInv(i)
  BY NodeForm DEF IInv
<1>2. /\ lost' = lost /\ run' = run
      /\ \A m \in Node \ {n} : SameNode(m)
      /\ \A o \in remote' : o \in remote \/ o = <<i, run>>
  BY <1>1, StepFrame
<1> HIDE DEF i
<1>3. \A j \in Inst : j # i => pc'[A(j)] = pc[A(j)]
  BY <1>1, <1>2, NodeNames DEF SameNode, i
<1>4. \A o \in remote : o[1] \in Inst
  BY <1>1 DEF TypeOK, Id
<1>5. CASE UpdateStateHook(n)
  <2>1. /\ remote' = remote /\ pc[n] = "hook"
        /\ \E l \in {"ok", "error"} : pc' = [pc EXCEPT ![n] = l]
    BY <1>5 DEF UpdateStateHook, Goto
  <2>2. ASSUME NEW j \in Inst, A(j) # n
        PROVE  pc'[A(j)] = pc[A(j)]
    BY <1>1, <2>1, <2>2, NodeNames DEF TypeOK
  <2>3. CASE saved' = Snapshot
    <3>1. saved'.current = current /\ saved'.deposed = deposed
      BY <2>3 DEF Snapshot
    <3>2. ASSUME NEW j \in Inst, pc[A(j)] = "write"
          PROVE  pc'[A(j)] = "write"
      BY <2>1, <2>2, <3>2
    <3> QED
      BY <1>2, <2>1, <3>1, <3>2, HeldIsRecorded DEF SavedInv, Unsaved
  <2>4. CASE saved' = saved /\ unstored' = unstored \cup {n}
    <3>1. \A j \in Inst : Unsaved(j) => Unsaved(j)'
      BY <2>2, <2>4 DEF Unsaved
    <3> QED
      BY <1>2, <1>4, <2>1, <2>4, <3>1 DEF SavedInv
  <2> QED
    BY <1>5, <2>3, <2>4 DEF UpdateStateHook, Saved
<1>6. CASE ~UpdateStateHook(n)
  <2>1. saved' = saved /\ unstored' = unstored
    BY <1>6 DEF Step, Skip, ApplyStart, Create, Update, WriteApplied, Provision, DestroyStart,
       DeposedStart, Destroy, WriteDestroyed, WriteDeposed
  <2>2. n = A(i) /\ Unsaved(i) => Unsaved(i)'
    <3> SUFFICES ASSUME n = A(i), Unsaved(i)
                 PROVE  Unsaved(i)'
      OBVIOUS
    <3>1. CASE n \in unstored
      BY <2>1, <3>1 DEF Unsaved
    <3> SUFFICES ASSUME n \notin unstored
                 PROVE  Unsaved(i)'
      BY <3>1
    <3>0. pc[n] \in {"write", "provision"} \/ pc[n] = "hook"
      BY DEF Unsaved
    <3>2. Kind(n) = "apply"
      BY <1>1, NodeNames
    <3>3. WriteApplied(n) \/ Provision(n)
      BY <1>6, <3>0, <3>2 DEF Step, Skip, ApplyStart, Create, Update, DestroyStart,
         DeposedStart, Destroy, WriteDestroyed, WriteDeposed, Starts, At
    <3>4. \E l \in {"provision", "hook"} : pc' = [pc EXCEPT ![n] = l]
      BY <3>3 DEF WriteApplied, Provision, Goto
    <3> QED
      BY <1>1, <3>4 DEF Unsaved, TypeOK
  <2>3. \A j \in Inst : Unsaved(j) => Unsaved(j)'
    <3> SUFFICES ASSUME NEW j \in Inst, Unsaved(j)
                 PROVE  Unsaved(j)'
      OBVIOUS
    <3>1. CASE n = A(j)
      <4>1. j = i
        BY <3>1, NodeNames DEF i
      <4> QED
        BY <2>2, <3>1, <4>1
    <3>2. CASE n # A(j)
      BY <1>2, <2>1, <3>2, NodeNames DEF SameNode, Unsaved
    <3> QED
      BY <3>1, <3>2
  <2>4. CASE Create(n)
    <3>1. n = A(i) /\ pc' = [pc EXCEPT ![n] = "write"]
      BY <2>4, NodeForm DEF Create, At, Goto, i
    <3>2. Unsaved(i)'
      BY <1>1, <3>1 DEF Unsaved, TypeOK
    <3> QED
      BY <1>2, <1>4, <2>1, <2>3, <3>2 DEF SavedInv
  <2>5. CASE ~Create(n)
    <3>1. \A o \in remote' : o \in remote
      BY <1>6, <2>5 DEF Step, Skip, ApplyStart, Update, WriteApplied, Provision, DestroyStart,
         DeposedStart, Destroy, WriteDestroyed, WriteDeposed
    <3> QED
      BY <1>2, <1>4, <2>1, <2>3, <3>1 DEF SavedInv
  <2> QED
    BY <2>4, <2>5
<1> QED
  BY <1>5, <1>6

\* What is not stored is of a node at work or just ended, or lost before.
LEMMA Saves == Spec => []SavedInv
<1>1. Init => SavedInv
  <2> SUFFICES ASSUME Init
               PROVE  SavedInv
    OBVIOUS
  <2>1. /\ saved.current = current /\ saved.deposed = deposed
        /\ \A n \in Node : pc[n] = "none"
    BY DEF Init, Snapshot
  <2>2. \A j \in Inst : pc[A(j)] # "write"
    BY <2>1, NodeNames
  <2> QED
    BY <2>1, <2>2, InitInv, HeldIsRecorded DEF SavedInv
<1>2. IInv /\ SavedInv /\ [Next]_vars => SavedInv'
  <2> SUFFICES ASSUME IInv, SavedInv, [Next]_vars
               PROVE  SavedInv'
    OBVIOUS
  <2>1. CASE Plan
    <3>1. /\ phase = "plan" /\ UNCHANGED <<saved, remote, unstored, lost>>
      BY <2>1 DEF Plan
    <3>2. \A o \in remote : o[1] \in Inst /\ pc[A(o[1])] = "none"
      BY <3>1, NodeNames DEF IInv, TypeOK, Idle, Id
    <3> QED
      BY <3>1, <3>2 DEF SavedInv, Unsaved
  <2>2. CASE Finish
    <3>1. /\ \A n \in Node : pc[n] # "write"
          /\ saved'.current = current /\ saved'.deposed = deposed
          /\ UNCHANGED <<remote, lost>>
      BY <2>2 DEF Finish, WalkEnded, EndRun, Ended, Snapshot
    <3>2. \A j \in Inst : pc[A(j)] # "write"
      BY <3>1, NodeNames
    <3> QED
      BY <3>1, <3>2, HeldIsRecorded DEF SavedInv
  <2>3. CASE FinishUnstored \/ Crash
    BY <2>3, UnstoredIsCrash DEF Crash, StartOver, EndRun, SavedInv
  <2>4. ASSUME NEW n \in Node, Step(n)
        PROVE  SavedInv'
    BY <2>4, StepSaves
  <2>5. CASE UNCHANGED vars
    BY <2>5 DEF vars, SavedInv, Unsaved
  <2> QED
    BY <2>1, <2>2, <2>3, <2>4, <2>5 DEF Next
<1> QED
  BY <1>1, <1>2, Invariant, PTL DEF Spec

-----------------------------------------------------------------------------
(* Theorems                                                                *)

\* Every variable keeps its type.
THEOREM TypeCorrect == Spec => []TypeOK
<1>1. IInv => TypeOK
  BY DEF IInv
<1> QED
  BY <1>1, Invariant, PTL

\* Every remote object is in the state or in the hand of a node, unless a crash
\* or a final state that is not stored has lost it, whatever fails: no node forgets or overwrites the only record.
THEOREM NoObjectIsLost == Spec => []NoObjectLost
<1>1. IInv => NoObjectLost
  BY DEF IInv
<1> QED
  BY <1>1, Invariant, PTL

\* A current object whose creation or provisioning has failed is tainted.
THEOREM FailedAreTainted == Spec => []FailedIsTainted
<1>1. IInv => FailedIsTainted
  BY DEF IInv, InstInv, MarksAt, Marked, FailedIsTainted
<1> QED
  BY <1>1, Invariant, PTL

\* A crash, or a final state that is not stored, loses only objects of nodes
\* that have called the provider and not yet the hook, and of nodes that have
\* ended since a hook last stored the state.
THEOREM CrashLosesOnlyWork == Spec => CrashLosesLittle
<1>1. ASSUME IInv, SavedInv, Next, NEW o \in lost' \ lost
      PROVE  \E n \in Node :
                /\ Addr(n) = o[1]
                /\ pc[n] \in {"write", "provision", "hook"} \/ n \in unstored
  <2>1. CASE FinishUnstored \/ Crash
    <3>1. o \in remote /\ o \notin lost /\ o \notin Recorded(saved.current, saved.deposed)
      BY <1>1, <2>1, UnstoredIsCrash DEF Crash, StartOver
    <3>2. o[1] \in Inst
      BY <1>1, <3>1 DEF IInv, TypeOK, Id
    <3>3. Unsaved(o[1])
      BY <1>1, <3>1 DEF SavedInv
    <3> QED
      BY <3>2, <3>3, NodeNames DEF Unsaved
  <2>2. CASE Plan \/ Finish
    BY <1>1, <2>2 DEF Plan, Finish
  <2>3. ASSUME NEW n \in Node, Step(n)
        PROVE  lost' = lost
    <3>1. TypeOK /\ InstInv(Addr(n))
      BY <1>1, NodeForm DEF IInv
    <3> QED
      BY <2>3, <3>1, StepFrame
  <2> QED
    BY <1>1, <2>1, <2>2, <2>3 DEF Next
<1>2. IInv /\ SavedInv /\ [Next]_vars =>
        [\A o \in lost' \ lost : \E n \in Node :
            /\ Addr(n) = o[1]
            /\ pc[n] \in {"write", "provision", "hook"} \/ n \in unstored]_vars
  BY <1>1
<1> QED
  BY <1>2, Invariant, Saves, PTL DEF CrashLosesLittle, Spec
=============================================================================
