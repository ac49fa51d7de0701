---------------------------- MODULE WalkerProofs ----------------------------
(***************************************************************************)
(* Proofs about the graph walker, for any graphs and any number of         *)
(* updates: its types, what it waits for, why it skips; and that a walk    *)
(* with a single Update takes the steps of a GraphWalk.                    *)
(***************************************************************************)
EXTENDS Walker, TLAPS

\* A vertex that an Update has removed does not come back with a later one
\* (Update keeps the stale edges of a vertex that does).
NoneReturns ==
    \A u, x, w \in 1..updates : u < x /\ x < w =>
        given[u].vertices \cap given[w].vertices \subseteq given[x].vertices

\* The graph of the last Update.
Latest == IF updates = 0 THEN NoGraph ELSE given[updates]

\* The walker's own copy of the graph.
CopyInv ==
    /\ \A u \in 1..updates : given[u] \in Graph
    /\ vertices = Latest.vertices
    /\ \A v \in Vertex : v \in vertices <=> vertexMap[v] # 0
    /\ \A v \in Vertex : vertexMap[v] \in 0..updates
    /\ \A v \in Vertex, x \in Vertex : <<v, x>> \in edges =>
          \E u \in 1..updates : <<v, x>> \in given[u].edges
    /\ \A v \in vertices, x \in Vertex :
          <<v, x>> \in edges <=> <<v, x>> \in Latest.edges

\* The goroutines: one for each time a vertex was new.
BirthInv ==
    /\ \A v \in Vertex, k \in Update : pc[<<v, k>>] # "none" =>
          /\ k <= updates /\ v \in given[k].vertices
          /\ k > 1 => v \notin given[k - 1].vertices
    /\ \A v \in vertices : pc[InstOf(vertexMap, v)] # "none"
    /\ \A i \in Inst : pc[i] = "none" => deps[i] = {} /\ depsUpdateCh[i] = NoChan
    /\ \A i \in done : pc[i] = "finished"

\* What each vertex of the graph is to wait for.
DepsInv ==
    /\ changedDeps \subseteq vertices
    /\ \A v \in vertices, x \in Vertex :
          (\E k \in Update : <<x, k>> \in deps[InstOf(vertexMap, v)])
             <=> <<v, x>> \in Latest.edges

\* The channels that a goroutine has and those that Update has left for it.
Channels(i) ==
    /\ depsUpdateCh[i] \in 0..updates
    /\ depsCh[i] \in {NoChan, depsUpdateCh[i]}
    /\ localCh[i] \in Update /\ depsCh[i] = NoChan => localCh[i] = depsUpdateCh[i]
    /\ \A u \in Update : <<i, u>> \in waitCancelled => u < depsUpdateCh[i]
    /\ \A v \in changedDeps : i = InstOf(vertexMap, v) => depsUpdateCh[i] # updates
    /\ pc[i] = "select" => localCh[i] # NoChan
    /\ pc[i] \in {"none", "created"} => localCh[i] = Initial
    /\ localCh[i] = Initial => /\ localUpdateCh[i] = NoChan
                               /\ pc[i] \notin {"check", "visit", "skip"}
    \* a goroutine that finds no channel at first has nothing to wait for
    /\ pc[i] \in {"created", "select"} /\ localCh[i] = Initial /\ depsCh[i] = NoChan =>
          \/ \A x \in Vertex : <<i[1], x>> \notin given[i[2]].edges
          \/ /\ pc[i] = "created" /\ i[2] = updates
             /\ i[1] \in changedDeps /\ vertexMap[i[1]] = updates

ChannelInv == \A i \in Inst : Channels(i)

Ended(x) == \E k \in Update : <<x, k>> \in done

\* What vertex v waited for in the u-th graph has ended: well, or with a failure.
Settled(v, u) ==
    /\ v \in given[u].vertices
    /\ \A x \in Vertex : <<v, x>> \in given[u].edges => Ended(x)

Cleared(v, u) ==
    Settled(v, u) /\ \A x \in Vertex : <<v, x>> \in given[u].edges => ~Failed(x)

Blocked(v, u) ==
    Settled(v, u) /\ \E x \in Vertex : <<v, x>> \in given[u].edges /\ Failed(x)

\* The waiters and what they send.
Waiter(i, u) ==
    /\ sent[<<i, u>>] # "idle" =>
          /\ u <= updates /\ i[1] \in given[u].vertices
          /\ \A x \in Vertex : (\E k \in Update : <<x, k>> \in waitFor[<<i, u>>])
                                  <=> <<i[1], x>> \in given[u].edges
    /\ sent[<<i, u>>] = "success" => Cleared(i[1], u)
    /\ sent[<<i, u>>] = "failure" => <<i, u>> \in waitCancelled \/ Blocked(i[1], u)

WaiterInv == \A i \in Inst, u \in Update : Waiter(i, u)

\* What a goroutine has received.
Decided(i) ==
    /\ pc[i] = "check" /\ depsSuccess[i] => \E u \in 1..updates : Cleared(i[1], u)
    /\ pc[i] = "check" /\ ~depsSuccess[i] => \E u \in 1..updates : Blocked(i[1], u)
    /\ pc[i] = "skip" => \E u \in 1..updates : Blocked(i[1], u)

DecidedInv == \A i \in Inst : Decided(i)

IInv == TypeOK /\ CopyInv /\ BirthInv /\ DepsInv /\ ChannelInv /\ WaiterInv /\ DecidedInv

\* What a walk without updates has recorded of each vertex.
Recorded(i) ==
    /\ pc[i] \in {"none", "created", "select", "check", "skip"} =>
          i \notin visited /\ i[1] \notin upstreamFailed
    /\ pc[i] = "visit" => i \in visited
    /\ pc[i] \in {"close", "finished"} =>
          IF i \in visited THEN diagsMap[i[1]] \in {"ok", "error"}
          ELSE i[1] \in upstreamFailed /\ diagsMap[i[1]] = "error"

StaticInv == /\ cancelled = {} /\ removing = {}
             /\ \A i \in Inst : Recorded(i)

-----------------------------------------------------------------------------
(* Types                                                                   *)

LEMMA Instances ==
  ASSUME NEW i \in Inst
  PROVE  i[1] \in Vertex /\ i[2] \in Update /\ i = <<i[1], i[2]>>
  BY DEF Inst

\* The graphs that Update may be given.
LEMMA GraphType ==
  ASSUME NEW g \in Graph
  PROVE  /\ g \in Graphs /\ g.vertices \subseteq Vertex
         /\ g.edges \subseteq Vertex \X Vertex
         /\ g.edges \subseteq g.vertices \X g.vertices
  BY GraphAssumption DEF Graphs

\* The two markers are no channels of an Update.
LEMMA NoChannels == NoChan \notin Update /\ Initial \notin Update /\ NoChan # Initial
  BY DEF NoChan, Initial, Update

\* The parts of BeginUpdate.
NewVerts(g) == g.vertices \ vertices
OldVerts(g) == {v \in vertices \ g.vertices : vertexMap[v] # 0}
Map(g) == [v \in Vertex |-> IF v \in NewVerts(g) THEN updates + 1
                            ELSE IF v \in OldVerts(g) THEN 0
                            ELSE vertexMap[v]]
NewEdges(g) == {e \in g.edges \ edges : Map(g)[e[1]] # 0 /\ Map(g)[e[2]] # 0}
OldEdges(g) == {e \in edges \ g.edges : Map(g)[e[1]] # 0}

\* BeginUpdate in the words of its parts.
LEMMA Begins ==
  ASSUME NEW g, BeginUpdate(g)
  PROVE  /\ ~Updating /\ ~waited /\ updates + 1 \in Update
         /\ updates' = updates + 1 /\ given' = [given EXCEPT ![updates + 1] = g]
         /\ vertexMap' = Map(g) /\ vertices' = g.vertices
         /\ edges' = (edges \cup NewEdges(g)) \ OldEdges(g)
         /\ removing' = {InfoToCancel(v) : v \in OldVerts(g)}
         /\ deps' = [i \in Inst |->
              IF i = InstOf(Map(g), i[1])
              THEN {d \in deps[i] : <<i[1], d[1]>> \notin OldEdges(g) \cup NewEdges(g)}
                   \cup {InstOf(Map(g), e[2]) : e \in {x \in NewEdges(g) : x[1] = i[1]}}
              ELSE deps[i]]
         /\ changedDeps' = {e[1] : e \in NewEdges(g) \cup OldEdges(g)}
         /\ pc' = [i \in Inst |-> IF i[1] \in NewVerts(g) /\ i[2] = updates + 1
                                  THEN "created" ELSE pc[i]]
         /\ UNCHANGED <<diagVars, cancelled, done, depsCh, depsUpdateCh, localCh,
                        localUpdateCh, depsSuccess, visited, waitVars, waited>>
  BY DEF BeginUpdate, NewVerts, OldVerts, Map, NewEdges, OldEdges

\* Types at first,
LEMMA TypeInit == Init => TypeOK
<1> SUFFICES ASSUME Init
             PROVE  TypeOK
  OBVIOUS
<1>1. depsSuccess \in [Inst -> BOOLEAN] /\ waited \in BOOLEAN
  BY DEF Init
<1>2. /\ given \in [Update -> Graphs]
      /\ localCh \in [Inst -> Update \cup {NoChan, Initial}]
      /\ deps \in [Inst -> SUBSET Inst]
      /\ waitFor \in [Inst \X Update -> SUBSET Inst]
      /\ sent \in [Inst \X Update -> {"idle", "waiting", "success", "failure"}]
  BY DEF Init, NoGraph, Graphs
<1> QED
  BY <1>1, <1>2 DEF Init, TypeOK

\* when an Update begins,
LEMMA TypeBegin ==
  ASSUME TypeOK, CopyInv, NEW g \in Graph, BeginUpdate(g)
  PROVE  TypeOK'
<1> USE Begins, GraphType
<1>1. Map(g) \in [Vertex -> Update \cup {0}]
  BY DEF Map, TypeOK
<1>2. NewEdges(g) \subseteq Vertex \X Vertex /\ OldEdges(g) \subseteq Vertex \X Vertex
  BY DEF NewEdges, OldEdges, TypeOK
<1>3. removing' \subseteq Inst
  <2>1. \A v \in OldVerts(g) : InfoToCancel(v) \in Inst
    BY DEF OldVerts, InfoToCancel, InstOf, Inst, TypeOK
  <2> QED
    BY <2>1
<1>4. deps' \in [Inst -> SUBSET Inst]
  <2>1. \A e \in NewEdges(g) : InstOf(Map(g), e[2]) \in Inst
    BY <1>1, <1>2 DEF NewEdges, InstOf, Inst
  <2>2. \A i \in Inst : deps[i] \subseteq Inst
    BY DEF TypeOK
  <2> DEFINE D(i) == {d \in deps[i] : <<i[1], d[1]>> \notin OldEdges(g) \cup NewEdges(g)}
                \cup {InstOf(Map(g), e[2]) : e \in {x \in NewEdges(g) : x[1] = i[1]}}
  <2>3. \A i \in Inst : D(i) \in SUBSET Inst
    BY <2>1, <2>2
  <2>4. deps' = [i \in Inst |-> IF i = InstOf(Map(g), i[1]) THEN D(i) ELSE deps[i]]
    OBVIOUS
  <2> HIDE DEF D
  <2> QED
    BY <2>2, <2>3, <2>4
<1>5. changedDeps' \subseteq Vertex
  BY <1>2
<1>6. /\ pc' \in [Inst -> {"none", "created", "select", "check", "visit", "skip",
                           "close", "finished"}]
      /\ given' \in [Update -> Graphs] /\ edges' \subseteq Vertex \X Vertex
  BY <1>2 DEF TypeOK
<1> QED
  BY <1>1, <1>3, <1>4, <1>5, <1>6
  DEF TypeOK, diagVars, waitVars

\* and after any step, if the graph's vertices have goroutines to rewire.
LEMMA TypeStep ==
  ASSUME TypeOK, CopyInv, changedDeps \subseteq vertices, Next
  PROVE  TypeOK'
<1> USE DEF walkerVars, diagVars, infoVars, updateVars, walkVars, waitVars
<1>1. CASE \E g \in Graph : BeginUpdate(g)
  BY <1>1, TypeBegin
<1>2. ASSUME NEW v \in Vertex, Rewire(v)
      PROVE  TypeOK'
  <2>1. InstOf(vertexMap, v) \in Inst /\ updates \in Update
    <3>1. vertexMap[v] # 0 /\ vertexMap[v] \in Update
      BY <1>2 DEF Rewire, CopyInv, TypeOK
    <3> QED
      BY <3>1 DEF InstOf, Inst, CopyInv, Update, TypeOK
  <2>2. depsUpdateCh[InstOf(vertexMap, v)] # NoChan =>
           <<InstOf(vertexMap, v), depsUpdateCh[InstOf(vertexMap, v)]>> \in Inst \X Update
    BY <2>1 DEF TypeOK
  <2>3. waitCancelled' \subseteq Inst \X Update
    BY <1>2, <2>2 DEF Rewire, TypeOK
  <2>4. /\ waitFor' \in [Inst \X Update -> SUBSET Inst]
        /\ sent' \in [Inst \X Update -> {"idle", "waiting", "success", "failure"}]
    BY <1>2, <2>1 DEF Rewire, TypeOK
  <2>5. /\ depsCh' \in [Inst -> Update \cup {NoChan}]
        /\ depsUpdateCh' \in [Inst -> Update \cup {NoChan}]
        /\ changedDeps' \subseteq Vertex
    BY <1>2, <2>1 DEF Rewire, TypeOK
  <2> QED
    BY <1>2, <2>3, <2>4, <2>5 DEF Rewire, TypeOK
<1>3. CASE Launch \/ Wait
  <2>1. CASE Launch
    <3>1. pc' \in [Inst -> {"none", "created", "select", "check", "visit", "skip",
                            "close", "finished"}]
      BY <2>1 DEF Launch, TypeOK
    <3> QED
      BY <2>1, <3>1 DEF Launch, TypeOK
  <2>2. CASE Wait
    BY <2>2 DEF Wait, TypeOK
  <2> QED
    BY <1>3, <2>1, <2>2
<1>4. ASSUME NEW i \in Inst, Cancel(i) \/ WalkVertex(i)
      PROVE  TypeOK'
  <2>1. CASE ReceiveDeps(i) \/ SeeUpdate(i)
    <3>1. depsSuccess' \in [Inst -> BOOLEAN]
      <4>1. CASE SeeUpdate(i)
        BY <4>1 DEF SeeUpdate, TypeOK
      <4>2. CASE ReceiveDeps(i)
        <5>1. PICK b \in BOOLEAN : depsSuccess' = [depsSuccess EXCEPT ![i] = b]
          BY <4>2 DEF ReceiveDeps
        <5> QED
          BY <5>1 DEF TypeOK
      <4> QED
        BY <2>1, <4>1, <4>2
    <3>2. ASSUME NEW ch \in Update \cup {NoChan, Initial}, LoadDeps(i, ch)
          PROVE  TypeOK'
      <4>1. NextCh(i, ch) \in Update \cup {NoChan, Initial}
        BY DEF NextCh, TypeOK
      <4>2. /\ localCh' \in [Inst -> Update \cup {NoChan, Initial}]
            /\ depsCh' \in [Inst -> Update \cup {NoChan}]
            /\ localUpdateCh' \in [Inst -> Update \cup {NoChan}]
            /\ pc' \in [Inst -> {"none", "created", "select", "check", "visit", "skip",
                                 "close", "finished"}]
        BY <3>2, <4>1 DEF LoadDeps, TypeOK
      <4> QED
        BY <3>1, <3>2, <4>2 DEF LoadDeps, TypeOK
    <3> QED
      BY <2>1, <3>2 DEF ReceiveDeps, SeeUpdate, TypeOK
  <2>2. CASE EndVisit(i) \/ EndSkip(i)
    <3>1. i[1] \in Vertex
      BY <1>4, Instances
    <3>2. /\ diagsMap' \in [Vertex -> {"none", "ok", "error"}]
          /\ upstreamFailed' \subseteq Vertex
      <4>1. CASE EndVisit(i)
        <5>1. PICK d \in {"ok", "error"} : diagsMap' = [diagsMap EXCEPT ![i[1]] = d]
          BY <4>1 DEF EndVisit
        <5>2. upstreamFailed' = upstreamFailed
          BY <4>1 DEF EndVisit
        <5> QED
          BY <3>1, <5>1, <5>2 DEF TypeOK
      <4>2. CASE EndSkip(i)
        <5>1. /\ diagsMap' = [diagsMap EXCEPT ![i[1]] = "error"]
              /\ upstreamFailed' = upstreamFailed \cup {i[1]}
          BY <4>2 DEF EndSkip
        <5> QED
          BY <3>1, <5>1 DEF TypeOK
      <4> QED
        BY <2>2, <4>1, <4>2
    <3> QED
      BY <2>2, <3>2 DEF EndVisit, EndSkip, TypeOK
  <2>3. CASE Cancel(i) \/ SeeCancel(i) \/ StartVisit(i) \/ StartSkip(i) \/ Finish(i)
    BY <1>4, <2>3 DEF Cancel, SeeCancel, StartVisit, StartSkip, Finish, TypeOK
  <2> QED
    BY <1>4, <2>1, <2>2, <2>3 DEF WalkVertex
<1>5. ASSUME NEW w \in Inst \X Update, WaitDeps(w) \/ WaitDepsCancelled(w)
      PROVE  TypeOK'
  BY <1>5 DEF WaitDeps, WaitDepsCancelled, WaitSend, TypeOK
<1> QED
  BY <1>1, <1>2, <1>3, <1>4, <1>5 DEF Next

-----------------------------------------------------------------------------
(* The copy of the graph, the goroutines and their dependencies            *)

Structure == CopyInv /\ BirthInv /\ DepsInv

\* Nothing is known of any graph at first.
LEMMA StructureInit == Init => Structure
<1> SUFFICES ASSUME Init
             PROVE  Structure
  OBVIOUS
<1>1. updates = 0 /\ 1..updates = {} /\ vertices = {} /\ edges = {} /\ changedDeps = {}
  BY DEF Init
<1>2. CopyInv
  BY <1>1 DEF Init, CopyInv, Latest, NoGraph
<1>3. BirthInv
  BY <1>1 DEF Init, BirthInv, Inst
<1>4. DepsInv
  BY <1>1 DEF DepsInv
<1> QED
  BY <1>2, <1>3, <1>4 DEF Structure

\* What is given before stays, and the new graph is the latest.
LEMMA BeginGiven ==
  ASSUME TypeOK, NEW g \in Graph, BeginUpdate(g)
  PROVE  /\ updates \in Nat /\ updates + 1 \in Update /\ updates' = updates + 1
         /\ given'[updates + 1] = g
         /\ \A u \in 1..updates : u \in Update /\ given'[u] = given[u]
<1>1. updates \in Nat /\ updates + 1 \in Update
  BY Begins, WalkAssumption DEF TypeOK, Update
<1>2. \A u \in 1..updates : u \in Update /\ u # updates + 1
  BY <1>1, WalkAssumption DEF Update
<1>3. given' = [given EXCEPT ![updates + 1] = g] /\ given \in [Update -> Graphs]
  BY Begins DEF TypeOK
<1> QED
  BY <1>1, <1>2, <1>3, Begins

\* What an Update makes of the instance of each vertex.
LEMMA MapFacts ==
  ASSUME TypeOK, CopyInv, NEW g \in Graph, BeginUpdate(g), NEW v \in Vertex
  PROVE  /\ Map(g)[v] \in 0..(updates + 1)
         /\ v \in g.vertices <=> Map(g)[v] # 0
         /\ Map(g)[v] # 0 => Map(g)[v] \in Update
         /\ v \in NewVerts(g) => Map(g)[v] = updates + 1
         /\ v \in g.vertices /\ v \notin NewVerts(g) =>
               v \in vertices /\ Map(g)[v] = vertexMap[v]
<1>1. updates \in Nat /\ 1..(updates + 1) \subseteq Update
  BY BeginGiven, WalkAssumption DEF Update
<1>2. vertexMap[v] \in 0..updates /\ (v \in vertices <=> vertexMap[v] # 0)
  BY DEF CopyInv
<1> QED
  BY <1>1, <1>2 DEF Map, NewVerts, OldVerts

\* Update leaves the walker with the vertices of the new graph, and with its
\* edges between them.
LEMMA CopyBegin ==
  ASSUME TypeOK, CopyInv, NEW g \in Graph, BeginUpdate(g)
  PROVE  CopyInv' /\ Latest' = g
<1>1. updates \in Nat /\ updates + 1 \in Update /\ updates' = updates + 1
  BY Begins, WalkAssumption DEF TypeOK, Update
<1>2. given'[updates + 1] = g /\ \A u \in 1..updates : given'[u] = given[u]
  BY BeginGiven
<1>3. Latest' = g
  BY <1>1, <1>2 DEF Latest
<1>4. vertices' = g.vertices /\ vertexMap' = Map(g)
  BY Begins
<1>5. \A u \in 1..updates' : given'[u] \in Graph
  BY <1>1, <1>2 DEF CopyInv
<1>6. ASSUME NEW v \in Vertex, NEW x \in Vertex, <<v, x>> \in edges'
      PROVE  \E u \in 1..updates' : <<v, x>> \in given'[u].edges
  <2>1. <<v, x>> \in edges \/ <<v, x>> \in g.edges
    BY <1>6, Begins DEF NewEdges
  <2> QED
    BY <1>1, <1>2, <2>1 DEF CopyInv
<1>7. ASSUME NEW v \in g.vertices, NEW x \in Vertex
      PROVE  <<v, x>> \in edges' <=> <<v, x>> \in g.edges
  <2>1. v \in Vertex /\ (<<v, x>> \in g.edges => x \in g.vertices)
    BY GraphType
  <2>2. Map(g)[v] # 0 /\ (<<v, x>> \in g.edges => Map(g)[x] # 0)
    BY <2>1, MapFacts
  <2>3. <<v, x>> \in NewEdges(g) <=> <<v, x>> \in g.edges /\ <<v, x>> \notin edges
    BY <2>2 DEF NewEdges
  <2>4. <<v, x>> \in OldEdges(g) <=> <<v, x>> \in edges /\ <<v, x>> \notin g.edges
    BY <2>2 DEF OldEdges
  <2> QED
    BY <2>3, <2>4, Begins
<1>8. \A v \in Vertex : Map(g)[v] \in 0..(updates + 1) /\ (v \in g.vertices <=> Map(g)[v] # 0)
  BY MapFacts
<1> QED
  BY <1>1, <1>3, <1>4, <1>5, <1>6, <1>7, <1>8 DEF CopyInv

\* A vertex gets a goroutine when it is in the new graph and was not in the last.
LEMMA BirthBegin ==
  ASSUME TypeOK, CopyInv, BirthInv, NEW g \in Graph, BeginUpdate(g)
  PROVE  BirthInv'
<1>0. CopyInv' /\ updates \in Nat /\ updates + 1 \in Update
  BY CopyBegin, Begins, WalkAssumption DEF TypeOK, Update
<1>1. /\ updates' = updates + 1 /\ given'[updates + 1] = g
      /\ \A u \in 1..updates : given'[u] = given[u]
  BY BeginGiven
<1>2. \A i \in Inst : pc'[i] = IF i[1] \in NewVerts(g) /\ i[2] = updates + 1
                               THEN "created" ELSE pc[i]
  BY Begins
<1>3. ASSUME NEW v \in Vertex, NEW k \in Update, pc'[<<v, k>>] # "none"
      PROVE  k <= updates' /\ v \in given'[k].vertices
             /\ (k > 1 => v \notin given'[k - 1].vertices)
  <2>1. <<v, k>> \in Inst /\ k \in Nat /\ k >= 1
    BY DEF Inst, Update
  <2>2. CASE v \in NewVerts(g) /\ k = updates + 1
    <3>1. v \in g.vertices /\ v \notin vertices
      BY <2>2 DEF NewVerts
    <3>2. k > 1 => v \notin given[updates].vertices
      BY <1>0, <2>2, <3>1 DEF CopyInv, Latest
    <3> QED
      BY <1>0, <1>1, <2>2, <3>1, <3>2
  <2>3. CASE ~(v \in NewVerts(g) /\ k = updates + 1)
    <3>1. pc[<<v, k>>] # "none"
      BY <1>2, <1>3, <2>1, <2>3
    <3>2. k <= updates /\ v \in given[k].vertices /\ (k > 1 => v \notin given[k - 1].vertices)
      BY <3>1 DEF BirthInv
    <3> QED
      BY <1>0, <1>1, <2>1, <3>2
  <2> QED
    BY <2>2, <2>3
<1>4. ASSUME NEW v \in g.vertices
      PROVE  pc'[<<v, Map(g)[v]>>] # "none"
  <2>1. v \in Vertex /\ Map(g)[v] # 0 /\ Map(g)[v] \in Update
    BY <1>0, GraphType, MapFacts
  <2>2. <<v, Map(g)[v]>> \in Inst
    BY <2>1 DEF Inst
  <2>3. CASE v \in NewVerts(g)
    BY <1>2, <2>1, <2>2, <2>3, MapFacts
  <2>4. CASE v \notin NewVerts(g)
    <3>1. v \in vertices /\ Map(g)[v] = vertexMap[v]
      BY <2>1, <2>4, MapFacts
    <3>2. pc[<<v, Map(g)[v]>>] # "none"
      BY <3>1 DEF BirthInv, InstOf
    <3> QED
      BY <1>2, <2>2, <3>2
  <2> QED
    BY <2>3, <2>4
<1>5. ASSUME NEW i \in Inst, pc'[i] = "none"
      PROVE  deps'[i] = {} /\ depsUpdateCh'[i] = NoChan
  <2>1. pc[i] = "none"
    BY <1>2, <1>5
  <2>2. deps[i] = {} /\ depsUpdateCh'[i] = NoChan
    BY <2>1, Begins DEF BirthInv
  <2>3. i # InstOf(Map(g), i[1])
    <3>1. i[1] \in Vertex /\ i[2] # 0 /\ i = <<i[1], i[2]>>
      BY Instances DEF Update
    <3>2. i = InstOf(Map(g), i[1]) => i[1] \in g.vertices
      BY <3>1, MapFacts DEF InstOf
    <3> QED
      BY <1>4, <1>5, <3>2 DEF InstOf
  <2> QED
    BY <2>2, <2>3, Begins
<1>6. ASSUME NEW i \in done'
      PROVE  pc'[i] = "finished"
  <2>1. i \in Inst /\ pc[i] = "finished"
    BY Begins DEF BirthInv, TypeOK
  <2>2. i[1] \in Vertex /\ i[2] \in Update /\ pc[<<i[1], i[2]>>] # "none"
    BY <2>1, Instances
  <2>3. i[2] <= updates
    BY <2>2 DEF BirthInv
  <2> QED
    BY <1>0, <1>2, <2>1, <2>3
<1> QED
  BY <1>3, <1>4, <1>5, <1>6, Begins DEF BirthInv, InstOf

\* A new vertex has no edges yet.
LEMMA NoStaleEdge ==
  ASSUME TypeOK, CopyInv, NoneReturns', NEW g \in Graph, BeginUpdate(g),
         NEW v \in Vertex, v \in NewVerts(g), NEW x \in Vertex
  PROVE  <<v, x>> \notin edges
<1>1. ASSUME NEW u \in 1..updates, <<v, x>> \in given[u].edges
      PROVE  FALSE
  <2>0. /\ updates \in Nat /\ updates' = updates + 1
        /\ v \in g.vertices /\ v \notin vertices /\ given[u] \in Graph
    BY BeginGiven DEF NewVerts, CopyInv
  <2>1. v \in given[u].vertices
    BY <1>1, <2>0, GraphType
  <2>2. updates # 0 /\ v \notin given[updates].vertices
    BY <2>0 DEF CopyInv, Latest
  <2>3. u < updates /\ updates < updates + 1
    BY <2>0, <2>1, <2>2
  <2>4. {u, updates, updates + 1} \subseteq 1..updates'
    BY <2>0, <2>3
  <2>5. given'[u].vertices \cap given'[updates + 1].vertices \subseteq given'[updates].vertices
    BY <2>3, <2>4 DEF NoneReturns
  <2>6. given'[u] = given[u] /\ given'[updates] = given[updates] /\ given'[updates + 1] = g
    BY <2>0, <2>2, BeginGiven
  <2> QED
    BY <2>0, <2>1, <2>2, <2>5, <2>6
<1> QED
  BY <1>1 DEF CopyInv

\* Only vertices of the graph have their dependencies changed.
LEMMA ChangedBegin ==
  ASSUME TypeOK, CopyInv, NEW g \in Graph, BeginUpdate(g)
  PROVE  changedDeps' \subseteq g.vertices
<1>1. \A e \in NewEdges(g) \cup OldEdges(g) : e[1] \in Vertex /\ Map(g)[e[1]] # 0
  BY GraphType DEF NewEdges, OldEdges, TypeOK
<1> QED
  BY <1>1, Begins, MapFacts

\* The dependencies of each vertex become those of the new graph: here a stale
\* edge, if there were one, would hide a new one.
LEMMA DepsBegin ==
  ASSUME TypeOK, Structure, NoneReturns', NEW g \in Graph, BeginUpdate(g)
  PROVE  DepsInv'
<1>0. CopyInv /\ BirthInv /\ DepsInv /\ updates \in Nat /\ updates + 1 \in Update
  BY Begins, WalkAssumption DEF TypeOK, Update, Structure
<1>1. /\ updates' = updates + 1 /\ Latest' = g
      /\ \A u \in 1..updates : given'[u] = given[u] /\ given[u] \in Graph
      /\ given'[updates + 1] = g
  BY <1>0, CopyBegin, BeginGiven DEF CopyInv
<1>2. changedDeps' \subseteq g.vertices
  BY <1>0, ChangedBegin
<1>3. ASSUME NEW v \in g.vertices, NEW x \in Vertex
      PROVE  (\E k \in Update : <<x, k>> \in deps'[InstOf(Map(g), v)]) <=> <<v, x>> \in g.edges
  <2> DEFINE i == InstOf(Map(g), v)
  <2>1. v \in Vertex /\ Map(g)[v] # 0 /\ Map(g)[v] \in Update
    BY <1>0, GraphType, MapFacts
  <2>2. i \in Inst /\ i[1] = v /\ i = InstOf(Map(g), i[1])
    BY <2>1 DEF Inst, InstOf
  <2>3. deps'[i] = {d \in deps[i] : <<v, d[1]>> \notin OldEdges(g) \cup NewEdges(g)}
                   \cup {InstOf(Map(g), e[2]) : e \in {y \in NewEdges(g) : y[1] = v}}
    BY <2>2, Begins
  <2>4. <<v, x>> \in g.edges => x \in g.vertices /\ Map(g)[x] # 0 /\ Map(g)[x] \in Update
    BY <1>0, GraphType, MapFacts
  <2>5. <<v, x>> \in NewEdges(g) <=> <<v, x>> \in g.edges /\ <<v, x>> \notin edges
    BY <2>1, <2>4 DEF NewEdges
  <2>6. <<v, x>> \in OldEdges(g) <=> <<v, x>> \in edges /\ <<v, x>> \notin g.edges
    BY <2>1 DEF OldEdges
  <2>7. (\E k \in Update : <<x, k>> \in deps'[i]) <=>
            \/ <<v, x>> \in NewEdges(g)
            \/ /\ \E k \in Update : <<x, k>> \in deps[i]
               /\ <<v, x>> \notin OldEdges(g) \cup NewEdges(g)
    <3>1. ASSUME <<v, x>> \in NewEdges(g)
          PROVE  \E k \in Update : <<x, k>> \in deps'[i]
      <4>1. InstOf(Map(g), x) \in deps'[i]
        BY <2>3, <3>1
      <4> QED
        BY <2>4, <2>5, <3>1, <4>1 DEF InstOf
    <3>2. ASSUME NEW k \in Update, <<x, k>> \in deps'[i], <<v, x>> \notin NewEdges(g)
          PROVE  <<x, k>> \in deps[i] /\ <<v, x>> \notin OldEdges(g) \cup NewEdges(g)
      <4>1. CASE \E e \in NewEdges(g) : e[1] = v /\ <<x, k>> = InstOf(Map(g), e[2])
        <5>1. PICK e \in NewEdges(g) : e[1] = v /\ x = e[2]
          BY <4>1 DEF InstOf
        <5>2. e = <<v, x>>
          BY <5>1, GraphType DEF NewEdges
        <5> QED
          BY <3>2, <5>1, <5>2
      <4>2. CASE <<x, k>> \in deps[i] /\ <<v, <<x, k>>[1]>> \notin OldEdges(g) \cup NewEdges(g)
        BY <4>2
      <4> QED
        BY <2>3, <3>2, <4>1, <4>2
    <3>3. ASSUME NEW k \in Update, <<x, k>> \in deps[i],
                 <<v, x>> \notin OldEdges(g) \cup NewEdges(g)
          PROVE  <<x, k>> \in deps'[i]
      <4>1. <<v, <<x, k>>[1]>> \notin OldEdges(g) \cup NewEdges(g)
        BY <3>3
      <4> QED
        BY <2>3, <3>3, <4>1
    <3> QED
      BY <3>1, <3>2, <3>3
  <2>8. CASE v \in NewVerts(g)
    <3>1. deps[i] = {}
      <4>1. pc[i] = "none"
        <5>1. i = <<v, updates + 1>>
          BY <2>1, <2>8, MapFacts, <1>0 DEF InstOf
        <5> QED
          BY <1>0, <2>1, <5>1 DEF BirthInv
      <4> QED
        BY <1>0, <2>2, <4>1 DEF BirthInv
    <3>2. <<v, x>> \notin edges
      BY <2>1, <2>8, NoStaleEdge DEF Structure
    <3> QED
      BY <2>5, <2>7, <3>1, <3>2
  <2>9. CASE v \notin NewVerts(g)
    <3>1. v \in vertices /\ i = InstOf(vertexMap, v)
      BY <1>0, <2>1, <2>9, MapFacts DEF InstOf
    <3>2. (\E k \in Update : <<x, k>> \in deps[i]) <=> <<v, x>> \in edges
      BY <1>0, <3>1 DEF DepsInv, CopyInv
    <3> QED
      BY <2>5, <2>6, <2>7, <3>2
  <2> QED
    BY <2>8, <2>9
<1> QED
  BY <1>1, <1>2, <1>3, Begins DEF DepsInv

\* Nothing but Update changes the graph, and no goroutine comes back to life.
LEMMA StructureStep ==
  ASSUME TypeOK, Structure, NoneReturns', Next
  PROVE  Structure'
<1> USE DEF walkerVars, diagVars, infoVars, updateVars, walkVars, waitVars
<1>1. CASE \E g \in Graph : BeginUpdate(g)
  BY <1>1, CopyBegin, BirthBegin, DepsBegin DEF Structure
<1>2. CASE ~\E g \in Graph : BeginUpdate(g)
  <2>1. /\ UNCHANGED <<walkerVars, deps, updates, given>>
        /\ changedDeps' \subseteq changedDeps
    BY <1>2 DEF Next, Rewire, Launch, Cancel, WalkVertex, SeeCancel, ReceiveDeps,
       SeeUpdate, LoadDeps, StartVisit, StartSkip, EndVisit, EndSkip, Finish, WaitDeps,
       WaitDepsCancelled, WaitSend, Wait
  <2>2. \A i \in Inst : /\ pc'[i] = "none" <=> pc[i] = "none"
                        /\ pc[i] = "finished" => pc'[i] = "finished"
    <3>1. CASE Launch
      BY <3>1 DEF Launch, TypeOK
    <3>2. CASE UNCHANGED pc
      BY <3>2
    <3>3. ASSUME NEW j \in Inst, WalkVertex(j)
          PROVE  /\ pc[j] \notin {"none", "finished"}
                 /\ \E s \in {"select", "check", "visit", "skip", "close", "finished"} :
                       pc' = [pc EXCEPT ![j] = s]
      <4>1. CASE ReceiveDeps(j) \/ SeeUpdate(j)
        BY <4>1 DEF ReceiveDeps, SeeUpdate, LoadDeps
      <4> QED
        BY <3>3, <4>1 DEF WalkVertex, SeeCancel, StartVisit, StartSkip, EndVisit, EndSkip, Finish
    <3>4. CASE \E j \in Inst : WalkVertex(j)
      BY <3>3, <3>4 DEF TypeOK
    <3> QED
      BY <1>2, <3>1, <3>2, <3>4 DEF Next, Rewire, Cancel, WaitDeps, WaitDepsCancelled, WaitSend, Wait
  <2>3. \A i \in Inst : pc[i] = "none" => depsUpdateCh'[i] = depsUpdateCh[i]
    <3>1. ASSUME NEW v \in Vertex, Rewire(v)
          PROVE  pc[InstOf(vertexMap, v)] # "none"
                 /\ depsUpdateCh' = [depsUpdateCh EXCEPT ![InstOf(vertexMap, v)] = updates]
      BY <3>1 DEF Rewire, Structure, DepsInv, BirthInv
    <3>2. (\E v \in Vertex : Rewire(v)) \/ UNCHANGED depsUpdateCh
      BY <1>2 DEF Next, Launch, Cancel, WalkVertex, SeeCancel, ReceiveDeps,
         SeeUpdate, LoadDeps, StartVisit, StartSkip, EndVisit, EndSkip, Finish, WaitDeps,
         WaitDepsCancelled, WaitSend, Wait
    <3> QED
      BY <3>1, <3>2 DEF TypeOK
  <2>4. \A i \in done' : i \in done \/ (i \in Inst /\ pc'[i] = "finished")
    <3>1. ASSUME NEW j \in Inst, Finish(j)
          PROVE  done' = done \cup {j} /\ pc'[j] = "finished"
      BY <3>1 DEF Finish, TypeOK
    <3>2. (\E j \in Inst : Finish(j)) \/ UNCHANGED done
      BY <1>2 DEF Next, Rewire, Launch, Cancel, WalkVertex, SeeCancel, ReceiveDeps,
         SeeUpdate, LoadDeps, StartVisit, StartSkip, EndVisit, EndSkip, WaitDeps,
         WaitDepsCancelled, WaitSend, Wait
    <3> QED
      BY <3>1, <3>2
  <2>5. CopyInv'
    BY <2>1 DEF Structure, CopyInv, Latest
  <2>6. BirthInv'
    <3>1. \A v \in Vertex, k \in Update : pc'[<<v, k>>] # "none" => pc[<<v, k>>] # "none"
      BY <2>2 DEF Inst
    <3>2. \A v \in vertices : pc'[InstOf(vertexMap, v)] # "none"
      <4>1. \A v \in vertices : InstOf(vertexMap, v) \in Inst
        BY DEF Structure, CopyInv, TypeOK, InstOf, Inst, Update
      <4> QED
        BY <2>2, <4>1 DEF Structure, BirthInv
    <3>3. \A i \in done' : pc'[i] = "finished"
      BY <2>2, <2>4 DEF Structure, BirthInv, TypeOK
    <3> QED
      BY <2>1, <2>2, <2>3, <3>1, <3>2, <3>3 DEF Structure, BirthInv, InstOf
  <2>7. DepsInv'
    BY <2>1 DEF Structure, DepsInv, Latest, InstOf
  <2> QED
    BY <2>5, <2>6, <2>7 DEF Structure
<1> QED
  BY <1>1, <1>2

-----------------------------------------------------------------------------
(* The channels                                                            *)

LEMMA ChannelInit == Init => ChannelInv
  BY NoChannels DEF Init, ChannelInv, Channels, NoChan, Update

\* A new Update leaves the channels alone, and its number is above all of them.
LEMMA ChannelBegin ==
  ASSUME TypeOK, Structure, ChannelInv, NoneReturns', NEW g \in Graph, BeginUpdate(g)
  PROVE  ChannelInv'
<1> SUFFICES ASSUME NEW i \in Inst
             PROVE  Channels(i)'
  BY DEF ChannelInv
<1>0. /\ CopyInv /\ BirthInv /\ Channels(i) /\ TypeOK' /\ CopyInv'
      /\ updates \in Nat /\ updates' = updates + 1
      /\ i[1] \in Vertex /\ i[2] \in Update /\ i = <<i[1], i[2]>>
  BY BeginGiven, Instances, TypeBegin, CopyBegin DEF Structure, ChannelInv
<1>1. UNCHANGED <<depsUpdateCh, depsCh, localCh, localUpdateCh, waitCancelled>>
  BY Begins DEF waitVars
<1>2. pc'[i] = IF i[1] \in NewVerts(g) /\ i[2] = updates + 1 THEN "created" ELSE pc[i]
  BY Begins
<1>3. i[2] = updates + 1 => pc[i] = "none"
  BY <1>0 DEF BirthInv
<1>4. pc[i] # "created"
  BY Begins DEF Updating
<1>5. pc'[i] \in {"created", "select"} /\ localCh[i] = Initial /\ depsCh[i] = NoChan =>
          \/ \A x \in Vertex : <<i[1], x>> \notin given'[i[2]].edges
          \/ /\ pc'[i] = "created" /\ i[2] = updates + 1
             /\ i[1] \in changedDeps' /\ vertexMap'[i[1]] = updates + 1
  <2>1. CASE i[1] \in NewVerts(g) /\ i[2] = updates + 1
    <3>1. ASSUME NEW x \in Vertex, <<i[1], x>> \in g.edges
          PROVE  i[1] \in changedDeps'
      <4>1. <<i[1], x>> \notin edges
        BY <1>0, <2>1, NoStaleEdge
      <4>2. i[1] \in g.vertices /\ x \in g.vertices
        BY <3>1, GraphType
      <4>3. <<i[1], x>> \in NewEdges(g)
        BY <1>0, <3>1, <4>1, <4>2, MapFacts DEF NewEdges
      <4> QED
        BY <4>3, Begins
    <3>2. given'[i[2]] = g /\ vertexMap'[i[1]] = updates + 1
      BY <1>0, <2>1, BeginGiven, Begins, MapFacts
    <3> QED
      BY <1>2, <2>1, <3>1, <3>2
  <2>2. CASE ~(i[1] \in NewVerts(g) /\ i[2] = updates + 1)
    <3>1. pc[i] # "none" => given'[i[2]] = given[i[2]]
      <4>1. pc[i] # "none" => i[2] \in 1..updates
        BY <1>0 DEF BirthInv, Update
      <4> QED
        BY <4>1, BeginGiven
    <3> QED
      BY <1>0, <1>2, <1>4, <2>2, <3>1 DEF Channels
  <2> QED
    BY <2>1, <2>2
<1>6. depsUpdateCh[i] \in 0..updates
  BY <1>0 DEF Channels
<1>7. pc'[i] = pc[i] \/ (pc'[i] = "created" /\ pc[i] = "none")
  BY <1>2, <1>3
<1> QED
  BY <1>0, <1>1, <1>5, <1>6, <1>7 DEF Channels

\* Rewire hands over a new channel and cancels the waiter of an older one only.
LEMMA ChannelRewire ==
  ASSUME TypeOK, Structure, ChannelInv, NEW v \in Vertex, Rewire(v)
  PROVE  ChannelInv'
<1> SUFFICES ASSUME NEW i \in Inst
             PROVE  Channels(i)'
  BY DEF ChannelInv
<1> DEFINE j == InstOf(vertexMap, v)
<1>1. /\ v \in vertices /\ j \in Inst /\ updates \in Update /\ updates # NoChan
      /\ i[1] \in Vertex /\ i = <<i[1], i[2]>> /\ Channels(i) /\ Channels(j)
  <2>1. v \in vertices /\ vertexMap[v] \in Update
    BY DEF Rewire, Structure, DepsInv, CopyInv, TypeOK
  <2>2. j \in Inst /\ updates \in Update
    BY <2>1 DEF InstOf, Inst, Structure, CopyInv, Update, TypeOK
  <2> QED
    BY <2>1, <2>2, Instances, NoChannels DEF ChannelInv
<1>2. UNCHANGED <<updates, given, vertexMap, pc, localCh, localUpdateCh>>
  BY DEF Rewire, walkerVars, walkVars
<1>3. CASE i = j
  <2>1. depsCh'[i] = updates /\ depsUpdateCh'[i] = updates
    BY <1>1, <1>3 DEF Rewire, TypeOK
  <2>2. \A u \in Update : <<i, u>> \in waitCancelled' => u < updates
    <3>1. depsUpdateCh[j] \in 0..updates /\ depsUpdateCh[j] # updates
      BY <1>1 DEF Channels, Rewire
    <3>2. depsUpdateCh[j] < updates /\ updates \in Nat
      BY <1>1, <3>1, WalkAssumption DEF Update
    <3>3. \A u \in Update : <<j, u>> \in waitCancelled => u < updates
      BY <1>1, <3>1, <3>2 DEF Channels, Update
    <3> QED
      BY <1>3, <3>2, <3>3 DEF Rewire
  <2>3. \A w \in changedDeps' : i # InstOf(vertexMap, w)
    BY <1>3 DEF Rewire, InstOf
  <2> QED
    BY <1>1, <1>2, <1>3, <2>1, <2>2, <2>3, NoChannels DEF Channels, Update
<1>4. CASE i # j
  <2>1. depsCh'[i] = depsCh[i] /\ depsUpdateCh'[i] = depsUpdateCh[i]
    BY <1>1, <1>4 DEF Rewire, TypeOK
  <2>2. \A u \in Update : <<i, u>> \in waitCancelled' => <<i, u>> \in waitCancelled
    BY <1>4 DEF Rewire
  <2>3. changedDeps' = changedDeps \ {v}
    BY DEF Rewire
  <2>4. i[1] = v /\ i[2] = updates => vertexMap[v] # updates
    BY <1>1, <1>4 DEF InstOf
  <2> QED
    BY <1>1, <1>2, <2>1, <2>2, <2>3, <2>4 DEF Channels
<1> QED
  BY <1>3, <1>4

\* A goroutine that loads a channel has the latest one.
LEMMA ChannelWalk ==
  ASSUME TypeOK, ChannelInv, NEW j \in Inst, WalkVertex(j)
  PROVE  ChannelInv'
<1> SUFFICES ASSUME NEW i \in Inst
             PROVE  Channels(i)'
  BY DEF ChannelInv
<1> USE DEF walkerVars, diagVars, infoVars, updateVars, walkVars, waitVars
<1>1. UNCHANGED <<updates, given, vertexMap, changedDeps, depsUpdateCh, waitCancelled>>
  BY DEF WalkVertex, SeeCancel, ReceiveDeps, SeeUpdate, LoadDeps, StartVisit, StartSkip,
     EndVisit, EndSkip, Finish
<1>2. Channels(i) /\ Channels(j)
  BY DEF ChannelInv
<1>3. CASE i # j
  <2>1. UNCHANGED <<pc[i], localCh[i], localUpdateCh[i], depsCh[i]>>
    BY <1>3 DEF TypeOK, WalkVertex, SeeCancel, ReceiveDeps, SeeUpdate, LoadDeps, StartVisit,
       StartSkip, EndVisit, EndSkip, Finish
  <2> QED
    BY <1>1, <1>2, <2>1 DEF Channels
<1>4. CASE i = j
  <2>1. ASSUME NEW ch, LoadDeps(i, ch), ch = NoChan \/ (ch \in Update /\ ch = localCh[i]),
               pc[i] = "select"
        PROVE  Channels(i)'
    <3>1. /\ localCh'[i] = NextCh(i, ch) /\ depsCh'[i] = NoChan
          /\ localUpdateCh'[i] = depsUpdateCh[i]
          /\ pc'[i] = IF NextCh(i, ch) = NoChan THEN "check" ELSE "select"
      BY <2>1 DEF LoadDeps, TypeOK
    <3>2. NextCh(i, ch) \in {NoChan, depsUpdateCh[i]}
      BY <1>2, <2>1 DEF NextCh, Channels
    <3>3. NextCh(i, ch) # Initial
      BY <3>2, NoChannels DEF TypeOK
    <3> QED
      BY <1>1, <1>2, <3>1, <3>2, <3>3, NoChannels DEF Channels
  <2>2. CASE ReceiveDeps(i)
    BY <2>1, <2>2 DEF ReceiveDeps
  <2>3. CASE SeeUpdate(i)
    <3>1. localCh[i] \in Update
      BY <1>2, <2>3 DEF SeeUpdate, Channels, TypeOK
    <3> QED
      BY <2>1, <2>3, <3>1 DEF SeeUpdate
  <2>4. CASE ~ReceiveDeps(i) /\ ~SeeUpdate(i)
    <3>1. UNCHANGED <<localCh, localUpdateCh, depsCh>>
      BY <1>4, <2>4 DEF WalkVertex, SeeCancel, StartVisit, StartSkip, EndVisit, EndSkip, Finish
    <3>2. \/ pc'[i] \in {"close", "finished"}
          \/ pc[i] = "check" /\ pc'[i] \in {"visit", "skip"}
      BY <1>4, <2>4 DEF TypeOK, WalkVertex, SeeCancel, StartVisit, StartSkip, EndVisit,
         EndSkip, Finish
    <3> QED
      BY <1>1, <1>2, <3>1, <3>2 DEF Channels
  <2> QED
    BY <2>2, <2>3, <2>4
<1> QED
  BY <1>3, <1>4

\* The three together, with the steps that touch no channel.
LEMMA ChannelStep ==
  ASSUME TypeOK, Structure, ChannelInv, NoneReturns', Next
  PROVE  ChannelInv'
<1> USE DEF walkerVars, diagVars, infoVars, updateVars, walkVars, waitVars
<1>1. CASE Launch
  <2>1. UNCHANGED <<updates, given, vertexMap, changedDeps, depsUpdateCh, waitCancelled,
                    localCh, localUpdateCh, depsCh>> /\ changedDeps = {}
    BY <1>1 DEF Launch
  <2>2. \A i \in Inst : pc'[i] = IF pc[i] = "created" THEN "select" ELSE pc[i]
    BY <1>1 DEF Launch
  <2> QED
    BY <2>1, <2>2, NoChannels DEF ChannelInv, Channels
<1>2. CASE \/ (\E i \in Inst : Cancel(i)) \/ Wait
           \/ \E w \in Inst \X Update : WaitDeps(w) \/ WaitDepsCancelled(w)
  <2>1. UNCHANGED <<updates, given, vertexMap, changedDeps, depsUpdateCh, waitCancelled,
                    localCh, localUpdateCh, depsCh, pc>>
    BY <1>2 DEF Cancel, WaitDeps, WaitDepsCancelled, WaitSend, Wait
  <2> QED
    BY <2>1 DEF ChannelInv, Channels, InstOf
<1>3. CASE \E g \in Graph : BeginUpdate(g)
  BY <1>3, ChannelBegin
<1>4. CASE \E v \in Vertex : Rewire(v)
  BY <1>4, ChannelRewire
<1>5. CASE \E i \in Inst : WalkVertex(i)
  BY <1>5, ChannelWalk
<1> QED
  BY <1>1, <1>2, <1>3, <1>4, <1>5 DEF Next

-----------------------------------------------------------------------------
(* What has been waited for stays waited for                               *)

\* A vertex has one goroutine.
LEMMA Single ==
  ASSUME TypeOK, BirthInv, NoneReturns, NEW v \in Vertex, NEW k \in Update, NEW m \in Update,
         pc[<<v, k>>] # "none", pc[<<v, m>>] # "none"
  PROVE  k = m
<1>1. ASSUME NEW a \in Update, NEW b \in Update, a < b,
             pc[<<v, a>>] # "none", pc[<<v, b>>] # "none"
      PROVE  FALSE
  <2>1. /\ a \in Nat /\ b \in Nat /\ 1 <= a /\ b <= updates /\ updates \in Nat
        /\ v \in given[a].vertices /\ v \in given[b].vertices /\ v \notin given[b - 1].vertices
    BY <1>1, WalkAssumption DEF BirthInv, Update, TypeOK
  <2>2. a < b - 1 /\ b - 1 < b /\ {a, b - 1, b} \subseteq 1..updates
    BY <1>1, <2>1
  <2> QED
    BY <2>1, <2>2 DEF NoneReturns
<1> QED
  BY <1>1 DEF Update

\* The steps that record the result of a vertex.
LEMMA ResultKept ==
  ASSUME TypeOK, BirthInv, NoneReturns, Next, NEW x \in Vertex, Ended(x)
  PROVE  Ended(x)' /\ diagsMap'[x] = diagsMap[x]
<1> USE DEF walkerVars, diagVars, infoVars, updateVars, walkVars, waitVars
<1>1. PICK k \in Update : <<x, k>> \in done
  BY DEF Ended
<1>2. pc[<<x, k>>] = "finished"
  BY <1>1 DEF BirthInv
<1>3. done \subseteq done'
  BY DEF Next, BeginUpdate, Rewire, Launch, Cancel, WalkVertex, SeeCancel, ReceiveDeps,
     SeeUpdate, LoadDeps, StartVisit, StartSkip, EndVisit, EndSkip, Finish, WaitDeps,
     WaitDepsCancelled, WaitSend, Wait
<1>4. CASE UNCHANGED diagsMap
  BY <1>1, <1>3, <1>4 DEF Ended
<1>5. ASSUME NEW j \in Inst, EndVisit(j) \/ EndSkip(j)
      PROVE  diagsMap'[x] = diagsMap[x]
  <2>1. pc[j] \in {"visit", "skip"} /\ j[1] \in Vertex /\ j[2] \in Update /\ j = <<j[1], j[2]>>
    BY <1>5, Instances DEF EndVisit, EndSkip
  <2>2. j[1] # x
    BY <1>2, <2>1, Single
  <2> QED
    BY <1>5, <2>1, <2>2 DEF EndVisit, EndSkip, TypeOK
<1>6. UNCHANGED diagsMap \/ \E j \in Inst : EndVisit(j) \/ EndSkip(j)
  BY DEF Next, BeginUpdate, Rewire, Launch, Cancel, WalkVertex, SeeCancel, ReceiveDeps,
     SeeUpdate, LoadDeps, StartVisit, StartSkip, Finish, WaitDeps,
     WaitDepsCancelled, WaitSend, Wait
<1> QED
  BY <1>1, <1>3, <1>4, <1>5, <1>6 DEF Ended

\* That a vertex is cleared or blocked by a graph stays so.
LEMMA Stable ==
  ASSUME TypeOK, BirthInv, NoneReturns, Next, NEW u \in 1..updates, NEW v
  PROVE  /\ u \in 1..updates' /\ given'[u] = given[u]
         /\ Cleared(v, u) => Cleared(v, u)'
         /\ Blocked(v, u) => Blocked(v, u)'
<1>1. u \in 1..updates' /\ given'[u] = given[u]
  <2>1. CASE \E g \in Graph : BeginUpdate(g)
    BY <2>1, BeginGiven
  <2>2. CASE UNCHANGED <<updates, given>>
    BY <2>2
  <2> QED
    BY <2>1, <2>2 DEF walkerVars, diagVars, infoVars, updateVars, walkVars, waitVars,
       Next, Rewire, Launch, Cancel, WalkVertex, SeeCancel, ReceiveDeps, SeeUpdate,
       LoadDeps, StartVisit, StartSkip, EndVisit, EndSkip, Finish, WaitDeps,
       WaitDepsCancelled, WaitSend, Wait
<1>2. \A x \in Vertex : Ended(x) => Ended(x)' /\ (Failed(x)' <=> Failed(x))
  BY ResultKept DEF Failed
<1> QED
  BY <1>1, <1>2 DEF Cleared, Blocked, Settled

-----------------------------------------------------------------------------
(* The waiters                                                             *)

\* The steps of the others leave a waiter as it is.
LEMMA WaiterKept ==
  ASSUME TypeOK, BirthInv, NoneReturns, Next, NEW i \in Inst, NEW u \in Update, Waiter(i, u),
         UNCHANGED <<sent[<<i, u>>], waitFor[<<i, u>>]>>, waitCancelled \subseteq waitCancelled'
  PROVE  Waiter(i, u)'
<1>1. sent[<<i, u>>] # "idle" => u \in 1..updates
  BY DEF Waiter, Update
<1>2. ASSUME u \in 1..updates
      PROVE  /\ u \in 1..updates' /\ given'[u] = given[u]
             /\ Cleared(i[1], u) => Cleared(i[1], u)'
             /\ Blocked(i[1], u) => Blocked(i[1], u)'
  BY <1>2, Stable
<1>3. CASE u \in 1..updates
  BY <1>2, <1>3 DEF Waiter
<1>4. CASE u \notin 1..updates
  BY <1>1, <1>4 DEF Waiter
<1> QED
  BY <1>3, <1>4

\* A new waiter waits for what its vertex depends on in the graph of its Update.
LEMMA WaiterRewire ==
  ASSUME TypeOK, Structure, NoneReturns, WaiterInv, NEW v \in Vertex, Rewire(v)
  PROVE  WaiterInv'
<1> SUFFICES ASSUME NEW i \in Inst, NEW u \in Update
             PROVE  Waiter(i, u)'
  BY DEF WaiterInv
<1> DEFINE j == InstOf(vertexMap, v)
<1>1. Next /\ BirthInv /\ Waiter(i, u)
  BY DEF Next, Structure, WaiterInv
<1>2. /\ v \in vertices /\ j \in Inst /\ j[1] = v /\ updates \in Update /\ updates \in Nat
  <2>1. v \in vertices /\ vertexMap[v] \in Update
    BY DEF Rewire, Structure, DepsInv, CopyInv, TypeOK
  <2> QED
    BY <2>1, WalkAssumption DEF InstOf, Inst, Structure, CopyInv, Update, TypeOK
<1>3. CASE i = j /\ u = updates
  <2>1. sent'[<<i, u>>] = "waiting" /\ waitFor'[<<i, u>>] = deps[j]
    BY <1>2, <1>3 DEF Rewire, TypeOK
  <2>2. updates' = updates /\ given' = given
    BY DEF Rewire
  <2>3. updates # 0 /\ Latest = given[updates]
    BY <1>2 DEF Update, Latest
  <2>4. v \in given[updates].vertices /\ \A x \in Vertex :
           (\E k \in Update : <<x, k>> \in deps[j]) <=> <<v, x>> \in given[updates].edges
    BY <1>2, <2>3 DEF Structure, DepsInv, CopyInv
  <2>5. i[1] = v /\ u <= updates
    BY <1>2, <1>3
  <2>6. \A x \in Vertex : (\E k \in Update : <<x, k>> \in waitFor'[<<i, u>>])
                             <=> <<i[1], x>> \in given'[u].edges
    BY <1>3, <2>1, <2>2, <2>4, <2>5
  <2>7. i[1] \in given'[u].vertices /\ u <= updates'
    BY <1>3, <2>2, <2>4, <2>5
  <2> HIDE DEF j
  <2> QED
    BY <2>1, <2>6, <2>7 DEF Waiter
<1>4. CASE ~(i = j /\ u = updates)
  <2>1. UNCHANGED <<sent[<<i, u>>], waitFor[<<i, u>>]>> /\ waitCancelled \subseteq waitCancelled'
    BY <1>4 DEF Rewire, TypeOK
  <2> QED
    BY <1>1, <2>1, WaiterKept
<1> QED
  BY <1>3, <1>4

\* What a waiter sends is true, unless it has been replaced.
LEMMA WaiterSends ==
  ASSUME TypeOK, Structure, NoneReturns, WaiterInv, NEW w \in Inst \X Update,
         WaitDeps(w) \/ WaitDepsCancelled(w)
  PROVE  WaiterInv'
<1> SUFFICES ASSUME NEW i \in Inst, NEW u \in Update
             PROVE  Waiter(i, u)'
  BY DEF WaiterInv
<1>1. Next /\ BirthInv /\ Waiter(i, u)
  BY DEF Next, Structure, WaiterInv
<1>2. CASE w = <<i, u>>
  <2>1. UNCHANGED <<given, updates, done, diagsMap, waitFor, waitCancelled>>
    BY DEF WaitDeps, WaitDepsCancelled, WaitSend, updateVars, infoVars, diagVars
  <2>2. sent[<<i, u>>] = "waiting"
    BY <1>2 DEF WaitDeps, WaitDepsCancelled
  <2>3. CASE WaitDepsCancelled(w)
    <3>1. sent'[<<i, u>>] = "failure" /\ <<i, u>> \in waitCancelled
      BY <1>2, <2>3 DEF WaitDepsCancelled, WaitSend, TypeOK
    <3> QED
      BY <1>1, <2>1, <2>2, <3>1 DEF Waiter
  <2>4. CASE WaitDeps(w)
    <3>1. sent'[<<i, u>>] = IF Errored(<<i, u>>) THEN "failure" ELSE "success"
      BY <1>2, <2>4 DEF WaitDeps, WaitSend, TypeOK
    <3>2. Settled(i[1], u)
      <4>1. waitFor[<<i, u>>] \subseteq done
        BY <1>2, <2>4 DEF WaitDeps, Satisfied
      <4> QED
        BY <1>1, <2>2, <4>1 DEF Waiter, Settled, Ended
    <3>3. Errored(<<i, u>>) <=> \E x \in Vertex : <<i[1], x>> \in given[u].edges /\ Failed(x)
      <4>1. waitFor[<<i, u>>] \subseteq Inst
        BY DEF TypeOK
      <4>2. ASSUME NEW d \in waitFor[<<i, u>>]
            PROVE  d[1] \in Vertex /\ d[2] \in Update /\ <<d[1], d[2]>> \in waitFor[<<i, u>>]
        BY <4>1, <4>2, Instances
      <4>3. ASSUME NEW x \in Vertex, NEW k \in Update, <<x, k>> \in waitFor[<<i, u>>], Failed(x)
            PROVE  Errored(<<i, u>>)
        BY <4>3 DEF Errored, Failed
      <4> QED
        BY <1>1, <2>2, <4>2, <4>3 DEF Errored, Waiter, Failed
    <3>4. IF Errored(<<i, u>>) THEN Blocked(i[1], u) ELSE Cleared(i[1], u)
      BY <3>2, <3>3 DEF Blocked, Cleared
    <3>5. (Blocked(i[1], u) => Blocked(i[1], u)') /\ (Cleared(i[1], u) => Cleared(i[1], u)')
      BY <2>1 DEF Blocked, Cleared, Settled, Ended, Failed
    <3> QED
      BY <1>1, <2>1, <2>2, <3>1, <3>4, <3>5 DEF Waiter
  <2> QED
    BY <2>3, <2>4
<1>3. CASE w # <<i, u>>
  <2>1. UNCHANGED <<sent[<<i, u>>], waitFor[<<i, u>>], waitCancelled>>
    BY <1>3 DEF WaitDeps, WaitDepsCancelled, WaitSend, TypeOK
  <2> QED
    BY <1>1, <2>1, WaiterKept
<1> QED
  BY <1>2, <1>3

\* The waiters in any step.
LEMMA WaiterStep ==
  ASSUME TypeOK, Structure, NoneReturns, WaiterInv, Next
  PROVE  WaiterInv'
<1>1. CASE \E v \in Vertex : Rewire(v)
  BY <1>1, WaiterRewire
<1>2. CASE \E w \in Inst \X Update : WaitDeps(w) \/ WaitDepsCancelled(w)
  BY <1>2, WaiterSends
<1>3. CASE UNCHANGED <<sent, waitFor, waitCancelled>>
  BY <1>3, WaiterKept DEF WaiterInv, Structure
<1> QED
  BY <1>1, <1>2, <1>3 DEF walkerVars, diagVars, infoVars, updateVars, walkVars, waitVars,
     Next, BeginUpdate, Launch, Cancel, WalkVertex, SeeCancel, ReceiveDeps, SeeUpdate,
     LoadDeps, StartVisit, StartSkip, EndVisit, EndSkip, Finish, Wait

-----------------------------------------------------------------------------
(* The goroutines                                                          *)

LEMMA DecidedStep ==
  ASSUME TypeOK, Structure, NoneReturns, ChannelInv, WaiterInv, DecidedInv, Next
  PROVE  DecidedInv'
<1> SUFFICES ASSUME NEW i \in Inst
             PROVE  Decided(i)'
  BY DEF DecidedInv
<1> USE DEF walkerVars, diagVars, infoVars, updateVars, walkVars, waitVars
<1>1. Decided(i) /\ Channels(i) /\ BirthInv /\ i[1] \in Vertex /\ i[2] \in Update
        /\ i = <<i[1], i[2]>>
  BY Instances DEF DecidedInv, ChannelInv, Structure
<1>2. /\ (\E u \in 1..updates : Cleared(i[1], u)) => (\E u \in 1..updates' : Cleared(i[1], u)')
      /\ (\E u \in 1..updates : Blocked(i[1], u)) => (\E u \in 1..updates' : Blocked(i[1], u)')
  BY <1>1, Stable
<1>3. CASE ReceiveDeps(i)
  <2>1. /\ pc[i] = "select" /\ (localCh[i] = Initial \/ localCh[i] \in Update)
        /\ pc'[i] \in {"check", "select"}
        /\ pc'[i] = "check" => depsCh[i] = NoChan
        /\ depsSuccess'[i] = (localCh[i] = Initial \/ sent[<<i, localCh[i]>>] = "success")
        /\ localCh[i] # Initial => sent[<<i, localCh[i]>>] \in {"success", "failure"}
    BY <1>3 DEF ReceiveDeps, LoadDeps, NextCh, TypeOK
  <2>2. CASE localCh[i] = Initial
    <3>1. depsCh[i] = NoChan => Cleared(i[1], i[2]) /\ i[2] \in 1..updates
      <4>1. i[2] <= updates /\ i[1] \in given[i[2]].vertices
        BY <1>1, <2>1 DEF BirthInv
      <4>2. depsCh[i] = NoChan => \A x \in Vertex : <<i[1], x>> \notin given[i[2]].edges
        BY <1>1, <2>1, <2>2 DEF Channels
      <4>3. i[2] \in 1..updates
        BY <1>1, <4>1, WalkAssumption DEF Update, TypeOK
      <4> QED
        BY <4>1, <4>2, <4>3 DEF Cleared, Settled
    <3> QED
      BY <1>2, <2>1, <2>2, <3>1 DEF Decided
  <2>3. CASE localCh[i] # Initial
    <3> DEFINE u == localCh[i]
    <3>1. u \in Update /\ Waiter(i, u) /\ sent[<<i, u>>] \in {"success", "failure"}
      BY <2>1, <2>3 DEF WaiterInv
    <3>2. u \in 1..updates
      BY <3>1 DEF Waiter, Update
    <3>3. depsCh[i] = NoChan => <<i, u>> \notin waitCancelled
      BY <1>1, <3>1 DEF Channels, Update
    <3>4. depsCh[i] = NoChan => IF depsSuccess'[i] THEN Cleared(i[1], u) ELSE Blocked(i[1], u)
      BY <2>1, <2>3, <3>1, <3>3 DEF Waiter
    <3> QED
      BY <1>2, <2>1, <3>2, <3>4 DEF Decided
  <2> QED
    BY <2>2, <2>3
<1>4. CASE SeeUpdate(i)
  <2>1. pc'[i] = "select"
    <3>1. localCh[i] # NoChan
      BY <1>1, <1>4 DEF SeeUpdate, Channels
    <3> QED
      BY <1>4, <3>1 DEF SeeUpdate, LoadDeps, NextCh, TypeOK
  <2> QED
    BY <2>1 DEF Decided
<1>5. CASE StartSkip(i)
  <2>1. pc'[i] = "skip" /\ pc[i] = "check" /\ ~depsSuccess[i]
    BY <1>5 DEF StartSkip, TypeOK
  <2> QED
    BY <1>1, <1>2, <2>1 DEF Decided
<1>6. CASE ~ReceiveDeps(i) /\ ~SeeUpdate(i) /\ ~StartSkip(i)
  <2>1. \/ pc'[i] \notin {"check", "skip"}
        \/ pc'[i] = pc[i] /\ depsSuccess'[i] = depsSuccess[i]
    <3>1. ASSUME NEW j \in Inst, WalkVertex(j), j # i
          PROVE  pc'[i] = pc[i] /\ depsSuccess'[i] = depsSuccess[i]
      BY <3>1 DEF TypeOK, WalkVertex, SeeCancel, ReceiveDeps, SeeUpdate, LoadDeps,
         StartVisit, StartSkip, EndVisit, EndSkip, Finish
    <3>2. CASE WalkVertex(i)
      BY <1>6, <3>2 DEF TypeOK, WalkVertex, SeeCancel, StartVisit, EndVisit, EndSkip, Finish
    <3>3. CASE Launch
      BY <3>3 DEF Launch, TypeOK
    <3>4. ASSUME NEW g \in Graph, BeginUpdate(g)
          PROVE  pc'[i] = "created" \/ (pc'[i] = pc[i] /\ depsSuccess'[i] = depsSuccess[i])
      BY <3>4, Begins
    <3>5. CASE UNCHANGED <<pc, depsSuccess>>
      BY <3>5
    <3> QED
      BY <3>1, <3>2, <3>3, <3>4, <3>5 DEF Next, Rewire, Cancel, WaitDeps, WaitDepsCancelled,
         WaitSend, Wait
  <2> QED
    BY <1>1, <1>2, <2>1 DEF Decided
<1> QED
  BY <1>3, <1>4, <1>5, <1>6

-----------------------------------------------------------------------------
(* The theorems about a graph that changes while it is walked              *)

LEMMA InductiveInit == Init => IInv
<1> SUFFICES ASSUME Init
             PROVE  IInv
  OBVIOUS
<1>1. Structure /\ TypeOK /\ ChannelInv
  BY TypeInit, StructureInit, ChannelInit
<1>2. WaiterInv
  BY DEF Init, WaiterInv, Waiter
<1>3. DecidedInv
  BY DEF Init, DecidedInv, Decided
<1> QED
  BY <1>1, <1>2, <1>3 DEF IInv, Structure

\* Every step preserves the invariant.
LEMMA InductiveStep == IInv /\ NoneReturns /\ NoneReturns' /\ [Next]_vars => IInv'
<1> SUFFICES ASSUME IInv, NoneReturns, NoneReturns', [Next]_vars
             PROVE  IInv'
  OBVIOUS
<1>1. CASE Next
  BY <1>1, TypeStep, StructureStep, ChannelStep, WaiterStep, DecidedStep
  DEF IInv, Structure, DepsInv
<1>2. CASE UNCHANGED vars
  <2> USE <1>2 DEF IInv, vars, walkerVars, diagVars, infoVars, updateVars, walkVars, waitVars
  <2>1. TypeOK'
    BY DEF TypeOK
  <2>2. CopyInv' /\ BirthInv' /\ DepsInv'
    BY DEF CopyInv, BirthInv, DepsInv, Latest, InstOf
  <2>3. ChannelInv'
    BY DEF ChannelInv, Channels, InstOf
  <2>4. WaiterInv' /\ DecidedInv'
    <3>1. WaiterInv'
      <4> SUFFICES ASSUME NEW i \in Inst, NEW u \in Update
                   PROVE  Waiter(i, u)'
        BY DEF WaiterInv
      <4>1. Waiter(i, u)
        BY DEF WaiterInv
      <4> QED
        BY <4>1 DEF Waiter, Cleared, Blocked, Settled, Ended, Failed
    <3>2. DecidedInv'
      <4> SUFFICES ASSUME NEW i \in Inst
                   PROVE  Decided(i)'
        BY DEF DecidedInv
      <4>1. Decided(i)
        BY DEF DecidedInv
      <4> QED
        BY <4>1 DEF Decided, Cleared, Blocked, Settled, Ended, Failed
    <3> QED
      BY <3>1, <3>2
  <2> QED
    BY <2>1, <2>2, <2>3, <2>4
<1> QED
  BY <1>1, <1>2

\* The invariant holds in every behaviour in which no vertex returns.
LEMMA Inductive == Spec /\ []NoneReturns => []IInv
  BY InductiveInit, InductiveStep, PTL DEF Spec

\* Two calls of Update cannot bring a vertex back.
LEMMA TwoUpdates ==
  ASSUME MaxUpdate <= 2, TypeOK
  PROVE  NoneReturns
<1>1. updates <= 2 /\ updates \in Nat
  BY WalkAssumption DEF TypeOK, Update
<1> QED
  BY <1>1 DEF NoneReturns

\* A vertex is visited only after everything that it depends on, in one of
\* the graphs given to Update, has ended without an error (waitDeps and
\* walkVertex against Update, which replaces their channels), as long as no
\* vertex that was removed returns.
THEOREM DependenciesFirst == Spec /\ []NoneReturns => WaitsForItsDeps
<1>1. ASSUME IInv, NEW i \in Inst, StartVisit(i)
      PROVE  \E u \in 1..updates :
                /\ i[1] \in given[u].vertices
                /\ \A d \in DepsIn(given[u], i[1]) :
                      ~Failed(d) /\ \E k \in Update : <<d, k>> \in done
  <2>1. PICK u \in 1..updates : Cleared(i[1], u)
    BY <1>1 DEF StartVisit, IInv, DecidedInv, Decided
  <2>2. ASSUME NEW d \in DepsIn(given[u], i[1])
        PROVE  d \in Vertex /\ <<i[1], d>> \in given[u].edges
    <3>1. PICK e \in given[u].edges : e[1] = i[1] /\ e[2] = d
      BY <2>2 DEF DepsIn
    <3>2. given[u].edges \subseteq Vertex \X Vertex
      BY <1>1, GraphType DEF IInv, CopyInv
    <3>3. e = <<e[1], e[2]>> /\ e[2] \in Vertex
      BY <3>1, <3>2
    <3> QED
      BY <3>1, <3>3
  <2> QED
    BY <2>1, <2>2 DEF Cleared, Settled, Ended
<1>2. IInv /\ [Next]_vars =>
        [\A i \in Inst : StartVisit(i) =>
           \E u \in 1..updates :
              /\ i[1] \in given[u].vertices
              /\ \A d \in DepsIn(given[u], i[1]) :
                    ~Failed(d) /\ \E k \in Update : <<d, k>> \in done]_vars
  BY <1>1
<1> QED
  BY <1>2, Inductive, PTL DEF Spec, WaitsForItsDeps

\* A vertex is skipped only because one that it depends on has failed: the
\* FALSE that a cancelled waiter sends is never the last word (waitDeps,
\* DepsUpdateCh), as long as no vertex that was removed returns.
THEOREM SkipsHaveCause == Spec /\ []NoneReturns => SkipsOnlyOnFailure
<1>1. ASSUME IInv, NEW i \in Inst, StartSkip(i)
      PROVE  \E u \in 1..updates : \E d \in DepsIn(given[u], i[1]) : Failed(d)
  <2>1. PICK u \in 1..updates : Blocked(i[1], u)
    BY <1>1 DEF StartSkip, IInv, DecidedInv, Decided
  <2>2. PICK x \in Vertex : <<i[1], x>> \in given[u].edges /\ Failed(x)
    BY <2>1 DEF Blocked
  <2>3. <<i[1], x>>[2] \in DepsIn(given[u], i[1])
    BY <2>2 DEF DepsIn
  <2> QED
    BY <2>2, <2>3
<1>2. IInv /\ [Next]_vars =>
        [\A i \in Inst : StartSkip(i) =>
           \E u \in 1..updates : \E d \in DepsIn(given[u], i[1]) : Failed(d)]_vars
  BY <1>1
<1> QED
  BY <1>2, Inductive, PTL DEF Spec, SkipsOnlyOnFailure

-----------------------------------------------------------------------------
(* Types, whatever returns                                                 *)

Basic == TypeOK /\ CopyInv /\ changedDeps \subseteq vertices

\* The part of the invariant that the types need, in any behaviour.
LEMMA BasicStep == Basic /\ [Next]_vars => Basic'
<1> SUFFICES ASSUME Basic, [Next]_vars
             PROVE  Basic'
  OBVIOUS
<1> USE DEF walkerVars, diagVars, infoVars, updateVars, walkVars, waitVars
<1>1. CASE \E g \in Graph : BeginUpdate(g)
  BY <1>1, TypeBegin, CopyBegin, ChangedBegin, Begins DEF Basic
<1>2. CASE Next /\ ~\E g \in Graph : BeginUpdate(g)
  <2>1. UNCHANGED <<walkerVars, updates, given>> /\ changedDeps' \subseteq changedDeps
    BY <1>2 DEF Next, Rewire, Launch, Cancel, WalkVertex, SeeCancel, ReceiveDeps,
       SeeUpdate, LoadDeps, StartVisit, StartSkip, EndVisit, EndSkip, Finish, WaitDeps,
       WaitDepsCancelled, WaitSend, Wait
  <2>2. TypeOK'
    BY <1>2, TypeStep DEF Basic
  <2> QED
    BY <2>1, <2>2 DEF Basic, CopyInv, Latest
<1>3. CASE UNCHANGED vars
  BY <1>3 DEF vars, Basic, TypeOK, CopyInv, Latest
<1> QED
  BY <1>1, <1>2, <1>3

\* The walker's fields, its channels and the goroutines keep their types,
\* whatever graphs Update is given (the fields of Walker and walkerVertex).
THEOREM TypeCorrect == Spec => []TypeOK
<1>1. Init => Basic
  BY TypeInit, StructureInit DEF Basic, Structure, DepsInv
<1>2. Basic => TypeOK
  BY DEF Basic
<1> QED
  BY <1>1, <1>2, BasicStep, PTL DEF Spec

-----------------------------------------------------------------------------
(* A walk with a single Update, as AcyclicGraph.Walk makes it              *)

LEMMA StaticInit == Init => StaticInv
  BY Instances DEF Init, StaticInv, Recorded

\* With a single Update nothing is cancelled, and a vertex is recorded once.
LEMMA StaticStep ==
  ASSUME MaxUpdate = 1, IInv, StaticInv, Next
  PROVE  StaticInv'
<1> USE DEF walkerVars, diagVars, infoVars, updateVars, walkVars, waitVars
<1>1. /\ TypeOK /\ CopyInv /\ BirthInv /\ cancelled = {} /\ removing = {}
      /\ \A i \in Inst : i[1] \in Vertex /\ i = <<i[1], 1>>
  BY Instances DEF IInv, StaticInv, Update
<1>2. ASSUME NEW g \in Graph, BeginUpdate(g)
      PROVE  StaticInv'
  <2>1. updates = 0
    BY <1>2, BeginGiven, <1>1 DEF Update
  <2>2. vertices = {}
    BY <1>1, <2>1 DEF CopyInv, Latest, NoGraph
  <2>3. removing' = {} /\ cancelled' = {}
    BY <1>1, <1>2, <2>2, Begins DEF OldVerts
  <2>4. \A i \in Inst : pc[i] = "none" /\ pc'[i] \in {"none", "created"}
    <3>1. \A i \in Inst : pc[i] = "none"
      BY <1>1, <2>1 DEF BirthInv, Update
    <3> QED
      BY <1>2, <3>1, Begins
  <2> QED
    BY <1>2, <2>3, <2>4, Begins DEF StaticInv, Recorded
<1>3. ASSUME NEW j \in Inst, WalkVertex(j)
      PROVE  StaticInv'
  <2>1. UNCHANGED <<cancelled, removing>> /\ ~SeeCancel(j)
    BY <1>1, <1>3 DEF WalkVertex, SeeCancel, ReceiveDeps, SeeUpdate, LoadDeps, StartVisit,
       StartSkip, EndVisit, EndSkip, Finish
  <2>2. ASSUME NEW i \in Inst, i # j
        PROVE  Recorded(i)'
    <3>1. Recorded(i) /\ i[1] # j[1]
      BY <1>1, <2>2 DEF StaticInv
    <3>2. /\ pc'[i] = pc[i] /\ (i \in visited' <=> i \in visited)
          /\ (i[1] \in upstreamFailed' <=> i[1] \in upstreamFailed)
          /\ diagsMap'[i[1]] = diagsMap[i[1]]
      BY <1>1, <1>3, <2>2, <3>1 DEF TypeOK, WalkVertex, SeeCancel, ReceiveDeps, SeeUpdate,
         LoadDeps, StartVisit, StartSkip, EndVisit, EndSkip, Finish
    <3> QED
      BY <3>1, <3>2 DEF Recorded
  <2>3. Recorded(j)'
    <3>1. Recorded(j) /\ j[1] \in Vertex
      BY <1>1 DEF StaticInv
    <3>2. CASE ReceiveDeps(j) \/ SeeUpdate(j)
      BY <1>1, <3>1, <3>2 DEF ReceiveDeps, SeeUpdate, LoadDeps, Recorded, TypeOK
    <3>3. CASE StartVisit(j) \/ StartSkip(j) \/ Finish(j)
      BY <1>1, <3>1, <3>3 DEF StartVisit, StartSkip, Finish, Recorded, TypeOK
    <3>4. CASE EndVisit(j) \/ EndSkip(j)
      BY <1>1, <3>1, <3>4 DEF EndVisit, EndSkip, Recorded, TypeOK
    <3> QED
      BY <1>3, <2>1, <3>2, <3>3, <3>4 DEF WalkVertex
  <2> QED
    BY <1>1, <2>1, <2>2, <2>3 DEF StaticInv
<1>4. CASE Launch
  <2>1. \A i \in Inst : pc'[i] = IF pc[i] = "created" THEN "select" ELSE pc[i]
    BY <1>4 DEF Launch
  <2> QED
    BY <1>4, <2>1 DEF Launch, StaticInv, Recorded
<1>5. CASE UNCHANGED <<cancelled, removing, pc, visited, upstreamFailed, diagsMap>>
  BY <1>5 DEF StaticInv, Recorded
<1>6. \A i \in Inst : ~Cancel(i)
  BY <1>1 DEF Cancel
<1> QED
  BY <1>2, <1>3, <1>4, <1>5, <1>6 DEF Next, Rewire, WaitDeps, WaitDepsCancelled, WaitSend, Wait

Static == IInv /\ StaticInv /\ NoneReturns

\* With a single Update no vertex can return: both invariants hold.
LEMMA StaticAlways ==
  ASSUME MaxUpdate = 1
  PROVE  Spec => []Static
<1>1. TypeOK => NoneReturns
  BY TwoUpdates
<1>2. Init => Static
  BY <1>1, InductiveInit, StaticInit DEF Static, IInv
<1>3. Basic /\ Basic' /\ Static /\ [Next]_vars => Static'
  <2> SUFFICES ASSUME Basic, Basic', Static, [Next]_vars
               PROVE  Static'
    OBVIOUS
  <2>1. NoneReturns'
    <3>1. updates' \in Nat /\ updates' <= 1
      BY WalkAssumption DEF Basic, TypeOK, Update
    <3> QED
      BY <3>1 DEF NoneReturns
  <2>2. IInv'
    BY <2>1, InductiveStep DEF Static
  <2>3. StaticInv'
    <3>1. CASE Next
      BY <3>1, StaticStep DEF Static
    <3>2. CASE UNCHANGED vars
      BY <3>2 DEF vars, infoVars, updateVars, walkVars, diagVars, Static, StaticInv, Recorded
    <3> QED
      BY <3>1, <3>2
  <2> QED
    BY <2>1, <2>2, <2>3 DEF Static
<1>4. Init => Basic
  BY TypeInit, StructureInit DEF Basic, Structure, DepsInv
<1> QED
  BY <1>2, <1>3, <1>4, BasicStep, PTL DEF Spec

\* What the point that a goroutine has reached says about its vertex.
Status(v) ==
    /\ pc[<<v, 1>>] \notin {"visit", "close", "finished"} => StatusOf(v) = "waiting"
    /\ pc[<<v, 1>>] = "visit" => StatusOf(v) = "running"
    /\ pc[<<v, 1>>] \in {"close", "finished"} =>
          \/ StatusOf(v) \in {"ok", "error"} /\ StatusOf(v) = diagsMap[v]
          \/ StatusOf(v) = "skipped" /\ diagsMap[v] = "error"

\* In a walk with a single Update that is so of every vertex,
LEMMA StatusKnown ==
  ASSUME MaxUpdate = 1, Static, NEW v \in Vertex
  PROVE  Status(v)
<1>1. <<v, 1>> \in Inst /\ TypeOK
  BY DEF Inst, Update, Static, IInv
<1>2. Recorded(<<v, 1>>)
  BY <1>1 DEF Static, StaticInv
<1>3. pc[<<v, 1>>] \in {"none", "created", "select", "check", "visit", "skip",
                        "close", "finished"}
  BY <1>1 DEF TypeOK
<1> QED
  BY <1>2, <1>3 DEF Recorded, Status, StatusOf

\* A vertex that has ended, in the terms of GraphWalk.
LEMMA EndedStatus ==
  ASSUME MaxUpdate = 1, Static, NEW v \in Vertex, Ended(v)
  PROVE  /\ StatusOf(v) \in {"ok", "error", "skipped"}
         /\ StatusOf(v) = "ok" <=> ~Failed(v)
<1>1. pc[<<v, 1>>] = "finished"
  BY DEF Ended, Update, Static, IInv, BirthInv
<1>2. Status(v)
  BY StatusKnown
<1> QED
  BY <1>1, <1>2 DEF Status, Failed

\* What a vertex depends on in the graph of the walk.
LEMMA DependsOnEdges ==
  ASSUME MaxUpdate = 1, Static, updates = 1, NEW v, NEW d
  PROVE  d \in Walk!DependsOn(v) <=> d \in Vertex /\ <<v, d>> \in given[1].edges
<1>1. given[1].edges \subseteq Vertex \X Vertex
  BY GraphType DEF Static, IInv, CopyInv
<1>2. ASSUME NEW e \in given[updates].edges, e[1] = v, e[2] = d
      PROVE  d \in Vertex /\ <<v, d>> \in given[1].edges
  BY <1>1, <1>2
<1>3. ASSUME <<v, d>> \in given[1].edges
      PROVE  d \in Walk!DependsOn(v)
  <2>1. <<v, d>> \in given[updates].edges /\ <<v, d>>[1] = v /\ <<v, d>>[2] = d
    BY <1>3
  <2> QED
    BY <2>1 DEF Walk!DependsOn
<1> QED
  BY <1>2, <1>3 DEF Walk!DependsOn

\* Only what a goroutine does to its own vertex is seen.
LEMMA StatusOfOthers ==
  ASSUME MaxUpdate = 1, Static, NEW j \in Inst, WalkVertex(j), NEW v \in Vertex, v # j[1]
  PROVE  StatusOf(v)' = StatusOf(v)
<1>1. <<v, 1>> \in Inst /\ <<v, 1>> # j /\ j[1] \in Vertex /\ TypeOK
  BY Instances DEF Inst, Update, Static, IInv
<1>2. /\ pc'[<<v, 1>>] = pc[<<v, 1>>] /\ (<<v, 1>> \in visited' <=> <<v, 1>> \in visited)
      /\ (v \in upstreamFailed' <=> v \in upstreamFailed) /\ diagsMap'[v] = diagsMap[v]
  BY <1>1 DEF TypeOK, WalkVertex, SeeCancel, ReceiveDeps, SeeUpdate, LoadDeps, StartVisit,
     StartSkip, EndVisit, EndSkip, Finish, diagVars, walkVars
<1> QED
  BY <1>2 DEF StatusOf

Statuses == \A v \in Vertex : Status(v)

\* and after every step.
LEMMA StatusesNext ==
  ASSUME MaxUpdate = 1
  PROVE  Static' => Statuses'
<1>1. Static => Statuses
  BY StatusKnown DEF Statuses
<1> QED
  BY <1>1, PTL

\* The steps of a goroutine are those of its vertex, or are not seen.
LEMMA WalkSteps ==
  ASSUME MaxUpdate = 1, Static, Static', NEW j \in Inst, WalkVertex(j)
  PROVE  Walk!Step(j[1]) \/ UNCHANGED Walk!vars
<1> USE DEF walkerVars, diagVars, infoVars, updateVars, walkVars, waitVars
<1> DEFINE v == j[1]
<1>1. /\ v \in Vertex /\ j = <<v, 1>> /\ TypeOK /\ BirthInv /\ Decided(j)
      /\ cancelled = {} /\ StaticInv
  BY Instances DEF Update, Static, IInv, StaticInv, DecidedInv
<1>2. pc[j] # "none" /\ UNCHANGED <<updates, given, waited>>
  BY DEF WalkVertex, SeeCancel, ReceiveDeps, SeeUpdate, LoadDeps, StartVisit, StartSkip,
     EndVisit, EndSkip, Finish
<1>3. updates = 1 /\ v \in given[1].vertices
  <2>1. 1 \in Update /\ pc[<<v, 1>>] # "none"
    BY <1>1, <1>2 DEF Update
  <2>2. 1 <= updates /\ v \in given[1].vertices
    BY <1>1, <2>1 DEF BirthInv
  <2> QED
    BY <1>1, <2>2 DEF TypeOK, Update
<1>4. Status(v) /\ Status(v)'
  BY <1>1, StatusKnown, StatusesNext DEF Statuses
<1>5. \A x \in Vertex : x # v => StatusOf(x)' = StatusOf(x)
  BY StatusOfOthers
<1>6. ASSUME NEW to, StatusOf(v)' = to
      PROVE  [x \in Vertex |-> StatusOf(x)]'
               = [[x \in Vertex |-> StatusOf(x)] EXCEPT ![v] = to]
  BY <1>1, <1>5, <1>6
<1>7. ASSUME NEW from, NEW to, StatusOf(v) = from, StatusOf(v)' = to
      PROVE  Walk!Become(v, from, to)
  BY <1>1, <1>2, <1>3, <1>6, <1>7 DEF Walk!Become
<1>8. CASE ReceiveDeps(j) \/ SeeUpdate(j) \/ StartSkip(j) \/ Finish(j)
  <2>1. StatusOf(v)' = StatusOf(v)
    BY <1>1, <1>8 DEF ReceiveDeps, SeeUpdate, StartSkip, Finish, LoadDeps, TypeOK, StatusOf
  <2>2. [x \in Vertex |-> StatusOf(x)]' = [x \in Vertex |-> StatusOf(x)]
    BY <1>5, <2>1
  <2> QED
    BY <1>2, <2>2 DEF Walk!vars
<1>9. ASSUME NEW x \in Walk!DependsOn(v), Settled(v, 1)
      PROVE  /\ x \in Vertex /\ <<v, x>> \in given[1].edges
             /\ StatusOf(x) \in Walk!Settled
             /\ StatusOf(x) = "ok" <=> ~Failed(x)
  <2>1. x \in Vertex /\ <<v, x>> \in given[1].edges
    BY <1>3, <1>9, DependsOnEdges
  <2>2. Ended(x)
    BY <1>9, <2>1 DEF Settled
  <2> QED
    BY <2>1, <2>2, EndedStatus DEF Walk!Settled
<1>10. CASE StartVisit(j)
  <2>1. Cleared(v, 1)
    BY <1>1, <1>3, <1>10 DEF StartVisit, Decided
  <2>2. \A x \in Walk!DependsOn(v) : [y \in Vertex |-> StatusOf(y)][x] = "ok"
    BY <1>9, <2>1 DEF Cleared
  <2>3. StatusOf(v) = "waiting" /\ StatusOf(v)' = "running"
    <3>1. pc[<<v, 1>>] = "check" /\ pc'[<<v, 1>>] = "visit"
      <4>1. pc[j] = "check" /\ pc' = [pc EXCEPT ![j] = "visit"]
        BY <1>10 DEF StartVisit
      <4>2. j \in DOMAIN pc
        BY <1>1 DEF TypeOK
      <4> QED
        BY <1>1, <4>1, <4>2
    <3> QED
      BY <1>4, <3>1 DEF Status
  <2> QED
    BY <1>7, <2>2, <2>3 DEF Walk!Run, Walk!Step
<1>11. CASE EndVisit(j)
  <2>1. pc[<<v, 1>>] = "visit" /\ StatusOf(v) = "running"
    BY <1>1, <1>4, <1>11 DEF EndVisit, Status
  <2>2. StatusOf(v)' = diagsMap'[v]
    BY <1>1, <1>11, <2>1 DEF EndVisit, StatusOf, TypeOK
  <2>3. diagsMap'[v] = "ok" \/ (v \in MayFail /\ diagsMap'[v] = "error")
    BY <1>1, <1>11 DEF EndVisit, TypeOK
  <2> QED
    BY <1>7, <2>1, <2>2, <2>3 DEF Walk!Return, Walk!Step
<1>12. CASE EndSkip(j)
  <2>1. Blocked(v, 1)
    BY <1>1, <1>3, <1>12 DEF EndSkip, Decided
  <2>2. \A x \in Walk!DependsOn(v) : [y \in Vertex |-> StatusOf(y)][x] \in Walk!Settled
    BY <1>9, <2>1 DEF Blocked
  <2>3. \E x \in Walk!DependsOn(v) : [y \in Vertex |-> StatusOf(y)][x] # "ok"
    <3>1. PICK x \in Vertex : <<v, x>> \in given[1].edges /\ Failed(x)
      BY <2>1 DEF Blocked
    <3>2. x \in Walk!DependsOn(v)
      BY <1>3, <3>1, DependsOnEdges
    <3> QED
      BY <1>9, <2>1, <3>1, <3>2 DEF Blocked
  <2>4. StatusOf(v) = "waiting" /\ StatusOf(v)' = "skipped"
    <3>1. pc[<<v, 1>>] = "skip" /\ pc'[<<v, 1>>] = "close" /\ v \in upstreamFailed'
      BY <1>1, <1>12 DEF EndSkip, TypeOK
    <3>2. StatusOf(v) = "waiting" /\ <<v, 1>> \notin visited
      BY <1>1, <1>4, <3>1 DEF Status, StaticInv, Recorded
    <3> QED
      BY <1>12, <3>1, <3>2 DEF EndSkip, StatusOf
  <2> QED
    BY <1>7, <2>2, <2>3, <2>4 DEF Walk!Skip, Walk!Step
<1>13. ~SeeCancel(j)
  BY <1>1 DEF SeeCancel
<1> QED
  BY <1>8, <1>10, <1>11, <1>12, <1>13 DEF WalkVertex

\* A walk that Update populates once starts, ends and skips every vertex when
\* a GraphWalk may (AcyclicGraph.Walk: the safety part of ImplementsGraphWalk).
THEOREM ImplementsWalk ==
  ASSUME MaxUpdate = 1
  PROVE  Spec => Walk!Spec
<1> USE DEF walkerVars, diagVars, infoVars, updateVars, walkVars, waitVars
<1>1. Init => Walk!Init
  BY DEF Init, Walk!Init, NoGraph, StatusOf
<1>2. Static /\ Static' /\ [Next]_vars => [Walk!Next]_(Walk!vars)
  <2> SUFFICES ASSUME Static, Static', [Next]_vars
               PROVE  Walk!Next \/ UNCHANGED Walk!vars
    BY DEF Walk!vars
  <2>1. TypeOK /\ StaticInv /\ BirthInv /\ CopyInv /\ Statuses
    BY StatusKnown DEF Static, IInv, Statuses
  <2>2. ASSUME NEW g \in Graph, BeginUpdate(g)
        PROVE  Walk!Next
    <3>1. updates = 0 /\ updates' = 1 /\ given'[1] = g /\ ~waited
      <4>1. /\ updates \in Nat /\ updates + 1 \in Update /\ updates' = updates + 1
            /\ given'[updates + 1] = g
        BY <2>1, <2>2, BeginGiven
      <4>2. updates = 0
        BY <4>1 DEF Update
      <4>3. ~waited
        BY <2>2, Begins
      <4> QED
        BY <4>1, <4>2, <4>3
    <3>2. UNCHANGED <<visited, upstreamFailed, diagsMap, waited>>
      BY <2>2 DEF BeginUpdate
    <3>3. 1 \in Update /\ ~(1 <= updates) /\ \A x \in Vertex : <<x, 1>> \in Inst
      BY <3>1 DEF Inst, Update
    <3>4. ASSUME NEW x \in Vertex
          PROVE  <<x, 1>> \notin visited
      <4>1. pc[<<x, 1>>] = "none"
        BY <2>1, <3>3 DEF BirthInv
      <4>2. Recorded(<<x, 1>>)
        BY <2>1, <3>3 DEF StaticInv
      <4> QED
        BY <4>1, <4>2 DEF Recorded
    <3>5. \A x \in Vertex : StatusOf(x)' = StatusOf(x)
      BY <3>2, <3>4 DEF StatusOf
    <3>6. Walk!Populate(g)
      BY <3>1, <3>2, <3>5 DEF Walk!Populate, NoGraph
    <3> QED
      BY <3>6 DEF Walk!Next
  <2>3. ASSUME NEW j \in Inst, WalkVertex(j)
        PROVE  Walk!Next \/ UNCHANGED Walk!vars
    <3>1. j[1] \in Vertex
      BY DEF Inst
    <3> QED
      BY <2>3, <3>1, WalkSteps DEF Walk!Next
  <2>4. CASE Wait
    <3>1. /\ updates > 0 /\ ~waited /\ waited' /\ ~Updating
          /\ \A i \in Inst : pc[i] \in {"none", "finished"}
          /\ UNCHANGED <<updates, given, visited, pc, diagsMap, upstreamFailed>>
      BY <2>4 DEF Wait
    <3>2. updates = 1
      BY <2>1, <3>1 DEF TypeOK, Update
    <3>3. \A x \in Vertex : StatusOf(x)' = StatusOf(x)
      BY <3>1 DEF StatusOf
    <3>4. ASSUME NEW x \in given[1].vertices
          PROVE  x \in Vertex /\ StatusOf(x) \in Walk!Settled
      <4>1. x \in vertices /\ x \in Vertex
        BY <2>1, <3>2 DEF CopyInv, Latest, TypeOK
      <4>2. vertexMap[x] = 1
        BY <2>1, <3>2, <4>1 DEF CopyInv
      <4>3. pc[<<x, 1>>] = "finished"
        BY <2>1, <3>1, <4>1, <4>2 DEF BirthInv, InstOf, Inst, Update
      <4> QED
        BY <2>1, <4>1, <4>3 DEF Statuses, Status, Walk!Settled, TypeOK
    <3>5. Walk!End
      BY <3>1, <3>2, <3>3, <3>4 DEF Walk!End
    <3> QED
      BY <3>5 DEF Walk!Next
  <2>5. CASE UNCHANGED <<updates, given, visited, diagsMap, upstreamFailed, waited>>
             /\ \A i \in Inst : (pc'[i] = "visit" <=> pc[i] = "visit")
    <3>1. \A x \in Vertex : StatusOf(x)' = StatusOf(x)
      BY <2>1, <2>5 DEF StatusOf, Inst, TypeOK
    <3> QED
      BY <2>5, <3>1 DEF Walk!vars
  <2>6. CASE \E x \in Vertex : Rewire(x)
    BY <2>5, <2>6 DEF Rewire
  <2>7. CASE Launch
    BY <2>1, <2>5, <2>7 DEF Launch, TypeOK
  <2>8. CASE (\E i \in Inst : Cancel(i))
             \/ \E w \in Inst \X Update : WaitDeps(w) \/ WaitDepsCancelled(w)
    BY <2>5, <2>8 DEF Cancel, WaitDeps, WaitDepsCancelled, WaitSend
  <2>9. CASE UNCHANGED vars
    BY <2>5, <2>9 DEF vars
  <2> QED
    BY <2>2, <2>3, <2>4, <2>6, <2>7, <2>8, <2>9 DEF Next
<1> QED
  BY <1>1, <1>2, StaticAlways, PTL DEF Spec, Walk!Spec

=============================================================================
