------------------------------- MODULE Walker -------------------------------
(***************************************************************************)
(* The parallel graph walk of package dag: Update diffs a graph against    *)
(* what the walker knows and starts goroutines, walkVertex runs one vertex *)
(* after its dependencies, waitDeps waits for the dependencies, and Wait   *)
(* collects the diagnostics.                                               *)
(*                                                                         *)
(* A vertex that is added again after it was removed gets a new            *)
(* walkerVertex, so goroutines and channels belong to instances <<v, u>>:  *)
(* the walkerVertex that the u-th Update made for v.  In the same way the  *)
(* u-th Update starts at most one waitDeps goroutine for an instance.      *)
(***************************************************************************)
EXTENDS Integers

CONSTANTS
    Vertex,
    Graph,      \* the graphs Update is called with
    MayFail,    \* the vertices whose callback may return an error
    MaxUpdate   \* bound: calls of Update

\* A graph, its edges as <<waiter, dependency>> (edgeParts).
Graphs == [vertices : SUBSET Vertex, edges : SUBSET (Vertex \X Vertex)]

NoGraph == [vertices |-> {}, edges |-> {}]

ASSUME GraphAssumption == /\ Graph \subseteq Graphs
                          /\ \A g \in Graph : g.edges \subseteq g.vertices \X g.vertices
ASSUME WalkAssumption  == MayFail \subseteq Vertex /\ MaxUpdate \in Nat

Update == 1..MaxUpdate
Inst   == Vertex \X Update

\* The channels walkVertex may be receiving from: the closed channel it makes
\* for itself, none, or the one of the waiter that Update u has started.
Initial == -1
NoChan  == 0

-----------------------------------------------------------------------------
VARIABLES
    \* fields of Walker
    vertices, edges, vertexMap, diagsMap, upstreamFailed,
    \* fields of each walkerVertex
    deps, cancelled, done, depsCh, depsUpdateCh,
    \* Update: the calls and the graphs given to them, and of the one in
    \* progress the vertices to cancel and the waiters to replace
    updates, given, removing, changedDeps,
    \* the walkVertex goroutine of each instance
    pc, localCh, localUpdateCh, depsSuccess, visited,
    \* the waitDeps goroutines: what each waits for, whether it was cancelled,
    \* what it has sent
    waitFor, waitCancelled, sent,
    \* Wait has returned
    waited

walkerVars == <<vertices, edges, vertexMap>>
diagVars   == <<diagsMap, upstreamFailed>>
infoVars   == <<deps, cancelled, done, depsCh, depsUpdateCh>>
updateVars == <<updates, given, removing, changedDeps>>
walkVars   == <<pc, localCh, localUpdateCh, depsSuccess, visited>>
waitVars   == <<waitFor, waitCancelled, sent>>
vars == <<walkerVars, diagVars, infoVars, updateVars, walkVars, waitVars, waited>>

TypeOK ==
    /\ vertices \subseteq Vertex /\ edges \subseteq Vertex \X Vertex
    /\ vertexMap \in [Vertex -> Update \cup {0}]
    /\ diagsMap \in [Vertex -> {"none", "ok", "error"}]
    /\ upstreamFailed \subseteq Vertex
    /\ deps \in [Inst -> SUBSET Inst]
    /\ cancelled \subseteq Inst /\ done \subseteq Inst
    /\ depsCh \in [Inst -> Update \cup {NoChan}]
    /\ depsUpdateCh \in [Inst -> Update \cup {NoChan}]
    /\ updates \in Update \cup {0}
    /\ given \in [Update -> Graphs]
    /\ removing \subseteq Inst /\ changedDeps \subseteq Vertex
    /\ waited \in BOOLEAN
    /\ pc \in [Inst -> {"none", "created", "select", "check", "visit", "skip",
                        "close", "finished"}]
    /\ localCh \in [Inst -> Update \cup {NoChan, Initial}]
    /\ localUpdateCh \in [Inst -> Update \cup {NoChan}]
    /\ depsSuccess \in [Inst -> BOOLEAN]
    /\ visited \subseteq Inst
    /\ waitFor \in [Inst \X Update -> SUBSET Inst]
    /\ waitCancelled \subseteq Inst \X Update
    /\ sent \in [Inst \X Update -> {"idle", "waiting", "success", "failure"}]

Init ==
    /\ vertices = {} /\ edges = {} /\ vertexMap = [v \in Vertex |-> 0]
    /\ diagsMap = [v \in Vertex |-> "none"] /\ upstreamFailed = {}
    /\ deps = [i \in Inst |-> {}] /\ cancelled = {} /\ done = {}
    /\ depsCh = [i \in Inst |-> NoChan] /\ depsUpdateCh = [i \in Inst |-> NoChan]
    /\ updates = 0 /\ removing = {} /\ changedDeps = {}
    /\ given = [u \in Update |-> NoGraph]
    /\ pc = [i \in Inst |-> "none"] /\ localCh = [i \in Inst |-> Initial]
    /\ localUpdateCh = [i \in Inst |-> NoChan]
    /\ depsSuccess = [i \in Inst |-> FALSE] /\ visited = {}
    /\ waitFor = [w \in Inst \X Update |-> {}] /\ waitCancelled = {}
    /\ sent = [w \in Inst \X Update |-> "idle"]
    /\ waited = FALSE

-----------------------------------------------------------------------------
(* Update                                                                  *)

\* A call of Update is between taking and releasing changeLock.
Updating == removing # {} \/ changedDeps # {} \/ \E i \in Inst : pc[i] = "created"

InstOf(map, v) == <<v, map[v]>>

\* Mutant: the vertex is deleted from the map before its info is looked up.
InfoToCancelAfterDelete(v) == InstOf(vertexMap', v)

\* The walkerVertex whose CancelCh Update closes.
InfoToCancel(v) == InstOf(vertexMap, v)

\* The first part of Update: the difference of the graphs.  No goroutine reads
\* what it writes.
BeginUpdate(g) ==
    LET u        == updates + 1
        newVerts == g.vertices \ vertices
        oldVerts == {v \in vertices \ g.vertices : vertexMap[v] # 0}
        map      == [v \in Vertex |-> IF v \in newVerts THEN u
                                      ELSE IF v \in oldVerts THEN 0
                                      ELSE vertexMap[v]]
        newEdges == {e \in g.edges \ edges : map[e[1]] # 0 /\ map[e[2]] # 0}
        oldEdges == {e \in edges \ g.edges : map[e[1]] # 0}
    IN
    /\ ~Updating /\ ~waited /\ u \in Update
    /\ updates' = u /\ given' = [given EXCEPT ![u] = g]
    /\ vertexMap' = map
    /\ vertices' = g.vertices
    /\ edges' = (edges \cup newEdges) \ oldEdges
    /\ removing' = {InfoToCancel(v) : v \in oldVerts}
    /\ deps' = [i \in Inst |->
         IF i = InstOf(map, i[1])
         THEN {d \in deps[i] : <<i[1], d[1]>> \notin oldEdges \cup newEdges}
              \cup {InstOf(map, e[2]) : e \in {x \in newEdges : x[1] = i[1]}}
         ELSE deps[i]]
    /\ changedDeps' = {e[1] : e \in newEdges \cup oldEdges}
    /\ pc' = [i \in Inst |-> IF i[1] \in newVerts /\ i[2] = u THEN "created" ELSE pc[i]]
    /\ UNCHANGED <<diagVars, cancelled, done, depsCh, depsUpdateCh, localCh,
                   localUpdateCh, depsSuccess, visited, waitVars, waited>>

\* One CancelCh is closed; the goroutines run on between two of them.
Cancel(i) ==
    /\ i \in removing
    /\ removing' = removing \ {i}
    /\ cancelled' = cancelled \cup {i}
    /\ UNCHANGED <<walkerVars, diagVars, deps, done, depsCh, depsUpdateCh, updates,
                   given, changedDeps, walkVars, waitVars, waited>>

\* One vertex with changed dependencies: a new channel, the old waiter is
\* cancelled, a new one is started.
Rewire(v) ==
    LET i == InstOf(vertexMap, v) IN
    /\ removing = {} /\ v \in changedDeps
    /\ changedDeps' = changedDeps \ {v}
    /\ depsCh' = [depsCh EXCEPT ![i] = updates]
    /\ depsUpdateCh' = [depsUpdateCh EXCEPT ![i] = updates]
    /\ waitCancelled' = waitCancelled \cup
         (IF depsUpdateCh[i] # NoChan THEN {<<i, depsUpdateCh[i]>>} ELSE {})
    /\ waitFor' = [waitFor EXCEPT ![<<i, updates>>] = deps[i]]
    /\ sent' = [sent EXCEPT ![<<i, updates>>] = "waiting"]
    /\ UNCHANGED <<walkerVars, diagVars, deps, cancelled, done, updates, given,
                   removing, walkVars, waited>>

\* The end of Update: start walkVertex for the new vertices.
Launch ==
    /\ removing = {} /\ changedDeps = {} /\ Updating
    /\ pc' = [i \in Inst |-> IF pc[i] = "created" THEN "select" ELSE pc[i]]
    /\ UNCHANGED <<walkerVars, diagVars, infoVars, updateVars, localCh,
                   localUpdateCh, depsSuccess, visited, waitVars, waited>>

-----------------------------------------------------------------------------
(* walkVertex                                                              *)

SeeCancel(i) ==
    /\ pc[i] \in {"select", "check"} /\ i \in cancelled
    /\ pc' = [pc EXCEPT ![i] = "close"]
    /\ UNCHANGED <<walkerVars, diagVars, infoVars, updateVars, localCh,
                   localUpdateCh, depsSuccess, visited, waitVars, waited>>

\* Mutant: a new channel is taken only when there is no old one.
NextChKept(i, ch) == IF ch # NoChan THEN ch ELSE depsCh[i]

\* The channel to receive from next: a new one, or the one at hand.
NextCh(i, ch) == IF depsCh[i] # NoChan THEN depsCh[i] ELSE ch

\* Load the channels that Update has set, under DepsLock; ch is the one the
\* goroutine is left with.  Without a channel the dependencies are done.
LoadDeps(i, ch) ==
    LET new == NextCh(i, ch) IN
    /\ localCh' = [localCh EXCEPT ![i] = new]
    /\ depsCh' = [depsCh EXCEPT ![i] = NoChan]
    /\ localUpdateCh' = [localUpdateCh EXCEPT ![i] = depsUpdateCh[i]]
    /\ pc' = [pc EXCEPT ![i] = IF new = NoChan THEN "check" ELSE "select"]
    /\ UNCHANGED <<walkerVars, diagVars, deps, cancelled, done, depsUpdateCh,
                   updateVars, visited, waitVars, waited>>

ReceiveDeps(i) ==
    /\ pc[i] = "select"
    /\ \/ localCh[i] = Initial
       \/ localCh[i] \in Update /\ sent[<<i, localCh[i]>>] \in {"success", "failure"}
    /\ depsSuccess' = [depsSuccess EXCEPT ![i] =
         localCh[i] = Initial \/ sent[<<i, localCh[i]>>] = "success"]
    /\ LoadDeps(i, NoChan)

SeeUpdate(i) ==
    /\ pc[i] = "select"
    /\ localUpdateCh[i] # NoChan /\ localUpdateCh[i] # depsUpdateCh[i]
    /\ UNCHANGED depsSuccess
    /\ LoadDeps(i, localCh[i])

\* The last look at CancelCh, then the callback or the note that an upstream
\* has failed.
StartVisit(i) ==
    /\ pc[i] = "check" /\ i \notin cancelled
    /\ depsSuccess[i]
    /\ pc' = [pc EXCEPT ![i] = "visit"]
    /\ visited' = visited \cup {i}
    /\ UNCHANGED <<walkerVars, diagVars, infoVars, updateVars, localCh,
                   localUpdateCh, depsSuccess, waitVars, waited>>

StartSkip(i) ==
    /\ pc[i] = "check" /\ i \notin cancelled
    /\ ~depsSuccess[i]
    /\ pc' = [pc EXCEPT ![i] = "skip"]
    /\ UNCHANGED <<walkerVars, diagVars, infoVars, updateVars, localCh,
                   localUpdateCh, depsSuccess, visited, waitVars, waited>>

EndVisit(i) ==
    /\ pc[i] = "visit"
    /\ \E d \in {"ok"} \cup (IF i[1] \in MayFail THEN {"error"} ELSE {}) :
          diagsMap' = [diagsMap EXCEPT ![i[1]] = d]
    /\ pc' = [pc EXCEPT ![i] = "close"]
    /\ UNCHANGED <<walkerVars, upstreamFailed, infoVars, updateVars, localCh,
                   localUpdateCh, depsSuccess, visited, waitVars, waited>>

EndSkip(i) ==
    /\ pc[i] = "skip"
    /\ diagsMap' = [diagsMap EXCEPT ![i[1]] = "error"]
    /\ upstreamFailed' = upstreamFailed \cup {i[1]}
    /\ pc' = [pc EXCEPT ![i] = "close"]
    /\ UNCHANGED <<walkerVars, infoVars, updateVars, localCh, localUpdateCh,
                   depsSuccess, visited, waitVars, waited>>

\* Mutant: DoneCh is closed only after the callback has run.
FinishVisited(i) ==
    /\ pc[i] = "close"
    /\ done' = IF i \in visited THEN done \cup {i} ELSE done
    /\ pc' = [pc EXCEPT ![i] = "finished"]
    /\ UNCHANGED <<walkerVars, diagVars, deps, cancelled, depsCh, depsUpdateCh,
                   updateVars, localCh, localUpdateCh, depsSuccess, visited,
                   waitVars, waited>>

\* The deferred calls: close(DoneCh), then wait.Done.
Finish(i) ==
    /\ pc[i] = "close"
    /\ done' = done \cup {i}
    /\ pc' = [pc EXCEPT ![i] = "finished"]
    /\ UNCHANGED <<walkerVars, diagVars, deps, cancelled, depsCh, depsUpdateCh,
                   updateVars, localCh, localUpdateCh, depsSuccess, visited,
                   waitVars, waited>>

-----------------------------------------------------------------------------
(* waitDeps and Wait                                                       *)

WaitSend(w, value) ==
    /\ sent' = [sent EXCEPT ![w] = value]
    /\ UNCHANGED <<walkerVars, diagVars, infoVars, updateVars, walkVars, waitFor,
                   waitCancelled, waited>>

\* Mutant: the wait is over with the first dependency that is done.
SatisfiedByOne(w) == waitFor[w] # {} => waitFor[w] \cap done # {}

Satisfied(w) == waitFor[w] \subseteq done

\* Mutant: a failure counts only when every dependency has failed.
ErroredAll(w) == waitFor[w] # {} /\ \A d \in waitFor[w] : diagsMap[d[1]] = "error"

Errored(w) == \E d \in waitFor[w] : diagsMap[d[1]] = "error"

WaitDeps(w) ==
    /\ sent[w] = "waiting" /\ Satisfied(w)
    /\ WaitSend(w, IF Errored(w) THEN "failure" ELSE "success")

WaitDepsCancelled(w) ==
    /\ sent[w] = "waiting" /\ w \in waitCancelled /\ waitFor[w] # {}
    /\ WaitSend(w, "failure")

\* The WaitGroup is at zero; the caller of Wait is done with Update.
Wait ==
    /\ ~waited /\ updates > 0 /\ ~Updating
    /\ \A i \in Inst : pc[i] \in {"none", "finished"}
    /\ waited' = TRUE
    /\ UNCHANGED <<walkerVars, diagVars, infoVars, updateVars, walkVars, waitVars>>

-----------------------------------------------------------------------------
WalkVertex(i) ==
    \/ SeeCancel(i) \/ ReceiveDeps(i) \/ SeeUpdate(i)
    \/ StartVisit(i) \/ StartSkip(i) \/ EndVisit(i) \/ EndSkip(i) \/ Finish(i)

Next ==
    \/ \E g \in Graph : BeginUpdate(g)
    \/ \E v \in Vertex : Rewire(v)
    \/ Launch
    \/ \E i \in Inst : Cancel(i) \/ WalkVertex(i)
    \/ \E w \in Inst \X Update : WaitDeps(w) \/ WaitDepsCancelled(w)
    \/ Wait

Spec == Init /\ [][Next]_vars

\* Goroutines are scheduled, callbacks return, and the caller calls Wait.
Fairness ==
    /\ \A v \in Vertex : WF_vars(Rewire(v))
    /\ WF_vars(Launch) /\ WF_vars(Wait)
    /\ \A i \in Inst : WF_vars(Cancel(i)) /\ WF_vars(WalkVertex(i))
    /\ \A w \in Inst \X Update : WF_vars(WaitDeps(w) \/ WaitDepsCancelled(w))

FairSpec == Spec /\ Fairness

-----------------------------------------------------------------------------
(* Properties                                                              *)

DepsIn(g, v) == {e[2] : e \in {x \in g.edges : x[1] = v}}

\* The result of d has been recorded and is an error.
Failed(d) == diagsMap[d] = "error"

\* A vertex is visited only after all that it depends on, in one of the graphs
\* given to Update (the channels a goroutine loads lag behind the graph), has
\* ended, and none of it with an error.
WaitsForItsDeps ==
    [][\A i \in Inst : StartVisit(i) =>
        \E u \in 1..updates :
           /\ i[1] \in given[u].vertices
           /\ \A d \in DepsIn(given[u], i[1]) :
                 ~Failed(d) /\ \E k \in Update : <<d, k>> \in done]_vars

\* A vertex is skipped only because one that it depends on has failed: the
\* FALSE of a waiter that Update has cancelled is never taken for a failure.
SkipsOnlyOnFailure ==
    [][\A i \in Inst : StartSkip(i) =>
        \E u \in 1..updates : \E d \in DepsIn(given[u], i[1]) : Failed(d)]_vars

\* With a single Update the walker is a GraphWalk: it starts, ends and skips
\* every vertex when GraphWalk allows it, and it does not stop halfway.
StatusOf(v) ==
    LET i == <<v, 1>> IN
    IF i \in visited THEN IF pc[i] = "visit" THEN "running" ELSE diagsMap[v]
    ELSE IF v \in upstreamFailed THEN "skipped" ELSE "waiting"

Walk == INSTANCE GraphWalk WITH
    graph  <- IF updates = 0 THEN NoGraph ELSE given[updates],
    status <- [v \in Vertex |-> StatusOf(v)],
    ended  <- waited

ImplementsGraphWalk == Walk!FairSpec

\* The walk ends: no set of vertices is left waiting for each other, whatever
\* Update changes while they wait.
WalkEnds == (updates > 0) ~> waited

=============================================================================
