----------------------------- MODULE GraphWalk -----------------------------
(***************************************************************************)
(* What AcyclicGraph.Walk promises of one graph: every vertex is run once, *)
(* after everything it depends on has run without an error, or is skipped  *)
(* because something it depends on has not; and the walk comes to an end.  *)
(***************************************************************************)
CONSTANTS Vertex, Graph, MayFail

VARIABLES
    graph,      \* the graph being walked, an empty one before the walk
    status,     \* what has become of each vertex
    ended       \* Wait has returned

vars == <<graph, status, ended>>

DependsOn(v) == {e[2] : e \in {x \in graph.edges : x[1] = v}}

Status  == {"waiting", "running", "ok", "error", "skipped"}
Settled == {"ok", "error", "skipped"}

TypeOK == /\ graph \in [vertices : SUBSET Vertex, edges : SUBSET (Vertex \X Vertex)]
          /\ status \in [Vertex -> Status]
          /\ ended \in BOOLEAN

Init == /\ graph = [vertices |-> {}, edges |-> {}]
        /\ status = [v \in Vertex |-> "waiting"]
        /\ ended = FALSE

Populate(g) ==
    /\ graph = [vertices |-> {}, edges |-> {}] /\ ~ended
    /\ graph' = g
    /\ UNCHANGED <<status, ended>>

Become(v, from, to) ==
    /\ v \in graph.vertices
    /\ status[v] = from
    /\ status' = [status EXCEPT ![v] = to]
    /\ UNCHANGED <<graph, ended>>

Run(v) == /\ \A d \in DependsOn(v) : status[d] = "ok"
          /\ Become(v, "waiting", "running")

Return(v) == Become(v, "running", "ok") \/ (v \in MayFail /\ Become(v, "running", "error"))

Skip(v) == /\ \A d \in DependsOn(v) : status[d] \in Settled
           /\ \E d \in DependsOn(v) : status[d] # "ok"
           /\ Become(v, "waiting", "skipped")

End == /\ ~ended
       /\ \A v \in graph.vertices : status[v] \in Settled
       /\ ended' = TRUE
       /\ UNCHANGED <<graph, status>>

Step(v) == Run(v) \/ Return(v) \/ Skip(v)

Next == \/ \E g \in Graph : Populate(g)
        \/ \E v \in Vertex : Step(v)
        \/ End

Spec == Init /\ [][Next]_vars

FairSpec == Spec /\ (\A v \in Vertex : WF_vars(Step(v)))
                 /\ WF_vars(graph.vertices # {} /\ End)

=============================================================================
