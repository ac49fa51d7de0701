------------------------------ MODULE MCWalker ------------------------------
EXTENDS Walker, FiniteSets

\* Every acyclic graph on Vertex, up to the names of its vertices: an edge goes
\* from a higher to a lower number.
AllGraphs == {[vertices |-> Vertex, edges |-> E] :
                E \in SUBSET {e \in Vertex \X Vertex : e[1] > e[2]}}

\* The same on the subsets of Vertex with two elements or more.
AllSubgraphs == {g \in Graphs : Cardinality(g.vertices) > 1 /\ \A e \in g.edges :
                    e[1] \in g.vertices /\ e[2] \in g.vertices /\ e[1] > e[2]}
=============================================================================
