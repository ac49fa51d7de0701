------------------------------ MODULE ApplyGraph ------------------------------
(***************************************************************************)
(* The order in which the nodes of an apply run: the part of the apply     *)
(* graph builder that concerns managed resources (DiffTransformer,         *)
(* ReferenceTransformer, ForcedCBDTransformer, DestroyEdgeTransformer,     *)
(* CBDEdgeTransformer).  An edge goes from a node to one it waits for.     *)
(***************************************************************************)
EXTENDS Integers

CONSTANTS
    Inst,       \* the resource instances, one per resource
    Key,        \* the deposed keys
    Nil         \* no object

NotDeposed == 0

ASSUME KeyAssumption == NotDeposed \notin Key

Action == {"NoOp", "Create", "Update", "CreateThenDelete", "DeleteThenCreate",
           "Delete"}
Replace == {"CreateThenDelete", "DeleteThenCreate"}

\* The resources a configuration declares, the references between them, and
\* those with create_before_destroy.
IsConfig(c) ==
    /\ c.present \subseteq Inst
    /\ c.refs \subseteq c.present \X c.present
    /\ c.cbd \subseteq c.present

Refs(c, i) == {j \in Inst : <<i, j>> \in c.refs}

\* What i refers to, directly or through others (AttachDependencies).
Dependencies(c, i) ==
    {j \in Inst : \A S \in SUBSET Inst :
        (\A k \in S \cup {i} : Refs(c, k) \subseteq S) => j \in S}

\* create_before_destroy, set or forced on by a resource that depends on i.
CreateBeforeDestroy(c, i) ==
    \E j \in c.cbd : j = i \/ i \in Dependencies(c, j)

\* A node: what it does, the instance, the key of the object it destroys.
Node == ({"apply", "destroy"} \X Inst \X {NotDeposed})
        \cup ({"deposed"} \X Inst \X Key)

Kind(n) == n[1]
Addr(n) == n[2]

\* The nodes for the planned changes, where key[i] is the key allocated to
\* the object a create-before-destroy replacement of i deposes, and for the
\* objects that are deposed already.
Nodes(change, key, deposed) ==
    {n \in Node : LET i == Addr(n) IN
        CASE Kind(n) = "apply"   -> change[i] \in {"Create", "Update"} \cup Replace
          [] Kind(n) = "destroy" -> change[i] \in {"Delete", "DeleteThenCreate"}
          [] Kind(n) = "deposed" -> \/ deposed[i][n[3]] # Nil
                                    \/ change[i] = "CreateThenDelete" /\ n[3] = key[i]}

\* The dependencies a node takes from the state: those of the current object,
\* for a deposed one as well.
StateDependencies(c, current, n) ==
    IF current[Addr(n)] # Nil THEN current[Addr(n)].deps
    ELSE IF Kind(n) = "apply" THEN Dependencies(c, Addr(n)) ELSE {}

\* Mutant: resources are not connected with what they refer to.
NoReferences(c, nodes) == {}

\* A reference reaches through resources without a change, but never to the
\* destruction of what is referred to.
References(c, nodes) ==
    {e \in nodes \X nodes : Kind(e[1]) = "apply" /\ Kind(e[2]) = "apply"
                             /\ Addr(e[2]) \in Dependencies(c, Addr(e[1]))}

DestroyEdges(c, current, nodes) ==
    {e \in nodes \X nodes :
        \/ /\ Kind(e[1]) = "apply" /\ Kind(e[2]) # "apply"
           /\ \/ Addr(e[1]) = Addr(e[2])
              \/ Addr(e[2]) \in StateDependencies(c, current, e[1])
        \/ Kind(e[2]) # "apply" /\ Addr(e[1]) \in StateDependencies(c, current, e[2])}

DestroysCBD(current, n) ==
    Kind(n) = "deposed" \/ (Kind(n) = "destroy" /\ current[Addr(n)].cbd)

\* Mutant: only the edge of a node's own creator is reversed.
OwnCBDEdges(current, edges) ==
    LET own == {e \in edges : /\ Kind(e[1]) = "apply" /\ DestroysCBD(current, e[2])
                              /\ Addr(e[1]) = Addr(e[2])}
    IN  (edges \ own) \cup {<<e[2], e[1]>> : e \in own}

\* The edges from a creator to a create-before-destroy destroyer turn round.
CBDEdges(current, edges) ==
    LET reversed == {e \in edges : Kind(e[1]) = "apply" /\ DestroysCBD(current, e[2])}
    IN  (edges \ reversed) \cup {<<e[2], e[1]>> : e \in reversed}

Edges(c, current, nodes) ==
    CBDEdges(current, References(c, nodes)
                      \cup DestroyEdges(c, current, nodes))

\* Some nodes all wait for one another (Graph.Validate).
Cyclic(edges) ==
    LET Waiting == {e[1] : e \in edges}
    IN  \E S \in (SUBSET Waiting) \ {{}} : \A n \in S : \E m \in S : <<n, m>> \in edges
=============================================================================
