--------------------------- MODULE MCResourceApply ---------------------------
(* Instances of ResourceApply for TLC.                                     *)
EXTENDS ResourceApply

Configs(P, R) == [present : {P}, refs : {R}, cbd : SUBSET P]

\* Two resources, the second refers to the first; the reference is the other
\* way round; it is not there; one or both resources are not there.
Pair == Configs({1, 2}, {<<2, 1>>})
Turned == Configs({1, 2}, {<<1, 2>>})
Others == Configs({1, 2}, {}) \cup Configs({1}, {}) \cup Configs({}, {})

\* Three resources in a chain, and without the one in the middle.
Chain == Configs({1, 2, 3}, {<<2, 1>>, <<3, 2>>})
Ends == Configs({1, 3}, {}) \cup Configs({1, 3}, {<<3, 1>>})

\* The references stay, come, go or turn round, and so do the resources.
MCSetups == [before : Pair, config : Pair] \cup [before : Pair, config : Others]
            \cup [before : Others, config : Pair]
            \cup [before : Pair, config : Turned]
            \cup [before : Chain, config : Chain \cup Ends]

\* Two runs with two resources, unless their nodes do not wait for one another.
MCRuns(c) == IF 3 \in c.present \/ c \in Configs({1, 2}, {}) THEN 1 ELSE 2
=============================================================================
