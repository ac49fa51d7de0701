\* Two calls of Update with any two graphs on at most three vertices.
CONSTANTS
    Vertex = {1, 2, 3}
    Graph <- AllSubgraphs
    MayFail = {1}
    MaxUpdate = 2
SPECIFICATION FairSpec
INVARIANTS TypeOK
PROPERTIES WaitsForItsDeps SkipsOnlyOnFailure WalkEnds
CHECK_DEADLOCK FALSE
