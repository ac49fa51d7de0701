\* AcyclicGraph.Walk: one Update, then Wait; any callback may fail.
CONSTANTS
    Vertex = {1, 2, 3, 4}
    Graph <- AllGraphs
    MayFail = {1, 2, 3, 4}
    MaxUpdate = 1
SPECIFICATION FairSpec
PROPERTY ImplementsGraphWalk
CHECK_DEADLOCK FALSE
