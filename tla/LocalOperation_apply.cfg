\* Three nodes, two interrupts and a kill at any time.
SPECIFICATION FairSpec
CONSTANT
    Node = {1, 2, 3}
INVARIANTS TypeOK NothingForgotten 
PROPERTIES PersistsUnderLock StopEnds
CHECK_DEADLOCK FALSE
