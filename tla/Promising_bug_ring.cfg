\* Four tasks wait for one another in a ring.
CONSTANTS
    t1 = t1
    t2 = t2
    t3 = t3
    p1 = p1
    p2 = p2
    p3 = p3
    o1 = o1
    Task = {1, 2, 3, 4}
    Promise = {1, 2, 3, 4}
    Once = {}
    Main = 1
    NoTask = NoTask
    NoPromise = NoPromise
    MaxGet = 4
SPECIFICATION RingSpec
INVARIANT CycleFailsAsOne
CHECK_DEADLOCK FALSE
