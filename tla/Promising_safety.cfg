\* Three tasks may wait for each other in a circle of three promises.
CONSTANTS
    t1 = t1
    t2 = t2
    t3 = t3
    p1 = p1
    p2 = p2
    p3 = p3
    o1 = o1
    Task = {t1, t2, t3}
    Promise = {p1, p2, p3}
    Once = {}
    Main = t1
    NoTask = NoTask
    NoPromise = NoPromise
    MaxGet = 3
SPECIFICATION Spec
INVARIANTS TypeOK NoDeadlock WokenWithResult SmallCycleFailsAsOne
PROPERTIES ResolvedOnce FirstAlarmIsReal
SYMMETRY Symmetry
CHECK_DEADLOCK FALSE
