\* Every getter returns; one promise may be that of a Once.
CONSTANTS
    t1 = t1
    t2 = t2
    t3 = t3
    p1 = p1
    p2 = p2
    p3 = p3
    o1 = o1
    Task = {t1, t2}
    Promise = {p1, p2}
    Once = {o1}
    Main = t1
    NoTask = NoTask
    NoPromise = NoPromise
    MaxGet = 3
SPECIFICATION FairSpec
PROPERTIES GetReturns SmallCycleFails
CHECK_DEADLOCK FALSE
