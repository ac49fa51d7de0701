SPECIFICATION FairSpec
CONSTANTS
    p1 = p1
    p2 = p2
    a = a
    b = b
    i1 = i1
    i2 = i2
    i3 = i3
    Proc = {p1, p2}
    LockFree = {}
    State = {a}
    Inode = {i1, i2, i3}
    Nil = Nil
    Torn = Torn
    FileExists = FALSE
    BackupOn = TRUE
    IOMayFail = TRUE
    Reuse = TRUE
    Metas = {}
    MaxSession = 2
    MaxWrite = 0
PROPERTIES LockReturns LockReleased
CHECK_DEADLOCK FALSE
