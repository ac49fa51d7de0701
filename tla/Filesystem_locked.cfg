SPECIFICATION Spec
CONSTANTS
    p1 = p1
    p2 = p2
    a = a
    b = b
    i1 = i1
    i2 = i2
    i3 = i3
    Proc = {p1, p2}
    LockFree = {}
    State = {a, b}
    Inode = {i1, i2}
    Nil = Nil
    Torn = Torn
    FileExists = TRUE
    BackupOn = TRUE
    IOMayFail = TRUE
    Reuse = FALSE
    Metas <- MCMetas
    MaxSession = 1
    MaxWrite = 2
INVARIANTS TypeOK MutualExclusion HolderUsesPath NoLostUpdate BackedUpBeforeClobber
PROPERTIES SerialFollows WritePersists ImplementsStateStore
SYMMETRY Symmetry
CHECK_DEADLOCK FALSE
