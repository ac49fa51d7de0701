SPECIFICATION Spec
CONSTANTS
    p1 = p1
    p2 = p2
    small = small
    large = large
    Proc = {p1, p2}
    State = {small, large}
    Empty = small
    Large = {large}
    Chunk = 2
    Nil = Nil
    Unread = Unread
    MaxCalls = 3
    Setups <- MCSetups
    Files <- MCFiles
INVARIANTS TypeOK ChunksIntact PersistedIsWritten
PROPERTIES SerialGrows ImplementsSnapshotStore
CHECK_DEADLOCK FALSE
