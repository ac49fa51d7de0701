\* A first snapshot is stored over an unreliable connection.
SPECIFICATION Spec
CONSTANTS
    p1 = p1
    p2 = p2
    small = small
    large = large
    Proc = {p1}
    State = {small, large}
    Empty = small
    Large = {large}
    Chunk = 2
    Nil = Nil
    Unread = Unread
    MaxCalls = 4
    Setups <- MCCreate
    Files <- MCFiles
INVARIANT PersistedIsWritten
CHECK_DEADLOCK FALSE
