SPECIFICATION Spec
CONSTANTS
    MaxCalls = 3
    MaxReplies = 2
    SeqMod = 3
    None = None
INVARIANTS
    OwnReply
    PooledIsClean
PROPERTIES
    CallsEnd
    KeepsContract
CHECK_DEADLOCK FALSE
