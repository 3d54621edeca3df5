SPECIFICATION Spec
CONSTANTS
    MaxCalls = 2
    MaxPings = 1
    MaxInFlight = 2
    Body = 2
    MaxStreams = 1
    None = None
INVARIANTS
    OwnReply
    PooledIsClean
    OnlyAnsweredStreamsStayOpen
    WholeFrames
PROPERTIES
    FinishedSurvives
    CallsEnd
    KeepsContract
CHECK_DEADLOCK FALSE
