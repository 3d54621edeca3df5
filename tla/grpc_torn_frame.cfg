SPECIFICATION Spec
CONSTANTS
    MaxCalls = 2
    MaxPings = 0
    MaxInFlight = 2
    Body = 2
    MaxStreams = 2
    None = None
INVARIANT ExpiredKeepsHttp2
CHECK_DEADLOCK FALSE
