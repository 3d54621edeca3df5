SPECIFICATION Spec
CONSTANTS
    MaxCalls = 2
    MaxPings = 0
    MaxInFlight = 2
    Body = 2
    MaxStreams = 1
    None = None
INVARIANT ErrorsKeepTheConnection
CHECK_DEADLOCK FALSE
