\* One message, one route, one fault.
SPECIFICATION Spec
CONSTANTS
    Msg = {m1}
    NumRoutes = 1
    MaxAttempts = 2
    MaxEdits = 0
    Sweeper = Sweeper
    Matches <- EveryRoute
    Admits <- AdmitAll
    Blank <- NoneBlank
    Configs <- AllForward
    MaxPending = 1
    SweepLimit = 1
    MaxFaults = 1
INVARIANT StoredHasRows
