\* No fault, no restart: one message, one route.
SPECIFICATION Spec
CONSTANTS
    Msg = {m1}
    NumRoutes = 1
    MaxAttempts = 2
    MaxEdits = 0
    Sweeper = Sweeper
    Matches <- EveryRoute
    Admits <- AdmitAll
    Blank <- NoneBlank
    Configs <- AllForward
    MaxPending = 1
    SweepLimit = 1
    MaxFaults = 0
INVARIANT SpentIsFailed
