\* One message, edited once, on one route, files of up to two entries, two starts.  A process that
\* is down at its last start stays down.
SPECIFICATION LifecycleFairSpec
CONSTANTS
    Msg = {m1}
    NumRoutes = 2
    MaxAttempts = 2
    MaxEdits = 1
    Sweeper = Sweeper
    Matches <- OnFirstRoute
    Admits <- AdmitAll
    Blank <- NoneBlank
    Configs <- AnyConfig
    MaxPending = 1
    SweepLimit = 1
    MaxFaults = 0
    Name <- Route
    NoName = 0
    Var = {v1}
    NoVar = NoVar
    Files <- UpToTwoEntries
    Envs <- EveryUrl
    MaxStarts = 2
CHECK_DEADLOCK FALSE
INVARIANTS
    LifecycleTypeOK
    StopsCostOneAttempt
PROPERTIES
    LoadedAsWritten
    Stops
    ImplementsRelay
