\* One message, two routes, one fault at any point: interleavings of the fan-out
\* with the sweeper, lost answers, failing statements, restarts with another config.
SPECIFICATION Spec
CONSTANTS
    Msg = {m1}
    NumRoutes = 2
    MaxAttempts = 2
    MaxEdits = 0
    Sweeper = Sweeper
    Matches <- EveryRoute
    Admits <- AdmitAll
    Blank <- NoneBlank
    Configs <- LastVaries
    MaxPending = 1
    SweepLimit = 2
    MaxFaults = 1
INVARIANTS
    TypeOK
    ArchiveBeforeForward
    DeliveredMeansCopied
    CopiesAccounted
    AttemptsBounded
    FanOutOnce
PROPERTIES
    FailedIsEarned
    
    UnroutedLeftAlone
    ImplementsRelay
