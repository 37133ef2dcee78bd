\* Three messages of an archive-only channel, two remembered deletes at most, one fault.
SPECIFICATION Spec
CONSTANTS
    Msg = {m1, m2, m3}
    NumRoutes = 1
    MaxAttempts = 1
    MaxEdits = 0
    Sweeper = Sweeper
    Matches <- EveryRoute
    Admits <- AdmitAll
    Blank <- NoneBlank
    Configs <- AllArchive
    MaxPending = 2
    SweepLimit = 1
    MaxFaults = 1
INVARIANT
    PendingBounded
PROPERTY
    RememberedKept
