\* One message edited twice, two routes of which one excludes the original text, an edit
\* that leaves nothing to send, one fault, under fairness.
SPECIFICATION FairSpec
CONSTANTS
    Msg = {m1}
    NumRoutes = 2
    MaxAttempts = 2
    MaxEdits = 2
    Sweeper = Sweeper
    Matches <- EveryRoute
    Admits <- AdmitEdited
    Blank <- LastBlank
    Configs <- AllForward
    MaxPending = 1
    SweepLimit = 2
    MaxFaults = 1
INVARIANTS
    FilteredNeverSent
    Grounded
PROPERTIES
    ReplayChangesNothing
    RememberedDeleteApplied
    QueuedSettles
