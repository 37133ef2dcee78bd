\* One message, three routes of which two may vanish or meet a broken webhook, at most two
\* rows in a sweep, two faults.
SPECIFICATION FairSpec
CONSTANTS
    Msg = {m1}
    NumRoutes = 3
    MaxAttempts = 2
    MaxEdits = 0
    Configs <- OthersVary
    SweepLimit = 2
    MaxFaults = 2
INVARIANT
    TypeOK
PROPERTIES
    NoOvertaking
    TurnComes
