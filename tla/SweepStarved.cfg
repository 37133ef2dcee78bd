\* One message, two routes of which one may become archive-only, one row in a sweep.
SPECIFICATION FairSpec
CONSTANTS
    Msg = {m1}
    NumRoutes = 2
    MaxAttempts = 2
    MaxEdits = 0
    Configs <- OthersVanish
    SweepLimit = 1
    MaxFaults = 1
PROPERTY
    DueIsRetried
