\* Three senders, two webhooks, cooldowns shorter and longer than the interval.  No
\* symmetry: a liveness property is checked.
SPECIFICATION FairSpec
CONSTANTS
    Caller = {c1, c2, c3}
    Url = {u1, u2}
    NoUrl = NoUrl
    MinInterval = 2
    Cooldowns <- ShortAndLong
INVARIANTS
    TypeOK
    OneAtATime
    OneCopyPerSend
PROPERTIES
    MinIntervalKept
    ImplementsSend
    SendReturns
