SPECIFICATION FairSpec
CONSTANTS
    r1 = r1
    r2 = r2
    h1 = h1
    s1 = s1
    Requests = {r1, r2}
    Deliveries = {h1}
    Sweeps = {s1}
    Scenes <- DeathsAndLate
    SettledWord = "success"
    LegDisbursed = TRUE
    Overwrites = TRUE
    MaxTries = 3
INVARIANT TypeOK
INVARIANT MoneyBackOnce
INVARIANT RecordsAreTrue
PROPERTY RefundCompletes
\* Once the order is refunded nothing may be left to do.
CHECK_DEADLOCK FALSE
