SPECIFICATION FairSpec
CONSTANTS
    r1 = r1
    r2 = r2
    t1 = t1
    Turns = {t1}
    Configs <- AllConfigs
    MaxCalls = 2
    MaxExits = 1
    MaxMuted = 1
INVARIANT TypeOK
INVARIANT RunsOnlyApproved
INVARIANT TrailIsTrue
PROPERTY TurnEnds
\* Turns that have ended leave nothing to do.
CHECK_DEADLOCK FALSE
