SPECIFICATION FairSpec
CONSTANTS
    p1 = p1
    p2 = p2
    e1 = e1
    e2 = e2
    Procs = {p1, p2}
    Events = {e1, e2}
    Altered = Altered
    Threshold = 0
    MaxErrors = 2
    MaxDeaths = 1
    MaxStrays = 1
INVARIANT TypeOK
INVARIANT Linked
INVARIANT RecordedExactlyOnce
PROPERTY WatchIsTrue
\* Replicas that are up only probe when every event is recorded.
CHECK_DEADLOCK FALSE
