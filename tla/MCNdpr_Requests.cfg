SPECIFICATION FairSpec
CONSTANTS
    t1 = t1
    t2 = t2
    s1 = s1
    r1 = r1
    r2 = r2
    home = home
    work = work
    Ticks = {t1, t2}
    Sweeps = {s1}
    Reqs = {r1, r2}
    Addresses = {home, work}
    Home = home
    MaxOps = 2
    MaxFaults = 1
INVARIANT TypeOK
INVARIANT RecordIsTrue
PROPERTY WipedIsSuppressed
PROPERTY ErasureFinishes
\* The user has no further requests.
CHECK_DEADLOCK FALSE
