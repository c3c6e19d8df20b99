SPECIFICATION MfaFairSpec
CONSTANTS
    r1 = r1
    r2 = r2
    t1 = t1
    t2 = t2
    Reqs = {r1, r2}
    Ticks = {t1, t2}
    SheetSize = 2
    Low = 2
    MaxOps = 5
    MaxFaults = 1
INVARIANT MfaTypeOK
INVARIANT CodesAreChecked
INVARIANT OwnerIsTold
PROPERTY NudgesCome
\* The user has no further wishes.
CHECK_DEADLOCK FALSE
