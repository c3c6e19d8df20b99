SPECIFICATION Spec
CONSTANTS
    p1 = p1
    p2 = p2
    e1 = e1
    e2 = e2
    Procs = {p1, p2}
    Events = {e1}
    Altered = Altered
    Threshold = 0
    MaxErrors = 0
    MaxDeaths = 0
    MaxStrays = 0
INVARIANT BootsRepeat
CHECK_DEADLOCK FALSE
