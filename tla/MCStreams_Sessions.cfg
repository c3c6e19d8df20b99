SPECIFICATION StreamFairSpec
CONSTANTS
    w1 = w1
    w2 = w2
    v1 = v1
    v2 = v2
    Workers = {w1, w2}
    Viewers = {v1, v2}
    Plans <- AllPlans
INVARIANT StreamTypeOK
INVARIANT LiveIsTrue
INVARIANT CountsAreTrue
PROPERTY RecordingIsReplayed
\* A seller who is done leaves nothing to do.
CHECK_DEADLOCK FALSE
