SPECIFICATION FairSpec
CONSTANTS
    i1 = i1
    a1 = a1
    a2 = a2
    Intents = {i1}
    NoIntent = NoIntent
    Actors = {a1, a2}
    Declines = TRUE
    VerifyErrs = TRUE
    MaxFails = 1
    Many = 2
INVARIANT TypeOK
INVARIANT SideEffectsOnce
PROPERTY CapturedIsFulfilled
\* An intent may be refused or fulfilled: then nothing is left to do.
CHECK_DEADLOCK FALSE
