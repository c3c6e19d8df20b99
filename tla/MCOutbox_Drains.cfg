SPECIFICATION FairSpec
CONSTANTS
    n1 = n1
    n2 = n2
    d1 = d1
    d2 = d2
    Rows = {n1, n2}
    NoRow = NoRow
    Drainers = {d1, d2}
    Deployments <- Any
    Load <- MCLoad
    BatchSize = 2
    ReplicaMax = 2
    PodMax = 2
    Slow = FALSE
    MaxFaults = 2
    MaxClaims = 5
INVARIANT TypeOK
PROPERTY EveryRowSettles
PROPERTY KeepsPromise
