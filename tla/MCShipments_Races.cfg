SPECIFICATION FairSpec
CONSTANTS
    w1 = w1
    w2 = w2
    Workers = {w1, w2}
    Orders <- AllOrders
    Recipients = 2
    MaxDispatches = 2
    MaxScans = 2
    MaxDeaths = 1
INVARIANT TypeOK
INVARIANT BookedOnce
INVARIANT StatusIsEarned
PROPERTY EndStays
PROPERTY DeliveryCounts
\* An order that has been delivered leaves nothing to do.
CHECK_DEADLOCK FALSE
