SPECIFICATION Spec
CONSTANTS
    seller = seller
    maker = maker
    wallet = wallet
    wallet2 = wallet2
    o1 = o1
    w1 = w1
    w2 = w2
    c1 = c1
    c2 = c2
    Payouts = {seller, maker, wallet, wallet2}
    Orders = {o1}
    NoOrder = NoOrder
    NoPayout = NoPayout
    Workers = {w1, w2}
    Clawers = {c1, c2}
    KindOf <- MCKindOf
    OrderOf <- MCOrderOf
    Routable <- MCRoutable
    Plans <- Overlap
    MaxSent = 3
INVARIANT ConcurrentWorkersPayOnce
