CONSTANTS
    c1 = c1
    c2 = c2
    s1 = s1
    b1 = b1
    Customers = {c1, c2}
    Standing = {s1}
    Browsers = {b1}
    Capacity = 1
    Slow = {c1}
    Revivable = {c2}
SPECIFICATION FairSpec
INVARIANTS
    TypeOK
    StandingOrdersKeepTheirSeat
    NeverOverbooked
PROPERTY LedgerFollowsTheOrders
