CONSTANTS
    o1 = o1
    o2 = o2
    p1 = p1
    f1 = f1
    j1 = j1
    j2 = j2
    Orders = {o1, o2}
    TopUps = {p1}
    Referees = {f1}
    CashbackLimit = 1
    Jobs = {j1, j2}
    MaxStarts = 4
    Amount <- MCAmount
SYMMETRY OrdersAreAlike
SPECIFICATION Spec
INVARIANTS
    TypeOK
    OrdersAndWalletAgree
    NoRefundIsForgotten
PROPERTIES
    ImplementsLedger
CHECK_DEADLOCK FALSE
