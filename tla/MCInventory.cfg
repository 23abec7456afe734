CONSTANTS
    o1 = o1
    o2 = o2
    milk = milk
    bag = bag
    h1 = h1
    h2 = h2
    Orders = {o1, o2}
    Items = {milk, bag}
    Untracked = {bag}
    Handlers = {h1, h2}
    Baskets <- MCBaskets
    Opening <- MCOpening
    Counts = {1}
    MaxShocks = 2
SPECIFICATION Spec
SYMMETRY Symmetry
INVARIANTS
    TypeOK
    Conserved
    RejectedHoldsNothing
    EndedOrdersReturnTheirStock
PROPERTY KeepsThePromise
CHECK_DEADLOCK FALSE
