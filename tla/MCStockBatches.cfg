CONSTANTS
    o1 = o1
    o2 = o2
    s1 = s1
    s2 = s2
    Orders = {o1, o2}
    Batches = {1, 2}
    Dated = {1}
    Size <- MCSize
    Quantities = {1, 2, 3}
    Sweeps = {s1, s2}
    MaxCrashes = 1
SPECIFICATION Spec
SYMMETRY Symmetry
INVARIANTS
    TypeOK
    ActiveBatchesAddUp
    ExpiredUnitsAreNotPicked
    CountLosesOnlyWhatExpired
CHECK_DEADLOCK FALSE
