CONSTANTS
    milk = milk
    eggs = eggs
    p1 = p1
    p2 = p2
    c1 = c1
    Lines = {milk, eggs}
    Ordered <- MCOrdered
    Methods = {"cash", "wallet", "razorpay"}
    Pickers = {p1, p2}
    Cancellers = {c1}
    Reports <- ShortReports
    Batched = TRUE
    MaxCalls = 4
    MaxFailures = 1
SPECIFICATION Spec
SYMMETRY Symmetry
INVARIANTS
    TypeOK
    RecordedIsGiven
    BillMatchesTheBag
    UndeliveredUnitsAreBack
    ShortfallIsGivenOrSaidToFail
CHECK_DEADLOCK FALSE
