CONSTANTS
    milk = milk
    eggs = eggs
    p1 = p1
    p2 = p2
    c1 = c1
    Lines = {milk, eggs}
    Ordered <- MCOrdered
    Methods = {"razorpay"}
    Pickers = {p1}
    Cancellers = {c1}
    Reports <- ShortReports
    Batched = TRUE
    MaxCalls = 4
    MaxFailures = 0
SPECIFICATION Spec
INVARIANT CancelledGivesAllBack
CHECK_DEADLOCK FALSE
