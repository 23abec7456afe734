CONSTANTS
    h1 = h1
    h2 = h2
    h3 = h3
    Handlers = {h1, h2}
    MaxCrashes = 0
SPECIFICATION FairSpec
PROPERTY CapturedPaymentsRecover
CHECK_DEADLOCK FALSE
