CONSTANTS
    h1 = h1
    h2 = h2
    h3 = h3
    Handlers = {h1, h2}
    MaxCrashes = 1
SPECIFICATION FairSpec
INVARIANTS
    TypeOK
    UnpaidIsNeverActionable
    BooksFollowTheMoney
PROPERTY AbandonedPaymentsLetGo
CHECK_DEADLOCK FALSE
