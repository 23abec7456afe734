CONSTANTS
    q1 = q1
    q2 = q2
    s1 = s1
    s2 = s2
    Frequency = "weekly"
    DaysOfWeek = {0}
    DayOfMonth = 0
    Week = 2
    Month = 4
    StartDate = 1
    Horizon = 2
    LastDay = 2
    Requests = {q1, q2}
    Sweepers = {s1, s2}
    MaxAtOnce = 2
    MaxStarts = 3
    MaxCrashes = 1
SPECIFICATION FairSpec
INVARIANTS
    TypeOK
    DeliveriesFollowTheRule
    ResumingLeavesNoGap
    SkippedIsNotDelivered
    RowsSayWhatWasOrdered
PROPERTIES
    DueIsSettled
CHECK_DEADLOCK FALSE
