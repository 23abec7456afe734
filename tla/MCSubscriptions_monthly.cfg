CONSTANTS
    q1 = q1
    q2 = q2
    s1 = s1
    s2 = s2
    Frequency = "monthly"
    DaysOfWeek = {0}
    DayOfMonth = 1
    Week = 2
    Month = 4
    StartDate = 1
    Horizon = 4
    LastDay = 2
    Requests = {q1}
    Sweepers = {s1, s2}
    MaxAtOnce = 3
    MaxStarts = 3
    MaxCrashes = 1
SPECIFICATION Spec
INVARIANTS
    DeliveriesFollowTheRule
CHECK_DEADLOCK FALSE
