CONSTANTS
    r1 = r1
    r2 = r2
    j1 = j1
    w = w
    j2 = j2
    Riders = {r1, r2}
    Fleet = {r1}
    Nobody = Nobody
    Jobs = {j1, w}
    Watchdog = w
    MaxStarts = 2
SPECIFICATION FairSpec
INVARIANTS
    TypeOK
    TheRiderWhoAcceptedIsTheRiderNamed
PROPERTIES
    TheLockComesOff
    SilentRiderLosesTheOrder
CHECK_DEADLOCK FALSE
