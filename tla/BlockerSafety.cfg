SPECIFICATION Spec
CONSTANTS
    r1 = r1
    r2 = r2
    r3 = r3
    Requests = {r1, r2, r3}
    TimeoutOf <- Mixed
    TimerRange = 4
    SpuriousWakeups = TRUE
    NoData = NoData
INVARIANTS
    TypeOK
    OwnResponse
    TimeoutIsFinal
    BlockersHaveCallers
    TimeoutNotEarly
CHECK_DEADLOCK FALSE
