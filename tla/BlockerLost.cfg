SPECIFICATION Spec
CONSTANTS
    r1 = r1
    r2 = r2
    r3 = r3
    Requests = {r1}
    TimeoutOf <- AllTwo
    TimerRange = 4
    SpuriousWakeups = FALSE
    NoData = NoData
INVARIANTS
    ResponseIsReturned
CHECK_DEADLOCK FALSE
