SPECIFICATION FairSpec
CONSTANTS
    r1 = r1
    r2 = r2
    r3 = r3
    Requests = {r1, r2}
    TimeoutOf <- Mixed
    TimerRange = 4
    SpuriousWakeups = FALSE
    NoData = NoData
INVARIANTS
    NothingMeansTimeout
PROPERTIES
    ImplementsPromise
    ArrivedReleases
CHECK_DEADLOCK FALSE
