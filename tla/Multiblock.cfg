SPECIFICATION FairSpec
CONSTANTS
    m1 = m1
    m2 = m2
    Messages = {m1, m2}
    Responses = {m2}
    SizeOf <- Sizes
    PartSize = 2
    OffsetRange = 6
    Nobody = Nobody
INVARIANTS
    TypeOK
    WholeMessage
    NullOnlyWithoutMemory
    BufferHasOneOwner
PROPERTIES
    SentArrives
CHECK_DEADLOCK FALSE
