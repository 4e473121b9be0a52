SPECIFICATION FairSpec
CONSTANTS
    s1 = s1
    s2 = s2
    k1 = k1
    k2 = k2
    Servers = {s1, s2}
    Closes = {k1, k2}
    MaxCounter = 2
    MaxLives = 2
    Nobody = Nobody
INVARIANTS
    TypeOK
    IdNamesServer
    NoDeletedServerListed
    RightServerClosed
    NobodyListensAfterwards
PROPERTIES
    CallsReturn
CHECK_DEADLOCK FALSE
