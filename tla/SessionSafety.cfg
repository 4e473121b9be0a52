SPECIFICATION Spec
CONSTANTS
    p1 = p1
    p2 = p2
    c1 = c1
    c2 = c2
    Procs = {p1, p2}
    Conns = {c1, c2}
    ClientOf <- ForwardClient
    ServerOf <- ForwardServer
    IdBase = 8
    TimeoutTicks = 1
    MaxBeat <- OneMore
    MaxClose <- OneMore
    Cuttable <- NoEnds
CONSTRAINT OneOrTwo
INVARIANTS
    TypeOK
    NoDanglingRegistration
    HandshakeFindsItsState
    IdAgreement
    ReadyIsRegistered
    CallbackOrder
    InitIsAnswered
    UniqueIdsPerSide
CHECK_DEADLOCK FALSE
