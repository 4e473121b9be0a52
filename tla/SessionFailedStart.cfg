SPECIFICATION FairSpec
CONSTANTS
    p1 = p1
    p2 = p2
    c1 = c1
    c2 = c2
    Procs = {p1, p2}
    Conns = {c1}
    ClientOf <- ForwardClient
    ServerOf <- ForwardServer
    IdBase = 8
    TimeoutTicks = 2
    MaxBeat <- NoMore
    MaxClose <- NoMore
    Cuttable <- NoEnds
PROPERTIES
    GivenUpWasNotCreated
CHECK_DEADLOCK FALSE
