SPECIFICATION FairSpec
CONSTANTS
    p1 = p1
    p2 = p2
    c1 = c1
    c2 = c2
    Procs = {p1, p2}
    Conns = {c1}
    ClientOf <- ForwardClient
    ServerOf <- ForwardServer
    IdBase = 8
    TimeoutTicks = 1
    MaxBeat <- OneOnClient
    MaxClose <- OneMore
    Cuttable <- ServerOfC1
CONSTRAINT CutEarly
PROPERTIES
    ImplementsSession
    StartSessionTerminates
    ClientCloseReachesServer
CHECK_DEADLOCK FALSE
