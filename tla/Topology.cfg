SPECIFICATION Spec
CONSTANTS
    a1 = a1
    a2 = a2
    a3 = a3
    e1 = e1
    e2 = e2
    Coordinator = Coordinator
    Addrs <- MCAddrs
    Neighbours <- MCNeighbours
    PageSize = 3
    MaxRounds = 2
    MaxStray = 1
    MaxLate = 2
INVARIANTS
    UpIsUp
    NetworkIsTheOneAskedFor
    Discovered
PROPERTIES
    RoundEnds
