SPECIFICATION Spec
CONSTANTS
    BackendCount = 3
    MAX_CONNECTIONS = 2
    f1 = f1
    f2 = f2
    f3 = f3
    f4 = f4
    ip1 = ip1
    NoFd = NoFd
    NoPair = NoPair
    Fds <- MCFds
    Ips <- MCIps
    HashSize = 5
    ClientHash <- MCClientHash
    Layouts <- MCLayouts
    MaxAttempts = 3
SYMMETRY Symmetry
INVARIANTS
    MapsAgree
    SocketsOwned
    CountsMatch
    ClosestNode
PROPERTIES
    NoBackendOverlooked
    RoundRobinTurns
    RingMovesFew
CHECK_DEADLOCK FALSE
