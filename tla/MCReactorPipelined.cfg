SPECIFICATION Spec
CONSTANTS
    f1 = f1
    f2 = f2
    a1 = a1
    a2 = a2
    s1 = s1
    s2 = s2
    x1 = x1
    p1 = p1
    b1 = b1
    NoConn = NoConn
    Fds = {f1}
    Requests = {a1, s1}
    KindOf <- MCKindOf
    Closes = {}
    MaxClients = 1
    REQUEST_TIMEOUT = 1
    KEEP_ALIVE_TIMEOUT = 2
    MAX_OUTPUT_QUEUE = 2
INVARIANTS
    NoRequestOverlooked
