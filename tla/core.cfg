SPECIFICATION Spec
CONSTANTS
    c1 = c1
    c2 = c2
    s1 = s1
    System = System
    Cores = {c1, c2}
    Sockets = {s1}
    Online = {c1, c2}
    SocketOf <- MCSocketOf
    Modulus = 2
    Word = 16
    MaxReads = 2
    MaxEvents = 2
INVARIANTS
    CoreInv
    ConsecutiveExact
    CorruptionShows
PROPERTIES
    CallsReturn
CHECK_DEADLOCK FALSE
