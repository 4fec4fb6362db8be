CONSTANTS
    Threads = {t1, t2, t3}
    Null = Null
    Awake = Awake
    Waiting = Waiting
    Dead = Dead
    Works <- AllWorks
    Fetcher = Fetcher
    Conns = {c1}
    NumJobs = 1
    History = 1
    RequestLimit = 1
    Requests <- OnlyAbsolute
    SignalAt = {0}
SPECIFICATION FairSpec
PROPERTY StopReturns
CHECK_DEADLOCK FALSE
