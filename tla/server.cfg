CONSTANTS
    Threads = {t1, t2, t3}
    Null = Null
    Awake = Awake
    Waiting = Waiting
    Dead = Dead
    Works <- AllWorks
    Fetcher = Fetcher
    Conns = {c1}
    NumJobs = 2
    History = 2
    RequestLimit = 2
    Requests <- AnyRequest
    SignalAt = {1}
SPECIFICATION FairSpec
 
INVARIANT PairApart
 
PROPERTY ConnectionEnds
CHECK_DEADLOCK FALSE
