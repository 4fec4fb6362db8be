CONSTANTS
    Threads = {t1, t2, t3}
    Works = {w1, w2, w3}
    Null = Null
    Awake = Awake
    Waiting = Waiting
    Dead = Dead
SPECIFICATION FairPoolSpec
INVARIANT PoolInv
INVARIANT NoLostWakeup
INVARIANT Drained
PROPERTY PoolProgress
CHECK_DEADLOCK FALSE
