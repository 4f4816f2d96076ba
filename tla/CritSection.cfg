SPECIFICATION FairSpec
CONSTANTS
    Threads = {t1, t2, t3}
    Addrs = {"LockSemaphore"}
    NoAddr = NoAddr
    NoThread = NoThread
    NoSem = NoSem
    Sections <- MCSections
    MaxDepth = 2
INVARIANTS OneOwner LockCountExact HandOverNotLost
PROPERTIES Progress ShutdownNotBlocked
CHECK_DEADLOCK FALSE
