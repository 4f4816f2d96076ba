SPECIFICATION FairSpec
CONSTANTS
    t1 = t1
    t2 = t2
    t3 = t3
    Threads = {t1, t2, t3}
    sem = sem
    mutex = mutex
    auto = auto
    manual = manual
    Semaphores = {sem}
    Mutexes = {mutex}
    AutoEvents = {auto}
    ManualEvents = {manual}
    NoThread = NoThread
    Abandoned = Abandoned
    ApcFutex = ApcFutex
    MaxCount = 2
    Watched = {t1}
    Programs <- MCPrograms
INVARIANTS MutexKept SignalsConserved NoStrandedSleeper
PROPERTIES SignalledReturns
CHECK_DEADLOCK FALSE
