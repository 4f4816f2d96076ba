SPECIFICATION FairSpec
CONSTANTS
    t1 = t1
    t2 = t2
    t3 = t3
    sem = sem
    mutex = mutex
    auto = auto
    manual = manual
    None = None
    Threads = {t1, t2, t3}
    Semaphores = {sem}
    Mutexes = {mutex}
    AutoEvents = {auto}
    ManualEvents = {manual}
    MaxCount = 2
    MaxDepth = 2
    Watched = {t1}
    Programs <- MCPrograms
INVARIANTS OneReplyEach NothingLost NobodyOverlooked
PROPERTIES EverythingEnds
CHECK_DEADLOCK FALSE
