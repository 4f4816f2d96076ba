SPECIFICATION FairSpec
CONSTANTS
    Threads = {t1, t2, t3}
    Addrs = {"word", "owners"}
    NoAddr = NoAddr
    MaxWaiters = 3
    MaxOwners = 5
INVARIANTS WordCountsThreads SharedNotStranded ExclusiveNotStranded
PROPERTIES WritersFirst ImplementsRWLock WriterProgress ReaderProgress
