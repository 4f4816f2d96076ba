SPECIFICATION FairSpec
CONSTANTS
    Threads = {t1, t2, t3}
    NoThread = NoThread
    AsyncFlags = {TRUE, FALSE}
    MaxFails = 2
INVARIANTS OneInitializer SameContext ListsAreExact
PROPERTIES WaitersGoOn
