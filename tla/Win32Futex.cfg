SPECIFICATION Spec
CONSTANTS
    Threads = {t1, t2, t3}
    Addrs = {a1, a2}
    NoAddr = NoAddr
    NoThread = NoThread
    Values = {0, 1}
    Timeouts = {TRUE, FALSE}
    WakeKinds = {{"single", "all"}, {"all"}}
    TidsSize = 1
    MaxWakes = 2
SYMMETRY Symmetry
INVARIANTS NoMissedChange NoStrandedWaiter
PROPERTIES OldestFirst ImplementsAddrWait
CHECK_DEADLOCK FALSE
