SPECIFICATION Spec
CONSTANTS
    Threads = {t1, t2, t3}
    Addrs = {a1}
    NoAddr = NoAddr
    NoThread = NoThread
    Values = {0, 1}
    Timeouts = {TRUE, FALSE}
    WakeKinds = {{"single", "all"}}
    TidsSize = 1
    MaxWakes = 2
INVARIANTS EntriesAreLive
CHECK_DEADLOCK FALSE
