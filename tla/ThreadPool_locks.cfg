SPECIFICATION FairSpec
CONSTANTS
    Clients = {c1, c2}
    Workers = {k1}
    TimerThread = timer
    None = None
    Works = {}
    Simples = {s1}
    Timers = {x1}
    Grouped = {s1, x1}
    High = {}
    MaxWorkers = 1
    Limits = {}
    Programs = {{"simple", "timer", "group"}}
    MaxPosts = 1
    CancelBesideWait = FALSE
PROPERTIES CallsReturn
CHECK_DEADLOCK FALSE
