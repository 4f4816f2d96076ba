SPECIFICATION FairSpec
CONSTANTS
    Clients = {c1, c2}
    Workers = {k1, k2}
    TimerThread = timer
    None = None
    Works = {w1}
    Simples = {s1}
    Timers = {x1}
    Grouped = {w1, s1, x1}
    High = {s1}
    MaxWorkers = 2
    Limits = {1}
    Programs = {
        {"work", "release", "wait", "callback"},
        {"work", "release", "callback", "limits"},
        {"work", "simple", "release"},
        {"work", "group", "release", "callback"},
        {"simple", "group"},
        {"timer", "group", "release", "callback"},
        {"timer", "wait", "release"}}
    MaxPosts = 2
    CancelBesideWait = FALSE
INVARIANTS RefsExact ItemsAreSeen BusyCounts
PROPERTIES EverythingIsDone CallsReturn
CHECK_DEADLOCK FALSE
