SPECIFICATION FairSpec
CONSTANTS
    Threads = {t1, t2, t3}
    Addrs = {"variable"}
    NoAddr = NoAddr
    Modes = {"shared", "exclusive"}
    WakeKinds = {"single", "all"}
    Modulus = 4
    MaxItems = 3
INVARIANTS NoLostSignal WakeAllReachesAll
PROPERTIES ItemsAreTaken
CHECK_DEADLOCK FALSE
