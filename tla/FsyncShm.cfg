SPECIFICATION Spec
CONSTANTS
    p1 = p1
    p2 = p2
    t1 = t1
    t2 = t2
    t3 = t3
    o1 = o1
    o2 = o2
    o3 = o3
    o4 = o4
    None = None
    Processes = {p1, p2}
    Threads = {t1, t2, t3}
    Owner <- MCOwner
    Objects = {o1, o2, o3, o4}
    Handles = {1, 2, 3, 4}
    WordBits = 2
    InitialWords = 2
    MaxWords = 3
    Programs <- MCPrograms
INVARIANTS HintNotPast CacheIsTrue IndicesKept IndicesComeBack
CHECK_DEADLOCK FALSE
