SPECIFICATION FairSpec
CONSTANTS
    Calls = {c1, c2}
    MemoryCalls = {}
    ExecuteCalls = {c1, c2}
    Conns = {k1}
    MaxSize = 1
    Threads = 1
    None = None
    c1 = c1
    c2 = c2
    k1 = k1
PROPERTY EveryCallAnswered
CHECK_DEADLOCK FALSE
