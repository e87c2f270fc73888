SPECIFICATION FairSpec
CONSTANTS
    Calls = {c1, c2, m1}
    MemoryCalls = {m1}
    ExecuteCalls = {c1, m1}
    Conns = {k1}
    MaxSize = 1
    Threads = 2
    None = None
    c1 = c1
    c2 = c2
    m1 = m1
    k1 = k1
PROPERTIES AnsweredWhileThreadsLast PermitsRecovered
CHECK_DEADLOCK FALSE
