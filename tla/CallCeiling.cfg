SPECIFICATION TimedSpec
CONSTANTS
    Calls = {c1, c2, m1}
    MemoryCalls = {m1}
    ExecuteCalls = {}
    Conns = {k1}
    MaxSize = 1
    Threads = 2
    StatementTimeout = 1
    MaxNow = 3
    None = None
    m1 = m1
    c1 = c1
    c2 = c2
    k1 = k1
INVARIANT WithinStatementTimeout
CHECK_DEADLOCK FALSE
