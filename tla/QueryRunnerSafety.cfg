SPECIFICATION Spec
CONSTANTS
    Calls = {c1, c2, c3}
    MemoryCalls = {}
    ExecuteCalls = {c1, c2, c3}
    Conns = {k1, k2, k3}
    MaxSize = 2
    Threads = 3
    None = None
    c1 = c1
    c2 = c2
    c3 = c3
    k1 = k1
    k2 = k2
    k3 = k3
SYMMETRY Symmetry
INVARIANTS TypeOK PermitsConserved OneOwner OpenIffOwned PoolBounded StatementThreadsBounded FailureAudited NoWaitInVain
PROPERTIES Implements
CHECK_DEADLOCK FALSE
