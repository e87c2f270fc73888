SPECIFICATION FairSpec
CONSTANTS
    Names = {a}
    Calls = {c1, c2}
    Specs <- MCSpecs
    PoolSize = 1
    MaxRegistrations = 2
INVARIANTS TypeOK RunsOwnProfile RunsGuarded IdleReachable
PROPERTIES SupersededClosed
