SPECIFICATION FairSpec
CONSTANTS
    MaxValue = 3
    MaxWrites = 3
INVARIANTS TypeOK NotifiedOncePerWrite NothingMissed
PROPERTIES SubscriberCatchesUp BaselineFollows
CHECK_DEADLOCK FALSE
