SPECIFICATION FairSpec
CONSTANTS
    w1 = w1
    w2 = w2
    Wakes <- MCWakes
    Other = Other
    None = None
    Faulty = TRUE
    MaxCrashes = 1
INVARIANTS
    TypeOK
    TimersAreReachable
    NothingForgotten
    RunsOnce
PROPERTIES
    CancelledStaysCancelled
    PendingIsHandedOver
CHECK_DEADLOCK FALSE
