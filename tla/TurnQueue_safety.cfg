SPECIFICATION Spec
CONSTANTS
    u1 = u1
    u2 = u2
    w = w
    c = c
    Submissions = {u1,u2,w,c}
    UserTurns = {u1,u2}
    WakeTurns = {w}
    WithSetup = {u1,u2}
    Limited = {u1}
    Impatient = {c}
    CancelOnNew = TRUE
    FaultyStart = TRUE
    CancelAt = {"created","running","respond","unwind","gather","lock"}
    MaxCancels = 1
    MaxCrashes = 1
    None = None
CHECK_DEADLOCK FALSE
INVARIANT TypeOK
INVARIANT OneTurnAtATime
INVARIANT HandlesMatchTurn
INVARIANT QueuedIsDurable
INVARIANT FutureAfterSettle
PROPERTY QueueIsFifo
PROPERTY ImplementsService
