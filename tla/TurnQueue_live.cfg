SPECIFICATION FairSpec
CONSTANTS
    u1 = u1
    u2 = u2
    w = w
    c = c
    Submissions = {u1,u2,w}
    UserTurns = {u1,u2}
    WakeTurns = {w}
    WithSetup = {u1,u2}
    Limited = {}
    Impatient = {}
    CancelOnNew = FALSE
    FaultyStart = TRUE
    CancelAt = {"created","running","gather","lock"}
    MaxCancels = 1
    MaxCrashes = 1
    None = None
CHECK_DEADLOCK FALSE
PROPERTY AcceptedIsAnswered
PROPERTY QueuedIsDispatched
