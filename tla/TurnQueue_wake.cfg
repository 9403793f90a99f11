SPECIFICATION Spec
CONSTANTS
    u1 = u1
    u2 = u2
    w = w
    c = c
    Submissions = {u1,u2,w}
    UserTurns = {u1,u2}
    WakeTurns = {w}
    WithSetup = {u1,u2}
    Limited = {}
    Impatient = {}
    CancelOnNew = FALSE
    FaultyStart = FALSE
    CancelAt = {}
    MaxCancels = 0
    MaxCrashes = 0
    None = None
CHECK_DEADLOCK FALSE
INVARIANT WakeInheritsLastUser
