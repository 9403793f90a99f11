SPECIFICATION Spec
CONSTANTS
    r1 = r1
    r2 = r2
    p1 = p1
    Requests = {r1,r2}
    Timed = {}
    Posted = {}
    Cancellable = {}
    Widgets = {}
    Faulty = FALSE
    MaxCrashes = 0
    None = None
CHECK_DEADLOCK FALSE
INVARIANT EachGetsItsOwn
