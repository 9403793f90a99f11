SPECIFICATION Spec
CONSTANTS
    MaxTurns = 2
    NumCalls = 2
    Slots = 2
    Budget <- ShortThenLong
    Retries = 0
    MaxCancels = 1
    MaxCrashes = 0
CHECK_DEADLOCK FALSE
INVARIANT MarkerIsSeen
