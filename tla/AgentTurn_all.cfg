SPECIFICATION FairSpec
CONSTANTS
    MaxTurns = 2
    NumCalls = 2
    Slots = 1
    Budget <- ShortThenLong
    Retries = 1
    MaxCancels = 2
    MaxCrashes = 1
CHECK_DEADLOCK FALSE
INVARIANTS
    TypeOK
    CallsAnsweredInTurn
    ClosedInArchive
    MarkerOnceLast
    OutcomeMatchesArchive
PROPERTY Terminates
