SPECIFICATION Spec
CONSTANTS
    Prints = {"f", "g", "w"}
    Exempt = {"w"}
    NoPrint = NoPrint
    RepeatAt = 2
    ErrorsAt = 2
    ErrorWindow = 3
    Batches <- MCBatches
    MaxChecks = 4
    Ops = {x, y, z}
    NoOp = NoOp
    MaxRetries = 2
    MaxOpCancels = 1
    Convs = {v1, v2}
    Jobs = {j1, j2}
    Tools = {x, y, z}
    NoJob = NoJob
    MaxManagers = 2
    MaxAborts = 1
    Posters = {p1, p2}
    Wakes = {w1}
    NoTurn = NoTurn
    MaxPosts = 2
    MaxAnswers = 2
    MaxTyped = 2
    Coders = {x, y, z}
    Dirs = {d1}
    NoDir = NoDir
    MaxSessions = 2
    Timeout = 0
    Budget = 1
    MaxTicks = 1
    Children = {c1, c2}
    MaxTurns = 2
    MaxParallel = 1
    MaxRounds = 1
    MaxMessages = 1
    Pages = {b1, b2}
    MaxReplies = 2
    MaxPieces = 2
    MaxOpens = 2
    Schedules = {s1, s2}
    Runs = {x, y, z}
    Heartbeat = Heartbeat
    MaxTime = 2
    MaxCrashes = 1
    Trusted = {st}
    Own = {sw}
    ToolNames = {n1, n2}
    NoSkill = NoSkill
    MaxSkillEdits = 1
    MaxSkillTurns = 2
    MaxSkillRestarts = 1
    Presets = {pr}
    Chats = {ch1, ch2}
    NoChat = NoChat
CHECK_DEADLOCK FALSE
SYMMETRY Symmetry
INVARIANTS
    TypeOK
    NothingIsOrphaned
    NobodyIsForgotten
    BrakesHold
