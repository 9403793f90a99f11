SPECIFICATION Spec
CONSTANTS
    Admins = {x, y, z}
    Movers = {m1, m2}
    NoTool = NoTool
    Workers = 2
    MaxToolCalls = 3
    MaxToolCancels = 1
    Calls = {x, y, z, c4}
    NoCall = NoCall
    MaxSessions = 2
    MaxRestarts = 1
    Pages = {u, p}
    Gated = {u}
    NoPage = NoPage
    Ops = {x, y, z}
    MaxTexts = 3
    MaxTime = 2
    MaxFails = 1
    Preserve = 1
    Skews <- MCSkews
    MaxRows = 6
    MaxReloads = 1
    Mentioned = {pg}
    Files = {fl}
    Finds = {fd}
    RefSets <- MCRefSets
    NoteLimit = 2
    MaxNotes = 2
    MaxTurns = 2
    MaxOverflows = 1
    MaxDeaths = 1
    Paths = {fa, fb}
    NoPath = NoPath
    MaxVersions = 3
    MaxWrites = 2
    MaxRequests = 3
    MaxNetFails = 1
    Wikis = {wa, wb}
    MaxEdits = 2
    MaxAgentWrites = 1
    MaxCalls = 3
    MaxTicks = 2
    MaxErrors = 1
    MaxVisits = 1
    Threads = {th}
CHECK_DEADLOCK FALSE
SYMMETRY Symmetry
INVARIANTS
    TypeOK
    NothingIsLost
    CopiesAgree
    NobodyIsStuck
