SPECIFICATION AgentSpec
SYMMETRY AgentSymmetry
CONSTANTS
    h1 = h1
    h2 = h2
    g1 = g1
    x1 = x1
    m1 = m1
    m2 = m2
    Hands = {h1, h2, g1}
    Gateways = {g1}
    Processes = {x1}
    ProcessOf <- MCProcessOf
    Mirrors <- MCMirrors
    RateLimit = 1
    Never = Never
    NoCall = NoCall
    MaxInstant = 1
    MaxSwaps = 1
    MaxCalls = 3
    Candidates <- MCCandidates
    AutoSwitch = TRUE
    NoRecord = NoRecord
    MaxEvents = 2
    Requests = {1, 2}
    Primary = m1
    Known = {m1, m2}
    NoRun = NoRun
    NoIncident = NoIncident
    NoPending = NoPending
    NoHandling = NoHandling
    NoModel = NoModel
    InjectionEnv = "unknown"
    InjectionConfig = "session_start_only"
    ReviewEnv = "unset"
    ReviewConfig = "on"
    RecentMessages = 2
    ReviewInterval = 1
    MaxSessions = 1
    MaxReviews = 1
    PrimaryModel = m1
    NoResult = NoResult
INVARIANTS
    SavedIsKept
    MirrorLimited
    RepeatsOnlyUntouched
