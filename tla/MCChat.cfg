SPECIFICATION ChatSpec
CONSTANTS
    k1 = k1
    a1 = a1
    a2 = a2
    m1 = m1
    m2 = m2
    f1 = f1
    Updates = {1, 2, 3, 4, 5}
    What <- Mixed
    Chat <- OneChat
    Chats = {k1}
    Services = {"telegram", "discord"}
    Agents = {a1, a2}
    DefaultAgent = a1
    To <- Second
    Fallbacks = 2
    MaxClients = 5
    MaxExits = 1
    MaxDrops = 1
    MaxCrashes = 1
    Turns = {m1, m2}
    Kinds <- MCKinds
    Team = {a1, a2}
    FirstAgent = a1
    Candidates <- MCCandidates
    Primary = Primary
    Selected = Selected
    Unknown = Unknown
    MaxProcs = 3
    MaxRequests = 3
    MaxTrouble = 1
INVARIANTS
    NothingLeftBehind
    NoUpdateSkipped
    OncePerMessage
PROPERTIES
    AbortFinal
    ReadersEnd
    ComesToRest
CHECK_DEADLOCK FALSE
