SPECIFICATION CronFilesSpec
CONSTANTS
    errand = errand
    Ordinary = Ordinary
    NoFile = NoFile
    NoTask = NoTask
    NoEdit = NoEdit
    Free = Free
    Kept = Kept
    Lost = Lost
    Tasks = {errand}
    Devices = {d1}
    Sessions = {s1}
    Editors = {e1}
    MayCrash = {d1}
    DependsOn <- MCAlone
    Retryable = {errand}
    MaxAttempts = 2
    AgentStatuses = {"completed"}
    EditStatuses = {"pending", "completed"}
    a1 = a1
    a2 = a2
    a3 = a3
    title1 = title1
    title2 = title2
    joins = joins
    files = files
    renames = renames
    raises = raises
    handsOn = handsOn
    handsNext = handsNext
    posts = posts
    NoOne = NoOne
    Nothing = Nothing
    Author = Author
    Agents = {a1, a2, a3}
    Runnable = {a1, a2, a3}
    Titles = {title1, title2}
    Callers = {joins, files, renames, raises, handsOn, handsNext, posts}
    Start <- MCStart
    Task <- MCTask
    RootAgent = a1
    BaseLimits <- MCBase
    CapLimits <- MCCap
    MaxDepth = 2
    Slots = {1, 2, 3, 4, 5, 6, 7}
    MayDie = {handsOn}
    MayFail = {files}
    w1 = w1
    w2 = w2
    w3 = w3
    o1 = o1
    o2 = o2
    Errands = {w1, w2, w3}
    Owners = {o1, o2}
    OwnerOf <- MCOwnerOf
    Requires <- MCRequires
    Clients = {k1, k2}
    Boxes = {b1}
    Plain = Plain
    Gone = Gone
    MaxTaskActs = 2
    Authors = {u1, u2}
    Bots = {x}
    JobIds = {j}
    Handwritten <- MCHandwritten
    NoJobFile = NoJobFile
    MaxCronActs = 2
    MaxTicks = 2
INVARIANTS
    ClaimedIsRun
CHECK_DEADLOCK FALSE
