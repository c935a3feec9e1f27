SPECIFICATION Spec
CONSTANTS
    a1 = a1
    a2 = a2
    mention = mention
    begin = begin
    Agents = {a1, a2}
    Requests = {mention}
    ForAgent <- Request
    IsRoot <- Mention
    MaxRuns <- RunsEnough
    MaxHandoffs = 2
    EdgeLimit = 2
    Fallbacks <- OneFallback
    Asking = {a2}
    MayFail = {a2}
    MaxFaults = 1
    MaxOthers = 1
    Free = Free
    Other = Other
    NoAgent = NoAgent
INVARIANT NoEdgeOverwritten
CHECK_DEADLOCK FALSE
