SPECIFICATION WorkbenchSpec
CONSTANTS
    c1 = c1
    c2 = c2
    a1 = a1
    a2 = a2
    Nowhere = Nowhere
    Conversations = {c1, c2}
    Agents = {a1, a2}
    Founder <- MCFounder
    MaxOpens = 3
    MaxReads = 1
    MaxActs = 1
    MaxOthers = 1
    Editable = Editable
    Speakers = {a1}
    MaxRuns = 1
    MaxTexts = 1
    MaxKept = 1
    MaxFaults = 1
    MaxMounts = 1
    MaxWire = 2
    q1 = q1
    q2 = q2
    r1 = r1
    r2 = r2
    Rooms = {r1, r2}
    RunnableAgents = {a1, a2}
    Earlier = r1
    Foreign = Foreign
    Posts = {q1, q2}
    Wants <- MCWants
    Texts <- MCTexts
    Candidates = 2
    NoFence = NoFence
    NoRoom = NoRoom
    NoTurn = NoTurn
    NoOne = NoOne
    Others = Others
    MaxItems = 1
    MaxChars = 6
    MaxTroubles = 1
SYMMETRY MCSymmetry
INVARIANTS
    NewestOpenShown
    FactsOfShown
    OwnChangesShown
    ShownExactlyOnce
    TextKept
    AnsweredIsSo
    GivenOnceToMembers
CHECK_DEADLOCK FALSE
