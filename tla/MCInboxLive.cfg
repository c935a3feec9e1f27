SPECIFICATION LiveSpec
CONSTANTS
    d1 = d1
    d2 = d2
    t1 = t1
    t2 = t2
    Ordinary = Ordinary
    NoFile = NoFile
    NoTask = NoTask
    NoEdit = NoEdit
    Free = Free
    Kept = Kept
    Lost = Lost
    Tasks = {t1, t2}
    Devices = {d1, d2}
    Sessions = {}
    Editors = {}
    MayCrash = {}
    DependsOn <- MCChain
    Retryable = {t1}
    MaxAttempts = 2
    AgentStatuses = {"completed"}
    EditStatuses = {}
INVARIANTS
    OneHolder
    DependenciesFirst
PROPERTIES
    NoRerunAfterFailure
    TaskServed
