SPECIFICATION FairSpec
CONSTANTS
    p1 = p1
    p2 = p2
    s1 = s1
    d1 = d1
    d2 = d2
    d3 = d3
    j1 = j1
    j2 = j2
    Jobs = {j1}
    ScriptJobs = {}
    Allowed <- MCAnyDevice
    Devices = {d1, d2, d3}
    Schedulers = {p1, p2}
    Sessions = {s1}
    IdOf <- MCIdOf
    Rank <- MCRank
    Schedules <- MCSchedules
    MayCrash = {p1}
    MaxCycle = 2
    Ordinary = Ordinary
    NoFile = NoFile
    NoJob = NoJob
INVARIANTS
    NoJobLost
PROPERTIES
    OncePerCycle
    JobServed
CHECK_DEADLOCK FALSE
