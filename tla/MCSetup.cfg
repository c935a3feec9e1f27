SPECIFICATION SetupSpec
SYMMETRY MCSymmetry
CONSTANTS
    p1 = p1
    p2 = p2
    s1 = s1
    Agents = {a1}
    Forms = {p1, p2, s1}
    FormKeys <- MCFormKeys
    Local = Local
    NoFile = NoFile
    Missing = Missing
    Same = Same
    MaxSteward = 3
    g1 = g1
    g2 = g2
    q1 = q1
    q2 = q2
    Members = {g1, g2}
    Runnable = {g1, g2}
    Panels = {q1, q2}
    NoGroup = NoGroup
    Blank = Blank
    Unset = Unset
    MaxGroupActs = 3
    ga = ga
    gb = gb
    aa = aa
    Shared = Shared
    GroupScopes <- MCGroupScopes
    ListedGroups <- MCListedGroups
    AgentScopes <- MCAgentScopes
    GroupsOf <- MCGroupsOf
    Texts = {x1, x2}
    Skeleton = Skeleton
    Template = Template
    NoText = NoText
    MaxSkillActs = 4
    Runners = {r1, r2}
    Classes = {"inbox", "script"}
    Absent = Absent
    Null = Null
    Table = Table
    Malformed = Malformed
    MaxServiceActs = 3
    m1 = m1
    m2 = m2
    sh1 = sh1
    sh2 = sh2
    Crew = {m1, m2}
    Shells = {sh1, sh2}
    MaxProvActs = 3
INVARIANTS
    ReportedIsSo
    NoSkillLost
    ExplainAgrees
PROPERTIES
    IdentityKept
    FailClosed
    OnlyAskedChanges
    ActionOnWhatWasShown
CHECK_DEADLOCK FALSE
