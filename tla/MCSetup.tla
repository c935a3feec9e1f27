------------------------------- MODULE MCSetup -------------------------------
(***************************************************************************)
(* The settings, the agent groups, the skills, the scheduler service and   *)
(* the commands that make vaults and agents, each explored on its own: of  *)
(* what they share, the node's config, each has a part of its own.         *)
(***************************************************************************)
EXTENDS Settings, AgentGroups, Skills, SchedulerService, Provisioning, TLC

CONSTANTS p1, p2, s1, g1, g2, q1, q2, ga, gb, aa, m1, m2, sh1, sh2

MCFormKeys == [m \in {p1, p2, s1} |-> IF m = s1 THEN {"device_id"} ELSE {"auto_switch", "models"}]
MCGroupScopes == <<ga, gb>>
MCListedGroups == <<gb, ga>>
MCAgentScopes == <<aa>>
MCGroupsOf == [a \in {aa} |-> {ga, gb}]

VARIABLE part

setupVars == <<settingsVars, groupVars, skillVars, serviceVars, provVars, part>>

SetupInit ==
    /\ part \in {"settings", "groups", "skills", "service", "provision"}
    /\ SettingsInit /\ (part # "settings" => \A a \in Agents : doc[a]["auto_switch"] = "off")
    /\ GroupsInit /\ (part # "groups" => group = NoGroup)
    /\ SkillsInit
    /\ ServiceInit
    /\ ProvisioningInit

\* Bound: a command beyond one in each shell begins only once an agent has a paper
\* that is not fresh; before that there is nothing it could lose.
SomethingToLose ==
    \/ provActs' \in {provActs} \cup 0..Cardinality(Shells)
    \/ \E a \in Crew, p \in Papers : papers'[a][p] = "grown"

SetupNext ==
    /\ UNCHANGED part
    /\ \/ part = "settings" /\ SettingsNext /\ UNCHANGED <<groupVars, skillVars, serviceVars, provVars>>
       \/ part = "groups" /\ GroupsNext /\ UNCHANGED <<settingsVars, skillVars, serviceVars, provVars>>
       \/ part = "skills" /\ SkillsNext /\ UNCHANGED <<settingsVars, groupVars, serviceVars, provVars>>
       \/ part = "service" /\ ServiceNext /\ UNCHANGED <<settingsVars, groupVars, skillVars, provVars>>
       \/ part = "provision" /\ ProvisioningNext /\ SomethingToLose /\ UNCHANGED <<settingsVars, groupVars, skillVars, serviceVars>>

MCSymmetry == Permutations(Crew) \cup Permutations(Shells)

SetupSpec == SetupInit /\ [][SetupNext]_setupVars
=============================================================================
