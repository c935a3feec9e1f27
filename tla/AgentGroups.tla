---------------------------- MODULE AgentGroups ----------------------------
(***************************************************************************)
(* One agent group: the config file under agent-groups/, the Workbench     *)
(* panels that show and change it through the gateway, and the group       *)
(* commands of the CLI.  The revision a panel sends is a hash of the text  *)
(* it was shown; here it is the text.  The order of fallback candidates is *)
(* not kept: a list of candidates is a set.                                *)
(***************************************************************************)
EXTENDS Naturals, FiniteSets

CONSTANTS
    Members,        \* agents that may join the group
    Runnable,       \* those this machine runs
    Panels,         \* panels open in browsers
    NoGroup,        \* no config file
    Blank,          \* a truncated config file
    Unset,          \* a member without a fallback entry
    MaxGroupActs    \* bound: what the stewards do, over all panels and commands

Groups == [agents : SUBSET Members, order : [Members -> (SUBSET Members) \cup {Unset}]]

NoMembers == [agents |-> {}, order |-> [a \in Members |-> Unset]]

\* What an action asks for.
Actions == [kind : {"create"}, agent : Members, list : {{}}]
           \cup [kind : {"add-agent", "remove-agent"}, agent : Members, list : {{}}]
           \cup [kind : {"fallback-set"}, agent : Members, list : SUBSET Members]

ASSUME GroupsAssumption ==
    /\ IsFiniteSet(Members) /\ IsFiniteSet(Panels) /\ Runnable \subseteq Members
    /\ {NoGroup, Blank} \cap Groups = {} /\ MaxGroupActs \in Nat

VARIABLES
    group,          \* the config file
    shown,          \* what a panel shows
    opening,        \* what is on its way to a panel
    dialog,         \* the action that waits for a confirmation, with its revision
    change,         \* a panel's action in the gateway
    source,         \* what the gateway read for it
    crossed,        \* history: another write came between its check and its rename
    cli,            \* a group command: what it does and what it read
    groupActs       \* what the stewards have done so far

groupVars == <<group, shown, opening, dialog, change, source, crossed, cli, groupActs>>

NoChange == [at |-> "none", action |-> Unset, revision |-> NoGroup]
NoCommand == [at |-> "none", action |-> Unset, read |-> NoGroup]

GroupsInit ==
    /\ group \in {NoGroup, [agents |-> Members, order |-> [a \in Members |-> Unset]]}
    /\ shown = [p \in Panels |-> NoGroup]
    /\ opening = [p \in Panels |-> Unset]
    /\ dialog = [p \in Panels |-> NoChange]
    /\ change = [p \in Panels |-> NoChange]
    /\ source = [p \in Panels |-> NoGroup]
    /\ crossed = [p \in Panels |-> FALSE]
    /\ cli = NoCommand
    /\ groupActs = 0

Data(g) == IF g \in {NoGroup, Blank} THEN NoMembers ELSE g

WithAgent(d, a) == [d EXCEPT !.agents = @ \cup {a}]

\* A removed agent leaves the fallback orders too, its own and the others'.
WithoutAgent(d, a) ==
    [agents |-> d.agents \ {a},
     order |-> [b \in Members |-> IF b = a \/ d.order[b] = Unset THEN Unset ELSE d.order[b] \ {a}]]

WithFallback(d, a, list) == [d EXCEPT !.order[a] = list]

Changed(g, x) ==
    LET d == Data(g) IN
    CASE x.kind = "create" -> NoMembers
      [] x.kind = "add-agent" -> WithAgent(d, x.agent)
      [] x.kind = "remove-agent" -> WithoutAgent(d, x.agent)
      [] x.kind = "fallback-set" -> WithFallback(d, x.agent, x.list)

\* What the validation of all groups reports of a group's fallback: candidates
\* that are no members.
Dangling(d) == {a \in Members : d.order[a] # Unset /\ ~(d.order[a] \subseteq d.agents)}

\* Who may take over from an agent: as the runtime resolves it, and as the
\* steward is advised.
Candidates(d, a, excluded) ==
    IF a \notin d.agents \/ d.order[a] = Unset THEN {}
    ELSE ((d.order[a] \ {a}) \ excluded) \cap Runnable
Recommended(d, a, excluded) ==
    IF a \notin d.agents \/ d.order[a] = Unset THEN {}
    ELSE (((d.order[a] \ {a}) \cap d.agents) \ excluded) \cap Runnable

Steward == groupActs < MaxGroupActs /\ groupActs' = groupActs + 1

---------------------------------------------------------------------------
(* The panel.                                                              *)

Gateway == UNCHANGED <<group, source, crossed, cli>>

\* A group is opened: the route reads the file.
OpenGroup(p) ==
    /\ Steward
    /\ opening' = [opening EXCEPT ![p] = group]
    /\ UNCHANGED <<shown, dialog, change>> /\ Gateway

\* The answer is shown, also under a confirmation that is open.
ShowGroup(p) ==
    /\ opening[p] # Unset
    /\ shown' = [shown EXCEPT ![p] = IF opening[p] = NoGroup THEN @ ELSE opening[p]]
    /\ opening' = [opening EXCEPT ![p] = Unset]
    /\ UNCHANGED <<dialog, change, groupActs>> /\ Gateway

\* What the panel offers for the group it shows.
Offered(g, x) ==
    CASE x.kind = "create" -> g = NoGroup
      [] x.kind = "add-agent" -> g # NoGroup /\ x.agent \notin Data(g).agents
      [] x.kind = "remove-agent" -> g # NoGroup /\ x.agent \in Data(g).agents
      [] x.kind = "fallback-set" -> /\ g # NoGroup /\ x.agent \in Data(g).agents
                                    /\ x.list \subseteq Data(g).agents \ {x.agent}

\* An action is chosen for the group as it is shown; all but the adding of an
\* agent ask first.
ChooseAction(p, x) ==
    /\ Steward /\ change[p] = NoChange /\ dialog[p] = NoChange /\ Offered(shown[p], x)
    /\ LET asked == [at |-> "posted", action |-> x, revision |-> shown[p]]
       IN  IF x.kind = "add-agent"
           THEN change' = [change EXCEPT ![p] = asked] /\ UNCHANGED dialog
           ELSE dialog' = [dialog EXCEPT ![p] = asked] /\ UNCHANGED change
    /\ UNCHANGED <<shown, opening>> /\ Gateway

ConfirmAction(p) ==
    /\ dialog[p] # NoChange /\ change[p] = NoChange
    /\ change' = [change EXCEPT ![p] = dialog[p]]
    /\ dialog' = [dialog EXCEPT ![p] = NoChange]
    /\ UNCHANGED <<shown, opening, groupActs>> /\ Gateway

CloseDialog(p) ==
    /\ dialog[p] # NoChange
    /\ dialog' = [dialog EXCEPT ![p] = NoChange]
    /\ UNCHANGED <<shown, opening, change, groupActs>> /\ Gateway

\* However the action ended, the panel opens the group again that it shows; after
\* a create it only lists the groups.
ActionEnds(p) ==
    /\ change[p].at \in {"changed", "rejected"}
    /\ change' = [change EXCEPT ![p] = NoChange]
    /\ opening' = [opening EXCEPT ![p] = IF change[p].action.kind = "create" THEN @ ELSE group]
    /\ UNCHANGED <<shown, dialog, groupActs>> /\ Gateway

---------------------------------------------------------------------------
(* The gateway's group action.                                             *)

Browser == UNCHANGED <<shown, opening, dialog, cli, groupActs>>

Reaches(p, s) == change' = [change EXCEPT ![p].at = s]

\* The target and its candidates must be members, and differ.
MayChange(d, x) ==
    x.kind = "fallback-set" => x.agent \in d.agents /\ x.list \subseteq d.agents \ {x.agent}

\* The file is read ...
Take(p) ==
    /\ change[p].at = "posted" /\ MayChange(Data(group), change[p].action)
    /\ source' = [source EXCEPT ![p] = group]
    /\ Reaches(p, "read")
    /\ Browser /\ UNCHANGED <<group, crossed>>

\* Mutant: whatever the panel was shown.
ReadGroupAnyRevision(p) == Take(p)

\* ... and must be what the panel was shown.
ReadGroup(p) == Take(p) /\ group = change[p].revision

Crossing == {p \in Panels : change[p].at = "checked"}

\* It must still be that when the write begins.
CheckGroup(p) ==
    /\ change[p].at = "read" /\ group = source[p]
    /\ crossed' = [q \in Panels |-> IF q = p THEN Crossing # {} ELSE crossed[q] \/ q \in Crossing]
    /\ Reaches(p, "checked")
    /\ Browser /\ UNCHANGED <<group, source>>

\* The rename; of two writes begun in one millisecond the first puts the other's
\* text in place, and the other finds nothing to rename.
PlaceGroup(p, q) ==
    /\ change[p].at = "checked" /\ change[q].at = "checked"
    /\ group' = Changed(source[q], change[q].action)
    /\ change' = [change EXCEPT ![q].at = "rejected", ![p].at = "changed"]
    /\ source' = [source EXCEPT ![p] = NoGroup, ![q] = NoGroup]
    /\ crossed' = [crossed EXCEPT ![p] = FALSE, ![q] = FALSE]
    /\ Browser

\* Another revision, no such group, a file operation that fails.
RejectChange(p) ==
    /\ change[p].at \in {"posted", "read", "checked"}
    /\ Reaches(p, "rejected")
    /\ source' = [source EXCEPT ![p] = NoGroup]
    /\ crossed' = [crossed EXCEPT ![p] = FALSE]
    /\ Browser /\ UNCHANGED group

---------------------------------------------------------------------------
(* The group commands.                                                     *)

Web == UNCHANGED <<shown, opening, dialog, change, source>>

\* What a command agrees to; creation can be forced over a group that exists,
\* and a fallback order may name anybody.
CommandMay(g, x) ==
    /\ g = NoGroup => x.kind = "create"
    /\ x.kind = "add-agent" => x.agent \notin Data(g).agents
    /\ x.kind \in {"remove-agent", "fallback-set"} => x.agent \in Data(g).agents

\* A command reads the group.
CommandReads(x) ==
    /\ Steward /\ cli.at = "none" /\ CommandMay(group, x)
    /\ cli' = [at |-> "read", action |-> x, read |-> group]
    /\ Web /\ UNCHANGED <<group, crossed>>

\* It writes without looking again, and the file is truncated first.
CommandTruncates ==
    /\ cli.at = "read"
    /\ group' = Blank
    /\ cli' = [cli EXCEPT !.at = "writing"]
    /\ crossed' = [p \in Panels |-> crossed[p] \/ p \in Crossing]
    /\ Web /\ UNCHANGED groupActs

CommandWrites ==
    /\ cli.at = "writing"
    /\ group' = Changed(cli.read, cli.action)
    /\ cli' = NoCommand
    /\ crossed' = [p \in Panels |-> crossed[p] \/ p \in Crossing]
    /\ Web /\ UNCHANGED groupActs

CommandDies ==
    /\ cli.at \in {"read", "writing"}
    /\ cli' = NoCommand
    /\ Web /\ UNCHANGED <<group, crossed, groupActs>>

GroupsNext ==
    \/ \E p \in Panels : \/ OpenGroup(p) \/ ShowGroup(p) \/ ConfirmAction(p)
                         \/ CloseDialog(p) \/ ActionEnds(p)
                         \/ ReadGroup(p) \/ CheckGroup(p) \/ RejectChange(p)
    \/ \E p \in Panels, x \in Actions : ChooseAction(p, x)
    \/ \E p, q \in Panels : PlaceGroup(p, q)
    \/ \E x \in Actions : CommandReads(x)
    \/ CommandTruncates \/ CommandWrites \/ CommandDies

GroupsSpec == GroupsInit /\ [][GroupsNext]_groupVars

---------------------------------------------------------------------------
GroupsTypeOK ==
    /\ group \in Groups \cup {NoGroup, Blank}
    /\ shown \in [Panels -> Groups \cup {NoGroup, Blank}]
    /\ crossed \in [Panels -> BOOLEAN]

\* An action of a panel changes the group the steward saw when choosing it:
\* whoever changed the file in the meantime, from another panel or a command, is
\* not overwritten, unless the write came between the check and the rename
\* (mutateGroup, writeFileAtomic).
ActionOnWhatWasShown ==
    [][\A p \in Panels :
          change[p].at = "checked" /\ change'[p].at = "changed" /\ ~crossed[p]
            => /\ group = change[p].revision
               /\ group' = Changed(group, change[p].action)]_groupVars

\* In a group the validation finds nothing wrong with, the runtime and the advice
\* to the steward name the same agents, though only one of them looks at the
\* membership of a candidate (resolveFallbackCandidates, recommendFallback).
CleanGroupsAgree ==
    Dangling(Data(group)) = {} =>
        \A a \in Members : \A excluded \in SUBSET Members :
            Candidates(Data(group), a, excluded) = Recommended(Data(group), a, excluded)

=============================================================================
