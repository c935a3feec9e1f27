------------------------------- MODULE Skills -------------------------------
(***************************************************************************)
(* The skills of one name in a vault: the files of every scope, the copy   *)
(* staged by an import, the commands that create, move, stage, promote and *)
(* seed them, and the steward who edits files and clears up after a        *)
(* command that died.  Every file operation may fail and a command may die *)
(* before each of them.  A text is what the file says below its            *)
(* frontmatter; a skill of another name shares no path with these.  Two    *)
(* commands at once, and an edit under a command that has made its checks, *)
(* are not modelled: only the seed defends itself against them.            *)
(***************************************************************************)
EXTENDS Naturals, Sequences, FiniteSets, FiniteSetsExt

CONSTANTS
    Shared,         \* the shared scope
    GroupScopes,    \* the scopes of the agent groups, in the order of their names
    ListedGroups,   \* the same, in the order their directory lists them
    AgentScopes,    \* the scopes of the agents, in the order of their names
    GroupsOf,       \* the groups of each agent
    Texts,          \* what stewards write and import
    Skeleton,       \* what create writes
    Template,       \* what the starter profile ships
    NoText,         \* no file
    MaxSkillActs    \* bound: commands, edits and clearings-up

ScopeOrder == <<Shared>> \o GroupScopes \o AgentScopes

Elements(s) == {s[i] : i \in DOMAIN s}

Scopes == Elements(ScopeOrder)

\* A skill is a file <name>.md or a directory <name>/ with a SKILL.md in it.
Places == Scopes \X {"dir", "flat"}

\* The order the loader takes them in.  Which of the two forms in one scope
\* comes first is up to the listing of its directory; here it is the directory.
PlaceOrder == [i \in 1..(2 * Len(ScopeOrder)) |->
                  <<ScopeOrder[(i + 1) \div 2], IF i % 2 = 1 THEN "dir" ELSE "flat">>]

\* Scopes are directories: no two have the same name.
ASSUME SkillsAssumption ==
    /\ \A i, j \in DOMAIN ScopeOrder : ScopeOrder[i] = ScopeOrder[j] => i = j
    /\ ListedGroups \in Seq(Elements(ListedGroups)) /\ Elements(ListedGroups) = Elements(GroupScopes)
    /\ GroupScopes \in Seq(Elements(GroupScopes)) /\ AgentScopes \in Seq(Elements(AgentScopes))
    /\ IsFiniteSet(Texts) /\ {Skeleton, Template, NoText} \cap Texts = {} /\ MaxSkillActs \in Nat
    /\ GroupsOf \in [Elements(AgentScopes) -> SUBSET Elements(GroupScopes)]

VARIABLES
    active,         \* the text at each place
    staged,         \* the staged copy
    temp,           \* the temporary file of a promotion, by scope
    bak,            \* the set-aside target of a promotion, by scope
    skillRun,       \* the command, or how the last one ended
    kept,           \* history: the texts nobody asked to replace
    skillActs       \* acts so far

skillVars == <<active, staged, temp, bak, skillRun, kept, skillActs>>

Ended == {"none", "done", "failed", "stuck"}

NoSkillRun == [kind |-> "none", from |-> Shared, to |-> Shared, form |-> "flat", force |-> FALSE,
          hit |-> FALSE, text |-> NoText, was |-> NoText, at |-> "none"]

SkillsInit ==
    /\ active = [p \in Places |-> NoText] /\ staged = NoText
    /\ temp = [s \in Scopes |-> NoText] /\ bak = [s \in Scopes |-> NoText]
    /\ skillRun = NoSkillRun
    /\ kept = {} /\ skillActs = 0

Surviving == {active[p] : p \in Places} \cup {temp[s] : s \in Scopes} \cup {bak[s] : s \in Scopes} \cup {staged}

NewTexts == {t \in Texts : t \notin kept \cup Surviving}

(* What agents see and what the commands say of it *)

\* Where there is a file of the skill, and which of these are in some scopes.
Found == {i \in DOMAIN PlaceOrder : active[PlaceOrder[i]] # NoText}

FoundIn(S) == {i \in Found : PlaceOrder[i][1] \in S}

\* The skill an agent loads: a later file of the name replaces an earlier one.
Effective(a) == LET seen == FoundIn({Shared, a} \cup GroupsOf[a])
                IN  IF seen = {} THEN <<>> ELSE PlaceOrder[Max(seen)]

\* The loader sorts the groups of an agent by name (agent-groups.ts:120), the
\* command takes them as the directory lists them (skill-cli.ts:416-444).
GroupsThatHaveIt(a) == {i \in DOMAIN ListedGroups : ListedGroups[i] \in GroupsOf[a] /\ FoundIn({ListedGroups[i]}) # {}}

FirstIn(S) == PlaceOrder[Min(FoundIn(S))]

\* Mutant: the shared skill goes before a group's.
ExplainedSharedFirst(a) ==
    CASE FoundIn({a}) # {} -> FirstIn({a})
      [] FoundIn({a}) = {} /\ FoundIn({Shared}) # {} -> FirstIn({Shared})
      [] OTHER -> IF GroupsThatHaveIt(a) # {} THEN FirstIn({ListedGroups[Max(GroupsThatHaveIt(a))]}) ELSE FirstIn(Scopes)

\* What "skill explain" calls effective, when some scope has the skill; of one
\* that the agent does not see, the first found.
Explained(a) ==
    CASE FoundIn({a}) # {} -> FirstIn({a})
      [] FoundIn({a}) = {} /\ GroupsThatHaveIt(a) # {} -> FirstIn({ListedGroups[Max(GroupsThatHaveIt(a))]})
      [] OTHER -> IF FoundIn({Shared}) # {} THEN FirstIn({Shared}) ELSE FirstIn(Scopes)

(* Commands *)

BeginCommand(r) ==
    /\ skillRun.at \in Ended /\ skillActs < MaxSkillActs
    /\ skillRun' = r
    /\ skillActs' = skillActs + 1
    /\ UNCHANGED <<active, staged, temp, bak, kept>>

Go(at) == skillRun' = [skillRun EXCEPT !.at = at] /\ UNCHANGED skillActs

End(how) == skillRun' = [NoSkillRun EXCEPT !.at = how] /\ UNCHANGED skillActs

CommandAt(kind, at) == skillRun.kind = kind /\ skillRun.at = at

FileFails(kind, at) == CommandAt(kind, at) /\ End("failed") /\ UNCHANGED <<active, staged, temp, bak, kept>>

CreateSkill(s, force) ==
    /\ active[<<s, "flat">>] # NoText => force
    /\ BeginCommand([NoSkillRun EXCEPT !.kind = "create", !.to = s, !.force = force, !.at = "write"])

WriteSkeleton ==
    LET p == <<skillRun.to, "flat">> IN
    /\ CommandAt("create", "write")
    /\ active' = [active EXCEPT ![p] = Skeleton]
    /\ kept' = kept \ {active[p]}
    /\ End("done") /\ UNCHANGED <<staged, temp, bak>>

\* Move, promote and demote.
MoveSkill(from, to, force) ==
    LET hit == \E form \in {"flat", "dir"} : active[<<to, form>>] # NoText IN
    \E form \in {"flat", "dir"} :
        /\ active[<<from, form>>] # NoText
        /\ form = "dir" => active[<<from, "flat">>] = NoText
        /\ hit => force
        /\ BeginCommand([NoSkillRun EXCEPT !.kind = "move", !.from = from, !.to = to, !.form = form, !.force = force,
                               !.hit = hit, !.text = active[<<from, form>>],
                               !.at = IF hit THEN "clear" ELSE "place"])

\* The file is tried first; the directory only if that did not work; errors are ignored.
ClearTarget ==
    /\ CommandAt("move", "clear")
    /\ \/ \E form \in {"flat", "dir"} :
             /\ active[<<skillRun.to, form>>] # NoText
             /\ active' = [active EXCEPT ![<<skillRun.to, form>>] = NoText]
             /\ kept' = kept \ {active[<<skillRun.to, form>>]}
       \/ UNCHANGED <<active, kept>>
    /\ Go("place") /\ UNCHANGED <<staged, temp, bak>>

MoveFile ==
    LET from == <<skillRun.from, "flat">>  to == <<skillRun.to, "flat">> IN
    /\ CommandAt("move", "place") /\ skillRun.form = "flat" /\ active[from] # NoText
    /\ active' = IF from = to THEN active ELSE [active EXCEPT ![to] = active[from], ![from] = NoText]
    /\ kept' = IF from = to THEN kept ELSE kept \ {active[to]}
    /\ End("done") /\ UNCHANGED <<staged, temp, bak>>

CopyDirectory ==
    LET from == <<skillRun.from, "dir">>  to == <<skillRun.to, "dir">> IN
    /\ CommandAt("move", "place") /\ skillRun.form = "dir" /\ active[from] # NoText
    /\ active' = [active EXCEPT ![to] = active[from]]
    /\ kept' = kept \ ({active[to]} \ {active[from]})
    /\ Go("remove") /\ UNCHANGED <<staged, temp, bak>>

\* A forced move of a skill onto itself asked for it to be replaced.
RemoveSource ==
    /\ CommandAt("move", "remove")
    /\ active' = [active EXCEPT ![<<skillRun.from, "dir">>] = NoText]
    /\ kept' = IF skillRun.from = skillRun.to THEN kept \ {skillRun.text} ELSE kept
    /\ End("done") /\ UNCHANGED <<staged, temp, bak>>

ImportStaged(force) ==
    /\ staged # NoText => force
    /\ \E t \in NewTexts : BeginCommand([NoSkillRun EXCEPT !.kind = "import", !.force = force, !.text = t, !.at = "write"])

StageImport ==
    /\ CommandAt("import", "write")
    /\ staged' = skillRun.text
    /\ kept' = (kept \ {staged}) \cup {skillRun.text}
    /\ End("done") /\ UNCHANGED <<active, temp, bak>>

\* Mutant: what an earlier promotion left behind is not looked at.
NothingAtAll(s) == TRUE

NoArtifacts(s) == temp[s] = NoText /\ bak[s] = NoText

PromoteStaged(s, force) ==
    LET target == active[<<s, "flat">>] IN
    /\ staged # NoText
    /\ target # NoText => force
    /\ NoArtifacts(s)
    /\ BeginCommand([NoSkillRun EXCEPT !.kind = "promote", !.to = s, !.force = force, !.hit = target # NoText,
                           !.text = staged, !.was = target,
                           !.at = IF target # NoText THEN "backup" ELSE "commit"])

SetTargetAside ==
    LET s == skillRun.to IN
    /\ CommandAt("promote", "backup")
    /\ bak' = [bak EXCEPT ![s] = active[<<s, "flat">>]]
    /\ active' = [active EXCEPT ![<<s, "flat">>] = NoText]
    /\ Go("commit") /\ UNCHANGED <<staged, temp, kept>>

WriteTemp ==
    /\ CommandAt("promote", "commit")
    /\ temp' = [temp EXCEPT ![skillRun.to] = skillRun.text]
    /\ Go("place") /\ UNCHANGED <<active, staged, bak, kept>>

PlaceTemp ==
    LET s == skillRun.to IN
    /\ CommandAt("promote", "place")
    /\ active' = [active EXCEPT ![<<s, "flat">>] = temp[s]]
    /\ temp' = [temp EXCEPT ![s] = NoText]
    /\ Go("unstage") /\ UNCHANGED <<staged, bak, kept>>

CommitFails ==
    /\ skillRun.kind = "promote" /\ skillRun.at \in {"commit", "place"}
    /\ Go("undo") /\ UNCHANGED <<active, staged, temp, bak, kept>>

PutBack(s) ==
    /\ active' = [active EXCEPT ![<<s, "flat">>] = bak[s]]
    /\ bak' = [bak EXCEPT ![s] = NoText]

Undo ==
    LET s == skillRun.to IN
    /\ CommandAt("promote", "undo")
    /\ temp' \in {temp, [temp EXCEPT ![s] = NoText]}
    /\ \/ skillRun.hit /\ PutBack(s) /\ End("failed")
       \/ skillRun.hit /\ End("stuck") /\ UNCHANGED <<active, bak>>
       \/ ~skillRun.hit /\ End("failed") /\ UNCHANGED <<active, bak>>
    /\ UNCHANGED <<staged, kept>>

\* The promotion is complete: the replaced text may go.
Unstage ==
    /\ CommandAt("promote", "unstage")
    /\ staged' = NoText
    /\ kept' = kept \ {skillRun.was}
    /\ IF skillRun.hit THEN Go("tidy") ELSE End("done")
    /\ UNCHANGED <<active, temp, bak>>

UnstageFails == CommandAt("promote", "unstage") /\ Go("rollback") /\ UNCHANGED <<active, staged, temp, bak, kept>>

RollsBack(s) ==
    IF skillRun.hit THEN PutBack(s)
    ELSE active' = [active EXCEPT ![<<s, "flat">>] = NoText] /\ UNCHANGED bak

Rollback ==
    /\ CommandAt("promote", "rollback")
    /\ \/ RollsBack(skillRun.to) /\ End("failed")
       \/ End("stuck") /\ UNCHANGED <<active, bak>>
    /\ UNCHANGED <<staged, temp, kept>>

\* A backup that cannot be removed stays, with a warning.
Tidy ==
    /\ CommandAt("promote", "tidy")
    /\ bak' \in {bak, [bak EXCEPT ![skillRun.to] = NoText]}
    /\ End("done") /\ UNCHANGED <<active, staged, temp, kept>>

SeedTarget == <<Shared, "dir">>

\* parseProvenance: the template block that a seed writes and nobody else does.
HasProvenance(text) == text = Template

\* classifyTargetFile; a template has one version, and a seeded file is edited by
\* no one here.
SeedState ==
    CASE active[SeedTarget] = NoText           -> "absent"
      [] HasProvenance(active[SeedTarget])     -> "seeded-current"
      [] OTHER                                 -> "provenance-invalid"

\* classifyStarterEntry: the name is active anywhere else.
NameTaken == \E p \in Places \ {SeedTarget} : active[p] # NoText

\* Nothing is seeded while another file has the name, or the target is there.
SeedMay == SeedState = "absent" /\ ~NameTaken

SeedSkill ==
    /\ SeedMay
    /\ BeginCommand([NoSkillRun EXCEPT !.kind = "seed", !.at = "write"])

SeedTargetFree == active[SeedTarget] = NoText

WriteSeed ==
    /\ CommandAt("seed", "write")
    /\ SeedTargetFree
    /\ active' = [active EXCEPT ![SeedTarget] = Template]
    /\ End("done") /\ UNCHANGED <<staged, temp, bak, kept>>

CommandFails ==
    \/ FileFails("create", "write") \/ FileFails("move", "place") \/ FileFails("move", "remove")
    \/ FileFails("import", "write") \/ FileFails("promote", "backup") \/ FileFails("seed", "write")

CommandDiesAt ==
    /\ skillRun.at \notin Ended
    /\ End("none") /\ UNCHANGED <<active, staged, temp, bak, kept>>

(* Stewards, in their own editors *)

Edits ==
    /\ skillRun.at \in Ended \/ skillRun.kind = "seed"
    /\ skillActs < MaxSkillActs
    /\ \E p \in Places, t \in NewTexts :
          /\ active[p] = NoText
          /\ active' = [active EXCEPT ![p] = t]
          /\ kept' = kept \cup {t}
    /\ skillActs' = skillActs + 1
    /\ UNCHANGED <<staged, temp, bak, skillRun>>

\* A set-aside target is put back unless the promoted text is only there.
ClearsUp(s) ==
    /\ skillRun.at \in Ended /\ skillActs < MaxSkillActs
    /\ ~NoArtifacts(s)
    /\ temp' = [temp EXCEPT ![s] = NoText]
    /\ \/ bak[s] # NoText /\ active[<<s, "flat">>] \in {NoText, staged} /\ PutBack(s) /\ UNCHANGED kept
       \/ /\ bak[s] # NoText /\ active[<<s, "flat">>] \notin {NoText, staged}
          /\ bak' = [bak EXCEPT ![s] = NoText] /\ kept' = kept \ {bak[s]} /\ UNCHANGED active
       \/ bak[s] = NoText /\ UNCHANGED <<active, bak, kept>>
    /\ skillActs' = skillActs + 1
    /\ UNCHANGED <<staged, skillRun>>

SkillsNext ==
    \/ \E s \in Scopes, force \in BOOLEAN : CreateSkill(s, force) \/ PromoteStaged(s, force)
    \/ \E from, to \in Scopes, force \in BOOLEAN : MoveSkill(from, to, force)
    \/ \E force \in BOOLEAN : ImportStaged(force)
    \/ WriteSkeleton \/ ClearTarget \/ MoveFile \/ CopyDirectory \/ RemoveSource \/ StageImport
    \/ SetTargetAside \/ WriteTemp \/ PlaceTemp \/ CommitFails \/ Undo \/ Unstage \/ UnstageFails
    \/ Rollback \/ Tidy \/ SeedSkill \/ WriteSeed \/ CommandFails \/ CommandDiesAt
    \/ Edits \/ \E s \in Scopes : ClearsUp(s)

SkillsSpec == SkillsInit /\ [][SkillsNext]_skillVars

(* Properties *)

SkillsTypeOK ==
    /\ active \in [Places -> Texts \cup {Skeleton, Template, NoText}]
    /\ staged \in Texts \cup {NoText} /\ kept \subseteq Texts
    /\ {temp, bak} \subseteq [Scopes -> Texts \cup {Skeleton, Template, NoText}]
    /\ skillRun.at \in Ended \cup {"write", "clear", "place", "remove", "backup", "commit", "undo", "unstage",
                                   "rollback", "tidy"}

\* Whatever fails or dies in whatever order, a text that nobody asked to
\* replace is still in a skill's place, staged, or in the file a promotion set
\* aside (skill-cli.ts:1388-1410 keeps that from the next promotion), and never
\* in a temporary file only.
NoSkillLost == kept \subseteq {active[p] : p \in Places} \cup {bak[s] : s \in Scopes} \cup {staged}

\* "skill explain" names the file that the agent loads (skill-cli.ts:577-591),
\* where no scope has the skill both as a file and as a directory, and where
\* the agent has a skill of its own or at most one of its groups has one: with
\* two, the command may name another file than the one that is loaded.
ExplainAgrees ==
    \A a \in Elements(AgentScopes) :
        /\ Effective(a) # <<>>
        /\ \A s \in Scopes : active[<<s, "dir">>] = NoText \/ active[<<s, "flat">>] = NoText
        /\ FoundIn({a}) # {} \/ \A i, j \in GroupsThatHaveIt(a) : i = j
        => Explained(a) = Effective(a)
=============================================================================
