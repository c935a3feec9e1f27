---------------------------- MODULE Provisioning ----------------------------
(***************************************************************************)
(* The commands that make a vault and its agents and that say which of     *)
(* them this machine runs: init, agent add, clone and remove, setup and    *)
(* its wizard (init.ts, init-baseline.ts, agent-manage.ts, setup.ts,       *)
(* wizard.ts), while the steward and the agents write into the vault.      *)
(*                                                                         *)
(* The directories of an agent are one element of "homes".  A file is      *)
(* none, fresh (as a command writes it) or grown (somebody has written     *)
(* into it).  A command reads the local config when it starts and writes   *)
(* it last; a shell holds one command, and any command may die between     *)
(* two of its writes.                                                      *)
(***************************************************************************)
EXTENDS Integers, Sequences

CONSTANTS
    Crew,           \* names of agents
    Shells,         \* where commands are given
    MaxProvActs     \* bound: commands, and what is written into the vault

ASSUME ProvisioningAssumption == MaxProvActs \in Nat

VARIABLES
    vault,          \* marker, directives, baseline skill and wiki of the vault
    homes,          \* the agents that have a directory
    papers,         \* the files in an agent's directory
    local,          \* the local config
    shell,          \* the command of each shell
    provActs

provVars == <<vault, homes, papers, local, shell, provActs>>

Papers == {"soul", "memory", "prefs"}

NoPapers == [p \in Papers |-> "none"]

\* An absent, an unreadable and an empty local config are read alike.
EmptyConfig == [root |-> FALSE, allowed |-> {}, excluded |-> {}]

NoPick == [allowed |-> {}, excluded |-> {}]

AtPrompt ==
    [kind |-> "none", agent |-> "none", from |-> "none", force |-> FALSE, todo |-> <<>>,
     found |-> {}, conf |-> EmptyConfig, pick |-> NoPick, mandate |-> FALSE]

ProvisioningInit ==
    /\ vault = [marker |-> FALSE, directives |-> "none", skill |-> FALSE, wiki |-> FALSE]
    /\ homes = {}
    /\ papers = [a \in Crew |-> NoPapers]
    /\ local = EmptyConfig
    /\ shell = [s \in Shells |-> AtPrompt]
    /\ provActs = 0

ProvAct == provActs < MaxProvActs /\ provActs' = provActs + 1

-----------------------------------------------------------------------------
(* What each command does, in order.                                       *)

VaultFiles == <<"marker", "directives", "soul", "memory", "prefs", "wiki">>

Plan(kind) ==
    CASE kind = "init"   -> <<"probe">>
      [] kind = "add"    -> <<"vacant", "dirs", "soul", "memory", "prefs", "permit">>
      [] kind = "clone"  -> <<"vacant", "copy", "permit">>
      [] kind = "remove" -> <<"confirm", "forbid">>
      [] kind = "setup"  -> <<"scaffold", "prefer">>
      [] kind = "wizard" -> <<"look">>

\* A command as it starts.
Commanded(kind, a, from, force, conf) ==
    [AtPrompt EXCEPT !.kind = kind, !.agent = a, !.from = from, !.force = force,
                     !.todo = Plan(kind), !.found = homes, !.conf = conf]

\* A command starts: it reads the local config, in vain if the read fails.
BeginProvision(s) ==
    \E kind \in {"init", "add", "clone", "remove", "setup", "wizard"}, a, from \in Crew, force \in BOOLEAN :
        /\ shell[s] = AtPrompt
        /\ force => kind \in {"init", "add"}
        /\ (kind = "clone") = (a # from)
        /\ ProvAct
        /\ \E conf \in {local, EmptyConfig} :
              /\ kind \in {"init", "wizard"} => conf = EmptyConfig
              /\ shell' = [shell EXCEPT ![s] = Commanded(kind, a, from, force, conf)]
        /\ UNCHANGED <<vault, homes, papers, local>>

Upon(s, what) == shell[s].todo # <<>> /\ Head(shell[s].todo) = what

Ends(s) == shell' = [shell EXCEPT ![s] = AtPrompt]

\* The step is done; after the last one the shell is free again.
Onward(s) ==
    IF Len(shell[s].todo) = 1 THEN Ends(s)
    ELSE shell' = [shell EXCEPT ![s].todo = Tail(@)]

Instead(s, steps, mandate) ==
    shell' = [shell EXCEPT ![s].todo = steps \o Tail(@), ![s].mandate = mandate]

\* It throws, exits or is killed; what it has written stays.
ProvisionDies(s) ==
    /\ shell[s].todo # <<>>
    /\ Ends(s)
    /\ UNCHANGED <<vault, homes, papers, local, provActs>>

-----------------------------------------------------------------------------
(* init, also for the wizard.                                              *)

Recognized ==
    \/ vault.marker
    \/ vault.directives # "none"
    \/ \E a \in homes : papers[a]["soul"] # "none"

\* The templates may be missing or invalid.
Assets == BOOLEAN

SkillAbsent == ~vault.skill

\* The baseline is for a vault that is none yet; a file that cannot be read
\* counts as there, and templates that cannot be used as no baseline.
Probe(s) ==
    /\ Upon(s, "probe")
    /\ \E recognized \in {Recognized, TRUE}, assets \in Assets :
          Instead(s, IF ~recognized /\ assets /\ SkillAbsent
                     THEN <<"dirs", "skill">> \o VaultFiles
                     ELSE <<"dirs">> \o VaultFiles, FALSE)
    /\ UNCHANGED <<vault, homes, papers, local, provActs>>

MakeDirs(s) ==
    /\ Upon(s, "dirs")
    /\ homes' = homes \cup {shell[s].agent}
    /\ Onward(s)
    /\ UNCHANGED <<vault, papers, local, provActs>>

\* The skill comes before the rule that mandates it, and never over another.
CreateBaseline(s) ==
    /\ Upon(s, "skill")
    /\ \E written \in {FALSE, ~vault.skill} :
          /\ vault' = [vault EXCEPT !.skill = @ \/ written]
          /\ Instead(s, <<>>, written)
    /\ UNCHANGED <<homes, papers, local, provActs>>

\* A generated file is written over another only with --force: else the
\* command ends there.
MarkVault(s) ==
    /\ Upon(s, "marker")
    /\ IF vault.marker /\ ~shell[s].force
       THEN Ends(s) /\ UNCHANGED vault
       ELSE Onward(s) /\ vault' = [vault EXCEPT !.marker = TRUE]
    /\ UNCHANGED <<homes, papers, local, provActs>>

WriteDirectives(s) ==
    /\ Upon(s, "directives")
    /\ IF vault.directives # "none" /\ ~shell[s].force
       THEN Ends(s) /\ UNCHANGED vault
       ELSE /\ Onward(s)
            /\ vault' = [vault EXCEPT !.directives = IF shell[s].mandate THEN "mandated" ELSE "plain"]
    /\ UNCHANGED <<homes, papers, local, provActs>>

\* Mutant: the file is written whatever is there.
PaperWritten(s, p) ==
    papers' = [papers EXCEPT ![shell[s].agent][p] = "fresh"] /\ Onward(s)

WritePaper(s, p) ==
    IF papers[shell[s].agent][p] # "none" /\ ~shell[s].force
    THEN Ends(s) /\ UNCHANGED papers
    ELSE papers' = [papers EXCEPT ![shell[s].agent][p] = "fresh"] /\ Onward(s)

\* The directory may be gone by now: the write fails.
WriteIdentity(s) ==
    /\ \E p \in Papers :
          /\ Upon(s, p)
          /\ IF shell[s].agent \in homes THEN WritePaper(s, p) ELSE Ends(s) /\ UNCHANGED papers
    /\ UNCHANGED <<vault, homes, local, provActs>>

WriteWiki(s) ==
    /\ Upon(s, "wiki")
    /\ IF vault.wiki /\ ~shell[s].force
       THEN Ends(s) /\ UNCHANGED vault
       ELSE Onward(s) /\ vault' = [vault EXCEPT !.wiki = TRUE]
    /\ UNCHANGED <<homes, papers, local, provActs>>

-----------------------------------------------------------------------------
(* agent add, clone and remove.                                            *)

\* add refuses a directory that is there, unless forced; clone wants one and
\* no other.
Vacant(s) ==
    CASE shell[s].kind = "add"   -> shell[s].force \/ shell[s].agent \notin homes
      [] shell[s].kind = "clone" -> shell[s].from \in homes /\ shell[s].agent \notin homes

CheckVacant(s) ==
    /\ Upon(s, "vacant")
    /\ IF Vacant(s) THEN shell' = [shell EXCEPT ![s].todo = Tail(@), ![s].found = homes] ELSE Ends(s)
    /\ UNCHANGED <<vault, homes, papers, local, provActs>>

CopyAgent(s) ==
    /\ Upon(s, "copy")
    /\ IF shell[s].from \in homes
       THEN /\ homes' = homes \cup {shell[s].agent}
            /\ papers' = [papers EXCEPT ![shell[s].agent] =
                  [p \in Papers |-> IF papers[shell[s].from][p] # "none" THEN papers[shell[s].from][p] ELSE @[p]]]
            /\ Onward(s)
       ELSE Ends(s) /\ UNCHANGED <<homes, papers>>
    /\ UNCHANGED <<vault, local, provActs>>

\* The new list is made from the config that was read at the start.
Permit(s) ==
    /\ Upon(s, "permit")
    /\ IF shell[s].agent \in shell[s].conf.allowed THEN UNCHANGED local
       ELSE local' = [shell[s].conf EXCEPT !.allowed = @ \cup {shell[s].agent}]
    /\ Onward(s)
    /\ UNCHANGED <<vault, homes, papers, provActs>>

\* The question waits for its answer; there is none without a directory.
ConfirmRemoval(s) ==
    /\ Upon(s, "confirm")
    /\ \/ /\ shell[s].agent \in homes
          /\ Instead(s, <<"delete">>, FALSE)
       \/ Onward(s)
    /\ UNCHANGED <<vault, homes, papers, local, provActs>>

DeleteAgent(s) ==
    /\ Upon(s, "delete")
    /\ homes' = homes \ {shell[s].agent}
    /\ papers' = [papers EXCEPT ![shell[s].agent] = NoPapers]
    /\ Onward(s)
    /\ UNCHANGED <<vault, local, provActs>>

\* Whether the directory went or not, the agent leaves the list; a list
\* without an entry is taken out.
Forbid(s) ==
    /\ Upon(s, "forbid")
    /\ IF shell[s].agent \notin shell[s].conf.allowed THEN UNCHANGED local
       ELSE local' = [shell[s].conf EXCEPT !.allowed = @ \ {shell[s].agent}]
    /\ Onward(s)
    /\ UNCHANGED <<vault, homes, papers, provActs>>

-----------------------------------------------------------------------------
(* setup --apply and the wizard.                                           *)

\* A config that names no vault is replaced; any other is left alone.
ScaffoldLocal(s) ==
    /\ Upon(s, "scaffold")
    /\ IF shell[s].conf.root THEN UNCHANGED local
       ELSE local' = [EmptyConfig EXCEPT !.root = TRUE, !.allowed = {shell[s].agent}]
    /\ Onward(s)
    /\ UNCHANGED <<vault, homes, papers, provActs>>

\* The agent's own config is written if it is missing or a model is given.
Prefer(s) ==
    /\ Upon(s, "prefer")
    /\ \E model \in BOOLEAN :
          IF model \/ papers[shell[s].agent]["prefs"] = "none"
          THEN /\ homes' = homes \cup {shell[s].agent}
               /\ papers' = [papers EXCEPT ![shell[s].agent]["prefs"] = "fresh"]
          ELSE UNCHANGED <<homes, papers>>
    /\ Onward(s)
    /\ UNCHANGED <<vault, local, provActs>>

VaultThere == vault.marker \/ (vault.directives # "none" /\ homes # {})

\* The wizard makes the vault, or the first agent of one that has none, or
\* asks which of the vault's agents to run.
Look(s) ==
    /\ Upon(s, "look")
    /\ \E allowed \in (SUBSET Crew) \ {{}}, excluded \in SUBSET Crew :
          /\ homes = {} \/ ~VaultThere => allowed = {shell[s].agent} /\ excluded = {}
          /\ shell' = [shell EXCEPT
                ![s].todo = (IF homes = {} \/ ~VaultThere THEN <<"probe">> ELSE <<>>)
                               \o (IF VaultThere THEN <<>> ELSE <<"default_model">>)
                               \o <<"agree">>,
                ![s].pick = [allowed |-> allowed, excluded |-> excluded]]
    /\ UNCHANGED <<vault, homes, papers, local, provActs>>

\* A new vault's agent gets Pi's default model, if Pi has one.
DefaultModel(s) ==
    /\ Upon(s, "default_model")
    /\ papers' \in {papers, [papers EXCEPT ![shell[s].agent]["prefs"] = IF shell[s].agent \in homes THEN "fresh" ELSE @]}
    /\ Onward(s)
    /\ UNCHANGED <<vault, homes, local, provActs>>

Offer(s) == [root |-> TRUE, allowed |-> shell[s].pick.allowed, excluded |-> shell[s].pick.excluded]

\* The config is replaced as shown, if the steward agrees.
Agree(s) ==
    /\ Upon(s, "agree")
    /\ local' \in {local, Offer(s)}
    /\ Onward(s)
    /\ UNCHANGED <<vault, homes, papers, provActs>>

-----------------------------------------------------------------------------
(* Meanwhile.                                                              *)

\* The steward writes what an agent is and what it should remember.
Grow ==
    /\ ProvAct
    /\ \E a \in Crew, p \in {"soul", "memory"} :
          /\ papers[a][p] = "fresh"
          /\ papers' = [papers EXCEPT ![a][p] = "grown"]
    /\ UNCHANGED <<vault, homes, local, shell>>

\* An agent starts only with its identity and the directives, and if this
\* machine may run it; a list without an entry allows all.  It remembers.
Remember ==
    /\ ProvAct
    /\ \E a \in Crew :
          /\ a \notin local.excluded
          /\ local.allowed = {} \/ a \in local.allowed
          /\ papers[a]["soul"] # "none" /\ vault.directives # "none"
          /\ papers' = [papers EXCEPT ![a]["memory"] = "grown"]
    /\ UNCHANGED <<vault, homes, local, shell>>

ProvisioningNext ==
    \/ \E s \in Shells :
          \/ BeginProvision(s) \/ ProvisionDies(s)
          \/ Probe(s) \/ MakeDirs(s) \/ CreateBaseline(s) \/ MarkVault(s) \/ WriteDirectives(s)
          \/ WriteIdentity(s) \/ WriteWiki(s)
          \/ CheckVacant(s) \/ CopyAgent(s) \/ Permit(s)
          \/ ConfirmRemoval(s) \/ DeleteAgent(s) \/ Forbid(s)
          \/ ScaffoldLocal(s) \/ Prefer(s) \/ Look(s) \/ DefaultModel(s) \/ Agree(s)
    \/ Grow \/ Remember

ProvisioningSpec == ProvisioningInit /\ [][ProvisioningNext]_provVars

-----------------------------------------------------------------------------
ProvisioningTypeOK ==
    /\ vault \in [marker : BOOLEAN, directives : {"none", "plain", "mandated"}, skill : BOOLEAN, wiki : BOOLEAN]
    /\ homes \subseteq Crew
    /\ papers \in [Crew -> [Papers -> {"none", "fresh", "grown"}]]
    /\ local \in [root : BOOLEAN, allowed : SUBSET Crew, excluded : SUBSET Crew]
    /\ DOMAIN shell = Shells
    /\ provActs \in 0..MaxProvActs

\* What an agent is and remembers, in a directory that was there when a
\* command began or looked, is lost to that command only if it was forced or if the
\* steward confirmed its removal.
IdentityKept ==
    [][\A a \in Crew, p \in {"soul", "memory"} :
          papers[a][p] = "grown" /\ papers'[a][p] # "grown" =>
              \E s \in Shells :
                  /\ shell[s].agent = a
                  /\ shell[s].force \/ Upon(s, "delete") \/ a \notin shell[s].found]_provVars
=============================================================================
