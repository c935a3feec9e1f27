------------------------------- MODULE MCVault -------------------------------
(***************************************************************************)
(* What shares files of the vault without the gateway between: one task    *)
(* and whoever may take it, the files of one conversation, the task        *)
(* commands, and the cron commands, each explored on its own.              *)
(*                                                                         *)
(* The conversation has a call of each kind in flight: two handoffs that   *)
(* compete for the last edge, a budget raise, an archive, a rename, a join *)
(* and a message that needs no lock.                                       *)
(***************************************************************************)
EXTENDS InboxLease, ConversationStore, TaskCommands, CronFiles, TLC

CONSTANTS errand, a1, a2, a3, title1, title2, joins, files, renames, raises, handsOn, handsNext, posts,
          w1, w2, w3, o1, o2

MCAlone == errand :> {}

AllCalls ==
    (joins     :> [op |-> "join", who |-> {a3}])
 @@ (files     :> [op |-> "archive"])
 @@ (renames   :> [op |-> "rename", title |-> title2])
 @@ (raises    :> [op |-> "budget", expected |-> [edges |-> 1, reworkRounds |-> 1],
                   raise |-> [edges |-> 2, reworkRounds |-> 0]])
 @@ (handsOn   :> [op |-> "handoff", from |-> a1, to |-> a2])
 @@ (handsNext :> [op |-> "handoff", from |-> a2, to |-> a3])
 @@ (posts     :> [op |-> "post"])

MCTask == [c \in Callers |-> AllCalls[c]]

MCStart == [audience |-> {a1}, status |-> "open", title |-> title1]

MCBase == [edges |-> 1, reworkRounds |-> 1]
MCCap  == [edges |-> 2, reworkRounds |-> 2]

\* w2, of one agent, waits for w1 of another; w3 waits for nothing.
MCOwnerOf == (w1 :> o1) @@ (w2 :> o2) @@ (w3 :> o2)
MCRequires == (w1 :> {}) @@ (w2 :> {w1}) @@ (w3 :> {})

\* A job that does not say whether it is enabled, a script outside the vault, and
\* two files that the loader and the validation see differently.
MCHandwritten ==
    {[form |-> "whole", mode |-> "agent", script |-> "none", enabled |-> "unsaid", stamps |-> 0],
     [form |-> "whole", mode |-> "script", script |-> "outside", enabled |-> "true", stamps |-> 0],
     [form |-> "no_agent", mode |-> "script", script |-> "inside", enabled |-> "true", stamps |-> 0],
     [form |-> "bad_mode", mode |-> "script", script |-> "none", enabled |-> "false", stamps |-> 0]}

VARIABLE part

vaultVars == <<vars, storeVars, taskVars, cronVars, part>>

VaultInit ==
    /\ part \in {"inbox", "conversation", "tasks", "cron"}
    /\ Init
    /\ StoreInit
    /\ TasksInit
    /\ IF part = "tasks"
       THEN filed[<<w1, Plain>>] = "completed" /\ filed[<<w3, Plain>>] = "pending"
            /\ \A n \in {Plain} \cup Boxes : filed[<<w2, n>>] # "completed"
       ELSE \A f \in Files : filed[f] = Gone
    /\ CronFilesInit
    /\ part # "cron" => \A f \in JobFiles : jobs[f] = NoJobFile

\* The task and cron commands may all be done.
VaultNext ==
    /\ UNCHANGED part
    /\ \/ part = "inbox" /\ Next /\ UNCHANGED <<storeVars, taskVars, cronVars>>
       \/ part = "conversation" /\ StoreNext /\ UNCHANGED <<vars, taskVars, cronVars>>
       \/ part = "tasks" /\ TasksNext /\ UNCHANGED <<vars, storeVars, cronVars>>
       \/ part = "cron" /\ CronFilesNext /\ UNCHANGED <<vars, storeVars, taskVars>>
       \/ part \in {"tasks", "cron"} /\ UNCHANGED <<vars, storeVars, taskVars, cronVars>>

VaultSpec == VaultInit /\ [][VaultNext]_vaultVars

CronFilesSpec == VaultInit /\ part = "cron" /\ [][VaultNext]_vaultVars

VaultSymmetry == Permutations(Authors) \cup Permutations(Clients)
=============================================================================
