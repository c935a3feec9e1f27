---------------------------- MODULE TaskCommands ----------------------------
(***************************************************************************)
(* piren task: the commands on the inbox files of all agents, above all    *)
(* the archive, next to whoever else sends, claims or edits tasks.         *)
(*                                                                         *)
(* The archive looks at every inbox twice, file by file, and moves what    *)
(* both previews found eligible one file at a time; nothing of it is       *)
(* locked.                                                                 *)
(*                                                                         *)
(* Sources: task-archive.ts, task-archive-store.ts, task-cli.ts,           *)
(* cli.ts (runTaskCommand), scheduler-dependencies.ts, inbox.ts.           *)
(***************************************************************************)
EXTENDS Naturals, FiniteSets

CONSTANTS
    Errands,     \* task ids
    Owners,      \* agents
    OwnerOf,     \* [Errands -> Owners], whose inbox has the task
    Requires,    \* [Errands -> SUBSET Errands], its depends_on
    Clients,     \* processes that run a task command or a task tool
    Boxes,       \* device ids a task is claimed for
    Plain,       \* the unclaimed name of a task's file
    Gone,        \* a name without a file
    MaxTaskActs  \* bound on the commands begun

Files == Errands \X ({Plain} \cup Boxes)

Terminal == {"completed", "cancelled"}

TaskStatuses == {"pending"} \cup Terminal

ASSUME TaskCommandsAssumption ==
    /\ OwnerOf \in [Errands -> Owners]
    /\ Requires \in [Errands -> SUBSET Errands]
    /\ Plain \notin Boxes
    /\ Gone \notin TaskStatuses
    /\ MaxTaskActs \in Nat

VARIABLES
    filed,    \* the status in each file of the active inboxes
    shelf,    \* the same for the archive directory of the day
    tool,     \* what each client is doing
    taskActs  \* commands begun so far

\* History: owners whose inbox nobody else has changed since a client began.
VARIABLE quiet

taskVars == <<filed, shelf, tool, taskActs, quiet>>

NoTool == [at |-> "none", verb |-> "none"]

TasksInit ==
    /\ filed \in [Files -> {"pending", "completed", Gone}]
    /\ \A t \in Errands : Cardinality({f \in Files : f[1] = t /\ filed[f] # Gone}) < 2
    /\ shelf = [f \in Files |-> Gone]
    /\ tool = [c \in Clients |-> NoTool]
    /\ taskActs = 0
    /\ quiet = [c \in Clients |-> Owners]

\* Client c puts s into file f of the inbox.
Put(c, f, s) ==
    /\ filed' = [filed EXCEPT ![f] = s]
    /\ quiet' = [u \in Clients |-> IF u = c THEN quiet[u] ELSE quiet[u] \ {OwnerOf[f[1]]}]

Ends(c) == tool' = [tool EXCEPT ![c] = NoTool]

Starts(c, how) ==
    /\ tool[c].at \in {"none", "archived"}
    /\ taskActs < MaxTaskActs /\ taskActs' = taskActs + 1
    /\ tool' = [tool EXCEPT ![c] = how]

-----------------------------------------------------------------------------
\* piren task archive --agent <o> [--yes]: two previews of one operation time.
BeginArchive(c, o, yes) ==
    /\ Starts(c, [at |-> "listing", verb |-> "archive", agent |-> o, yes |-> yes, second |-> FALSE,
                  shown |-> {}, todo |-> Owners, unread |-> {}, batch |-> {}, nodes |-> {},
                  plan |-> {}, moved |-> {}, item |-> Gone])
    /\ quiet' = [quiet EXCEPT ![c] = Owners]
    /\ UNCHANGED <<filed, shelf>>

Archiving(c, at) == tool[c].verb = "archive" /\ tool[c].at = at

With(c, new) == tool' = [tool EXCEPT ![c] = new]

ListInbox(c, o) ==
    /\ Archiving(c, "listing") /\ o \in tool[c].todo
    /\ With(c, [tool[c] EXCEPT !.at = "reading", !.todo = @ \ {o},
                   !.unread = {f \in Files : OwnerOf[f[1]] = o /\ filed[f] # Gone},
                   !.batch = {}])
    /\ UNCHANGED <<filed, shelf, taskActs, quiet>>

ReadListed(c, f) ==
    /\ Archiving(c, "reading") /\ f \in tool[c].unread /\ filed[f] # Gone
    /\ With(c, [tool[c] EXCEPT !.unread = @ \ {f},
                   !.batch = @ \cup {[file |-> f, status |-> filed[f]]}])
    /\ UNCHANGED <<filed, shelf, taskActs, quiet>>

\* A listed file that is not there any more takes its whole inbox with it: the
\* error is taken for that of an agent without an inbox.
ListedVanished(c, f) ==
    /\ Archiving(c, "reading") /\ f \in tool[c].unread /\ filed[f] = Gone
    /\ With(c, [tool[c] EXCEPT !.at = "listing", !.unread = {}, !.batch = {}])
    /\ UNCHANGED <<filed, shelf, taskActs, quiet>>

InboxLoaded(c) ==
    /\ Archiving(c, "reading") /\ tool[c].unread = {}
    /\ With(c, [tool[c] EXCEPT !.at = "listing", !.nodes = @ \cup tool[c].batch, !.batch = {}])
    /\ UNCHANGED <<filed, shelf, taskActs, quiet>>

\* Mutant: only the tasks of the same agent are asked what they depend on.
NeededWithin(nodes, t) ==
    \E n \in nodes : n.status \notin Terminal /\ t \in Requires[n.file[1]]
                         /\ OwnerOf[n.file[1]] = OwnerOf[t]

\* A live task, claimed or not, of any agent depends on t.
Needed(nodes, t) == \E n \in nodes : n.status \notin Terminal /\ t \in Requires[n.file[1]]

Eligible(nodes, o) ==
    {n.file : n \in {m \in nodes : /\ OwnerOf[m.file[1]] = o /\ m.status \in Terminal
                                   /\ ~Needed(nodes, m.file[1])}}

\* All inboxes are read: without --yes the preview is all; with it the second
\* one must name the destinations of the first.
Preview(c) ==
    /\ Archiving(c, "listing") /\ tool[c].todo = {}
    /\ LET found == Eligible(tool[c].nodes, tool[c].agent)
       IN  IF ~tool[c].yes THEN Ends(c)
           ELSE IF ~tool[c].second
           THEN With(c, [tool[c] EXCEPT !.second = TRUE, !.shown = found, !.nodes = {},
                            !.todo = Owners])
           ELSE IF found # tool[c].shown THEN Ends(c)
           ELSE With(c, [tool[c] EXCEPT !.at = "moving", !.plan = found, !.nodes = {}])
    /\ UNCHANGED <<filed, shelf, taskActs, quiet>>

\* The items come in the order of their paths; here in any.
ProbeShelf(c, f) ==
    /\ Archiving(c, "moving") /\ f \in tool[c].plan
    /\ With(c, IF shelf[f] # Gone THEN [tool[c] EXCEPT !.at = "archived", !.plan = {}]
               ELSE [tool[c] EXCEPT !.at = "renaming", !.plan = @ \ {f}, !.item = f])
    /\ UNCHANGED <<filed, shelf, taskActs, quiet>>

\* The rename takes the file as it is by now, and replaces what has come to the
\* destination since it was probed.
MoveItem(c) ==
    /\ Archiving(c, "renaming")
    /\ LET f == tool[c].item
       IN  IF filed[f] = Gone
           THEN /\ With(c, [tool[c] EXCEPT !.at = "archived", !.plan = {}, !.item = Gone])
                /\ UNCHANGED <<filed, shelf, quiet>>
           ELSE /\ shelf' = [shelf EXCEPT ![f] = filed[f]]
                /\ Put(c, f, Gone)
                /\ With(c, [tool[c] EXCEPT !.at = "moving", !.moved = @ \cup {f}, !.item = Gone])
    /\ UNCHANGED taskActs

ArchiveReports(c) ==
    /\ Archiving(c, "moving") /\ tool[c].plan = {}
    /\ With(c, [tool[c] EXCEPT !.at = "archived"])
    /\ UNCHANGED <<filed, shelf, taskActs, quiet>>

-----------------------------------------------------------------------------
\* piren task send: the file is written over whatever has its name.
SendTask(c, t) ==
    /\ \A f \in Files : f[1] = t => filed[f] = Gone /\ shelf[f] = Gone
    /\ Starts(c, NoTool)
    /\ Put(c, <<t, Plain>>, "pending")
    /\ UNCHANGED shelf

\* An id given to show, claim, complete or cancel names the unclaimed file if
\* there is one, else a claimed one.
Resolves(t, f) ==
    /\ f[1] = t /\ filed[f] # Gone
    /\ f[2] = Plain \/ filed[<<t, Plain>>] = Gone

ResolveTask(c, verb, t, f) ==
    /\ Resolves(t, f)
    /\ Starts(c, [at |-> "resolved", verb |-> verb, file |-> f])
    /\ UNCHANGED <<filed, shelf, quiet>>

\* piren task show.
ShowTask(c) ==
    /\ tool[c].at = "resolved" /\ tool[c].verb = "show"
    /\ Ends(c)
    /\ UNCHANGED <<filed, shelf, taskActs, quiet>>

\* piren task claim: a claim of another device must be stale, which the command
\* may find or not; the claimed name must be free.
ProbeClaim(c, b) ==
    /\ tool[c].at = "resolved" /\ tool[c].verb = "claim"
    /\ IF filed[<<tool[c].file[1], b>>] # Gone THEN Ends(c)
       ELSE \/ With(c, [at |-> "claiming", verb |-> "claim", file |-> tool[c].file, box |-> b])
            \/ tool[c].file[2] # Plain /\ Ends(c)
    /\ UNCHANGED <<filed, shelf, taskActs, quiet>>

MoveClaim(c) ==
    /\ tool[c].at = "claiming"
    /\ LET f == tool[c].file
           t == <<f[1], tool[c].box>>
       IN  IF filed[f] = Gone THEN UNCHANGED <<filed, quiet>>
           ELSE /\ filed' = [filed EXCEPT ![t] = filed[f], ![f] = Gone]
                /\ quiet' = [u \in Clients |-> IF u = c THEN quiet[u] ELSE quiet[u] \ {OwnerOf[f[1]]}]
    /\ Ends(c)
    /\ UNCHANGED <<shelf, taskActs>>

\* piren task complete and cancel, and the tool that may also reopen a task: the
\* file is read, then a whole new one is renamed to its name.
ReadForEdit(c) ==
    /\ tool[c].at = "resolved" /\ tool[c].verb \in TaskStatuses
    /\ IF filed[tool[c].file] = Gone THEN Ends(c)
       ELSE With(c, [tool[c] EXCEPT !.at = "editing"])
    /\ UNCHANGED <<filed, shelf, taskActs, quiet>>

WriteEdited(c) ==
    /\ tool[c].at = "editing"
    /\ Put(c, tool[c].file, tool[c].verb)
    /\ Ends(c)
    /\ UNCHANGED <<shelf, taskActs>>

-----------------------------------------------------------------------------
TasksNext ==
    \E c \in Clients :
        \/ \E o \in Owners : (\E yes \in BOOLEAN : BeginArchive(c, o, yes)) \/ ListInbox(c, o)
        \/ \E f \in Files : ReadListed(c, f) \/ ListedVanished(c, f) \/ ProbeShelf(c, f)
        \/ InboxLoaded(c) \/ Preview(c) \/ MoveItem(c) \/ ArchiveReports(c)
        \/ \E t \in Errands : SendTask(c, t)
        \/ \E verb \in {"show", "claim"} \cup TaskStatuses, f \in Files : ResolveTask(c, verb, f[1], f)
        \/ ShowTask(c) \/ MoveClaim(c) \/ ReadForEdit(c) \/ WriteEdited(c)
        \/ \E b \in Boxes : ProbeClaim(c, b)

TasksSpec == TasksInit /\ [][TasksNext]_taskVars

\* No task is archived that a live task of any agent depends on, unless the inbox
\* of that task changed while the command ran (planTerminalTaskArchive,
\* previewStoredTerminalTaskArchive; docs/tasks.md:54).
DependentsKept ==
    \A c \in Clients : tool[c].verb = "archive" =>
        \A f \in tool[c].moved, g \in Files :
            f[1] \in Requires[g[1]] /\ OwnerOf[g[1]] \in quiet[c] => filed[g] \in Terminal \cup {Gone}
=============================================================================
