-------------------------- MODULE ConversationStore --------------------------
(***************************************************************************)
(* The files of one conversation: a manifest with the audience, the status *)
(* and the title, an append-only directory of numbered event files, and a  *)
(* lock file.                                                              *)
(*                                                                         *)
(* Whoever changes the manifest, accepts a handoff or raises a handoff     *)
(* budget does it under the lock: the file is created without clobbering,  *)
(* and a second caller is refused, never queued.  A change of the manifest *)
(* reads it and renames a new one over it.  Events are also appended by    *)
(* callers that hold no lock (a steward's message, the events of a run):   *)
(* an append lists the directory, links its file under the next number,    *)
(* and lists again if the number was taken.                                *)
(*                                                                         *)
(* Sources: conversations.ts, conversation-budget.ts,                      *)
(* conversation-handoff.ts, and the two broker methods that work under the *)
(* lock (conversation-broker.ts).                                          *)
(***************************************************************************)
EXTENDS Naturals, Sequences, FiniteSets, FiniteSetsExt, SequencesExt

CONSTANTS
    Agents,         \* agent names
    Runnable,       \* the agents that can be run on this machine
    Titles,         \* titles a conversation may have
    Start,          \* the manifest as it was created
    Callers,        \* calls in flight: each runs one operation, once
    Task,           \* [Callers -> Calls], what each call does
    RootAgent,      \* the agent the workflow's first message went to
    Author,         \* who wrote that first message
    BaseLimits,     \* [Dimensions -> Nat], CONVERSATION_HANDOFF_MAX_EDGES, _REWORK_ROUNDS
    CapLimits,      \* [Dimensions -> Nat], HANDOFF_BUDGET_MAX_EDGES, _REWORK_ROUNDS
    MaxDepth,       \* CONVERSATION_HANDOFF_MAX_DEPTH
    Slots,          \* event numbers 1..n, a bound
    MayDie,         \* callers whose process may die, once each
    MayFail,        \* callers whose append may fail
    NoOne,          \* nobody holds the lock
    Nothing         \* no event, no manifest read

Dimensions == {"edges", "reworkRounds"}
ConversationStatuses   == {"open", "archived"}

\* A call is a record: its operation and what that needs.  A budget call that
\* does not mention a dimension raises it to 0, which no valid call does.
Calls ==
    [op : {"join"}, who : SUBSET Agents]
    \cup [op : {"archive", "reopen"}]
    \cup [op : {"rename"}, title : Titles]
    \cup [op : {"budget"}, expected : [Dimensions -> Nat], raise : [Dimensions -> Nat]]
    \cup [op : {"handoff"}, from : Agents, to : Agents]
    \cup [op : {"post"}]

Limits == [Dimensions -> Nat]

Manifest == [audience : SUBSET Agents, status : ConversationStatuses, title : Titles]

LifecycleEvents == [kind : {"lifecycle_transition"}, state : ConversationStatuses]

RenameEvents == [kind : {"conversation_renamed"}, title : Titles]

\* A budget update names for each dimension from what to what it is raised.
BudgetUpdates ==
    [kind : {"handoff_budget_updated"}, change : [Dimensions -> [from : Nat, to : Nat]]]

\* assertValidHandoffBudgetMetadata: a dimension that is named is strictly raised,
\* within the cap, and one is named.
BudgetEvents ==
    {e \in BudgetUpdates :
        /\ \E d \in Dimensions : e.change[d].to # 0
        /\ \A d \in Dimensions : e.change[d].to # 0 =>
              /\ e.change[d].from > 0
              /\ e.change[d].to > e.change[d].from
              /\ e.change[d].to <= CapLimits[d]}

Messages == [kind : {"message"}, by : Callers \cup {Author}]

Edges == [kind : {"edge"}, from : Agents, to : Agents]

\* An event file: its kind and the frontmatter the properties tell apart.
Event == Messages \cup Edges \cup LifecycleEvents \cup RenameEvents \cup BudgetEvents

ASSUME StoreAssumption ==
    /\ Runnable \subseteq Agents
    /\ RootAgent \in Agents
    /\ Task \in [Callers -> Calls]
    /\ BaseLimits \in Limits /\ CapLimits \in Limits
    /\ \A d \in Dimensions : 0 < BaseLimits[d] /\ BaseLimits[d] <= CapLimits[d]
    /\ MaxDepth \in Nat
    /\ Cardinality(Slots) \in Nat \ {0} /\ Slots = 1..Cardinality(Slots)
    /\ Start \in Manifest /\ Start.status = "open"
    /\ MayDie \subseteq Callers /\ MayFail \subseteq Callers
    /\ NoOne \notin Callers
    /\ Nothing \notin Manifest \cup Event \cup BudgetUpdates

VARIABLES
    manifest,   \* index.md
    events,     \* events/<n>.md
    lock,       \* who created .audience.lock, or NoOne
    stage,      \* where each call is
    seen,       \* the manifest it read
    draft,      \* the event it is about to append
    number      \* the event number it tries next

callVars == <<stage, seen, draft, number>>

storeVars == <<manifest, events, lock, callVars>>

-----------------------------------------------------------------------------
(* Names.                                                                   *)

Stages == {"new", "locked", "planning", "joining", "replacing", "listing",
           "linking", "releasing", "done", "refused", "dead"}

Locks(c) == Task[c].op # "post"

Moves(c, s) == stage' = [stage EXCEPT ![c] = s]

Taken == {s \in Slots : events[s] # Nothing}

\* readConversationEvents yields the directory in the order of the numbers: a log
\* is the events up to some number, and a number without a file stands for none.
IsOfKind(e, k) == e # Nothing /\ e.kind = k

-----------------------------------------------------------------------------
(* The handoff budget, derived from the log alone.                          *)

Named(raise) == {d \in Dimensions : raise[d] # 0}

Raised(e) == Named([d \in Dimensions |-> e.change[d].to])

\* An update counts if each dimension it names strictly raises the value in
\* force, which it must quote, within the cap.  One bad dimension spoils both.
Counts(limits, e) ==
    /\ Raised(e) # {}
    /\ \A d \in Raised(e) :
          /\ e.change[d].from = limits[d]
          /\ e.change[d].to > e.change[d].from
          /\ e.change[d].to <= CapLimits[d]

RaiseBy(limits, e) ==
    IF IsOfKind(e, "handoff_budget_updated") /\ Counts(limits, e)
    THEN [d \in Dimensions |-> IF d \in Raised(e) THEN e.change[d].to ELSE limits[d]]
    ELSE limits

\* deriveHandoffBudget: the limits in force after a log.
EffectiveLimits(log) == FoldLeft(RaiseBy, BaseLimits, log)

\* validateHandoffBudgetUpdateCandidate.
ValidRaise(limits, raise) ==
    /\ Named(raise) # {}
    /\ \A d \in Named(raise) : raise[d] > limits[d] /\ raise[d] <= CapLimits[d]

-----------------------------------------------------------------------------
(* The workflow, derived from the log alone.                                *)

EdgesIn(log) == {n \in DOMAIN log : IsOfKind(log[n], "edge")}

\* How often one agent has handed to another.
PairCount(log, a, b) ==
    Cardinality({n \in EdgesIn(log) : log[n].from = a /\ log[n].to = b})

\* An agent's depth is fixed by the first edge that reaches it from one whose
\* depth is known; the root agent's is 0.
AddEdge(depth, e) ==
    IF IsOfKind(e, "edge") /\ e.from \in DOMAIN depth /\ e.to \notin DOMAIN depth
    THEN [a \in DOMAIN depth \cup {e.to} |-> IF a = e.to THEN depth[e.from] + 1 ELSE depth[a]]
    ELSE depth

Depths(log) == FoldLeft(AddEdge, [a \in {RootAgent} |-> 0], log)

\* planConversationHandoffEdge; busy are the agents with an active run.
MayHandOff(log, from, to, busy) ==
    LET depth  == Depths(log)
        limits == EffectiveLimits(log)
    IN  /\ to # from
        /\ to \in Runnable
        /\ to \notin busy
        /\ from \in DOMAIN depth
        /\ Cardinality(EdgesIn(log)) < limits.edges
        /\ depth[from] + 1 <= MaxDepth
        /\ PairCount(log, from, to) < 1 + limits.reworkRounds

-----------------------------------------------------------------------------
(* The lock.                                                                *)

StoreInit ==
    /\ manifest = Start
    /\ events  = [s \in Slots |-> IF s = 1 THEN [kind |-> "message", by |-> Author] ELSE Nothing]
    /\ lock    = NoOne
    /\ stage   = [c \in Callers |-> "new"]
    /\ seen    = [c \in Callers |-> Nothing]
    /\ draft   = [c \in Callers |-> Nothing]
    /\ number  = [c \in Callers |-> 0]

\* acquireConversationMutationLock: creating the file fails if it exists, and
\* the caller is told that the conversation is busy.
Acquire(c) ==
    /\ stage[c] = "new" /\ Locks(c)
    /\ lock = NoOne
    /\ lock' = c
    /\ Moves(c, "locked")
    /\ UNCHANGED <<manifest, events, seen, draft, number>>

Busy(c) ==
    /\ stage[c] = "new" /\ Locks(c)
    /\ lock # NoOne
    /\ Moves(c, "refused")
    /\ UNCHANGED <<manifest, events, lock, seen, draft, number>>

\* release: the file is removed only if its token is the caller's own.
Release(c) ==
    /\ stage[c] = "releasing"
    /\ lock' = IF lock = c THEN NoOne ELSE lock
    /\ Moves(c, "done")
    /\ UNCHANGED <<manifest, events, seen, draft, number>>

\* The steward inspects and removes the lock of a process that died.
Triage ==
    /\ lock \in MayDie /\ stage[lock] = "dead"
    /\ lock' = NoOne
    /\ UNCHANGED <<manifest, events, callVars>>

-----------------------------------------------------------------------------
(* Changes of the manifest.                                                 *)

\* The operation leaves the manifest m as it is.
NoChange(c, m) ==
    \/ Task[c].op = "archive" /\ m.status = "archived"
    \/ Task[c].op = "reopen"  /\ m.status = "open"
    \/ Task[c].op = "rename"  /\ m.title = Task[c].title

\* The manifest the operation makes of m: all it does not change is kept.
Changed(c, m) ==
    CASE Task[c].op = "join"    -> [m EXCEPT !.audience = @ \cup Task[c].who]
      [] Task[c].op = "handoff" -> [m EXCEPT !.audience = @ \cup {Task[c].to}]
      [] Task[c].op = "archive" -> [m EXCEPT !.status = "archived"]
      [] Task[c].op = "reopen"  -> [m EXCEPT !.status = "open"]
      [] Task[c].op = "rename"  -> [m EXCEPT !.title = Task[c].title]

\* The event that goes with it.
Told(c) ==
    CASE Task[c].op = "archive" -> [kind |-> "lifecycle_transition", state |-> "archived"]
      [] Task[c].op = "reopen"  -> [kind |-> "lifecycle_transition", state |-> "open"]
      [] Task[c].op = "rename"  -> [kind |-> "conversation_renamed", title |-> Task[c].title]
      [] Task[c].op = "handoff" -> [kind |-> "edge", from |-> Task[c].from, to |-> Task[c].to]

\* transitionConversationLifecycle and renameConversation read the manifest
\* and stop if there is nothing to change.
ReadToChange(c) ==
    /\ stage[c] = "locked" /\ Task[c].op \in {"archive", "reopen", "rename"}
    /\ seen' = [seen EXCEPT ![c] = manifest]
    /\ Moves(c, IF NoChange(c, manifest) THEN "releasing" ELSE "replacing")
    /\ UNCHANGED <<manifest, events, lock, draft, number>>

\* updateConversationAudienceUnderLock: the lock file must be the caller's.
ReadUnderLock(c) ==
    /\ \/ stage[c] = "joining"
       \/ stage[c] = "locked" /\ Task[c].op = "join"
    /\ IF lock = c
       THEN /\ seen' = [seen EXCEPT ![c] = manifest]
            /\ Moves(c, "replacing")
       ELSE /\ Moves(c, "releasing")
            /\ UNCHANGED seen
    /\ UNCHANGED <<manifest, events, lock, draft, number>>

\* atomicReplaceManifest: a rename over index.md.
Replace(c) ==
    /\ stage[c] = "replacing"
    /\ manifest' = Changed(c, seen[c])
    /\ IF Task[c].op = "join"
       THEN Moves(c, "releasing") /\ UNCHANGED draft
       ELSE Moves(c, "listing") /\ draft' = [draft EXCEPT ![c] = Told(c)]
    /\ UNCHANGED <<events, lock, seen, number>>

-----------------------------------------------------------------------------
(* Handoffs and budget updates.                                             *)

\* Mutant: the status is not looked at.
ReadAny(c) ==
    /\ stage[c] = "locked" /\ Task[c].op \in {"handoff", "budget"}
    /\ Moves(c, "planning")
    /\ UNCHANGED <<manifest, events, lock, seen, draft, number>>

\* Both read the manifest first and stop if the conversation is not open.
ReadOpen(c) ==
    /\ stage[c] = "locked" /\ Task[c].op \in {"handoff", "budget"}
    /\ Moves(c, IF manifest.status = "open" THEN "planning" ELSE "releasing")
    /\ UNCHANGED <<manifest, events, lock, seen, draft, number>>

\* Mutant: the plan is held against the cap and not against the limits in force.
PlanOnCap(c) ==
    /\ stage[c] = "planning" /\ Task[c].op = "handoff"
    /\ Moves(c, IF Cardinality(EdgesIn(events)) < CapLimits.edges
                THEN "joining" ELSE "releasing")
    /\ UNCHANGED <<manifest, events, lock, seen, draft, number>>

\* acceptHandoffEdge: plan on the log as it is now; agents in busy have a run.
PlanHandoff(c) ==
    /\ stage[c] = "planning" /\ Task[c].op = "handoff"
    /\ \E busy \in SUBSET Agents :
          Moves(c, IF MayHandOff(events, Task[c].from, Task[c].to, busy)
                   THEN "joining" ELSE "releasing")
    /\ UNCHANGED <<manifest, events, lock, seen, draft, number>>

\* updateConversationWorkflowBudget: the caller quotes the limits it saw; if
\* they still hold and the raise is valid, the update says from what to what.
PlanBudget(c) ==
    LET limits == EffectiveLimits(events)
        raise  == Task[c].raise
    IN  /\ stage[c] = "planning" /\ Task[c].op = "budget"
        /\ IF Task[c].expected = limits /\ ValidRaise(limits, raise)
           THEN /\ draft' = [draft EXCEPT ![c] =
                      [kind   |-> "handoff_budget_updated",
                       change |-> [d \in Dimensions |->
                                     [from |-> IF raise[d] = 0 THEN 0 ELSE limits[d],
                                      to   |-> raise[d]]]]]
                /\ Moves(c, "listing")
           ELSE Moves(c, "releasing") /\ UNCHANGED draft
        /\ UNCHANGED <<manifest, events, lock, seen, number>>

-----------------------------------------------------------------------------
(* Appending an event.                                                      *)

\* A steward's message and the events of a run need no lock.
Post(c) ==
    /\ stage[c] = "new" /\ ~Locks(c)
    /\ draft' = [draft EXCEPT ![c] = [kind |-> "message", by |-> c]]
    /\ Moves(c, "listing")
    /\ UNCHANGED <<manifest, events, lock, seen, number>>

\* nextEventSequence: one more than the highest number in the directory.
ListEvents(c) ==
    /\ stage[c] = "listing"
    /\ number' = [number EXCEPT ![c] = 1 + Max(Taken \cup {0})]
    /\ number'[c] \in Slots
    /\ Moves(c, "linking")
    /\ UNCHANGED <<manifest, events, lock, seen, draft>>

AfterAppend(c) == IF Locks(c) THEN "releasing" ELSE "done"

WriteEvent(c) == events' = [events EXCEPT ![number[c]] = draft[c]]

\* Mutant: the event file is renamed into place over another's.
LinkOver(c) ==
    /\ stage[c] = "linking"
    /\ Moves(c, AfterAppend(c)) /\ WriteEvent(c)
    /\ UNCHANGED <<manifest, lock, seen, draft, number>>

\* appendConversationEvent: the link fails if the number is taken meanwhile,
\* and the caller lists again.
LinkEvent(c) ==
    /\ stage[c] = "linking"
    /\ IF number[c] \in Taken
       THEN Moves(c, "listing") /\ UNCHANGED events
       ELSE Moves(c, AfterAppend(c)) /\ WriteEvent(c)
    /\ UNCHANGED <<manifest, lock, seen, draft, number>>

\* An error of the file system.  The temporary file is removed after the link,
\* so the append may fail with the event recorded; the manifest stays changed.
FailAppend(c) ==
    /\ stage[c] = "linking" /\ c \in MayFail
    /\ \/ number[c] \notin Taken /\ WriteEvent(c)
       \/ UNCHANGED events
    /\ Moves(c, AfterAppend(c))
    /\ UNCHANGED <<manifest, lock, seen, draft, number>>

\* The process dies: what it wrote stays, the lock file included.
Die(c) ==
    /\ c \in MayDie /\ stage[c] \notin {"new", "done", "refused", "dead"}
    /\ Moves(c, "dead")
    /\ UNCHANGED <<manifest, events, lock, seen, draft, number>>

-----------------------------------------------------------------------------

CallStep(c) ==
    \/ Acquire(c) \/ Busy(c) \/ Release(c)
    \/ ReadToChange(c) \/ ReadUnderLock(c) \/ Replace(c)
    \/ ReadOpen(c) \/ PlanHandoff(c) \/ PlanBudget(c)
    \/ Post(c) \/ ListEvents(c) \/ LinkEvent(c) \/ FailAppend(c)

\* Every call has ended.
Finished ==
    /\ \A c \in Callers : stage[c] \in {"done", "refused", "dead"}
    /\ UNCHANGED storeVars

StoreNext == (\E c \in Callers : CallStep(c) \/ Die(c)) \/ Triage \/ Finished

StoreSpec == StoreInit /\ [][StoreNext]_storeVars

-----------------------------------------------------------------------------
(* Properties.                                                              *)

\* The events, the lock and what each call holds have their types.
StoreTypeOK ==
    /\ manifest \in Manifest
    /\ events \in [Slots -> Event \cup {Nothing}]
    /\ lock \in Callers \cup {NoOne}
    /\ stage \in [Callers -> Stages]
    /\ seen \in [Callers -> Manifest \cup {Nothing}]
    /\ draft \in [Callers -> Event \cup {Nothing}]
    /\ number \in [Callers -> Slots \cup {0}]

Before(s) == SubSeq(events, 1, s - 1)

\* Each recorded handoff was allowed by the log in front of it: to a runnable
\* agent, within the edges, the depth and the rework rounds in force then,
\* although planning and recording are different file operations of one call
\* and budget updates, handoffs and lifecycle changes compete
\* (acceptHandoffEdge, planConversationHandoffEdge).
WithinBudget ==
    \A s \in Taken : events[s].kind = "edge" =>
        MayHandOff(Before(s), events[s].from, events[s].to, {})

\* A handoff or an update of the budget.
ContinuesWork(event) == event.kind \in {"edge", "handoff_budget_updated"}

\* The files implement the promise: members stay, a change of one field never
\* takes back another, events are added one by one and never overwritten, and no
\* handoff and no budget update is recorded in an archived conversation, also when
\* it is archived between the caller's check and its append.
Record == INSTANCE ConversationRecord WITH
    members <- manifest.audience, status <- manifest.status,
    title <- manifest.title, history <- events, Blank <- Nothing,
    Statuses <- ConversationStatuses, Open <- "open", IsWork <- ContinuesWork

RecordSpec == Record!Spec
=============================================================================
