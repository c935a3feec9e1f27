------------------------------ MODULE InboxTasks ------------------------------
(***************************************************************************)
(* The inbox of one Piren agent, shared by several devices.                *)
(*                                                                         *)
(* A task is one Markdown file.  Its name says who has it:                 *)
(*     team/<agent>/inbox/<task>.md                     nobody (ordinary)  *)
(*     team/<agent>/inbox/<task>.claimed.<device>.md    <device>           *)
(* and the only coordination between devices is what the file system does  *)
(* with these names: rename, link (no clobber), unlink, and a write that   *)
(* replaces a file.  Every device runs a scheduler whose tick lists and    *)
(* reads the inbox, plans, claims one task by renaming it, hands it to an  *)
(* agent process, and then requeues, releases or keeps the claim.          *)
(* Interactive sessions claim through the task_claim tool; the steward,    *)
(* sessions and agents edit a task's status in place.                      *)
(*                                                                         *)
(* Sources: inbox.ts, scheduler-once.ts, scheduler.ts,                     *)
(* scheduler-dependencies.ts, scheduler-executor.ts, scheduler-retry.ts,   *)
(* scheduler-release.ts.                                                   *)
(***************************************************************************)
EXTENDS Naturals, FiniteSets

CONSTANTS
    Tasks,          \* task ids
    Devices,        \* device ids that run a scheduler (one process each)
    Sessions,       \* device ids that run only interactive sessions
    Editors,        \* single in-place status edits (a CLI command, a tool call)
    MayCrash,       \* devices whose scheduler may die or meet an I/O error
    DependsOn,      \* [Tasks -> SUBSET Tasks], the depends_on ids
    Retryable,      \* tasks with a valid retry policy (safe_to_retry: true)
    MaxAttempts,    \* their retry.max_attempts
    AgentStatuses,  \* statuses a scheduled agent may write
    EditStatuses,   \* statuses an editor may write
    Ordinary,       \* the unclaimed name <task>.md
    NoFile,         \* the content of a name that does not exist
    NoTask,         \* a device that is working on nothing
    NoEdit          \* an editor that has read nothing

Statuses == {"pending", "in_progress", "completed", "cancelled"}

\* What the model keeps of a task file: its status and retry_state.attempts.
Content == [status : Statuses, attempts : Nat]

\* The names a task may be visible under.
Names == {Ordinary} \cup Devices \cup Sessions

ASSUME InboxAssumption ==
    /\ MayCrash \subseteq Devices
    /\ DependsOn \in [Tasks -> SUBSET Tasks]
    /\ Retryable \subseteq Tasks
    /\ MaxAttempts \in Nat \ {0}
    /\ AgentStatuses \subseteq Statuses
    /\ EditStatuses \subseteq Statuses
    /\ Devices \cap Sessions = {} /\ Devices \cap Editors = {}
    /\ Ordinary \notin Devices \cup Sessions
    /\ NoFile \notin Content
    /\ NoTask \notin Tasks
    /\ NoEdit \notin [task : Tasks, name : Names, read : Content, status : Statuses]

VARIABLES
    inbox,      \* inbox[t][n]: the content of task t's file named n
    stale,      \* device ids whose heartbeat is older than the stale threshold
    cooling,    \* <<t, k>>: the backoff window of t's k-th launch failure is open
    phase,      \* where each scheduler is in its tick
    unread,     \* files the scheduler listed and has not read yet
    nodes,      \* files it has read, with the content it saw
    planned,    \* tasks it proposes to claim and has not tried
    job,        \* the task it is claiming or has claimed
    copy,       \* the content it is about to write
    session,    \* each session's claim: its step, task and source name
    edit,       \* an edit in flight: the path, the content read, the new status
    spent       \* editors that have written

\* History: read by the properties only, never by a guard.
VARIABLES
    born,           \* tasks that have been created
    raced,          \* tasks rewritten from a content that was no longer there
    takenOver,      \* tasks whose claim was recovered as stale
    held,           \* tasks whose claimant stopped and left the claim in place
    started,        \* tasks a scheduler has handed to an agent
    failures,       \* launch failures recorded in t's file, counted
    completedOnce   \* tasks seen ordinary and completed

tickVars    == <<unread, nodes, planned>>
jobVars     == <<job, copy>>
schedVars   == <<phase, tickVars, jobVars>>
editVars    == <<edit, spent, raced>>
sessionVars == <<session, takenOver>>
history     == <<born, held, started, failures, completedOnce>>

vars == <<inbox, stale, cooling, schedVars, sessionVars, editVars, history>>

-----------------------------------------------------------------------------

Phases == {"idle", "listing", "reading", "walking", "claiming", "launching",
           "running", "failing", "exhausting", "requeueing", "releasing",
           "restoring", "unlinking"}

\* From the rename that claims a task to the link that gives it back.
HoldingPhases == {"launching", "running", "failing", "exhausting",
                  "requeueing", "releasing", "restoring"}

Edits == [task : Tasks, name : Names, read : Content, status : Statuses]

Exists(t, n) == inbox[t][n] # NoFile

\* Those who act as the owner of t: schedulers and sessions that claimed it.
Holders(t) == {d \in Devices : job[d] = t /\ phase[d] \in HoldingPhases}
              \cup {s \in Sessions : session[s].task = t /\ session[s].step = "holding"}

\* rename(2): replaces the target, fails when the source is gone.
Rename(t, from, to) ==
    inbox' = [inbox EXCEPT ![t] = [@ EXCEPT ![to] = inbox[t][from], ![from] = NoFile]]

WriteFile(t, n, c) == inbox' = [inbox EXCEPT ![t] = [@ EXCEPT ![n] = c]]

Enter(d, p) == phase' = [phase EXCEPT ![d] = p]

\* The scheduler's tick is over; what it knew is forgotten.
EndTick(d) ==
    /\ Enter(d, "idle")
    /\ unread'  = [unread EXCEPT ![d] = {}]
    /\ nodes'   = [nodes EXCEPT ![d] = {}]
    /\ planned' = [planned EXCEPT ![d] = {}]
    /\ job'     = [job EXCEPT ![d] = NoTask]
    /\ copy'    = [copy EXCEPT ![d] = NoFile]

-----------------------------------------------------------------------------
(* What a tick may claim, from the files it has read.                      *)

SeenAs(read, t) == {f \in read : f.task = t}

\* loadSchedulerInboxState: an id on two visible files is no node at all.
Duplicated(read) == {t \in Tasks : Cardinality(SeenAs(read, t)) > 1}

\* detectCycleThroughCandidate: t is in every set that holds t's prerequisites
\* and is closed under the prerequisites of the nodes.  Self-dependency is the
\* shortest cycle.
OnCycle(read, t) ==
    LET Visible == {f.task : f \in read} \ Duplicated(read)
    IN  \A S \in SUBSET Tasks :
            (DependsOn[t] \subseteq S /\ \A u \in S \cap Visible : DependsOn[u] \subseteq S)
                => t \in S

\* Variant: a claimed file satisfies too.
SatisfiedWhileClaimed(read, u) ==
    /\ u \notin Duplicated(read)
    /\ \E f \in SeenAs(read, u) : f.content.status = "completed"

\* A prerequisite that resolves to one file, ordinary and completed: a claimed
\* file never satisfies, whatever its status.
Satisfied(read, u) ==
    /\ u \notin Duplicated(read)
    /\ \E f \in SeenAs(read, u) : f.name = Ordinary /\ f.content.status = "completed"

\* Variant: an off-by-one in the comparison with max_attempts.
RetryEligibleOffByOne(t, attempts) ==
    (t \in Retryable /\ attempts > 0) =>
        /\ attempts + 1 < MaxAttempts
        /\ <<t, attempts>> \notin cooling

\* evaluateRetryEligibility at the instant of planning.
RetryEligible(t, attempts) ==
    (t \in Retryable /\ attempts > 0) =>
        /\ attempts < MaxAttempts
        /\ <<t, attempts>> \notin cooling

\* planSchedulerTick, inbox part, with evaluateTaskDependencyEligibility.
Claimable(read) ==
    {t \in Tasks \ Duplicated(read) :
        /\ \E f \in SeenAs(read, t) :
              /\ f.name = Ordinary
              /\ f.content.status = "pending"
              /\ RetryEligible(t, f.content.attempts)
        /\ ~OnCycle(read, t)
        /\ \A u \in DependsOn[t] : Satisfied(read, u)}

-----------------------------------------------------------------------------

Init ==
    /\ inbox = [t \in Tasks |-> [n \in Names |-> NoFile]]
    /\ stale = {}
    /\ cooling = {}
    /\ phase = [d \in Devices |-> "idle"]
    /\ unread = [d \in Devices |-> {}]
    /\ nodes = [d \in Devices |-> {}]
    /\ planned = [d \in Devices |-> {}]
    /\ job = [d \in Devices |-> NoTask]
    /\ copy = [d \in Devices |-> NoFile]
    /\ session = [s \in Sessions |-> [step |-> "idle", task |-> NoTask, name |-> Ordinary]]
    /\ edit = [e \in Editors \cup Devices |-> NoEdit]
    /\ spent = {}
    /\ born = {}
    /\ raced = {}
    /\ takenOver = {}
    /\ held = {}
    /\ started = {}
    /\ failures = [t \in Tasks |-> 0]
    /\ completedOnce = {}

\* createInboxTask.  Task ids carry a millisecond timestamp: each is used once.
Create(t) ==
    /\ t \notin born
    /\ born' = born \cup {t}
    /\ WriteFile(t, Ordinary, [status |-> "pending", attempts |-> 0])
    /\ UNCHANGED <<stale, cooling, schedVars, sessionVars, editVars,
                   held, started, failures, completedOnce>>

-----------------------------------------------------------------------------
(* Time: only what the code compares it with.                              *)

\* Heartbeats are written when a tick or a session starts, so any of them may
\* grow old, a device that is executing a task included.
GrowStale(d) ==
    /\ d \notin stale
    /\ stale' = stale \cup {d}
    /\ UNCHANGED <<inbox, cooling, schedVars, sessionVars, editVars, history>>

EndBackoff(t, k) ==
    /\ <<t, k>> \in cooling
    /\ cooling' = cooling \ {<<t, k>>}
    /\ UNCHANGED <<inbox, stale, schedVars, sessionVars, editVars, history>>

-----------------------------------------------------------------------------
(* The scheduler's tick: schedulerOnce.                                    *)

\* Refresh this device's heartbeat.
BeginTick(d) ==
    /\ phase[d] = "idle"
    /\ Enter(d, "listing")
    /\ stale' = stale \ {d}
    /\ UNCHANGED <<inbox, cooling, tickVars, jobVars, sessionVars, editVars, history>>

\* readdir.
List(d) ==
    /\ phase[d] = "listing"
    /\ Enter(d, "reading")
    /\ unread' = [unread EXCEPT ![d] = {f \in Tasks \X Names : Exists(f[1], f[2])}]
    /\ UNCHANGED <<inbox, stale, cooling, nodes, planned, jobVars,
                   sessionVars, editVars, history>>

\* readFile of one listed file.
Read(d, t, n) ==
    /\ phase[d] = "reading"
    /\ <<t, n>> \in unread[d]
    /\ Exists(t, n)
    /\ unread' = [unread EXCEPT ![d] = @ \ {<<t, n>>}]
    /\ nodes' = [nodes EXCEPT ![d] = @ \cup {[task |-> t, name |-> n, content |-> inbox[t][n]]}]
    /\ UNCHANGED <<inbox, stale, cooling, phase, planned, jobVars,
                   sessionVars, editVars, history>>

\* A listed file was renamed meanwhile: the load throws and the whole agent is
\* skipped for this tick.
ReadVanished(d, t, n) ==
    /\ phase[d] = "reading"
    /\ <<t, n>> \in unread[d]
    /\ ~Exists(t, n)
    /\ EndTick(d)
    /\ UNCHANGED <<inbox, stale, cooling, sessionVars, editVars, history>>

Plan(d) ==
    /\ phase[d] = "reading"
    /\ unread[d] = {}
    /\ Enter(d, "walking")
    /\ planned' = [planned EXCEPT ![d] = Claimable(nodes[d])]
    /\ nodes' = [nodes EXCEPT ![d] = {}]
    /\ UNCHANGED <<inbox, stale, cooling, unread, jobVars, sessionVars, editVars, history>>

\* claimInboxTask up to the test that the claim target does not exist.
Probe(d, t) ==
    /\ phase[d] = "walking"
    /\ t \in planned[d]
    /\ planned' = [planned EXCEPT ![d] = @ \ {t}]
    /\ IF Exists(t, d)
       THEN UNCHANGED <<phase, job>>
       ELSE /\ Enter(d, "claiming")
            /\ job' = [job EXCEPT ![d] = t]
    /\ UNCHANGED <<inbox, stale, cooling, unread, nodes, copy, sessionVars, editVars, history>>

\* Variant: the claim copies the file and leaves the ordinary name.
ClaimByCopy(d) ==
    /\ phase[d] = "claiming"
    /\ Exists(job[d], Ordinary)
    /\ WriteFile(job[d], d, inbox[job[d]][Ordinary])
    /\ Enter(d, "launching")
    /\ planned' = [planned EXCEPT ![d] = {}]
    /\ UNCHANGED <<stale, cooling, unread, nodes, jobVars, sessionVars, editVars, history>>

\* The rename that claims.  Nothing is read again: the plan may be old.
Claim(d) ==
    /\ phase[d] = "claiming"
    /\ Exists(job[d], Ordinary)
    /\ Rename(job[d], Ordinary, d)
    /\ Enter(d, "launching")
    /\ planned' = [planned EXCEPT ![d] = {}]
    /\ UNCHANGED <<stale, cooling, unread, nodes, jobVars, sessionVars, editVars, history>>

\* The source is gone: claim_failed, try the next planned task.
ClaimFails(d) ==
    /\ phase[d] = "claiming"
    /\ ~Exists(job[d], Ordinary)
    /\ Enter(d, "walking")
    /\ job' = [job EXCEPT ![d] = NoTask]
    /\ UNCHANGED <<inbox, stale, cooling, tickVars, copy, sessionVars, editVars, history>>

\* Nothing left to try.
NoWork(d) ==
    /\ phase[d] = "walking"
    /\ planned[d] = {}
    /\ EndTick(d)
    /\ UNCHANGED <<inbox, stale, cooling, sessionVars, editVars, history>>

-----------------------------------------------------------------------------
(* Execution of the claimed task.                                          *)

\* The run target cannot be built, or the agent process rejects start().
LaunchFails(d) ==
    /\ phase[d] = "launching"
    /\ Enter(d, "failing")
    /\ UNCHANGED <<inbox, stale, cooling, tickVars, jobVars, sessionVars, editVars, history>>

\* The prompt is handed to the agent: the point of no return.
HandOff(d) ==
    /\ phase[d] = "launching"
    /\ Enter(d, "running")
    /\ started' = started \cup {job[d]}
    /\ UNCHANGED <<inbox, stale, cooling, tickVars, jobVars, sessionVars, editVars,
                   born, held, failures, completedOnce>>

\* agent_settled: the runner returns ok.
RunSettles(d) ==
    /\ phase[d] = "running"
    /\ edit[d] = NoEdit
    /\ Enter(d, "releasing")
    /\ UNCHANGED <<inbox, stale, cooling, tickVars, jobVars, sessionVars, editVars, history>>

\* Variant: a failure after the handoff goes through the retry transition.
RunAmbiguousRetries(d) ==
    /\ phase[d] = "running"
    /\ Enter(d, "failing")
    /\ edit' = [edit EXCEPT ![d] = NoEdit]
    /\ UNCHANGED <<inbox, stale, cooling, tickVars, jobVars, sessionVars, spent, raced, history>>

\* Any failure at or after the handoff: the claim is left for triage.
RunAmbiguous(d) ==
    /\ phase[d] = "running"
    /\ EndTick(d)
    /\ held' = held \cup {job[d]}
    /\ edit' = [edit EXCEPT ![d] = NoEdit]
    /\ UNCHANGED <<inbox, stale, cooling, sessionVars, spent, raced,
                   born, started, failures, completedOnce>>

-----------------------------------------------------------------------------
(* applySchedulerFailureTransition.                                        *)

\* A transition that ends "held".
Hold(d) ==
    /\ EndTick(d)
    /\ held' = held \cup {job[d]}
    /\ UNCHANGED <<inbox, stale, cooling, sessionVars, editVars,
                   born, started, failures, completedOnce>>

MayRetry(d) == job[d] \in Retryable /\ Exists(job[d], d)

\* No policy, or the claimed file is gone.
FailureHeld(d) ==
    /\ phase[d] = "failing"
    /\ ~MayRetry(d)
    /\ Hold(d)

\* Read the claimed file and add one attempt.
CountFailure(d) ==
    /\ phase[d] = "failing"
    /\ MayRetry(d)
    /\ LET content  == inbox[job[d]][d]
           attempts == content.attempts + 1
       IN  /\ copy' = [copy EXCEPT ![d] = [content EXCEPT !.attempts = attempts]]
           /\ Enter(d, IF attempts >= MaxAttempts THEN "exhausting" ELSE "requeueing")
    /\ UNCHANGED <<inbox, stale, cooling, tickVars, job, sessionVars, editVars, history>>

\* The claimed file is overwritten with the final attempt count and kept.
Exhaust(d) ==
    /\ phase[d] = "exhausting"
    /\ WriteFile(job[d], d, copy[d])
    /\ EndTick(d)
    /\ held' = held \cup {job[d]}
    /\ failures' = [failures EXCEPT ![job[d]] = @ + 1]
    /\ UNCHANGED <<stale, cooling, sessionVars, editVars, born, started, completedOnce>>

\* link(2) to the ordinary name.
Requeue(d) ==
    /\ phase[d] = "requeueing"
    /\ ~Exists(job[d], Ordinary)
    /\ WriteFile(job[d], Ordinary, copy[d])
    /\ Enter(d, "unlinking")
    /\ cooling' = cooling \cup {<<job[d], copy[d].attempts>>}
    /\ failures' = [failures EXCEPT ![job[d]] = @ + 1]
    /\ completedOnce' = IF copy[d].status = "completed"
                        THEN completedOnce \cup {job[d]} ELSE completedOnce
    /\ UNCHANGED <<stale, tickVars, jobVars, sessionVars, editVars, born, held, started>>

-----------------------------------------------------------------------------
(* releaseCompletedClaimedTask.                                            *)

IsCompleted(d) == Exists(job[d], d) /\ inbox[job[d]][d].status = "completed"

ReleaseHeld(d) ==
    /\ phase[d] = "releasing"
    /\ ~IsCompleted(d)
    /\ Hold(d)

ReadCompleted(d) ==
    /\ phase[d] = "releasing"
    /\ IsCompleted(d)
    /\ copy' = [copy EXCEPT ![d] = inbox[job[d]][d]]
    /\ Enter(d, "restoring")
    /\ UNCHANGED <<inbox, stale, cooling, tickVars, job, sessionVars, editVars, history>>

Restore(d) ==
    /\ phase[d] = "restoring"
    /\ ~Exists(job[d], Ordinary)
    /\ WriteFile(job[d], Ordinary, copy[d])
    /\ Enter(d, "unlinking")
    /\ completedOnce' = completedOnce \cup {job[d]}
    /\ UNCHANGED <<stale, cooling, tickVars, jobVars, sessionVars, editVars,
                   born, held, started, failures>>

-----------------------------------------------------------------------------
(* The end of both transitions.                                            *)

\* EEXIST: somebody else's file has the ordinary name.
LinkCollides(d) ==
    /\ phase[d] \in {"requeueing", "restoring"}
    /\ Exists(job[d], Ordinary)
    /\ Hold(d)

\* Variant: the wrong one of the two paths is removed.
UnlinkOrdinary(d) ==
    /\ phase[d] = "unlinking"
    /\ inbox' = [inbox EXCEPT ![job[d]] = [@ EXCEPT ![Ordinary] = NoFile, ![d] = NoFile]]
    /\ EndTick(d)
    /\ UNCHANGED <<stale, cooling, sessionVars, editVars, history>>

\* rm of the claimed file, which tolerates its absence.
Unlink(d) ==
    /\ phase[d] = "unlinking"
    /\ WriteFile(job[d], d, NoFile)
    /\ EndTick(d)
    /\ UNCHANGED <<stale, cooling, sessionVars, editVars, history>>

\* The scheduler dies, or a file operation of a transition fails and the code
\* reports "held": the files stay as they are and the tick is over.
Crash(d) ==
    /\ d \in MayCrash
    /\ phase[d] # "idle"
    /\ EndTick(d)
    /\ held' = IF phase[d] \in HoldingPhases THEN held \cup {job[d]} ELSE held
    /\ edit' = [edit EXCEPT ![d] = NoEdit]
    /\ UNCHANGED <<inbox, stale, cooling, sessionVars, spent, raced,
                   born, started, failures, completedOnce>>

-----------------------------------------------------------------------------
(* Interactive sessions: the task_claim tool.                              *)

\* Check the previous claimant's heartbeat and the target, then rename: two
\* steps, and neither the heartbeat nor the target is looked at again.
SessionProbe(s, t, n) ==
    /\ session[s].step = "idle"
    /\ Exists(t, n)
    /\ n = Ordinary \/ n \in stale
    /\ ~Exists(t, s)
    /\ session' = [session EXCEPT ![s] = [step |-> "claiming", task |-> t, name |-> n]]
    /\ UNCHANGED <<inbox, stale, cooling, schedVars, takenOver, editVars, history>>

\* Variant: the session copies the file it claims.
SessionClaimByCopy(s) ==
    LET t == session[s].task
        n == session[s].name
    IN  /\ session[s].step = "claiming"
        /\ Exists(t, n)
        /\ WriteFile(t, s, inbox[t][n])
        /\ session' = [session EXCEPT ![s].step = "holding"]
        /\ takenOver' = IF n = Ordinary THEN takenOver ELSE takenOver \cup {t}
        /\ UNCHANGED <<stale, cooling, schedVars, editVars, history>>

SessionClaim(s) ==
    LET t == session[s].task
        n == session[s].name
    IN  /\ session[s].step = "claiming"
        /\ Exists(t, n)
        /\ Rename(t, n, s)
        /\ session' = [session EXCEPT ![s].step = "holding"]
        /\ takenOver' = IF n = Ordinary THEN takenOver ELSE takenOver \cup {t}
        /\ UNCHANGED <<stale, cooling, schedVars, editVars, history>>

SessionClaimFails(s) ==
    /\ session[s].step = "claiming"
    /\ ~Exists(session[s].task, session[s].name)
    /\ session' = [session EXCEPT ![s].step = "idle"]
    /\ UNCHANGED <<inbox, stale, cooling, schedVars, takenOver, editVars, history>>

\* A session ends and leaves its claim behind.
SessionEnds(s) ==
    /\ session[s].step = "holding"
    /\ session' = [session EXCEPT ![s].step = "idle"]
    /\ held' = held \cup {session[s].task}
    /\ UNCHANGED <<inbox, stale, cooling, schedVars, takenOver, editVars,
                   born, started, failures, completedOnce>>

-----------------------------------------------------------------------------
(* updateInboxTaskStatus: read, then replace the file through a rename.    *)

BeginEdit(e, t, n, s) ==
    /\ edit[e] = NoEdit
    /\ Exists(t, n)
    /\ \/ e \in Editors \ spent /\ s \in EditStatuses
       \/ /\ e \in Devices /\ s \in AgentStatuses
          /\ phase[e] = "running" /\ job[e] = t /\ n = e
    /\ edit' = [edit EXCEPT ![e] = [task |-> t, name |-> n, read |-> inbox[t][n], status |-> s]]
    /\ UNCHANGED <<inbox, stale, cooling, schedVars, sessionVars, spent, raced, history>>

\* The write does not look at the file again: it recreates a name that was
\* renamed away, and undoes what was written after the read.
WriteEdit(e) ==
    LET t == edit[e].task
        n == edit[e].name
    IN  /\ edit[e] # NoEdit
        /\ WriteFile(t, n, [edit[e].read EXCEPT !.status = edit[e].status])
        /\ edit' = [edit EXCEPT ![e] = NoEdit]
        /\ spent' = spent \cup ({e} \cap Editors)
        /\ raced' = IF inbox[t][n] = edit[e].read THEN raced ELSE raced \cup {t}
        /\ completedOnce' = IF n = Ordinary /\ edit[e].status = "completed"
                            THEN completedOnce \cup {t} ELSE completedOnce
        /\ UNCHANGED <<stale, cooling, schedVars, sessionVars, born, held, started, failures>>

-----------------------------------------------------------------------------

\* What the scheduler process does by itself.
Step(d) ==
    \/ BeginTick(d) \/ List(d) \/ Plan(d) \/ NoWork(d)
    \/ \E t \in Tasks, n \in Names : Read(d, t, n) \/ ReadVanished(d, t, n)
    \/ \E t \in Tasks : Probe(d, t)
    \/ Claim(d) \/ ClaimFails(d)
    \/ LaunchFails(d) \/ HandOff(d) \/ RunSettles(d) \/ RunAmbiguous(d)
    \/ FailureHeld(d) \/ CountFailure(d) \/ Exhaust(d) \/ Requeue(d)
    \/ ReleaseHeld(d) \/ ReadCompleted(d) \/ Restore(d)
    \/ LinkCollides(d) \/ Unlink(d)

Next ==
    \/ \E t \in Tasks : Create(t)
    \/ \E d \in Devices : Step(d) \/ Crash(d)
    \/ \E d \in Devices \cup Sessions : GrowStale(d)
    \/ \E f \in cooling : EndBackoff(f[1], f[2])
    \/ \E s \in Sessions :
          \/ \E t \in Tasks, n \in Names : SessionProbe(s, t, n)
          \/ SessionClaim(s) \/ SessionClaimFails(s) \/ SessionEnds(s)
    \/ \E e \in Editors \cup Devices :
          \/ \E t \in Tasks, n \in Names, s \in Statuses : BeginEdit(e, t, n, s)
          \/ WriteEdit(e)

Spec == Init /\ [][Next]_vars

\* The scheduler loop keeps ticking, an agent process ends, and time passes.
Fairness ==
    /\ \A d \in Devices : WF_vars(Step(d))
    /\ \A e \in Editors \cup Devices : WF_vars(WriteEdit(e))
    /\ \A t \in Tasks, k \in 1..MaxAttempts : WF_vars(EndBackoff(t, k))

FairSpec == Spec /\ Fairness
-----------------------------------------------------------------------------
(* Properties.                                                             *)

\* The variables have the shapes the code gives them.
TypeOK ==
    /\ inbox \in [Tasks -> [Names -> Content \cup {NoFile}]]
    /\ stale \subseteq Devices \cup Sessions
    /\ cooling \subseteq Tasks \X Nat
    /\ phase \in [Devices -> Phases]
    /\ unread \in [Devices -> SUBSET (Tasks \X Names)]
    /\ nodes \in [Devices -> SUBSET [task : Tasks, name : Names, content : Content]]
    /\ planned \in [Devices -> SUBSET Tasks]
    /\ job \in [Devices -> Tasks \cup {NoTask}]
    /\ copy \in [Devices -> Content \cup {NoFile}]
    /\ session \in [Sessions -> [step : {"idle", "claiming", "holding"},
                                 task : Tasks \cup {NoTask}, name : Names]]
    /\ edit \in [Editors \cup Devices -> Edits \cup {NoEdit}]
    /\ spent \subseteq Editors
    /\ born \subseteq Tasks /\ raced \subseteq Tasks /\ takenOver \subseteq Tasks
    /\ held \subseteq Tasks /\ started \subseteq Tasks /\ completedOnce \subseteq Tasks
    /\ failures \in [Tasks -> Nat]

\* The two things that upset a claim: an in-place edit that raced with another
\* writer, and the recovery of a claim that looked stale.
Undisturbed(t) == t \notin raced \cup takenOver

\* A claim is exclusive: no two schedulers or sessions own a task at once,
\* through claims, requeues, releases, crashes and old plans, unless an edit
\* raced or a claim was recovered (claimInboxTask, "two devices can never
\* silently take the same task").
OneHolder ==
    \A t \in Tasks : Undisturbed(t) => \A p, q \in Holders(t) : p = q

\* Fail closed: a task whose claimant gave up (ambiguous run, exhausted
\* retries, failed transition, crash) has no ordinary file, so no scheduler,
\* not even one with an old plan, takes it again by itself.
HeldStaysHeld ==
    \A t \in held : Undisturbed(t) => ~Exists(t, Ordinary) /\ Holders(t) = {}

\* No transition loses a task: between any two file operations of any two
\* devices, and after a crash there, a created task has a file that no unlink
\* in flight is about to remove.
NoTaskLost ==
    \A t \in born : \E n \in Names :
        Exists(t, n) /\ ~(n \in Devices /\ phase[n] = "unlinking" /\ job[n] = t)

\* Automatic retry is bounded by the policy, whichever devices fail and
\* however their transitions interleave.
RetryBounded ==
    \A t \in Tasks : Undisturbed(t) =>
        failures[t] <= IF t \in Retryable THEN MaxAttempts ELSE 0

\* A scheduler starts a task only when every prerequisite has been released as
\* completed; a prerequisite still claimed never counts.
DependenciesFirst == \A t \in started : DependsOn[t] \subseteq completedOnce

\* The prompt handoff is the point of no return: a task handed to an agent is
\* handed over again only if it had been released as completed (by a device
\* with an old plan), never after a failure.
NoRerunAfterFailure ==
    [][\A d \in Devices :
          (phase[d] = "launching" /\ phase'[d] = "running"
             /\ job[d] \in started /\ Undisturbed(job[d])) => job[d] \in completedOnce]_vars

\* A created task whose prerequisites stay ordinary and completed is eventually
\* handed to an agent or visibly held, however often its launch fails and other
\* devices get in the way.  "Stay" matters: an old plan may claim a completed
\* prerequisite again and leave it claimed.
TaskServed ==
    \A t \in Tasks :
        <>[](/\ t \in born
             /\ \A u \in DependsOn[t] :
                   Exists(u, Ordinary) /\ inbox[u][Ordinary].status = "completed")
            => <>(t \in started \cup held)
=============================================================================
