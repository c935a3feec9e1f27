-------------------------- MODULE ConversationBroker --------------------------
(***************************************************************************)
(* The conversation broker: agent runs of one conversation, in the memory  *)
(* of one gateway process.                                                 *)
(*                                                                         *)
(* A run is reserved for its agent, gets a client process, prompts it, and *)
(* waits until the run is settled: by the agent, by a timer, by an exit,   *)
(* or by the steward's abort.  The first cause counts.  Then the run       *)
(* reports its end in the conversation's log and gives its agent free.     *)
(*                                                                         *)
(* A root run may ask for a handoff; the steward confirms it at a gate,    *)
(* and a run that was itself handed work may hand on without one.  The     *)
(* broker accepts a handoff under the conversation's mutation lock: it     *)
(* plans, adds the target to the audience and records an edge.  The child  *)
(* run starts when the source run has completed.  Every await is a place   *)
(* where the steps of other runs, routes and the agent come in between.    *)
(*                                                                         *)
(* Sources: conversation-broker.ts; the store it writes is specified in    *)
(* ConversationStore.                                                      *)
(***************************************************************************)
EXTENDS Naturals, FiniteSets

CONSTANTS
    Agents,         \* agent names
    Requests,       \* dispatch and start requests of the steward
    ForAgent,       \* [Requests -> Agents]
    IsRoot,         \* [Requests -> BOOLEAN], a mention (a root run) or a plain start
    MaxRuns,        \* bound on reserved runs
    MaxHandoffs,    \* bound on accepts that reach the lock
    EdgeLimit,      \* the effective edge budget
    Fallbacks,      \* [Agents -> Nat], how many fallback models are configured for each
    Asking,         \* the agents whose tools ask the steward
    MayFail,        \* the agents whose runs may see an append fail
    MaxFaults,      \* bound on failing appends
    MaxOthers,      \* bound on other callers that take the lock
    Free, Other,    \* the lock: nobody's, or another caller's of the store
    NoAgent

Runs     == 1..MaxRuns
Handoffs == 1..MaxHandoffs

Causes == {"completed", "timeout", "cancel", "ambiguous", "provider_error"}

\* What the run's terminal event says.
Reports == {"completed", "timed_out", "failed", "cancelled"}

ASSUME BrokerAssumption ==
    /\ ForAgent \in [Requests -> Agents]
    /\ IsRoot \in [Requests -> BOOLEAN]
    /\ {MaxRuns, MaxHandoffs, EdgeLimit, MaxFaults, MaxOthers} \subseteq Nat
    /\ Fallbacks \in [Agents -> Nat] /\ Asking \cup MayFail \subseteq Agents
    /\ Free # Other /\ {Free, Other} \cap Handoffs = {}
    /\ NoAgent \notin Agents

\* The files.
VARIABLES
    open,       \* the manifest's status
    audience,   \* its audience
    lock,       \* who holds the mutation lock
    others,     \* other callers that have taken it
    report,     \* report[r]: the terminal event of run r, or "none"
    faults      \* appends that have failed

\* The requests and the broker's table.
VARIABLES
    request,    \* where each dispatch or start is
    active,     \* activeRuns: the run of each agent, or 0
    closing,    \* where close() is
    stopping    \* the runs it still has to stop, or to wait for

\* The runs.
VARIABLES
    phase,      \* where the run's driver is
    agent,      \* whose run it is
    role,       \* root, workflow, or start
    cause,      \* settleKind, or "none"
    turn,       \* where the agent's turn or the model fallback is
    tried,      \* attemptedModelIds
    gate,       \* the target of the pending initial gate, or NoAgent
    asks,       \* an approvable request is pending
    deferred    \* deferredHandoff: the edge to launch, or 0

\* The handoffs: the accept in flight and the edge it records.
VARIABLES
    accept,     \* where the accept is
    edge,       \* what has become of the edge
    source,     \* the run that hands off
    target,     \* the agent it hands to
    child,      \* the run launched for it, or 0
    awaited     \* awaited[r]: the edge whose launch the run waits for, or 0

storeVars   == <<open, audience, lock, others>>
logVars     == <<report, faults>>
tableVars   == <<request, active>>
closeVars   == <<closing, stopping>>
turnVars    == <<turn, tried>>
settleVars  == <<cause, gate, asks>>
driveVars   == <<phase, agent, role>>
launchVars  == <<edge, child, deferred, awaited>>
acceptVars  == <<accept, source, target>>

vars == <<storeVars, logVars, tableVars, closeVars, turnVars, settleVars,
          driveVars, launchVars, acceptVars>>

-----------------------------------------------------------------------------

Phases == {"none", "starting", "stopped", "unstarted", "announcing", "working",
           "aborting", "telling", "reporting", "ending", "waiting", "over"}

\* The driver is between its reservation and the end of its finally block.
Driven(r) == phase[r] \notin {"none", "waiting", "over"}

Settled(r) == cause[r] # "none"

\* Events reach the broker between subscribing and settling.
Listening(r) == phase[r] = "working" /\ ~Settled(r)

At(r, p) == phase' = [phase EXCEPT ![r] = p]

\* Mutants: a later cause counts too; the approvals of the run are forgotten.
SettlingAgain(rs, k) ==
    /\ cause' = [r \in Runs |-> IF r \in rs THEN k ELSE cause[r]]
    /\ gate'  = [r \in Runs |-> IF r \in rs THEN NoAgent ELSE gate[r]]
    /\ asks'  = [r \in Runs |-> IF r \in rs THEN FALSE ELSE asks[r]]

\* settle: the first cause counts, and the pending approvals of the run go.
Settling(rs, k) ==
    LET hit == {r \in rs : ~Settled(r)}
    IN  /\ cause' = [r \in Runs |-> IF r \in hit THEN k ELSE cause[r]]
        /\ gate'  = [r \in Runs |-> IF r \in hit THEN NoAgent ELSE gate[r]]
        /\ asks'  = [r \in Runs |-> IF r \in hit THEN FALSE ELSE asks[r]]

\* An append of the broker: it works, or it fails within the bound.
Fails(r) ==
    /\ agent[r] \in MayFail /\ faults < MaxFaults
    /\ faults' = faults + 1

Fresh == {r \in Runs : phase[r] = "none"}

\* Mutant: the table is not consulted.
ReserveAnyway(r, a, as) ==
    /\ r \in Fresh /\ \A s \in Fresh : r <= s
    /\ active' = [active EXCEPT ![a] = r]
    /\ agent'  = [agent EXCEPT ![r] = a]
    /\ role'   = [role EXCEPT ![r] = as]
    /\ At(r, "starting")

\* reserveRun: the next run for the agent; refused if the agent has one.
Reserve(r, a, as) ==
    /\ active[a] = 0
    /\ r \in Fresh /\ \A s \in Fresh : r <= s
    /\ active' = [active EXCEPT ![a] = r]
    /\ agent'  = [agent EXCEPT ![r] = a]
    /\ role'   = [role EXCEPT ![r] = as]
    /\ At(r, "starting")

Init ==
    /\ open = TRUE /\ audience = {ForAgent[q] : q \in Requests} /\ lock = Free /\ others = 0
    /\ report = [r \in Runs |-> "none"] /\ faults = 0
    /\ request = [q \in Requests |-> "new"]
    /\ active = [a \in Agents |-> 0]
    /\ closing = "no" /\ stopping = {}
    /\ phase = [r \in Runs |-> "none"]
    /\ agent = [r \in Runs |-> NoAgent]
    /\ role = [r \in Runs |-> "none"]
    /\ cause = [r \in Runs |-> "none"]
    /\ turn = [r \in Runs |-> "agent"]
    /\ tried = [r \in Runs |-> 0]
    /\ gate = [r \in Runs |-> NoAgent]
    /\ asks = [r \in Runs |-> FALSE]
    /\ deferred = [r \in Runs |-> 0] /\ awaited = [r \in Runs |-> 0]
    /\ accept = [h \in Handoffs |-> "none"] /\ edge = [h \in Handoffs |-> "none"]
    /\ source = [h \in Handoffs |-> 0] /\ target = [h \in Handoffs |-> NoAgent]
    /\ child = [h \in Handoffs |-> 0]

-----------------------------------------------------------------------------
(* Requests.                                                                *)

\* dispatchConversationMention and startConversationAgentRun read the manifest.
ReadRequest(q) ==
    /\ request[q] = "new"
    /\ request' = [request EXCEPT ![q] =
           IF closing = "no" /\ open /\ ForAgent[q] \in audience THEN "checked" ELSE "refused"]
    /\ UNCHANGED <<storeVars, logVars, active, closeVars, turnVars, settleVars,
                   driveVars, launchVars, acceptVars>>

\* After the await: closed again, then the reservation.
StartRequest(q) ==
    /\ request[q] = "checked"
    /\ \/ /\ closing = "no"
          /\ \E r \in Runs : Reserve(r, ForAgent[q], IF IsRoot[q] THEN "root" ELSE "start")
          /\ request' = [request EXCEPT ![q] = "started"]
       \/ /\ closing # "no" \/ active[ForAgent[q]] # 0
          /\ request' = [request EXCEPT ![q] = "refused"]
          /\ UNCHANGED <<active, driveVars>>
    /\ UNCHANGED <<storeVars, logVars, closeVars, turnVars, settleVars, launchVars, acceptVars>>

-----------------------------------------------------------------------------
(* The driver: executeConversationRun and finalizeRun.                      *)

\* getSession has answered: the run may have been cancelled meanwhile, and then
\* its client is stopped and forgotten.
GetSession(r) ==
    /\ phase[r] = "starting"
    /\ \/ Settled(r) /\ At(r, "stopped")
       \/ ~Settled(r) /\ At(r, "announcing")
       \/ ~Settled(r) /\ At(r, "unstarted")
    /\ UNCHANGED <<storeVars, logVars, tableVars, closeVars, turnVars, settleVars,
                   agent, role, launchVars, acceptVars>>

\* The run_started event; if it cannot be written the run is over.
Announce(r) ==
    /\ phase[r] = "announcing"
    /\ \/ At(r, "working") /\ UNCHANGED faults
       \/ At(r, "ending") /\ Fails(r)
    /\ UNCHANGED <<storeVars, report, tableVars, closeVars, turnVars, settleVars,
                   agent, role, launchVars, acceptVars>>

\* The run is settled: a client that may still work is aborted first, and a
\* completed run tells what the agent said, if it said anything.
Wake(r) ==
    /\ phase[r] = "working" /\ Settled(r)
    /\ \/ cause[r] \in {"timeout", "cancel"} /\ At(r, "aborting")
       \/ cause[r] = "completed" /\ At(r, "telling")
       \/ cause[r] \notin {"timeout", "cancel"} /\ At(r, "reporting")
    /\ UNCHANGED <<storeVars, logVars, tableVars, closeVars, turnVars, settleVars,
                   agent, role, launchVars, acceptVars>>

Aborted(r) ==
    /\ phase[r] = "aborting"
    /\ At(r, "reporting")
    /\ UNCHANGED <<storeVars, logVars, tableVars, closeVars, turnVars, settleVars,
                   agent, role, launchVars, acceptVars>>

Tell(r) ==
    /\ phase[r] = "telling"
    /\ \/ At(r, "reporting") /\ UNCHANGED faults
       \/ At(r, "ending") /\ Fails(r)
    /\ UNCHANGED <<storeVars, report, tableVars, closeVars, turnVars, settleVars,
                   agent, role, launchVars, acceptVars>>

\* What the terminal event says: a run that never worked was cancelled during
\* its start or could not be started.
ReportOf(r) ==
    CASE phase[r] = "stopped"       -> "cancelled"
      [] phase[r] = "unstarted"     -> "failed"
      [] cause[r] = "completed"     -> "completed"
      [] cause[r] = "timeout"       -> "timed_out"
      [] cause[r] = "cancel"        -> "cancelled"
      [] OTHER                      -> "failed"

Report(r) ==
    /\ phase[r] \in {"stopped", "unstarted", "reporting"}
    /\ At(r, "ending")
    /\ \/ report' = [report EXCEPT ![r] = ReportOf(r)] /\ UNCHANGED faults
       \/ Fails(r) /\ UNCHANGED report
    /\ UNCHANGED <<storeVars, tableVars, closeVars, turnVars, settleVars,
                   agent, role, launchVars, acceptVars>>

\* The finally block: the agent is given free, and an edge that waits is
\* launched if the run completed (maybeLaunchDeferredChild).
End(r) ==
    /\ phase[r] = "ending"
    /\ turn' = [turn EXCEPT ![r] = "agent"] /\ tried' = [tried EXCEPT ![r] = 0]
    /\ active' = [active EXCEPT ![agent[r]] = 0]
    /\ IF deferred[r] # 0 /\ cause[r] = "completed"
       THEN /\ At(r, "waiting")
            /\ edge'     = [edge EXCEPT ![deferred[r]] = "reading"]
            /\ awaited'  = [awaited EXCEPT ![r] = deferred[r]]
            /\ deferred' = [deferred EXCEPT ![r] = 0]
       ELSE At(r, "over") /\ UNCHANGED <<edge, awaited, deferred>>
    /\ UNCHANGED <<storeVars, logVars, request, closeVars, settleVars,
                   agent, role, child, acceptVars>>

\* The launch the run waited for is over, and so is the run.
Waited(r) ==
    /\ phase[r] = "waiting" /\ edge[awaited[r]] \in {"done", "failed"}
    /\ At(r, "over")
    /\ awaited' = [awaited EXCEPT ![r] = 0]
    /\ UNCHANGED <<storeVars, logVars, tableVars, closeVars, turnVars, settleVars,
                   agent, role, edge, child, deferred, acceptVars>>

-----------------------------------------------------------------------------
(* What settles a run, and what the agent asks for meanwhile.               *)

Settle(r, k) ==
    /\ Settling({r}, k)
    /\ UNCHANGED <<storeVars, logVars, tableVars, closeVars, turnVars, driveVars,
                   launchVars, acceptVars>>

\* Mutant: the timer is cleared when the agent's turn is over.
TimeoutOfTurn(r) == Listening(r) /\ turn[r] = "agent" /\ Settle(r, "timeout")

\* The run's timer.
Timeout(r) == Listening(r) /\ Settle(r, "timeout")

\* The process exits, or the prompt is not acknowledged.
Dies(r) == Listening(r) /\ Settle(r, "ambiguous")

\* The steward's abort, at any time while the run is in the table.
Abort(r) == Driven(r) /\ ~Settled(r) /\ Settle(r, "cancel")

\* What the broker makes of a settled turn (onSettledAttempt): a provider error
\* is worth another model while there is one.
Judge(r, how) ==
    IF how = "provider" /\ tried[r] < Fallbacks[agent[r]]
    THEN turn' = [turn EXCEPT ![r] = "noting"] /\ UNCHANGED settleVars
    ELSE /\ Settling({r}, IF how = "provider" THEN "provider_error" ELSE "completed")
         /\ turn' = [turn EXCEPT ![r] = "agent"]

\* agent_settled: the policy is loaded the first time, and an await it is.
AgentSettles(r) ==
    /\ Listening(r) /\ turn[r] = "agent"
    /\ \/ tried[r] = 0 /\ turn' = [turn EXCEPT ![r] = "loading"] /\ UNCHANGED settleVars
       \/ tried[r] > 0 /\ \E how \in {"ok", "provider"} : Judge(r, how)
    /\ UNCHANGED <<storeVars, logVars, tableVars, closeVars, tried, driveVars,
                   launchVars, acceptVars>>

PolicyLoaded(r) ==
    /\ Listening(r) /\ turn[r] = "loading"
    /\ \E how \in {"ok", "provider"} : Judge(r, how)
    /\ UNCHANGED <<storeVars, logVars, tableVars, closeVars, tried, driveVars,
                   launchVars, acceptVars>>

\* The switch is noted in the log before it is made.
NoteSwitch(r) ==
    /\ Listening(r) /\ turn[r] = "noting"
    /\ \/ turn' = [turn EXCEPT ![r] = "switching"] /\ UNCHANGED <<faults, settleVars>>
       \/ Fails(r) /\ Settling({r}, "ambiguous") /\ UNCHANGED turn
    /\ UNCHANGED <<storeVars, report, tableVars, closeVars, tried, driveVars,
                   launchVars, acceptVars>>

\* set_model answers: the agent is prompted again, or the model is passed over.
SwitchModel(r) ==
    /\ Listening(r) /\ turn[r] = "switching"
    /\ tried' = [tried EXCEPT ![r] = @ + 1]
    /\ \E to \in {"agent", "skipping"} : turn' = [turn EXCEPT ![r] = to]
    /\ UNCHANGED <<storeVars, logVars, tableVars, closeVars, settleVars, driveVars,
                   launchVars, acceptVars>>

NoteSkip(r) ==
    /\ Listening(r) /\ turn[r] = "skipping"
    /\ \/ Judge(r, "provider") /\ UNCHANGED faults
       \/ Fails(r) /\ Settling({r}, "ambiguous") /\ UNCHANGED turn
    /\ UNCHANGED <<storeVars, report, tableVars, closeVars, tried, driveVars,
                   launchVars, acceptVars>>

\* An approvable request of the agent, and the steward's answer to it.
Ask(r) ==
    /\ Listening(r) /\ turn[r] = "agent" /\ agent[r] \in Asking /\ ~asks[r]
    /\ asks' = [asks EXCEPT ![r] = TRUE]
    /\ UNCHANGED <<storeVars, logVars, tableVars, closeVars, turnVars, cause, gate, driveVars,
                   launchVars, acceptVars>>

Answer(r) ==
    /\ asks[r] /\ ~Settled(r) /\ active[agent[r]] = r
    /\ asks' = [asks EXCEPT ![r] = FALSE]
    /\ UNCHANGED <<storeVars, logVars, tableVars, closeVars, turnVars, cause, gate, driveVars,
                   launchVars, acceptVars>>

-----------------------------------------------------------------------------
(* Handoffs: the gate, the accept under the lock, the launch.               *)

\* requestInitialHandoffGate, for a root run.
RequestGate(r) ==
    /\ Listening(r) /\ turn[r] = "agent" /\ role[r] = "root"
    /\ deferred[r] = 0 /\ gate[r] = NoAgent
    /\ \E a \in Agents \ {agent[r]} : gate' = [gate EXCEPT ![r] = a]
    /\ UNCHANGED <<storeVars, logVars, tableVars, closeVars, turnVars, cause, asks, driveVars,
                   launchVars, acceptVars>>

\* The next accept, of run r towards a.
Accepting(r, a) ==
    \E h \in Handoffs :
        /\ accept[h] = "none" /\ \A g \in Handoffs : accept[g] = "none" => h <= g
        /\ accept' = [accept EXCEPT ![h] = "acquiring"]
        /\ source' = [source EXCEPT ![h] = r]
        /\ target' = [target EXCEPT ![h] = a]

\* parseConversationApprovalResponse: exactly one of these, where "denied" is
\* confirmed: false.
Responses == {"confirmed", "denied", "value", "cancelled"}

\* The steward's answer at the gate: the entry is taken whatever it is, and only
\* a confirmation begins an accept.
ResolveGate(r) ==
    /\ gate[r] # NoAgent /\ ~Settled(r) /\ active[agent[r]] = r
    /\ gate' = [gate EXCEPT ![r] = NoAgent]
    /\ \E response \in Responses :
          IF response = "confirmed" THEN Accepting(r, gate[r]) ELSE UNCHANGED acceptVars
    /\ UNCHANGED <<storeVars, logVars, tableVars, closeVars, turnVars, cause, asks, driveVars,
                   launchVars>>

\* requestConversationHandoff, for a run that was handed its work.
RequestHandoff(r) ==
    /\ Listening(r) /\ turn[r] = "agent" /\ role[r] = "workflow"
    /\ deferred[r] = 0
    /\ \E a \in Agents \ {agent[r]} : Accepting(r, a)
    /\ UNCHANGED <<storeVars, logVars, tableVars, closeVars, turnVars, settleVars, driveVars,
                   launchVars>>

Accept(h, p) == accept' = [accept EXCEPT ![h] = p]

\* The lock is tried once, and nobody waits for it.
AcquireLock(h) ==
    /\ accept[h] = "acquiring"
    /\ \/ lock = Free /\ lock' = h /\ Accept(h, "planning")
       \/ lock # Free /\ Accept(h, "rejected") /\ UNCHANGED lock
    /\ UNCHANGED <<open, audience, others, logVars, tableVars, closeVars, turnVars, settleVars,
                   driveVars, launchVars, source, target>>

Edges == {h \in Handoffs : edge[h] # "none"}

\* planConversationHandoffEdge, as far as other runs matter.
MayFollow(h) ==
    /\ open /\ Cardinality(Edges) < EdgeLimit
    /\ active[target[h]] = 0

Plan(h) ==
    /\ accept[h] = "planning"
    /\ \/ MayFollow(h) /\ Accept(h, "joining") /\ UNCHANGED lock
       \/ ~MayFollow(h) /\ Accept(h, "rejected") /\ lock' = Free
    /\ UNCHANGED <<open, audience, others, logVars, tableVars, closeVars, turnVars, settleVars,
                   driveVars, launchVars, source, target>>

\* updateConversationAudienceUnderLock.
Grow(h) ==
    /\ accept[h] = "joining"
    /\ Accept(h, "recording")
    /\ audience' = audience \cup {target[h]}
    /\ UNCHANGED <<open, lock, others, logVars, tableVars, closeVars, turnVars, settleVars,
                   driveVars, launchVars, source, target>>

\* The edge is in the log and becomes the run's deferred handoff.  If the run is
\* settled the accept waits for its end, with the lock.
RecordEdge(h) ==
    /\ accept[h] = "recording"
    /\ \/ /\ edge' = [g \in Handoffs |-> IF g = h THEN "deferred"
                                         ELSE IF g = deferred[source[h]] THEN "overwritten"
                                         ELSE edge[g]]
          /\ deferred' = [deferred EXCEPT ![source[h]] = h]
          /\ \/ Settled(source[h]) /\ Accept(h, "late") /\ UNCHANGED lock
             \/ ~Settled(source[h]) /\ Accept(h, "accepted") /\ lock' = Free
          /\ UNCHANGED faults
       \/ Fails(source[h]) /\ Accept(h, "rejected") /\ lock' = Free /\ UNCHANGED <<edge, deferred>>
    /\ UNCHANGED <<open, audience, others, report, tableVars, closeVars, turnVars, settleVars,
                   driveVars, child, awaited, source, target>>

\* Mutant: the run's finally block is trusted to have seen the edge.
LateForgets(h) ==
    /\ accept[h] = "late" /\ phase[source[h]] = "over"
    /\ Accept(h, "accepted") /\ lock' = Free
    /\ UNCHANGED <<open, audience, others, logVars, tableVars, closeVars, turnVars, settleVars,
                   driveVars, launchVars, source, target>>

\* The run is over: an edge its finally block did not see is launched now.
Late(h) ==
    /\ accept[h] = "late" /\ phase[source[h]] = "over"
    /\ Accept(h, "accepted") /\ lock' = Free
    /\ IF deferred[source[h]] # 0 /\ cause[source[h]] = "completed"
       THEN /\ edge' = [edge EXCEPT ![deferred[source[h]]] = "reading"]
            /\ deferred' = [deferred EXCEPT ![source[h]] = 0]
       ELSE UNCHANGED <<edge, deferred>>
    /\ UNCHANGED <<open, audience, others, logVars, tableVars, closeVars, turnVars, settleVars,
                   driveVars, child, awaited, source, target>>

\* launchDeferredStageRun reads the manifest, then the events; the table of runs
\* is consulted last.
ReadLaunch(h) ==
    /\ edge[h] = "reading"
    /\ edge' = [edge EXCEPT ![h] = IF open /\ target[h] \in audience THEN "checking" ELSE "failing"]
    /\ UNCHANGED <<storeVars, logVars, tableVars, closeVars, turnVars, settleVars, driveVars,
                   child, deferred, awaited, acceptVars>>

Launch(h) ==
    /\ edge[h] = "checking"
    /\ \/ \E r \in Runs : /\ Reserve(r, target[h], "workflow")
                          /\ child' = [child EXCEPT ![h] = r]
                          /\ edge' = [edge EXCEPT ![h] = "running"]
       \/ /\ active[target[h]] # 0
          /\ edge' = [edge EXCEPT ![h] = "failing"]
          /\ UNCHANGED <<active, driveVars, child>>
    /\ UNCHANGED <<storeVars, logVars, request, closeVars, turnVars, settleVars,
                   deferred, awaited, acceptVars>>

\* recordLaunchFailure, best effort; or the end of the child.
LaunchOver(h) ==
    /\ \/ edge[h] = "failing" /\ edge' = [edge EXCEPT ![h] = "failed"]
       \/ edge[h] = "running" /\ phase[child[h]] = "over" /\ edge' = [edge EXCEPT ![h] = "done"]
    /\ UNCHANGED <<storeVars, logVars, tableVars, closeVars, turnVars, settleVars, driveVars,
                   child, deferred, awaited, acceptVars>>

-----------------------------------------------------------------------------
(* The end of the broker, and other callers of the store.                   *)

Close ==
    /\ closing = "no" /\ closing' = "stopping"
    /\ stopping' = {active[a] : a \in Agents} \ {0}
    /\ UNCHANGED <<storeVars, logVars, tableVars, turnVars, settleVars, driveVars,
                   launchVars, acceptVars>>

\* One run of the list is cancelled and its client stopped; the rest comes after.
StopRun(r) ==
    /\ closing = "stopping" /\ r \in stopping
    /\ stopping' = stopping \ {r}
    /\ Settling({r}, "cancel")
    /\ UNCHANGED <<storeVars, logVars, tableVars, closing, turnVars, driveVars,
                   launchVars, acceptVars>>

\* The approvals go, and the runs of the table by now are waited for.
ClearApprovals ==
    /\ closing = "stopping" /\ stopping = {}
    /\ closing' = "waiting"
    /\ stopping' = {active[a] : a \in Agents} \ {0}
    /\ gate' = [r \in Runs |-> NoAgent] /\ asks' = [r \in Runs |-> FALSE]
    /\ UNCHANGED <<storeVars, logVars, tableVars, turnVars, cause, driveVars,
                   launchVars, acceptVars>>

\* All are over: the sessions are closed.
Closed ==
    /\ closing = "waiting" /\ \A r \in stopping : phase[r] = "over"
    /\ closing' = "closed" /\ stopping' = {}
    /\ UNCHANGED <<storeVars, logVars, tableVars, turnVars, settleVars, driveVars,
                   launchVars, acceptVars>>

\* Another caller takes the mutation lock, and changes the status or not.
OtherTakes ==
    /\ others < MaxOthers /\ others' = others + 1
    /\ lock = Free /\ lock' = Other
    /\ UNCHANGED <<open, audience, logVars, tableVars, closeVars, turnVars, settleVars,
                   driveVars, launchVars, acceptVars>>

OtherGives ==
    /\ lock = Other /\ lock' = Free
    /\ open' \in BOOLEAN
    /\ UNCHANGED <<audience, others, logVars, tableVars, closeVars, turnVars, settleVars,
                   driveVars, launchVars, acceptVars>>

Drive(r) ==
    \/ GetSession(r) \/ Announce(r) \/ Wake(r) \/ Aborted(r) \/ Tell(r) \/ Report(r)
    \/ End(r) \/ Waited(r)

Follow(h) ==
    \/ AcquireLock(h) \/ Plan(h) \/ Grow(h) \/ RecordEdge(h) \/ Late(h)
    \/ ReadLaunch(h) \/ Launch(h) \/ LaunchOver(h)

Turn(r) ==
    \/ AgentSettles(r) \/ PolicyLoaded(r) \/ NoteSwitch(r) \/ SwitchModel(r) \/ NoteSkip(r)
    \/ Ask(r) \/ Answer(r) \/ RequestGate(r) \/ ResolveGate(r) \/ RequestHandoff(r)

Closes == (\E r \in Runs : StopRun(r)) \/ ClearApprovals \/ Closed

Next ==
    \/ \E q \in Requests : ReadRequest(q) \/ StartRequest(q)
    \/ \E r \in Runs : Drive(r) \/ Turn(r) \/ Timeout(r) \/ Dies(r) \/ Abort(r)
    \/ \E h \in Handoffs : Follow(h)
    \/ Close \/ Closes
    \/ OtherTakes \/ OtherGives

Spec == Init /\ [][Next]_vars

\* What the event loop has to run on its own.
EventLoop == (\E r \in Runs : Drive(r)) \/ (\E h \in Handoffs : Follow(h)) \/ Closes

\* While a continuation is ready the event loop runs one; timers fire; the store's
\* other callers give the lock back.  The agent and the steward owe nothing.
FairSpec ==
    /\ Spec
    /\ WF_vars(EventLoop) /\ WF_vars(\E r \in Runs : Timeout(r)) /\ WF_vars(OtherGives)

-----------------------------------------------------------------------------
(* Properties.                                                              *)

TypeOK ==
    /\ open \in BOOLEAN /\ audience \subseteq Agents /\ lock \in Handoffs \cup {Free, Other}
    /\ others \in 0..MaxOthers
    /\ report \in [Runs -> Reports \cup {"none"}] /\ faults \in 0..MaxFaults
    /\ request \in [Requests -> {"new", "checked", "started", "refused"}]
    /\ active \in [Agents -> Runs \cup {0}]
    /\ closing \in {"no", "stopping", "waiting", "closed"} /\ stopping \subseteq Runs
    /\ phase \in [Runs -> Phases]
    /\ agent \in [Runs -> Agents \cup {NoAgent}]
    /\ role \in [Runs -> {"none", "root", "workflow", "start"}]
    /\ cause \in [Runs -> Causes \cup {"none"}]
    /\ turn \in [Runs -> {"agent", "loading", "noting", "switching", "skipping"}]
    /\ tried \in [Runs -> Nat] /\ \A r \in Runs : tried[r] > 0 => tried[r] <= Fallbacks[agent[r]]
    /\ gate \in [Runs -> Agents \cup {NoAgent}] /\ asks \in [Runs -> BOOLEAN]
    /\ deferred \in [Runs -> Handoffs \cup {0}] /\ awaited \in [Runs -> Handoffs \cup {0}]
    /\ accept \in [Handoffs -> {"none", "acquiring", "planning", "joining", "recording",
                                "late", "accepted", "rejected"}]
    /\ edge \in [Handoffs -> {"none", "deferred", "overwritten", "reading", "checking",
                              "running", "failing", "failed", "done"}]
    /\ source \in [Handoffs -> Runs \cup {0}]
    /\ target \in [Handoffs -> Agents \cup {NoAgent}]
    /\ child \in [Handoffs -> Runs \cup {0}]

\* One agent works on one run at a time: between its reservation and its finally
\* block a run is the one the table names, whichever of the three paths (mention,
\* start, handoff) reserved it.
OneRunPerAgent ==
    \A r \in Runs : Driven(r) => active[agent[r]] = r

\* A run that is over has told the conversation how it ended: the event says what
\* settled it first, and is missing only if an append failed.
EveryEndTold ==
    \A r \in Runs : phase[r] \in {"waiting", "over"} =>
        \/ report[r] = "none" /\ faults > 0
        \/ report[r] = "completed" /\ cause[r] = "completed"
        \/ report[r] = "timed_out" /\ cause[r] = "timeout"
        \/ report[r] = "cancelled" /\ cause[r] = "cancel"
        \/ report[r] = "failed"    /\ cause[r] \notin {"completed", "timeout"}

\* A request the steward can still answer belongs to the unsettled run its agent
\* is working on: no answer reaches a run that is over, or another run.
ApprovalsAreLive ==
    \A r \in Runs : (asks[r] \/ gate[r] # NoAgent) =>
        ~Settled(r) /\ phase[r] = "working" /\ active[agent[r]] = r

\* An edge the conversation has recorded is followed when its source completes,
\* however the accept and the end of the run interleave: it is launched, its
\* launch has failed, or a later edge of the same run has taken its place.
EdgeFollowed ==
    \A h \in Handoffs :
        accept[h] = "accepted" /\ phase[source[h]] = "over" /\ cause[source[h]] = "completed"
            => edge[h] # "deferred"

\* The broker comes to rest, whatever the agents do: every run is over, every
\* accept has returned and given the lock back though it may wait for the end of
\* its run with the lock held, and close() has returned.
ComesToRest ==
    []<>( /\ \A r \in Runs : phase[r] \in {"none", "over"}
          /\ \A h \in Handoffs : accept[h] \in {"none", "accepted", "rejected"}
          /\ closing \in {"no", "closed"} )

(* Properties the code's comments state, and the code does not keep.        *)

\* "one accepted-but-not-yet-launched edge per run": no accepted edge is lost to
\* a later one.
NoEdgeOverwritten == \A h \in Handoffs : edge[h] # "overwritten"

=============================================================================
