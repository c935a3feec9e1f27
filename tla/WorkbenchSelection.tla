------------------------- MODULE WorkbenchSelection -------------------------
(***************************************************************************)
(* Which conversation the Workbench shows, and whose facts it shows beside *)
(* it (src/web/src/ConversationNavigator.tsx).  The page asks the gateway  *)
(* everything asynchronously: the manifest and the attach gate when a      *)
(* conversation is opened, lifecycle and rename requests, the refresh      *)
(* after a send, telemetry reads and workflow-status reads.  Every answer  *)
(* may come after the reader has moved on, so each kind has its own guard: *)
(* a sequence number, a generation, a target, an id.  A React commit and   *)
(* its layout effects are one step here, as they are in the browser.       *)
(*                                                                         *)
(* The gateway side is the manifest of each conversation (status, members) *)
(* and the attach gate, which admits an open conversation only.  Changes   *)
(* by other clients reach the manifests without any event.                 *)
(***************************************************************************)
EXTENDS Naturals, FiniteSets

CONSTANTS Conversations, Agents, Nowhere,
          Founder,      \* the agent each conversation starts with
          MaxOpens,     \* bound: open flows and cancellations
          MaxReads,     \* bound: telemetry reads under way, status reads in all
          MaxActs,      \* bound: lifecycle and rename requests
          MaxOthers     \* bound: changes made by other clients

ASSUME ConstantsAssumption ==
    /\ Nowhere \notin Conversations \cup [id: Conversations, members: SUBSET Agents]
    /\ Founder \in [Conversations -> Agents]
    /\ {MaxOpens, MaxReads, MaxActs, MaxOthers} \subseteq Nat

VARIABLES
    status, members,    \* the gateway's manifests
    others,             \* changes made by other clients, for the bound
    route,              \* the conversation in the location hash
    openSeq, opens,     \* openSeqRef, and the open flows under way
    opened,             \* what the newest open or cancellation asked for
    selection,          \* phase, conversation id and its manifest's members
    generation,         \* telemetryGenerationRef
    reads,              \* telemetry reads under way
    telemetry,          \* telemetryByAgent: the agent, and whose fact it is
    statusSeq,          \* workflowStatusReadSeqRef
    statusReads,        \* workflow-status reads under way
    statuses,           \* workflowStatusByAgent, as telemetry
    target,             \* activeWorkflowStatusTargetRef
    acts,               \* lifecycle and rename requests, the lost ones kept
    refreshes           \* silent manifest refreshes after a send

gateway == <<status, members, others>>
flows == <<openSeq, opens, opened>>
facts == <<generation, telemetry, statusSeq, statuses, target>>
vars == <<gateway, route, flows, selection, facts, reads, statusReads, acts, refreshes>>

None == [phase |-> "none", id |-> Nowhere, members |-> {}]
Attaching == [None EXCEPT !.phase = "attaching"]
Shown(phase, c, who) == [phase |-> phase, id |-> c, members |-> who]

Fact == [agent: Agents, of: Conversations]
Action == {"archive", "reopen", "rename"}

TypeOK ==
    /\ status \in [Conversations -> {"open", "archived"}]
    /\ members \in [Conversations -> SUBSET Agents]
    /\ others \in 0..MaxOthers
    /\ route \in Conversations \cup {Nowhere}
    /\ openSeq \in Nat
    /\ opens \subseteq [seq: Nat, id: Conversations, stage: {"reading", "attaching"}, members: SUBSET Agents]
    /\ opened \in Conversations \cup {Nowhere}
    /\ selection \in {None, Attaching} \cup
         [phase: {"active", "read-only"}, id: Conversations, members: SUBSET Agents]
    /\ generation \in Nat /\ statusSeq \in Nat
    /\ reads \subseteq [id: Conversations, agent: Agents, generation: Nat]
    /\ telemetry \subseteq Fact /\ statuses \subseteq Fact
    /\ statusReads \subseteq [seq: Nat, id: Conversations, members: SUBSET Agents]
    /\ target \in [id: Conversations, members: SUBSET Agents] \cup {Nowhere}
    /\ acts \subseteq [id: Conversations, action: Action, stage: {"sent", "done", "lost"}]
    /\ refreshes \subseteq Conversations

Init ==
    /\ status = [c \in Conversations |-> "open"]
    /\ members = [c \in Conversations |-> {Founder[c]}]
    /\ others = 0
    /\ route = Nowhere /\ openSeq = 0 /\ opens = {} /\ opened = Nowhere
    /\ selection = None
    /\ generation = 0 /\ reads = {} /\ telemetry = {}
    /\ statusSeq = 0 /\ statusReads = {} /\ statuses = {} /\ target = Nowhere
    /\ acts = {} /\ refreshes = {}

-----------------------------------------------------------------------------
(* What a commit of a new selection does.                                  *)

SurfaceKey(s) == s.id

TargetFor(s) == IF s.phase = "active" THEN [id |-> s.id, members |-> s.members] ELSE Nowhere

(* The layout effects of a changed surface key: transient facts are        *)
(* cleared and both counters advance, so that reads under way are stale.   *)
Show(s) ==
    /\ selection' = s
    /\ IF SurfaceKey(s) = SurfaceKey(selection)
         THEN UNCHANGED facts
         ELSE /\ generation' = generation + 1
              /\ telemetry' = {}
              /\ statusSeq' = statusSeq + 1
              /\ statuses' = {}
              /\ target' = TargetFor(s)

(* openConversationById: a new sequence number, the attaching surface, and *)
(* the manifest read.                                                      *)
Open(c) ==
    /\ openSeq < MaxOpens
    /\ openSeq' = openSeq + 1
    /\ opened' = c
    /\ opens' = opens \cup {[seq |-> openSeq', id |-> c, stage |-> "reading", members |-> {}]}
    /\ Show(Attaching)

Stale(flow) == flow.seq # openSeq

-----------------------------------------------------------------------------
(* Opening a conversation.                                                 *)

Navigate(c) ==
    /\ c # route
    /\ route' = c
    /\ Open(c)
    /\ UNCHANGED <<gateway, reads, statusReads, acts, refreshes>>

(* The home route and an invalid one cancel what is under way.             *)
GoHome ==
    /\ route # Nowhere /\ openSeq < MaxOpens
    /\ route' = Nowhere
    /\ openSeq' = openSeq + 1
    /\ opened' = Nowhere
    /\ Show(None)
    /\ UNCHANGED <<gateway, opens, reads, statusReads, acts, refreshes>>

(* The manifest read answers; a stale flow ends here.                      *)
ReadManifest(flow) ==
    /\ flow.stage = "reading"
    /\ opens' = (opens \ {flow}) \cup
         (IF Stale(flow) THEN {} ELSE {[flow EXCEPT !.stage = "attaching", !.members = members[flow.id]]})
    /\ UNCHANGED <<gateway, route, openSeq, opened, selection, facts, reads, statusReads, acts, refreshes>>

(* Mutant: the sequence is not tested again after the attach answer.       *)
AttachUnguarded(flow) ==
    /\ flow.stage = "attaching"
    /\ opens' = opens \ {flow}
    /\ IF status[flow.id] = "open" THEN Show(Shown("active", flow.id, members[flow.id]))
       ELSE Show(Shown("read-only", flow.id, flow.members))
    /\ UNCHANGED <<gateway, route, openSeq, opened, reads, statusReads, acts, refreshes>>

(* The attach gate answers: an admitted conversation is shown active with  *)
(* the gate's manifest, a refused one read-only with the manifest read     *)
(* before.                                                                 *)
Attach(flow) ==
    /\ flow.stage = "attaching"
    /\ opens' = opens \ {flow}
    /\ IF Stale(flow) THEN UNCHANGED <<selection, facts>>
       ELSE IF status[flow.id] = "open" THEN Show(Shown("active", flow.id, members[flow.id]))
       ELSE Show(Shown("read-only", flow.id, flow.members))
    /\ UNCHANGED <<gateway, route, openSeq, opened, reads, statusReads, acts, refreshes>>

(* Either request fails: a current flow ends at the no-selection surface.  *)
OpenFails(flow) ==
    /\ opens' = opens \ {flow}
    /\ IF Stale(flow) THEN UNCHANGED <<selection, facts>> ELSE Show(None)
    /\ UNCHANGED <<gateway, route, openSeq, opened, reads, statusReads, acts, refreshes>>

-----------------------------------------------------------------------------
(* Lifecycle and rename requests.  The conversation is the one shown when  *)
(* the reader clicked, and stays so when the answer comes.                 *)

Act(action) ==
    /\ selection.id # Nowhere
    /\ Cardinality(acts) < MaxActs
    /\ action = "archive" => selection.phase = "active"
    /\ action = "reopen" => selection.phase = "read-only"
    /\ acts' = acts \cup {[id |-> selection.id, action |-> action, stage |-> "sent"]}
    /\ UNCHANGED <<gateway, route, flows, selection, facts, reads, statusReads, refreshes>>

Outcome(action, old) ==
    CASE action = "archive" -> "archived" [] action = "reopen" -> "open" [] OTHER -> old

TakeEffect(act) ==
    /\ act.stage = "sent"
    /\ status' = [status EXCEPT ![act.id] = Outcome(act.action, @)]
    /\ acts' = (acts \ {act}) \cup {[act EXCEPT !.stage = "done"]}
    /\ UNCHANGED <<members, others, route, flows, selection, facts, reads, statusReads, refreshes>>

(* Mutant: the answer of the request is believed, nothing is read again.   *)
SucceedOnly(act) ==
    /\ act.stage = "done"
    /\ acts' = acts \ {act}
    /\ UNCHANGED <<gateway, route, flows, selection, facts, reads, statusReads, refreshes>>

(* Success opens the conversation again, whatever the reader did since.    *)
Succeed(act) ==
    /\ act.stage = "done"
    /\ acts' = acts \ {act}
    /\ Open(act.id)
    /\ UNCHANGED <<gateway, route, reads, statusReads, refreshes>>

(* A server error opens it again as well: the manifest may have changed.   *)
ServerError(act) ==
    /\ act.action # "rename" /\ act.stage # "lost"
    /\ acts' = acts \ {act}
    /\ Open(act.id)
    /\ UNCHANGED <<gateway, route, reads, statusReads, refreshes>>

(* A conversation the gateway no longer finds: the selection is emptied,   *)
(* and an open under way is not cancelled.                                 *)
NotFound(act) ==
    /\ act.stage = "sent" /\ act.action # "rename"
    /\ acts' = acts \ {act}
    /\ Show(None)
    /\ UNCHANGED <<gateway, route, flows, reads, statusReads, refreshes>>

(* A conflict, or an answer that never came: the control shows the error   *)
(* and nothing is read again.  A change whose answer is lost stays in acts *)
(* as "lost".                                                              *)
Refused(act) ==
    /\ act.stage # "lost"
    /\ acts' = (acts \ {act}) \cup (IF act.stage = "done" THEN {[act EXCEPT !.stage = "lost"]} ELSE {})
    /\ UNCHANGED <<gateway, route, flows, selection, facts, reads, statusReads, refreshes>>

-----------------------------------------------------------------------------
(* A message is accepted; it may have mentioned an agent who joins.  Then  *)
(* the manifest of the shown conversation is read again, silently.         *)

Send(a) ==
    /\ selection.phase = "active"
    /\ status[selection.id] = "open"
    /\ a \notin members[selection.id]
    /\ members' = [members EXCEPT ![selection.id] = @ \cup {a}]
    /\ refreshes' = refreshes \cup {selection.id}
    /\ UNCHANGED <<status, others, route, flows, selection, facts, reads, statusReads, acts>>

Refresh(c) ==
    /\ c \in refreshes
    /\ refreshes' = refreshes \ {c}
    /\ IF selection.phase = "active" /\ selection.id = c
         THEN Show(Shown("active", c, members[c]))
         ELSE UNCHANGED <<selection, facts>>
    /\ UNCHANGED <<gateway, route, flows, reads, statusReads, acts>>

-----------------------------------------------------------------------------
(* Telemetry and workflow status of the members of an active conversation. *)

ReadTelemetry(a) ==
    /\ selection.phase = "active" /\ a \in selection.members
    /\ Cardinality(reads) < MaxReads
    /\ reads' = reads \cup {[id |-> selection.id, agent |-> a, generation |-> generation]}
    /\ UNCHANGED <<gateway, route, flows, selection, facts, statusReads, acts, refreshes>>

(* Mutant: a telemetry answer is applied whenever it comes.                *)
AnswerTelemetryLate(read) ==
    /\ reads' = reads \ {read}
    /\ telemetry' = telemetry \cup {[agent |-> read.agent, of |-> read.id]}
    /\ UNCHANGED <<gateway, route, flows, selection, generation, statusSeq, statuses, target,
                   statusReads, acts, refreshes>>

AnswerTelemetry(read) ==
    /\ reads' = reads \ {read}
    /\ telemetry' = IF read.generation # generation THEN telemetry
                    ELSE telemetry \cup {[agent |-> read.agent, of |-> read.id]}
    /\ UNCHANGED <<gateway, route, flows, selection, generation, statusSeq, statuses, target,
                   statusReads, acts, refreshes>>

(* The history has loaded, or the telemetry popup closes.                  *)
ReadStatuses ==
    /\ selection.phase = "active"
    /\ statusSeq - generation < MaxReads
    /\ statusSeq' = statusSeq + 1
    /\ statusReads' = statusReads \cup
         {[seq |-> statusSeq', id |-> selection.id, members |-> selection.members]}
    /\ UNCHANGED <<gateway, route, flows, selection, generation, telemetry, statuses, target,
                   reads, acts, refreshes>>

(* The answers for all members are applied together, and only by the       *)
(* newest read of the pair the surface was committed with.                 *)
AnswerStatuses(read) ==
    /\ statusReads' = statusReads \ {read}
    /\ statuses' =
         IF read.seq # statusSeq \/ target # [id |-> read.id, members |-> read.members]
           THEN statuses
           ELSE {[agent |-> a, of |-> read.id] : a \in read.members}
    /\ UNCHANGED <<gateway, route, flows, selection, generation, telemetry, statusSeq, target,
                   reads, acts, refreshes>>

(* Another client archives or reopens; nothing tells this one.             *)
OtherClient(c) ==
    /\ others < MaxOthers
    /\ others' = others + 1
    /\ \E s \in {"open", "archived"} \ {status[c]} : status' = [status EXCEPT ![c] = s]
    /\ UNCHANGED <<members, route, flows, selection, facts, reads, statusReads, acts, refreshes>>

Answer ==
    \/ \E flow \in opens : ReadManifest(flow) \/ Attach(flow) \/ OpenFails(flow)
    \/ \E act \in acts : Succeed(act) \/ ServerError(act) \/ NotFound(act) \/ Refused(act)
    \/ \E c \in refreshes : Refresh(c)
    \/ \E read \in reads : AnswerTelemetry(read)
    \/ \E read \in statusReads : AnswerStatuses(read)

Next ==
    \/ \E c \in Conversations : Navigate(c) \/ OtherClient(c)
    \/ GoHome
    \/ \E action \in Action : Act(action)
    \/ \E act \in acts : TakeEffect(act)
    \/ \E a \in Agents : Send(a) \/ ReadTelemetry(a)
    \/ ReadStatuses
    \/ Answer

Spec == Init /\ [][Next]_vars

(* Each request of an open flow is answered, or fails, in the end.         *)
FairSpec ==
    /\ Spec
    /\ WF_vars(\E flow \in opens : ReadManifest(flow) \/ Attach(flow) \/ OpenFails(flow))

-----------------------------------------------------------------------------
(* Only the newest open flow decides what is shown: an answer to an older  *)
(* one, or to one that going home cancelled, never brings its conversation *)
(* back (the sequence test after every await of openConversationById).     *)
NewestOpenShown == selection.id \in {opened, Nowhere}

(* The facts beside a conversation are its own: telemetry or a workflow    *)
(* status read for one conversation never shows on another, however late   *)
(* its answer (the generation, the read sequence and the target).          *)
FactsOfShown == \A fact \in telemetry \cup statuses : fact.of = selection.id

(* What this page changed, it shows: with no other client at work, a       *)
(* conversation presented as active is open at the gateway, unless a       *)
(* request of this page for it is under way or its answer was lost (every  *)
(* answered lifecycle request re-reads and re-attaches).                   *)
OwnChangesShown ==
    others = 0 /\ selection.phase = "active" /\ (\A act \in acts : act.id # selection.id)
        => status[selection.id] = "open"
=============================================================================
