------------------------------ MODULE GatewayChat ------------------------------
(***************************************************************************)
(* The chat of the HTTP gateway: all browsers and API clients share one    *)
(* agent process.                                                          *)
(*                                                                         *)
(* A message is posted, its fallback policy is read, the prompt is written *)
(* to the process, and the turn waits for the next agent_settled of that   *)
(* process.  A run that ended in a provider error and showed nothing is    *)
(* continued on the next model.  Meanwhile the steward aborts, selects a   *)
(* model, starts afresh or switches the agent, which replaces the process; *)
(* the process exits, or answers late.                                     *)
(*                                                                         *)
(* Sources: gateway-http.ts (chat routes), gateway-rpc.ts,                 *)
(* model-fallback-outcome.ts, model-fallback-rotation.ts,                  *)
(* model-fallback-gateway.ts, model-fallback-config.ts.  Pi, the agent     *)
(* process, is external.                                                   *)
(***************************************************************************)
EXTENDS Naturals, Sequences, SequencesExt

CONSTANTS
    Turns,          \* the messages posted, each once
    Kinds,          \* [Turns -> SUBSET AllKinds], how each may be posted
    Team,           \* runnableAgents
    FirstAgent,     \* initialAgent
    Candidates,     \* model.fallback.models of every agent, in their order
    Primary,        \* every agent's configured model
    Selected,       \* the model a steward selects
    Unknown,        \* null
    MaxProcs,       \* bound on agent processes
    MaxRequests,    \* bound on messages and requests of the steward
    MaxTrouble      \* bound on exits, refusals of set_model and late answers

AllKinds == {"prompt", "steer", "whole", "streamed"}

ASSUME GatewayChatAssumption ==
    /\ Kinds \in [Turns -> SUBSET AllKinds]
    /\ FirstAgent \in Team /\ Unknown \notin Turns
    /\ Candidates \in Seq({Candidates[i] : i \in DOMAIN Candidates})
    /\ MaxProcs \in Nat \ {0} /\ {MaxRequests, MaxTrouble} \subseteq Nat

Procs == 1..MaxProcs

VARIABLES
    client, currentAgent,
    pi,             \* per process: its state, agent, stdin and run
    chat,           \* per message: how far its turn is
    feed,           \* per message: its ChatStream, and who reads it
    explicit,       \* explicitModelSelected
    model,          \* currentModelId
    incident,       \* activeIncident: whose it is
    replacing,      \* replacements of the client under way
    requests, trouble,
    ran, works, crossed     \* history: runs settled, runs that did work, turns that shared the process

selectionVars == <<explicit, model, incident>>
boundVars == <<requests, trouble>>
historyVars == <<ran, works, crossed>>
gatewayChatVars == <<client, currentAgent, pi, chat, feed, selectionVars, replacing, boundVars, historyVars>>

-----------------------------------------------------------------------------
(* The process, its requests and the turn.                                 *)

Idle == [of |-> Unknown, worked |-> FALSE]
Nothing == [worked |-> FALSE, end |-> "none"]

(* What a listener has seen of a run: whether it showed text, a tool or a  *)
(* dialog, and what its last records say.                                  *)
Shown(seen) == [seen EXCEPT !.worked = TRUE]
EndedBy(seen, end) == [seen EXCEPT !.end = end]

(* A request can be written: the client is started and has not exited.     *)
Writable(p) == pi[p].st = "up"
Write(p, request) == [pi EXCEPT ![p].stdin = Append(@, request)]

(* promptAndSettle: the listener is there before the prompt is answered.   *)
Asked(c) == [c EXCEPT !.st = "asked", !.asks = @ + 1, !.seen = Nothing]

Listens(t, p) == chat[t].st = "asked" /\ chat[t].on = p

(* Requests of t that p has not answered.                                  *)
Unanswered(t, p) ==
    \E i \in DOMAIN pi[p].stdin :
        LET q == pi[p].stdin[i] IN
        /\ q.of = t
        /\ \/ q.op \in {"prompt", "steer"} /\ chat[t].st = "asked" /\ q.ask = chat[t].asks
           \/ q.op = "model" /\ chat[t].st = "switching" /\ q.to = chat[t].to

(* The turn is over; what its loop knew goes with it.                      *)
Over(c, st) == [c EXCEPT !.st = st, !.seen = Nothing, !.tried = {}, !.to = Unknown]

(* A request that is rejected: the turn fails, but a model that cannot be  *)
(* set is only passed over.                                                *)
Rejected(c) ==
    IF c.st = "switching" THEN [c EXCEPT !.st = "settled", !.tried = @ \cup {c.to}]
    ELSE Over(c, "failed")

(* The reader of a stream returns at the first end it is told, or when the *)
(* stream is closed.                                                       *)
Told(f)   == IF f.reader = "reading" THEN [f EXCEPT !.reader = "ended", !.ended = TRUE] ELSE [f EXCEPT !.ended = TRUE]
ClosedFeed(f) == [Told(f) EXCEPT !.open = FALSE]

(* runChatTurn's finally, and runWithFallback's.                           *)
Finished(ts) ==
    /\ feed' = [t \in Turns |-> IF t \in ts THEN ClosedFeed(feed[t]) ELSE feed[t]]
    /\ incident' = IF incident \in ts THEN Unknown ELSE incident

(* Continuations of a settled promise run before anything else happens.    *)
Quiet == \A t \in Turns : chat[t].st # "settled"

Requests == Quiet /\ requests < MaxRequests /\ requests' = requests + 1

GatewayChatInit ==
    /\ client = 1 /\ currentAgent = FirstAgent
    /\ pi = [p \in Procs |-> [st |-> IF p = 1 THEN "up" ELSE "none", agent |-> FirstAgent,
                              stdin |-> <<>>, run |-> Idle]]
    /\ chat = [t \in Turns |-> [st |-> "unposted", kind |-> "prompt", on |-> 0, asks |-> 0, config |-> FALSE,
                                seen |-> Nothing, tried |-> {}, to |-> Unknown, aborted |-> FALSE]]
    /\ feed = [t \in Turns |-> [open |-> FALSE, listed |-> FALSE, ended |-> FALSE, reader |-> "none"]]
    /\ explicit = FALSE /\ model = Unknown /\ incident = Unknown
    /\ replacing = {} /\ requests = 0 /\ trouble = 0
    /\ ran = {} /\ works = [t \in Turns |-> 0] /\ crossed = {}

-----------------------------------------------------------------------------
(* A turn.                                                                 *)

(* Others whose prompt the process has or is going to have.                *)
Others(t, p) ==
    {u \in Turns \ {t} : pi[p].run.of = u \/ \E i \in DOMAIN pi[p].stdin :
                            pi[p].stdin[i].of = u /\ pi[p].stdin[i].op # "model"}
Meets(t, p) == crossed' = IF Others(t, p) = {} THEN crossed ELSE crossed \cup {t} \cup Others(t, p)

Ask(t, p, c, processes) ==
    IF Writable(p)
      THEN /\ chat' = [chat EXCEPT ![t] = Asked(c)]
           /\ pi' = [processes EXCEPT ![p].stdin = Append(@,
                       [op |-> IF c.kind = "steer" THEN "steer" ELSE "prompt", of |-> t, ask |-> c.asks + 1])]
           /\ Meets(t, p)
      ELSE /\ chat' = [chat EXCEPT ![t] = Over(c, "failed")]
           /\ pi' = processes /\ UNCHANGED crossed

(* handleStart.  A steering message is written at once, a prompt needs the *)
(* policy first.                                                           *)
PostChat(t, kind) ==
    /\ Requests /\ chat[t].st = "unposted"
    /\ LET c == [chat[t] EXCEPT !.kind = kind]
           f == [feed[t] EXCEPT !.open = TRUE, !.listed = TRUE] IN
       IF kind = "steer"
         THEN /\ Ask(t, client, [c EXCEPT !.on = client], pi)
              /\ feed' = [feed EXCEPT ![t] = IF Writable(client) THEN f ELSE ClosedFeed(f)]
         ELSE /\ chat' = [chat EXCEPT ![t] = [c EXCEPT !.st = "policy"]]
              /\ feed' = [feed EXCEPT ![t] = f]
              /\ UNCHANGED <<pi, crossed>>
    /\ UNCHANGED <<client, currentAgent, selectionVars, replacing, trouble, ran, works>>

(* handleOpenAiChatCompletions, which has no ChatStream: "whole" waits for *)
(* the answer, for 30 s, "streamed" passes it on.                          *)
PostCompletion(t, kind) ==
    /\ Requests /\ chat[t].st = "unposted"
    /\ chat' = [chat EXCEPT ![t].kind = kind, ![t].st = "policy"]
    /\ UNCHANGED <<client, currentAgent, pi, feed, selectionVars, replacing, trouble, historyVars>>

(* loadAgentFallbackPolicy: a configuration that is there and can be used. *)
Usable(models) == models # <<>> /\ IsInjective(models)
Policies == IF Usable(Candidates) THEN BOOLEAN ELSE {FALSE}

(* The policy is there, or could not be used; the client is captured only  *)
(* now.                                                                    *)
PolicyRead(t) ==
    /\ Quiet /\ chat[t].st = "policy"
    /\ \E config \in Policies :
           /\ model' = IF model = Unknown /\ config THEN Primary ELSE model
           /\ Ask(t, client, [chat[t] EXCEPT !.config = config, !.on = client], pi)
    /\ IF Writable(client) THEN incident' = t /\ UNCHANGED feed
       ELSE incident' = Unknown /\ feed' = [feed EXCEPT ![t] = ClosedFeed(@)]
    /\ UNCHANGED <<client, currentAgent, explicit, replacing, boundVars, ran, works>>

OutcomeByError(seen) == IF seen.end = "error" THEN "provider_error" ELSE "ended"

(* classifyRunOutcome, over what the listener saw.                         *)
Outcome(seen) ==
    IF seen.end = "error" /\ ~seen.worked THEN "provider_error"
    ELSE IF seen.end \in {"stop", "aborted"} THEN "ended"
    ELSE "ambiguous"

(* planFallbackAttempt: the candidates that are left, by their place.      *)
Left(t) == {i \in DOMAIN Candidates : Candidates[i] # model /\ Candidates[i] \notin chat[t].tried}
Attempts(t) ==
    /\ chat[t].kind # "steer" /\ chat[t].config /\ ~chat[t].aborted /\ ~explicit
    /\ Outcome(chat[t].seen) = "provider_error"
    /\ Left(t) # {}

(* The loop of runWithFallback, after a run or after a model that could    *)
(* not be set.                                                             *)
Continue(t) ==
    /\ chat[t].st = "settled"
    /\ IF Attempts(t)
         THEN /\ \E i \in Left(t) :
                    LET m == Candidates[i] p == chat[t].on IN
                    /\ \A j \in Left(t) : i <= j
                    /\ IF Writable(p)
                         THEN /\ chat' = [chat EXCEPT ![t].st = "switching", ![t].to = m]
                              /\ pi' = Write(p, [op |-> "model", of |-> t, to |-> m])
                         ELSE chat' = [chat EXCEPT ![t].tried = @ \cup {m}] /\ UNCHANGED pi
              /\ UNCHANGED <<feed, incident>>
         ELSE /\ chat' = [chat EXCEPT ![t] = Over(@, "done")]
              /\ Finished({t})
              /\ UNCHANGED pi
    /\ UNCHANGED <<client, currentAgent, explicit, model, replacing, boundVars, historyVars>>

(* The timer of a "whole" answer; what it asked goes on.                   *)
WholeTimesOut(t) ==
    /\ Quiet /\ chat[t].st = "asked" /\ chat[t].kind = "whole"
    /\ chat' = [chat EXCEPT ![t] = Over(@, "failed")]
    /\ Finished({t})
    /\ UNCHANGED <<client, currentAgent, pi, explicit, model, replacing, boundVars, historyVars>>

(* No response within 30 s: the request is rejected, and may still be      *)
(* carried out.                                                            *)
ResponseTimesOut(t) ==
    /\ Quiet /\ trouble < MaxTrouble /\ chat[t].on # 0 /\ Unanswered(t, chat[t].on)
    /\ trouble' = trouble + 1
    /\ chat' = [chat EXCEPT ![t] = Rejected(@)]
    /\ IF chat[t].st = "switching" THEN UNCHANGED <<feed, incident>> ELSE Finished({t})
    /\ UNCHANGED <<client, currentAgent, pi, explicit, model, replacing, requests, historyVars>>

-----------------------------------------------------------------------------
(* The agent process.                                                      *)

(* It takes the next request of its stdin.                                 *)
Takes(p, op) ==
    /\ Quiet /\ pi[p].st = "up" /\ pi[p].stdin # <<>> /\ Head(pi[p].stdin).op = op

Taken(p) == [pi EXCEPT ![p].stdin = Tail(@)]

(* A prompt begins a run; while one goes on it is refused.                 *)
TakesPrompt(p) ==
    /\ Takes(p, "prompt")
    /\ LET q == Head(pi[p].stdin) IN
       IF pi[p].run = Idle
         THEN /\ pi' = [Taken(p) EXCEPT ![p].run = [of |-> q.of, worked |-> FALSE]]
              /\ UNCHANGED <<chat, feed, incident>>
         ELSE /\ pi' = Taken(p)
              /\ IF Listens(q.of, p) /\ chat[q.of].asks = q.ask
                   THEN chat' = [chat EXCEPT ![q.of] = Over(@, "failed")] /\ Finished({q.of})
                   ELSE UNCHANGED <<chat, feed, incident>>
    /\ UNCHANGED <<client, currentAgent, explicit, model, replacing, boundVars, historyVars>>

(* A steering message joins the run, or begins one.                        *)
TakesSteer(p) ==
    /\ Takes(p, "steer")
    /\ pi' = IF pi[p].run = Idle
               THEN [Taken(p) EXCEPT ![p].run = [of |-> Head(pi[p].stdin).of, worked |-> FALSE]] ELSE Taken(p)
    /\ UNCHANGED <<client, currentAgent, chat, feed, selectionVars, replacing, boundVars, historyVars>>

NeverCancelled(t) == FALSE
CancelledMeanwhile(t) == chat[t].aborted

(* A model of a turn: set, or refused.  Who asked may have given up.       *)
TakesModel(p) ==
    /\ Takes(p, "model")
    /\ LET q == Head(pi[p].stdin)
           t == q.of
           waits == chat[t].st = "switching" /\ chat[t].on = p /\ chat[t].to = q.to IN
       \/ /\ waits
          /\ model' = q.to
          /\ IF CancelledMeanwhile(t)
               THEN /\ chat' = [chat EXCEPT ![t] = Over(@, "done")]
                    /\ Finished({t})
                    /\ UNCHANGED crossed
                    /\ pi' = Taken(p)
               ELSE /\ Ask(t, p, [chat[t] EXCEPT !.tried = @ \cup {q.to}], Taken(p))
                    /\ UNCHANGED <<feed, incident>>
          /\ UNCHANGED trouble
       \/ /\ waits /\ trouble < MaxTrouble
          /\ trouble' = trouble + 1
          /\ chat' = [chat EXCEPT ![t] = Rejected(@)]
          /\ pi' = Taken(p)
          /\ UNCHANGED <<feed, incident, model, crossed>>
       \/ /\ ~waits
          /\ pi' = Taken(p)
          /\ UNCHANGED <<chat, feed, incident, model, trouble, crossed>>
    /\ UNCHANGED <<client, currentAgent, explicit, replacing, requests, ran, works>>

(* A model the steward selected.                                           *)
TakesSelection(p) ==
    /\ Takes(p, "select") /\ pi' = Taken(p)
    /\ model' = Selected /\ explicit' = ~Head(pi[p].stdin).auto
    /\ UNCHANGED <<client, currentAgent, chat, feed, incident, replacing, boundVars, historyVars>>

(* The run of p is over: everyone who listens takes it for his own.        *)
RunEnds(p, end) ==
    /\ chat' = [t \in Turns |-> IF Listens(t, p)
                                THEN [chat[t] EXCEPT !.st = "settled", !.seen = EndedBy(@, end)] ELSE chat[t]]
    /\ ran' = ran \cup {pi[p].run.of}

(* An abort ends the run, if there is one.                                 *)
TakesAbort(p) ==
    /\ Takes(p, "abort")
    /\ pi' = [Taken(p) EXCEPT ![p].run = Idle]
    /\ IF pi[p].run = Idle THEN UNCHANGED <<chat, ran>> ELSE RunEnds(p, "aborted")
    /\ UNCHANGED <<client, currentAgent, feed, selectionVars, replacing, boundVars, works, crossed>>

(* Text, a tool or a dialog of the run.                                    *)
Works(p) ==
    /\ Quiet /\ pi[p].st = "up" /\ pi[p].run # Idle /\ ~pi[p].run.worked
    /\ pi' = [pi EXCEPT ![p].run.worked = TRUE]
    /\ works' = [works EXCEPT ![pi[p].run.of] = @ + 1]
    /\ chat' = [t \in Turns |-> IF Listens(t, p) THEN [chat[t] EXCEPT !.seen = Shown(@)] ELSE chat[t]]
    /\ UNCHANGED <<client, currentAgent, feed, selectionVars, replacing, boundVars, ran, crossed>>

(* agent_settled.                                                          *)
Settles(p) ==
    /\ Quiet /\ pi[p].st = "up" /\ pi[p].run # Idle
    /\ \E end \in {"stop", "error", "conflict"} : RunEnds(p, end)
    /\ pi' = [pi EXCEPT ![p].run = Idle]
    /\ UNCHANGED <<client, currentAgent, feed, selectionVars, replacing, boundVars, works, crossed>>

(* The process is gone: what it has not answered is rejected.  A prompt it *)
(* had accepted is not, and nobody but the streams is told.                *)
Gone(p, st, told, processes) ==
    LET lost == {t \in Turns : chat[t].on = p /\ Unanswered(t, p)}
        failed == {t \in lost : chat[t].st = "asked"} IN
    /\ pi' = [processes EXCEPT ![p].st = st, ![p].stdin = <<>>, ![p].run = Idle]
    /\ chat' = [t \in Turns |-> IF t \in lost THEN Rejected(chat[t]) ELSE chat[t]]
    /\ feed' = [t \in Turns |-> IF t \in failed THEN ClosedFeed(told[t]) ELSE told[t]]

StopClient(p, told, processes) == Gone(p, "stopped", told, processes)

ExitsUntold(p) ==
    /\ Quiet /\ trouble < MaxTrouble /\ pi[p].st = "up"
    /\ trouble' = trouble + 1
    /\ Gone(p, "exited", feed, pi)
    /\ incident' = IF incident # Unknown /\ chat[incident].st = "asked" /\ chat'[incident].st = "failed"
                     THEN Unknown ELSE incident
    /\ UNCHANGED <<client, currentAgent, explicit, model, replacing, requests, historyVars>>

Exits(p) ==
    /\ Quiet /\ trouble < MaxTrouble /\ pi[p].st = "up"
    /\ trouble' = trouble + 1
    /\ Gone(p, "exited", [t \in Turns |-> IF p = client /\ feed[t].open THEN Told(feed[t]) ELSE feed[t]], pi)
    /\ incident' = IF incident # Unknown /\ chat[incident].st = "asked" /\ chat'[incident].st = "failed"
                     THEN Unknown ELSE incident
    /\ UNCHANGED <<client, currentAgent, explicit, model, replacing, requests, historyVars>>

-----------------------------------------------------------------------------
(* The steward.                                                            *)

(* handleAbort.                                                            *)
PostAbort ==
    /\ Requests
    /\ chat' = IF incident = Unknown THEN chat ELSE [chat EXCEPT ![incident].aborted = TRUE]
    /\ pi' = IF Writable(client) THEN Write(client, [op |-> "abort", of |-> Unknown]) ELSE pi
    /\ UNCHANGED <<client, currentAgent, feed, selectionVars, replacing, trouble, historyVars>>

(* handleSetModel; with autoFallback the automatic fallback stays on.      *)
PostModel(auto) ==
    /\ Requests /\ Writable(client)
    /\ pi' = Write(client, [op |-> "select", of |-> Unknown, auto |-> auto])
    /\ UNCHANGED <<client, currentAgent, chat, feed, selectionVars, replacing, trouble, historyVars>>

(* The next process is started while the old one goes on.                  *)
BeginReplace(a) ==
    \E p \in Procs :
        /\ pi[p].st = "none" /\ \A q \in 1..p - 1 : pi[q].st # "none"
        /\ pi' = [pi EXCEPT ![p].st = "starting", ![p].agent = a]
        /\ replacing' = replacing \cup {[old |-> client, new |-> p, switch |-> a # currentAgent]}

(* handleNewConversation.                                                  *)
NewConversation ==
    /\ Requests /\ BeginReplace(currentAgent)
    /\ UNCHANGED <<client, currentAgent, chat, feed, selectionVars, trouble, historyVars>>

(* handleSwitch.                                                           *)
SwitchTo(a) ==
    /\ Requests /\ a # currentAgent /\ BeginReplace(a)
    /\ UNCHANGED <<client, currentAgent, chat, feed, selectionVars, trouble, historyVars>>

ReplaceFails(r) ==
    /\ Quiet /\ r \in replacing /\ trouble < MaxTrouble
    /\ trouble' = trouble + 1
    /\ replacing' = replacing \ {r}
    /\ pi' = [pi EXCEPT ![r.new].st = "exited"]
    /\ UNCHANGED <<client, currentAgent, chat, feed, selectionVars, requests, historyVars>>

(* It has started: it takes the place of whichever client is there by now, *)
(* every stream is ended and forgotten, and the one it replaces is stopped.*)
Replace(r) ==
    /\ Quiet /\ r \in replacing
    /\ replacing' = replacing \ {r}
    /\ client' = r.new
    /\ currentAgent' = IF r.switch THEN pi[r.new].agent ELSE currentAgent
    /\ explicit' = FALSE /\ model' = Unknown /\ incident' = Unknown
    /\ StopClient(r.old,
            [t \in Turns |-> IF feed[t].listed THEN [ClosedFeed(feed[t]) EXCEPT !.listed = FALSE] ELSE feed[t]],
            [pi EXCEPT ![r.new].st = "up"])
    /\ UNCHANGED <<boundVars, historyVars>>

(* handleStream: a stream that is not known any more is refused.           *)
Attach(t) ==
    /\ Quiet /\ feed[t].listed /\ feed[t].reader = "none"
    /\ feed' = [feed EXCEPT ![t].reader = IF feed[t].ended THEN "ended" ELSE "reading"]
    /\ UNCHANGED <<client, currentAgent, pi, chat, selectionVars, replacing, boundVars, historyVars>>

-----------------------------------------------------------------------------
ProcessStep(p) ==
    \/ TakesPrompt(p) \/ TakesSteer(p) \/ TakesModel(p) \/ TakesSelection(p) \/ TakesAbort(p) \/ Settles(p)

TurnStep(t) == PolicyRead(t) \/ Continue(t)

GatewayChatNext ==
    \/ \E t \in Turns : \E kind \in Kinds[t] \cap {"prompt", "steer"} : PostChat(t, kind)
    \/ \E t \in Turns : \E kind \in Kinds[t] \cap {"whole", "streamed"} : PostCompletion(t, kind)
    \/ \E t \in Turns : TurnStep(t) \/ WholeTimesOut(t) \/ ResponseTimesOut(t) \/ Attach(t)
    \/ \E p \in Procs : ProcessStep(p) \/ Works(p) \/ Exits(p)
    \/ PostAbort
    \/ \E auto \in BOOLEAN : PostModel(auto)
    \/ NewConversation
    \/ \E a \in Team : SwitchTo(a)
    \/ \E r \in replacing : Replace(r) \/ ReplaceFails(r)

GatewayChatSpec == GatewayChatInit /\ [][GatewayChatNext]_gatewayChatVars

(* An agent answers its requests and its runs end; the gateway goes on.    *)
ChatStep == (\E p \in Procs : ProcessStep(p)) \/ (\E t \in Turns : TurnStep(t))
-----------------------------------------------------------------------------
(* However a message is posted, aborted, answered late or continued on     *)
(* another model: the agent does work for it once at most, unless another  *)
(* message shared the process with it ("never replays",                    *)
(* gateway-http.ts:806; the zero-side-effect gate of                       *)
(* model-fallback-outcome.ts).                                             *)
OncePerMessage == \A t \in Turns \ crossed : works[t] <= 1

(* "A steward abort cancels any remaining fallback attempts"               *)
(* (gateway-http.ts:1299): once the incident is marked, whether its run or *)
(* the change of its model is under way, its message is not sent again.    *)
AbortFinal ==
    [][\A t \in Turns : chat[t].aborted => chat'[t].asks = chat[t].asks]_gatewayChatVars

(* Whoever reads a chat stream is told its end, whether its run ends, its  *)
(* process exits, its request is refused, or the client it waits for is    *)
(* replaced, by several requests even.  A stream is read once: readers do  *)
(* not come back when all have left.                                       *)
ReadersEnd == []<>(\A t \in Turns : feed[t].reader # "reading")

(* "A continuation happens ONLY after the prompt was accepted AND the      *)
(* logical run reached agent_settled" (gateway-http.ts:796): a message is  *)
(* sent again only if a run of it is over.                                 *)
ContinuesAfterItsRun == \A t \in Turns : chat[t].asks > 1 => t \in ran
=============================================================================
