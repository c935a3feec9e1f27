---------------------------- MODULE AgentSession ----------------------------
(***************************************************************************)
(* One interactive session of an agent and what Piren's extension does in  *)
(* it: the context it adds to a prompt, the model fallback that sends a    *)
(* failed request again, and the review it starts every few turns.         *)
(*                                                                         *)
(* Pi owns the session, the model and the runs; it is modelled from how    *)
(* the extension uses it.  Pi delivers the events of a session one after   *)
(* another: a run does not settle while the extension still handles the    *)
(* end of the last.  The steward acts at any time.                         *)
(*                                                                         *)
(* Sources: the event handlers of pi-extension.ts,                         *)
(* interactive-model-fallback.ts, context-injection.ts and the review loop *)
(* of self-improvement.ts.                                                 *)
(***************************************************************************)
EXTENDS RunOutcome, FiniteSets

CONSTANTS
    Requests,       \* what the steward asks, in order of their numbers
    Primary,        \* the model the session begins with
    Known,          \* models Pi knows
    NoRun,          \* the session is idle
    NoIncident,     \* the extension follows no run
    NoPending,      \* no continuation is on its way
    NoHandling,     \* no settled run is being handled
    NoModel,        \* no model is being selected by the extension
    InjectionEnv,   \* PIREN_CONTEXT_INJECTION
    InjectionConfig,\* context_injection.mode of the agent's configuration
    ReviewEnv,      \* PIREN_REVIEW_LOOP
    ReviewConfig,   \* self_improvement.review_loop.enabled
    ReviewInterval, \* turns between two reviews
    RecentMessages, \* messages a review looks at
    MaxSessions,    \* bound on the sessions
    MaxReviews      \* bound on reviews under way at once

InjectionModes == {"per_turn", "session_start_only"}

ASSUME SessionAssumption ==
    /\ Requests \subseteq Nat \ {0}
    /\ {InjectionEnv, InjectionConfig} \subseteq InjectionModes \cup {"unset", "unknown"}
    /\ {ReviewEnv, ReviewConfig} \subseteq {"unset", "on", "off"}
    /\ ReviewInterval \in Nat \ {0} /\ RecentMessages \in Nat \ {0}
    /\ MaxSessions \in Nat /\ MaxReviews \in Nat
    /\ NoRun \notin [asks : Requests \cup {0}, events : 0..MaxEvents]
    /\ LET Models == {Candidates[i] : i \in DOMAIN Candidates}
       IN  /\ NoPending \notin [request : Requests, tried : SUBSET Models]
           /\ NoHandling \notin [step : {"selecting", "switched", "sending"}, request : Requests,
                                 tried : SUBSET Models, to : Models]

VARIABLES
    run,        \* Pi: the run under way, what it was asked and how many events it had
    model,      \* Pi: the model of the session
    incident,   \* the run the extension follows: original request, models tried, evidence
    pending,    \* pendingInteractiveContinuation
    explicit,   \* interactiveExplicitModelSelected
    automatic,  \* automaticInteractiveModelId
    handling,   \* the handler of agent_settled, while it waits
    injected,   \* contextInjectedThisSession
    review      \* turns since the last review, and the reviews under way

\* History: read by the properties only, never by a guard but to bound.
VARIABLES
    asked,      \* requests the steward has made
    affected,   \* requests with a run that showed an effect
    resent,     \* requests sent again by the extension: on which model, and whether untouched
    sessions    \* sessions begun

sessionHistory == <<asked, affected, resent, sessions>>
sessionVars == <<run, model, incident, pending, explicit, automatic, handling, injected, review,
                 sessionHistory>>

SessionInit ==
    /\ run = NoRun
    /\ model = Primary
    /\ incident = NoIncident
    /\ pending = NoPending
    /\ explicit = FALSE
    /\ automatic = NoModel
    /\ handling = NoHandling
    /\ injected = FALSE
    /\ review = [turns |-> 0, busy |-> FALSE, looking |-> 0, children |-> 0]
    /\ asked = {}
    /\ affected = {}
    /\ resent = <<>>
    /\ sessions = 0

-----------------------------------------------------------------------------
(* The session and its context.                                            *)

\* model_select: the selection the extension waits for is its own, any other is the
\* steward's, but for the model of a session that is restored.
ModelSelect(source, m) ==
    CASE source = "restore" -> UNCHANGED <<explicit, automatic>>
      [] source # "restore" /\ m = automatic -> automatic' = NoModel /\ UNCHANGED explicit
      [] source # "restore" /\ m # automatic -> explicit' = TRUE /\ UNCHANGED automatic

\* A session that is resumed has its own model again.
SessionStart ==
    /\ sessions < MaxSessions
    /\ run = NoRun
    /\ injected' = FALSE
    /\ sessions' = sessions + 1
    /\ \E m \in Known \cup {model} : model' = m /\ ModelSelect("restore", m)
    /\ UNCHANGED <<run, incident, pending, handling, review, asked, affected, resent>>

\* resolveContextInjectionMode: what is not a mode is passed over with a warning.
InjectionMode ==
    IF InjectionEnv \in InjectionModes THEN InjectionEnv
    ELSE IF InjectionConfig \in InjectionModes THEN InjectionConfig
    ELSE "session_start_only"

ShouldInject == InjectionMode = "per_turn" \/ ~injected

InjectsContext == injected' = (injected \/ ShouldInject)

-----------------------------------------------------------------------------
(* The runs.                                                               *)

\* before_agent_start: the run that begins takes the continuation that is pending,
\* whoever it belongs to.
Follows(request) ==
    /\ incident' = [request |-> IF pending = NoPending THEN request ELSE pending.request,
                    tried   |-> IF pending = NoPending THEN {} ELSE pending.tried,
                    model   |-> model,
                    seen    |-> Unseen]
    /\ pending' = NoPending

Begins(request) ==
    /\ run = NoRun
    /\ run' = [asks |-> request, events |-> 0]
    /\ InjectsContext
    /\ Follows(request)

StewardAsks ==
    /\ \E r \in Requests :
          /\ r \notin asked
          /\ \A q \in Requests : q < r => q \in asked
          /\ Begins(r)
          /\ asked' = asked \cup {r}
    /\ UNCHANGED <<model, explicit, automatic, handling, review, affected, resent, sessions>>

\* Another extension starts a run that has no prompt.
StrangerBegins ==
    /\ run = NoRun
    /\ run' = [asks |-> 0, events |-> 0]
    /\ InjectsContext
    /\ incident' = NoIncident
    /\ pending' = NoPending
    /\ UNCHANGED <<model, explicit, automatic, handling, review, asked, affected, resent, sessions>>

\* recordInteractiveFallbackEvent, for whatever incident is followed.
RunGoesOn ==
    /\ run # NoRun /\ run.events < MaxEvents
    /\ \E event \in RunEvents :
          /\ run' = [run EXCEPT !.events = @ + 1]
          /\ incident' = IF incident = NoIncident THEN incident
                         ELSE [incident EXCEPT !.seen = Sees(@, event)]
          /\ affected' = affected \cup {r \in {run.asks} : event.type \in Effects}
    /\ UNCHANGED <<model, pending, explicit, automatic, handling, injected, review,
                   asked, resent, sessions>>

-----------------------------------------------------------------------------
(* The fallback.                                                           *)

\* settleInteractiveFallbackIncident: nothing is concluded when another run has begun,
\* or from events that could not be read.
Settles(idle) ==
    IF idle THEN Classify(Sees(incident.seen, [type |-> "settled"])) ELSE "ambiguous"

NextAttempt(idle) == Plan(Settles(idle), explicit, model, incident.tried)

\* A model that is not known, or whose name is not of two parts, is left to the steward.
GoesOn(idle) == incident # NoIncident /\ NextAttempt(idle).kind = "attempt" /\ NextAttempt(idle).model \in Known

\* agent_settled, up to the selection of the next model.
RunSettles ==
    /\ run # NoRun
    /\ handling = NoHandling
    /\ run' = NoRun
    /\ incident' = NoIncident
    /\ \E idle \in BOOLEAN :
          IF GoesOn(idle)
          THEN /\ handling' = [step |-> "selecting", request |-> incident.request,
                               tried |-> incident.tried, to |-> NextAttempt(idle).model]
               /\ automatic' = NextAttempt(idle).model
          ELSE UNCHANGED <<handling, automatic>>
    /\ UNCHANGED <<model, pending, explicit, injected, review, sessionHistory>>

StewardSelects ==
    /\ \E m \in Known :
          /\ m # model
          /\ model' = m
          /\ ModelSelect("set", m)
    /\ UNCHANGED <<run, incident, pending, handling, injected, review, sessionHistory>>

\* Pi sets the model and says so.
SwitchSucceeds ==
    /\ handling # NoHandling /\ handling.step = "selecting"
    /\ model' = handling.to
    /\ ModelSelect("set", handling.to)
    /\ handling' = [handling EXCEPT !.step = "switched"]
    /\ UNCHANGED <<run, incident, pending, injected, review, sessionHistory>>

SwitchFails ==
    /\ handling # NoHandling /\ handling.step = "selecting"
    /\ automatic' = NoModel
    /\ handling' = NoHandling
    /\ UNCHANGED <<run, model, incident, pending, explicit, injected, review, sessionHistory>>

\* The session must still be idle.
NoLongerIdle ==
    /\ handling # NoHandling /\ handling.step = "switched"
    /\ run # NoRun
    /\ handling' = NoHandling
    /\ UNCHANGED <<run, model, incident, pending, explicit, automatic, injected, review, sessionHistory>>

PreparesContinuation ==
    /\ handling # NoHandling /\ handling.step = "switched"
    /\ run = NoRun
    /\ pending' = [request |-> handling.request, tried |-> handling.tried \cup {handling.to}]
    /\ handling' = [handling EXCEPT !.step = "sending"]
    /\ UNCHANGED <<run, model, incident, explicit, automatic, injected, review, sessionHistory>>

\* sendUserMessage, as it reaches an idle session.
ContinuationBegins ==
    /\ handling # NoHandling /\ handling.step = "sending"
    /\ Begins(handling.request)
    /\ handling' = NoHandling
    /\ resent' = Append(resent, [request |-> handling.request, on |-> handling.to,
                                 untouched |-> handling.request \notin affected])
    /\ UNCHANGED <<model, explicit, automatic, review, asked, affected, sessions>>

\* Pi refuses it, because another run has begun or for any other reason.
ContinuationFails ==
    /\ handling # NoHandling /\ handling.step = "sending"
    /\ pending' = NoPending
    /\ handling' = NoHandling
    /\ UNCHANGED <<run, model, incident, explicit, automatic, injected, review, sessionHistory>>

-----------------------------------------------------------------------------
(* The review loop.                                                        *)

\* resolveReviewLoopConfig: the environment decides before the configuration.
ReviewsEnabled == IF ReviewEnv # "unset" THEN ReviewEnv = "on" ELSE ReviewConfig = "on"

\* What a session holds, as far as a review tells it apart.
Entries == {"user", "assistant", "tool", "blank"}

\* collectReviewConversation: the last messages that have text.
ReviewedMessages(branch) ==
    LET Speaks(entry) == entry \in {"user", "assistant"}
        spoken == SelectSeq(branch, Speaks)
        From   == Len(spoken) - RecentMessages + 1
    IN  SubSeq(spoken, IF From < 1 THEN 1 ELSE From, Len(spoken))

\* turn_end.  The counter starts anew even when there is nothing to review; files
\* of the vault are listed before the review is marked as begun.
TurnEnds ==
    /\ ReviewsEnabled
    /\ run # NoRun
    /\ review.looking + review.children < MaxReviews
    /\ LET turns == review.turns + 1 IN
       \/ /\ (review.busy \/ turns < ReviewInterval)
          /\ turns <= 2 * ReviewInterval
          /\ review' = [review EXCEPT !.turns = turns]
       \/ /\ ~review.busy /\ turns >= ReviewInterval
          /\ \E branch \in {<<>>} \cup (Entries \X Entries) :
                review' = [review EXCEPT !.turns = 0,
                              !.looking = @ + (IF Len(ReviewedMessages(branch)) < 2 THEN 0 ELSE 1)]
    /\ UNCHANGED <<run, model, incident, pending, explicit, automatic, handling, injected, sessionHistory>>

ReviewBegins ==
    /\ review.looking > 0
    /\ review' = [review EXCEPT !.looking = @ - 1, !.children = @ + 1, !.busy = TRUE]
    /\ UNCHANGED <<run, model, incident, pending, explicit, automatic, handling, injected, sessionHistory>>

\* It ends, fails or runs out of time; another one that runs is then not seen.
ReviewEnds ==
    /\ review.children > 0
    /\ review' = [review EXCEPT !.children = @ - 1, !.busy = FALSE]
    /\ UNCHANGED <<run, model, incident, pending, explicit, automatic, handling, injected, sessionHistory>>

-----------------------------------------------------------------------------

SessionNext ==
    \/ SessionStart \/ StewardAsks \/ StrangerBegins \/ RunGoesOn \/ RunSettles
    \/ StewardSelects \/ SwitchSucceeds \/ SwitchFails
    \/ NoLongerIdle \/ PreparesContinuation \/ ContinuationBegins \/ ContinuationFails
    \/ TurnEnds \/ ReviewBegins \/ ReviewEnds

SessionSpec == SessionInit /\ [][SessionNext]_sessionVars

\* A request is sent again without the steward only while no run of it has
\* shown text, a tool or a dialog, and on each model once, whatever the
\* steward asks or selects while the extension waits for Pi (agent_settled,
\* planFallbackAttempt).
SessionRepeatsOnlyUntouched ==
    \A i \in DOMAIN resent :
        /\ resent[i].untouched
        /\ \A j \in DOMAIN resent :
              resent[i].request = resent[j].request /\ resent[i].on = resent[j].on => i = j
=============================================================================
