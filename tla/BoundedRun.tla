----------------------------- MODULE BoundedRun -----------------------------
(***************************************************************************)
(* One request put to an agent by a program: piren ask, and the scheduler  *)
(* for a task or a job.  A process is started for it, asked, watched until *)
(* it settles, and stopped; with a fallback policy a run that failed       *)
(* without any effect is repeated on the next model.                       *)
(*                                                                         *)
(* The process is modelled from how the client uses it: it may exit at any *)
(* time, and a request the client gives up may still have reached it.      *)
(*                                                                         *)
(* Sources: ask.ts and what it uses of gateway-rpc.ts.                     *)
(***************************************************************************)
EXTENDS RunOutcome

CONSTANTS
    PrimaryModel,   \* the model the agent is configured with
    NoResult        \* the program has not been answered

VARIABLES
    bounded,    \* where askAgentClassified is, its model, the models tried, the evidence
    process,    \* the agent process: not started, alive, gone
    answer      \* what the program is told

\* History: read by the properties only, never by a guard.
VARIABLES
    handed,     \* prompts written to the process: on which model, and whether untouched
    effect      \* a run of the request has shown an effect

boundedHistory == <<handed, effect>>
boundedVars == <<bounded, process, answer, boundedHistory>>

\* The primary model must be known for a policy to be used.
BoundedInit ==
    /\ \E policy \in {"none", "usable"} :
          bounded = [step |-> "starting", policy |-> policy, on |-> PrimaryModel, tried |-> {},
                     seen |-> Unseen, events |-> 0]
    /\ process = "none"
    /\ answer = NoResult
    /\ handed = <<>>
    /\ effect = FALSE

At(step) == bounded.step = step

\* What is returned once the client has stopped, in any case.
Concludes(result) ==
    /\ answer' = result
    /\ bounded' = [bounded EXCEPT !.step = "stopping"]

Failure(kind, milestone) == [kind |-> kind, milestone |-> milestone]

StartRejected ==
    /\ At("starting")
    /\ answer' = Failure("launch_failure", "start_rejection")
    /\ bounded' = [bounded EXCEPT !.step = "done"]
    /\ UNCHANGED <<process, boundedHistory>>

\* runOncePrompt: listens, then writes the prompt.
Puts(on) ==
    handed' = Append(handed, [on |-> on, untouched |-> ~effect])

Started ==
    /\ At("starting")
    /\ process' = "alive"
    /\ bounded' = [bounded EXCEPT !.step = "running"]
    /\ Puts(bounded.on)
    /\ UNCHANGED <<answer, effect>>

\* Refused, not acknowledged in time, or not written because the process is gone.
PromptRejected ==
    /\ At("running")
    /\ Concludes(Failure("ambiguous", "prompt_handoff"))
    /\ UNCHANGED <<process, boundedHistory>>

AgentEvents ==
    /\ At("running") /\ process = "alive"
    /\ bounded.events < MaxEvents
    /\ \E event \in RunEvents :
          /\ bounded' = [bounded EXCEPT !.seen = Sees(@, event), !.events = @ + 1]
          /\ effect' = (effect \/ event.type \in Effects)
    /\ UNCHANGED <<process, answer, handed>>

\* The listener sees the process go, unless the run has settled.
ProcessExits ==
    /\ process = "alive"
    /\ process' = "gone"
    /\ IF At("running")
       THEN Concludes(Failure("ambiguous", IF bounded.events = 0 THEN "post_ack" ELSE "mid_stream"))
       ELSE UNCHANGED <<bounded, answer>>
    /\ UNCHANGED boundedHistory

\* Only agent_settled ends a run.  Without a policy any settled run is a success.
AgentSettles ==
    /\ At("running") /\ process = "alive"
    /\ IF bounded.policy = "none" THEN Concludes([kind |-> "ok"])
       ELSE /\ bounded' = [bounded EXCEPT !.step = "deciding", !.seen = Sees(@, [type |-> "settled"])]
            /\ UNCHANGED answer
    /\ UNCHANGED <<process, boundedHistory>>

Decision == Plan(Classify(bounded.seen), FALSE, bounded.on, bounded.tried)

Decides ==
    /\ At("deciding")
    /\ CASE Decision.kind = "no_attempt" -> Concludes([kind |-> "ok"])
         [] Decision.kind = "exhausted"  -> Concludes(Failure("exhausted", Classify(bounded.seen)))
         [] Decision.kind = "attempt"    ->
               bounded' = [bounded EXCEPT !.step = "selecting"] /\ UNCHANGED answer
    /\ UNCHANGED <<process, boundedHistory>>

\* The request is put again, on the model that was set.
ModelSet ==
    /\ At("selecting") /\ process = "alive"
    /\ bounded' = [bounded EXCEPT !.step = "running", !.on = Decision.model,
                                  !.tried = @ \cup {Decision.model}, !.seen = Unseen, !.events = 0]
    /\ Puts(Decision.model)
    /\ UNCHANGED <<process, answer, effect>>

\* The model is skipped; the settled run still waits for a decision.
ModelRefused ==
    /\ At("selecting")
    /\ bounded' = [bounded EXCEPT !.step = "deciding", !.tried = @ \cup {Decision.model}]
    /\ UNCHANGED <<process, answer, boundedHistory>>

ClientStops ==
    /\ At("stopping")
    /\ process' = "gone"
    /\ bounded' = [bounded EXCEPT !.step = "done"]
    /\ UNCHANGED <<answer, boundedHistory>>

BoundedNext ==
    \/ StartRejected \/ Started \/ PromptRejected \/ AgentEvents \/ ProcessExits
    \/ AgentSettles \/ Decides \/ ModelSet \/ ModelRefused \/ ClientStops

BoundedSpec == BoundedInit /\ [][BoundedNext]_boundedVars

\* A request is put to the agent again only while no run of it has shown an
\* effect, and on each fallback model once.  What is reported as a launch failure was
\* never put to the agent, and what is reported as exhausted had no effect
\* and was refused by every model there is (askAgentClassified).
AskRepeatsOnlyUntouched ==
    /\ \A i \in DOMAIN handed :
          /\ handed[i].untouched
          /\ \A j \in DOMAIN handed : i > 1 /\ j > i => handed[i].on # handed[j].on
    /\ answer # NoResult =>
          /\ answer.kind = "launch_failure" => handed = <<>>
          /\ answer.kind = "exhausted" =>
                /\ ~effect
                /\ \A i \in DOMAIN Candidates : Candidates[i] \in bounded.tried \cup {PrimaryModel}
=============================================================================
