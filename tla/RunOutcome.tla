----------------------------- MODULE RunOutcome -----------------------------
(***************************************************************************)
(* What became of one run of an agent, as its events tell it, and what the *)
(* model fallback does about it.                                           *)
(*                                                                         *)
(* The events of a run are kept as far as the classification looks at      *)
(* them: which kinds were seen, the assistant records of the last          *)
(* agent_end, and the last record of a message.                            *)
(*                                                                         *)
(* Sources: model-fallback-outcome.ts, model-fallback-rotation.ts.         *)
(***************************************************************************)
EXTENDS Naturals, Sequences, SequencesExt

CONSTANTS
    Candidates,     \* the fallback models the agent's policy names, in order
    AutoSwitch,     \* whether the policy lets a run go on by itself
    NoRecord,       \* no record of a message was seen
    MaxEvents       \* bound on the events of one run, but for its end

ASSUME RunOutcomeAssumption ==
    /\ Candidates \in Seq({Candidates[i] : i \in DOMAIN Candidates})
    /\ AutoSwitch \in BOOLEAN
    /\ MaxEvents \in Nat
    /\ NoRecord \notin {"stop", "aborted", "error", "error_unsaid", "odd"}

\* How an assistant record ends: normally, stopped by the steward, with a provider
\* error that carries its message or does not, or in no known way.
Records == {"stop", "aborted", "error", "error_unsaid", "odd"}

\* What shows that a run may have had an effect.
Effects == {"text", "tool", "dialog"}

Flags == Effects \cup {"retries_failed", "bad_turn", "settled"}

\* What Pi may tell of a run before it settles.
RunEvents ==
    [type : Effects \cup {"retries_failed", "bad_turn", "notify"}]
    \cup [type : {"message"}, record : {"error", "stop"}]
    \cup [type : {"agent_end"}, records : {<<>>, <<"error">>, <<"stop">>, <<"error_unsaid">>,
                                           <<"stop", "error">>, <<"aborted">>}]

Unseen == [flags |-> {}, final |-> <<>>, last |-> NoRecord]

\* A notification of the extension, a title, a status line are no dialog.
Sees(seen, event) ==
    CASE event.type \in Flags      -> [seen EXCEPT !.flags = @ \cup {event.type}]
      [] event.type = "message"    -> [seen EXCEPT !.last = event.record]
      [] event.type = "agent_end"  -> [seen EXCEPT !.final = event.records]
      [] event.type = "notify"     -> seen

-----------------------------------------------------------------------------

\* The records of the last agent_end count; without any, the last message does.
Authoritative(seen) ==
    IF seen.final # <<>> THEN seen.final
    ELSE IF seen.last = NoRecord THEN <<>> ELSE <<seen.last>>

\* A turn that ended without an assistant record spoils the evidence of messages.
Tainted(seen) == seen.final = <<>> /\ "bad_turn" \in seen.flags

FailedOnly(records) == \A i \in DOMAIN records : records[i] = "error"

Fails(records) == \E i \in DOMAIN records : records[i] \in {"error", "error_unsaid"}

\* Variant: a request for a dialog does not count as an effect.
UntouchedByDialog(seen) == seen.flags \cap {"text", "tool"} = {}

Untouched(seen) == seen.flags \cap Effects = {}

\* classifyRunOutcome.
Classify(seen) ==
    LET records == Authoritative(seen) IN
    CASE "settled" \notin seen.flags \/ Tainted(seen) -> "ambiguous"
      [] OTHER ->
         CASE records = <<>>                -> "completed"
           [] Fails(records)                ->
                IF ~FailedOnly(records) \/ ~Untouched(seen) THEN "ambiguous"
                ELSE IF "retries_failed" \in seen.flags
                THEN "provider_error_transient_exhausted" ELSE "provider_error_other"
           [] OTHER                         ->
                CASE Last(records) = "aborted" -> "aborted"
                  [] Last(records) = "stop"    -> "completed"
                  [] OTHER                     -> "ambiguous"

Eligible == {"provider_error_transient_exhausted", "provider_error_other"}

\* The places of the candidates left for an incident.
Left(current, tried) ==
    {i \in DOMAIN Candidates : Candidates[i] # current /\ Candidates[i] \notin tried}

\* planFallbackAttempt.
Plan(outcome, explicit, current, tried) ==
    IF explicit \/ ~AutoSwitch \/ outcome \notin Eligible THEN [kind |-> "no_attempt"]
    ELSE IF Left(current, tried) = {} THEN [kind |-> "exhausted"]
    ELSE [kind |-> "attempt", model |-> Candidates[Min(Left(current, tried))]]
=============================================================================
