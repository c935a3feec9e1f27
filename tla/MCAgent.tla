------------------------------- MODULE MCAgent -------------------------------
(***************************************************************************)
(* What an agent's process does besides its tasks: the documents its tools *)
(* write, its interactive session, and a request a program puts to it,     *)
(* each explored on its own.                                               *)
(***************************************************************************)
EXTENDS VaultRecords, AgentSession, BoundedRun, TLC

CONSTANTS h1, h2, g1, x1, m1, m2

MCProcessOf == (h1 :> x1) @@ (h2 :> x1)
MCMirrors == <<"telegram">>

\* The model the session begins with may be named as a fallback too.
MCCandidates == <<m1, m2>>

VARIABLE part

agentVars == <<recordsVars, sessionVars, boundedVars, part>>

AgentInit ==
    /\ part \in {"records", "session", "bounded"}
    /\ RecordsInit
    /\ SessionInit
    /\ BoundedInit
    /\ part # "bounded" => bounded.policy = "none"

\* Calls, requests and events run out.
AgentNext ==
    /\ UNCHANGED part
    /\ \/ part = "records" /\ RecordsNext /\ UNCHANGED <<sessionVars, boundedVars>>
       \/ part = "session" /\ SessionNext /\ UNCHANGED <<recordsVars, boundedVars>>
       \/ part = "bounded" /\ BoundedNext /\ UNCHANGED <<recordsVars, sessionVars>>
       \/ UNCHANGED <<recordsVars, sessionVars, boundedVars>>

AgentSpec == AgentInit /\ [][AgentNext]_agentVars

\* A request that was put to an agent is put to it again without the steward
\* only while it has had no effect, in a session and by a program.
RepeatsOnlyUntouched == SessionRepeatsOnlyUntouched /\ AskRepeatsOnlyUntouched

AgentSymmetry == Permutations(Hands \ Gateways) \cup Permutations(Gateways)
=============================================================================
