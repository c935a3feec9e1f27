---------------------------- MODULE MCInboxTasks ----------------------------
(* Small instances of InboxTasks for TLC.                                  *)
EXTENDS InboxLease, TLC

CONSTANTS d1, d2, t1, t2

\* t2 waits for t1.
MCChain == (t1 :> {}) @@ (t2 :> {t1})

\* The devices left alone: no session claims a task and nobody edits one.
Unattended == Next /\ UNCHANGED <<session, spent>>

LiveSpec == Init /\ [][Unattended]_vars /\ Fairness

=============================================================================
