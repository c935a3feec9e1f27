------------------------------ MODULE TaskLease ------------------------------
(***************************************************************************)
(* What the inbox promises about who works on a task.  A task is free, or  *)
(* owned by one worker, or kept: nobody works on it and nobody may take it *)
(* until a person intervenes.  A worker owns one task at a time.  An owner *)
(* gives its task back or leaves it kept, and a kept task stays kept.  A   *)
(* task that a racing edit or a stale-claim recovery has upset is lost to  *)
(* the promise for good.                                                   *)
(***************************************************************************)
CONSTANTS Tasks, Workers, Free, Kept, Lost

VARIABLE owner

Init == owner = [t \in Tasks |-> Free]

Take(t, w) ==
    /\ owner[t] = Free
    /\ \A u \in Tasks : owner[u] # w
    /\ owner' = [owner EXCEPT ![t] = w]

GiveBack(t) == owner[t] \in Workers /\ owner' = [owner EXCEPT ![t] = Free]

Keep(t) == owner[t] \in Workers /\ owner' = [owner EXCEPT ![t] = Kept]

Upset(t) == owner' = [owner EXCEPT ![t] = Lost]

Next == \E t \in Tasks :
            \/ \E w \in Workers : Take(t, w)
            \/ GiveBack(t) \/ Keep(t) \/ Upset(t)

Spec == Init /\ [][Next]_owner
=============================================================================
