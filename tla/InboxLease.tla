------------------------------ MODULE InboxLease ------------------------------
(* The inbox implements TaskLease.  The owner of a task is not written       *)
(* anywhere: it is read off the file names and off who is acting.            *)
EXTENDS InboxTasks

CONSTANTS Free, Kept, Lost

ASSUME LeaseAssumption ==
    /\ Free # Kept /\ Kept # Lost /\ Free # Lost
    /\ {Free, Kept, Lost} \cap (Devices \cup Sessions) = {}

\* A task nobody holds is free while it has its ordinary file.
Owner(t) ==
    IF ~Undisturbed(t) THEN Lost
    ELSE IF Holders(t) # {} THEN CHOOSE p \in Holders(t) : TRUE
    ELSE IF t \in born /\ ~Exists(t, Ordinary) THEN Kept
    ELSE Free

Lease == INSTANCE TaskLease WITH Workers <- Devices \cup Sessions,
                                 owner <- [t \in Tasks |-> Owner(t)]

\* Every behaviour of the inbox is one of the lease: claims are exclusive, a
\* scheduler or session works on one task at a time, only an owner's link gives
\* a task back, and a task left claimed is never taken again by itself.
LeaseSpec == Lease!Spec
=============================================================================
