----------------------------- MODULE Tasks_proofs -----------------------------
(***************************************************************************)
(* Proofs about the inbox files: the tasks and whoever takes them          *)
(* (InboxTasks), that this is a lease (InboxLease), and the task commands  *)
(* (TaskCommands), for any sets of tasks, devices, sessions, editors and   *)
(* clients, any dependencies and any retry policy.                         *)
(***************************************************************************)
EXTENDS InboxLease, TaskCommands, TLAPS

Inboxes == [Tasks -> [Names -> Content \cup {NoFile}]]

\* What the file operations do to each name.  The proofs below use these two
\* facts and never look at EXCEPT again.
LEMMA WriteFileAt ==
    ASSUME inbox \in Inboxes, NEW t \in Tasks, NEW n \in Names,
           NEW c \in Content \cup {NoFile}, WriteFile(t, n, c)
    PROVE  /\ inbox' \in Inboxes
           /\ \A u \in Tasks, m \in Names :
                 inbox'[u][m] = IF u = t /\ m = n THEN c ELSE inbox[u][m]
BY DEF WriteFile, Inboxes

LEMMA RenameAt ==
    ASSUME inbox \in Inboxes, NEW t \in Tasks, NEW from \in Names, NEW to \in Names,
           from # to, Rename(t, from, to)
    PROVE  /\ inbox' \in Inboxes
           /\ \A u \in Tasks, m \in Names :
                 inbox'[u][m] = IF u # t THEN inbox[u][m]
                                ELSE IF m = to THEN inbox[t][from]
                                ELSE IF m = from THEN NoFile
                                ELSE inbox[u][m]
BY DEF Rename, Inboxes

-----------------------------------------------------------------------------
(* Types.  TypeOK is not inductive: a scheduler that is past its probe has a *)
(* task, one that is about to write has a content, and a session that is     *)
(* claiming or holding has a task.                                           *)

BusyPhases == HoldingPhases \cup {"claiming", "unlinking"}

Coherent ==
    /\ \A d \in Devices : phase[d] \in BusyPhases => job[d] \in Tasks
    /\ \A d \in Devices :
          phase[d] \in {"exhausting", "requeueing", "restoring"} => copy[d] \in Content
    /\ \A s \in Sessions : session[s].step # "idle" => session[s].task \in Tasks

Shape == TypeOK /\ Coherent

LEMMA ShapeInit == Init => Shape
BY InboxAssumption DEF Init, Shape, TypeOK, Coherent, BusyPhases, HoldingPhases, Phases, Names

\* The end of a tick leaves the scheduler variables well formed.
LEMMA EndTickShape ==
    ASSUME Shape, NEW d \in Devices, EndTick(d)
    PROVE  /\ phase' \in [Devices -> Phases]
           /\ unread' \in [Devices -> SUBSET (Tasks \X Names)]
           /\ nodes' \in [Devices -> SUBSET [task : Tasks, name : Names, content : Content]]
           /\ planned' \in [Devices -> SUBSET Tasks]
           /\ job' \in [Devices -> Tasks \cup {NoTask}]
           /\ copy' \in [Devices -> Content \cup {NoFile}]
           /\ \A e \in Devices : /\ phase'[e] = IF e = d THEN "idle" ELSE phase[e]
                                 /\ job'[e] = IF e = d THEN NoTask ELSE job[e]
                                 /\ copy'[e] = IF e = d THEN NoFile ELSE copy[e]
                                 /\ planned'[e] = IF e = d THEN {} ELSE planned[e]
                                 /\ nodes'[e] = IF e = d THEN {} ELSE nodes[e]
BY DEF Shape, TypeOK, EndTick, Enter, Phases

LEMMA EndTickCoherent ==
    ASSUME Shape, NEW d \in Devices, EndTick(d), UNCHANGED session
    PROVE  Coherent'
<1>1. \A e \in Devices : phase'[e] = IF e = d THEN "idle" ELSE phase[e]
  BY EndTickShape
<1>2. \A e \in Devices : e # d => job'[e] = job[e] /\ copy'[e] = copy[e]
  BY EndTickShape
<1> QED
  BY <1>1, <1>2 DEF Shape, Coherent, BusyPhases, HoldingPhases

SessionRecords == [step : {"idle", "claiming", "holding"}, task : Tasks \cup {NoTask}, name : Names]

\* Moving a session to another step changes nothing else.
LEMMA SetStep ==
    ASSUME Shape, NEW s \in Sessions, NEW p \in {"idle", "claiming", "holding"},
           session' = [session EXCEPT ![s].step = p]
    PROVE  /\ session' \in [Sessions -> SessionRecords]
           /\ \A r \in Sessions : r # s => session'[r] = session[r]
           /\ session'[s].step = p
           /\ session'[s].task = session[s].task
           /\ session'[s].name = session[s].name
<1>1. session \in [Sessions -> SessionRecords]
  BY DEF Shape, TypeOK, SessionRecords
<1>2. session[s] \in SessionRecords
  BY <1>1
<1>3. /\ [session[s] EXCEPT !.step = p] \in SessionRecords
      /\ [session[s] EXCEPT !.step = p].step = p
      /\ [session[s] EXCEPT !.step = p].task = session[s].task
      /\ [session[s] EXCEPT !.step = p].name = session[s].name
  BY <1>2 DEF SessionRecords
<1>4. session' = [session EXCEPT ![s] = [session[s] EXCEPT !.step = p]]
  OBVIOUS
<1> HIDE DEF SessionRecords
<1> QED
  BY <1>1, <1>3, <1>4

LEMMA ShapeStep == Shape /\ [Next]_vars => Shape'
<1> SUFFICES ASSUME Shape, [Next]_vars PROVE Shape'
  OBVIOUS
<1> USE InboxAssumption DEF Shape
<1>names. Ordinary \in Names /\ Devices \subseteq Names /\ Sessions \subseteq Names
  BY DEF Names
<1>files. inbox \in Inboxes
  BY DEF TypeOK, Inboxes
<1>1. ASSUME NEW t \in Tasks, Create(t) PROVE Shape'
  <2>1. [status |-> "pending", attempts |-> 0] \in Content
    BY DEF Content, Statuses
  <2>2. inbox' \in Inboxes
    BY <1>1, <2>1, <1>names, <1>files, WriteFileAt DEF Create
  <2> QED
    BY <1>1, <2>2 DEF Create, TypeOK, Coherent, Inboxes, schedVars, tickVars, jobVars, sessionVars, editVars
<1>2. ASSUME NEW d \in Devices \cup Sessions, GrowStale(d) PROVE Shape'
  BY <1>2 DEF GrowStale, TypeOK, Coherent, schedVars, tickVars, jobVars, sessionVars, editVars, history
<1>3. ASSUME NEW f \in cooling, EndBackoff(f[1], f[2]) PROVE Shape'
  BY <1>3 DEF EndBackoff, TypeOK, Coherent, schedVars, tickVars, jobVars, sessionVars, editVars, history
<1>4. ASSUME NEW d \in Devices, BeginTick(d) PROVE Shape'
  BY <1>4 DEF BeginTick, TypeOK, Coherent, BusyPhases, HoldingPhases, Phases, Enter, schedVars, tickVars, jobVars, sessionVars, editVars, history
<1>5. ASSUME NEW d \in Devices, List(d) PROVE Shape'
  BY <1>5 DEF List, TypeOK, Coherent, BusyPhases, HoldingPhases, Phases, Enter, Exists, schedVars, tickVars, jobVars, sessionVars, editVars, history
<1>6. ASSUME NEW d \in Devices, NEW t \in Tasks, NEW n \in Names, Read(d, t, n) PROVE Shape'
  <2>1. [task |-> t, name |-> n, content |-> inbox[t][n]]
           \in [task : Tasks, name : Names, content : Content]
    BY <1>6 DEF Read, Exists, TypeOK
  <2> QED
    BY <1>6, <2>1 DEF Read, TypeOK, Coherent, schedVars, tickVars, jobVars, sessionVars, editVars, history
<1>7. ASSUME NEW d \in Devices, NEW t \in Tasks, NEW n \in Names, ReadVanished(d, t, n) PROVE Shape'
  BY <1>7, EndTickShape DEF ReadVanished, TypeOK, Coherent, BusyPhases, HoldingPhases, schedVars, tickVars, jobVars, sessionVars, editVars, history
<1>8. ASSUME NEW d \in Devices, Plan(d) PROVE Shape'
  <2>1. Claimable(nodes[d]) \subseteq Tasks
    BY DEF Claimable
  <2> QED
    BY <1>8, <2>1 DEF Plan, TypeOK, Coherent, BusyPhases, HoldingPhases, Phases, Enter, schedVars, tickVars, jobVars, sessionVars, editVars, history
<1>9. ASSUME NEW d \in Devices, NEW t \in Tasks, Probe(d, t) PROVE Shape'
  <2>1. planned' \in [Devices -> SUBSET Tasks]
    BY <1>9 DEF Probe, TypeOK
  <2>2. CASE Exists(t, d)
    BY <1>9, <2>1, <2>2 DEF Probe, TypeOK, Coherent, schedVars, tickVars, jobVars, sessionVars, editVars, history
  <2>3. CASE ~Exists(t, d)
    <3>1. /\ phase' = [phase EXCEPT ![d] = "claiming"]
          /\ job' = [job EXCEPT ![d] = t]
          /\ UNCHANGED <<inbox, stale, cooling, unread, nodes, copy, sessionVars, editVars, history>>
      BY <1>9, <2>3 DEF Probe, Enter
    <3>2. TypeOK'
      BY <3>1, <2>1 DEF TypeOK, Phases, schedVars, tickVars, jobVars, sessionVars, editVars, history
    <3> QED
      BY <3>1, <3>2 DEF TypeOK, Coherent, BusyPhases, HoldingPhases, schedVars, tickVars, jobVars, sessionVars, editVars, history
  <2> QED
    BY <2>2, <2>3
<1>10. ASSUME NEW d \in Devices, Claim(d) PROVE Shape'
  <2>1. job[d] \in Tasks
    BY <1>10 DEF Claim, Coherent, BusyPhases
  <2>2. inbox' \in Inboxes
    BY <1>10, <2>1, <1>names, <1>files, RenameAt DEF Claim
  <2> QED
    BY <1>10, <2>1, <2>2 DEF Claim, TypeOK, Coherent, BusyPhases, HoldingPhases, Phases, Enter, Inboxes, schedVars, tickVars, jobVars, sessionVars, editVars, history
<1>11. ASSUME NEW d \in Devices, ClaimFails(d) PROVE Shape'
  BY <1>11 DEF ClaimFails, TypeOK, Coherent, BusyPhases, HoldingPhases, Phases, Enter, schedVars, tickVars, jobVars, sessionVars, editVars, history
<1>12. ASSUME NEW d \in Devices, NoWork(d) PROVE Shape'
  BY <1>12, EndTickShape DEF NoWork, TypeOK, Coherent, BusyPhases, HoldingPhases, schedVars, tickVars, jobVars, sessionVars, editVars, history
<1>13. ASSUME NEW d \in Devices, LaunchFails(d) PROVE Shape'
  BY <1>13 DEF LaunchFails, TypeOK, Coherent, BusyPhases, HoldingPhases, Phases, Enter, schedVars, tickVars, jobVars, sessionVars, editVars, history
<1>14. ASSUME NEW d \in Devices, HandOff(d) PROVE Shape'
  BY <1>14 DEF HandOff, TypeOK, Coherent, BusyPhases, HoldingPhases, Phases, Enter, schedVars, tickVars, jobVars, sessionVars, editVars, history
<1>15. ASSUME NEW d \in Devices, RunSettles(d) PROVE Shape'
  BY <1>15 DEF RunSettles, TypeOK, Coherent, BusyPhases, HoldingPhases, Phases, Enter, schedVars, tickVars, jobVars, sessionVars, editVars, history
<1>16. ASSUME NEW d \in Devices, RunAmbiguous(d) PROVE Shape'
  <2>1. phase[d] \in BusyPhases => job[d] \in Tasks
    BY DEF Coherent
  <2>2. edit' \in [Editors \cup Devices -> Edits \cup {NoEdit}]
    BY <1>16 DEF RunAmbiguous, TypeOK
  <2>3. held' \subseteq Tasks
    BY <1>16, <2>1 DEF RunAmbiguous, TypeOK, BusyPhases, HoldingPhases
  <2>4. TypeOK'
    BY <1>16, <2>2, <2>3, EndTickShape DEF RunAmbiguous, TypeOK, schedVars, tickVars, jobVars, sessionVars, editVars, history
  <2> QED
    BY <1>16, <2>4, EndTickShape DEF RunAmbiguous, Coherent, BusyPhases, HoldingPhases, schedVars, tickVars, jobVars, sessionVars, editVars, history
<1>17. ASSUME NEW d \in Devices, FailureHeld(d) PROVE Shape'
  BY <1>17, EndTickShape DEF FailureHeld, TypeOK, Coherent, BusyPhases, HoldingPhases, Hold, schedVars, tickVars, jobVars, sessionVars, editVars, history
<1>18. ASSUME NEW d \in Devices, CountFailure(d) PROVE Shape'
  <2>1. inbox[job[d]][d] \in Content
    BY <1>18, <1>names DEF CountFailure, MayRetry, Exists, TypeOK, Coherent, BusyPhases, HoldingPhases
  <2>2. [inbox[job[d]][d] EXCEPT !.attempts = inbox[job[d]][d].attempts + 1] \in Content
    BY <2>1 DEF Content
  <2> QED
    BY <1>18, <2>2 DEF CountFailure, TypeOK, Coherent, BusyPhases, HoldingPhases, Phases, Enter, schedVars, tickVars, jobVars, sessionVars, editVars, history
<1>19. ASSUME NEW d \in Devices, Exhaust(d) PROVE Shape'
  <2>1. job[d] \in Tasks /\ copy[d] \in Content \cup {NoFile}
    BY <1>19 DEF Exhaust, TypeOK, Coherent, BusyPhases, HoldingPhases
  <2>2. inbox' \in Inboxes
    BY <1>19, <2>1, <1>names, <1>files, WriteFileAt DEF Exhaust
  <2>3. failures' \in [Tasks -> Nat]
    BY <1>19, <2>1 DEF Exhaust, TypeOK
  <2>4. TypeOK'
    BY <1>19, <2>1, <2>2, <2>3, EndTickShape DEF Exhaust, TypeOK, Phases, Enter, Inboxes, schedVars, tickVars, jobVars, sessionVars, editVars, history
  <2> QED
    BY <1>19, <2>4, EndTickCoherent DEF Exhaust, sessionVars
<1>20. ASSUME NEW d \in Devices, Requeue(d) PROVE Shape'
  <2>1. job[d] \in Tasks /\ copy[d] \in Content
    BY <1>20 DEF Requeue, Coherent, BusyPhases, HoldingPhases
  <2>2. inbox' \in Inboxes
    BY <1>20, <2>1, <1>names, <1>files, WriteFileAt DEF Requeue
  <2>3. <<job[d], copy[d].attempts>> \in Tasks \X Nat
    BY <2>1 DEF Content
  <2>4. failures' \in [Tasks -> Nat]
    BY <1>20, <2>1 DEF Requeue, TypeOK
  <2>5. TypeOK'
    BY <1>20, <2>1, <2>2, <2>4, <2>3 DEF Requeue, TypeOK, Phases, Enter, Inboxes, schedVars, tickVars, jobVars, sessionVars, editVars, history
  <2> QED
    BY <1>20, <2>1, <2>2, <2>3, <2>5 DEF Requeue, TypeOK, Coherent, BusyPhases, HoldingPhases, Enter, schedVars, tickVars, jobVars, sessionVars, editVars, history
<1>21. ASSUME NEW d \in Devices, ReleaseHeld(d) PROVE Shape'
  BY <1>21, EndTickShape DEF ReleaseHeld, TypeOK, Coherent, BusyPhases, HoldingPhases, Hold, schedVars, tickVars, jobVars, sessionVars, editVars, history
<1>22. ASSUME NEW d \in Devices, ReadCompleted(d) PROVE Shape'
  <2>1. inbox[job[d]][d] \in Content
    BY <1>22, <1>names DEF ReadCompleted, IsCompleted, Exists, TypeOK, Coherent, BusyPhases, HoldingPhases
  <2> QED
    BY <1>22, <2>1 DEF ReadCompleted, TypeOK, Coherent, BusyPhases, HoldingPhases, Phases, Enter, schedVars, tickVars, jobVars, sessionVars, editVars, history
<1>23. ASSUME NEW d \in Devices, Restore(d) PROVE Shape'
  <2>1. job[d] \in Tasks /\ copy[d] \in Content \cup {NoFile}
    BY <1>23 DEF Restore, TypeOK, Coherent, BusyPhases, HoldingPhases
  <2>2. inbox' \in Inboxes
    BY <1>23, <2>1, <1>names, <1>files, WriteFileAt DEF Restore
  <2> QED
    BY <1>23, <2>1, <2>2 DEF Restore, TypeOK, Coherent, BusyPhases, HoldingPhases, Phases, Enter, Inboxes, schedVars, tickVars, jobVars, sessionVars, editVars, history
<1>24. ASSUME NEW d \in Devices, LinkCollides(d) PROVE Shape'
  <2>1. job[d] \in Tasks
    BY <1>24 DEF LinkCollides, Coherent, BusyPhases, HoldingPhases
  <2>2. TypeOK'
    BY <1>24, <2>1, EndTickShape DEF LinkCollides, Hold, TypeOK, schedVars, tickVars, jobVars, sessionVars, editVars, history
  <2> QED
    BY <1>24, <2>2, EndTickShape DEF LinkCollides, Hold, Coherent, BusyPhases, HoldingPhases, schedVars, tickVars, jobVars, sessionVars, editVars, history
<1>25. ASSUME NEW d \in Devices, Unlink(d) PROVE Shape'
  <2>1. job[d] \in Tasks /\ NoFile \in Content \cup {NoFile}
    BY <1>25 DEF Unlink, TypeOK, Coherent, BusyPhases, HoldingPhases
  <2>2. inbox' \in Inboxes
    BY <1>25, <2>1, <1>names, <1>files, WriteFileAt DEF Unlink
  <2>3. TypeOK'
    BY <1>25, <2>1, <2>2, EndTickShape DEF Unlink, TypeOK, Inboxes, schedVars, tickVars, jobVars, sessionVars, editVars, history
  <2> QED
    BY <1>25, <2>3, EndTickCoherent DEF Unlink, sessionVars
<1>26. ASSUME NEW d \in Devices, Crash(d) PROVE Shape'
  <2>1. phase[d] \in BusyPhases => job[d] \in Tasks
    BY DEF Coherent
  <2>2. edit' \in [Editors \cup Devices -> Edits \cup {NoEdit}]
    BY <1>26 DEF Crash, TypeOK
  <2>3. held' \subseteq Tasks
    BY <1>26, <2>1 DEF Crash, TypeOK, BusyPhases, HoldingPhases
  <2>4. TypeOK'
    BY <1>26, <2>2, <2>3, EndTickShape DEF Crash, TypeOK, schedVars, tickVars, jobVars, sessionVars, editVars, history
  <2> QED
    BY <1>26, <2>4, EndTickShape DEF Crash, Coherent, BusyPhases, HoldingPhases, schedVars, tickVars, jobVars, sessionVars, editVars, history
<1>27. ASSUME NEW s \in Sessions, NEW t \in Tasks, NEW n \in Names, SessionProbe(s, t, n) PROVE Shape'
  BY <1>27 DEF SessionProbe, TypeOK, Coherent, schedVars, tickVars, jobVars, sessionVars, editVars, history
<1>28. ASSUME NEW s \in Sessions, SessionClaim(s) PROVE Shape'
  <2> DEFINE t == session[s].task
             n == session[s].name
  <2>1. t \in Tasks /\ n \in Names
    BY <1>28 DEF SessionClaim, TypeOK, Coherent
  <2>2. inbox' \in Inboxes
    BY <1>28, <2>1, <1>names, <1>files DEF SessionClaim, Rename, Inboxes
  <2>3. session' = [session EXCEPT ![s].step = "holding"]
    BY <1>28 DEF SessionClaim
  <2>4. /\ session' \in [Sessions -> SessionRecords]
        /\ \A r \in Sessions : r # s => session'[r] = session[r]
        /\ session'[s].task = t
    BY <2>3, SetStep
  <2>5. TypeOK'
    BY <1>28, <2>1, <2>2, <2>4 DEF SessionClaim, TypeOK, Inboxes, SessionRecords, schedVars, tickVars, jobVars, sessionVars, editVars, history
  <2> QED
    BY <1>28, <2>1, <2>4, <2>5 DEF SessionClaim, Coherent, schedVars, tickVars, jobVars, sessionVars, editVars, history
<1>29. ASSUME NEW s \in Sessions, SessionClaimFails(s) PROVE Shape'
  <2>1. session' = [session EXCEPT ![s].step = "idle"]
    BY <1>29 DEF SessionClaimFails
  <2>2. /\ session' \in [Sessions -> SessionRecords]
        /\ \A r \in Sessions : r # s => session'[r] = session[r]
        /\ session'[s].step = "idle"
    BY <2>1, SetStep
  <2>3. session[s].task \in Tasks
    BY <1>29 DEF SessionClaimFails, Coherent
  <2>4. TypeOK'
    BY <1>29, <2>2, <2>3 DEF SessionClaimFails, TypeOK, SessionRecords, schedVars, tickVars, jobVars, sessionVars, editVars, history
  <2> QED
    BY <1>29, <2>2, <2>4 DEF SessionClaimFails, Coherent, schedVars, tickVars, jobVars, sessionVars, editVars, history
<1>30. ASSUME NEW s \in Sessions, SessionEnds(s) PROVE Shape'
  <2>1. session' = [session EXCEPT ![s].step = "idle"]
    BY <1>30 DEF SessionEnds
  <2>2. /\ session' \in [Sessions -> SessionRecords]
        /\ \A r \in Sessions : r # s => session'[r] = session[r]
        /\ session'[s].step = "idle"
    BY <2>1, SetStep
  <2>3. session[s].task \in Tasks
    BY <1>30 DEF SessionEnds, Coherent
  <2>4. TypeOK'
    BY <1>30, <2>2, <2>3 DEF SessionEnds, TypeOK, SessionRecords, schedVars, tickVars, jobVars, sessionVars, editVars, history
  <2> QED
    BY <1>30, <2>2, <2>4 DEF SessionEnds, Coherent, schedVars, tickVars, jobVars, sessionVars, editVars, history
<1>31. ASSUME NEW e \in Editors \cup Devices, NEW t \in Tasks, NEW n \in Names, NEW s \in Statuses, BeginEdit(e, t, n, s) PROVE Shape'
  <2>1. [task |-> t, name |-> n, read |-> inbox[t][n], status |-> s] \in Edits
    BY <1>31 DEF BeginEdit, Exists, TypeOK, Edits
  <2> QED
    BY <1>31, <2>1 DEF BeginEdit, TypeOK, Coherent, schedVars, tickVars, jobVars, sessionVars, editVars, history
<1>32. ASSUME NEW e \in Editors \cup Devices, WriteEdit(e) PROVE Shape'
  <2> DEFINE t == edit[e].task
             n == edit[e].name
             c == [edit[e].read EXCEPT !.status = edit[e].status]
  <2>1. edit[e] \in Edits
    BY <1>32 DEF WriteEdit, TypeOK
  <2>2. t \in Tasks /\ n \in Names /\ c \in Content
    BY <2>1 DEF Edits, Content
  <2>3. inbox' \in Inboxes
    BY <1>32, <2>2, <1>files, WriteFileAt DEF WriteEdit
  <2> QED
    BY <1>32, <2>2, <2>3 DEF WriteEdit, TypeOK, Coherent, Inboxes, schedVars, tickVars, jobVars, sessionVars, editVars, history
<1>33. CASE UNCHANGED vars
  BY <1>33 DEF vars, TypeOK, Coherent, schedVars, tickVars, jobVars, sessionVars, editVars, history
<1> QED
  BY <1>1, <1>2, <1>3, <1>4, <1>5, <1>6, <1>7, <1>8, <1>9, <1>10, <1>11, <1>12, <1>13, <1>14, <1>15, <1>16, <1>17, <1>18, <1>19, <1>20, <1>21, <1>22, <1>23, <1>24, <1>25, <1>26, <1>27, <1>28, <1>29, <1>30, <1>31, <1>32, <1>33 DEF Next, Step

\* Every variable keeps its type, a scheduler that is past its probe has a
\* task, and one that is about to write a file has its content.
THEOREM TypeCorrect == Spec => [](TypeOK /\ Coherent)
<1> QED
  BY ShapeInit, ShapeStep, PTL DEF Spec, Shape

-----------------------------------------------------------------------------
(* Exclusive claims.  The argument: while somebody holds an undisturbed task *)
(* it has no ordinary file, and nobody becomes a holder but by renaming the  *)
(* ordinary file away.  So there is one holder at most, and what is held     *)
(* without a holder cannot be taken.  Only a holder's link, an edit that     *)
(* raced and a stale-claim recovery can change that.                         *)

Holds(p, t) ==
    \/ p \in Devices /\ job[p] = t /\ phase[p] \in HoldingPhases
    \/ p \in Sessions /\ session[p].task = t /\ session[p].step = "holding"

\* What exists, is worked on or is being edited has been created.
BornFirst ==
    /\ \A t \in Tasks, n \in Names : Exists(t, n) => t \in born
    /\ \A p \in Devices \cup Sessions, t \in Tasks : Holds(p, t) => t \in born
    /\ \A d \in Devices : phase[d] = "unlinking" => job[d] \in born
    /\ \A e \in Editors \cup Devices : edit[e] # NoEdit => edit[e].task \in born
    /\ held \subseteq born

Exclusive ==
    /\ \A t \in Tasks, p, q \in Devices \cup Sessions :
          Undisturbed(t) /\ Holds(p, t) /\ Holds(q, t) => p = q
    /\ \A t \in Tasks, p \in Devices \cup Sessions :
          Undisturbed(t) /\ Holds(p, t) => ~Exists(t, Ordinary) /\ t \notin held
    /\ \A t \in held : Undisturbed(t) => ~Exists(t, Ordinary)

LEMMA HoldersAre ==
    ASSUME NEW t \in Tasks
    PROVE  Holders(t) = {p \in Devices \cup Sessions : Holds(p, t)}
BY InboxAssumption DEF Holders, Holds

LEMMA BornFirstInit == Init => BornFirst
BY InboxAssumption DEF Init, BornFirst, Holds, Exists, HoldingPhases, Names

LEMMA ExclusiveInit == Init => Exclusive
BY InboxAssumption DEF Init, Exclusive, Holds, Exists, HoldingPhases, Names

\* The steps of a scheduler that neither write a file nor change who holds what.
QuietStep(d) ==
    \/ BeginTick(d) \/ List(d) \/ Plan(d) \/ NoWork(d)
    \/ \E t \in Tasks, n \in Names : Read(d, t, n) \/ ReadVanished(d, t, n)
    \/ \E t \in Tasks : Probe(d, t)
    \/ ClaimFails(d) \/ LaunchFails(d) \/ HandOff(d) \/ RunSettles(d)
    \/ CountFailure(d) \/ ReadCompleted(d)

\* The steps that end a tick with the claim in place.
KeepStep(d) == RunAmbiguous(d) \/ FailureHeld(d) \/ ReleaseHeld(d) \/ LinkCollides(d)

LEMMA QuietFrame ==
    ASSUME Shape, NEW d \in Devices, QuietStep(d)
    PROVE  /\ UNCHANGED <<inbox, born, held, session, edit, raced, takenOver>>
           /\ \A p \in Devices \cup Sessions, t \in Tasks : Holds(p, t)' <=> Holds(p, t)
           /\ phase'[d] # "unlinking"
           /\ \A e \in Devices : e # d => phase'[e] = phase[e] /\ job'[e] = job[e]
<1> USE InboxAssumption DEF Shape, TypeOK, Coherent, Holds, HoldingPhases, Enter, schedVars, tickVars, jobVars, sessionVars, editVars, history
<1>1. CASE BeginTick(d) \/ List(d) \/ Plan(d)
  BY <1>1 DEF BeginTick, List, Plan
<1>2. CASE NoWork(d) \/ \E t \in Tasks, n \in Names : ReadVanished(d, t, n)
  <2>1. EndTick(d) /\ phase[d] \in {"walking", "reading"}
    BY <1>2 DEF NoWork, ReadVanished
  <2>2. UNCHANGED <<inbox, born, held, session, edit, raced, takenOver>>
    BY <1>2 DEF NoWork, ReadVanished
  <2> QED
    BY <2>1, <2>2 DEF EndTick
<1>3. CASE \E t \in Tasks, n \in Names : Read(d, t, n)
  BY <1>3 DEF Read
<1>4. CASE \E t \in Tasks : Probe(d, t)
  BY <1>4 DEF Probe
<1>5. CASE ClaimFails(d) \/ LaunchFails(d) \/ HandOff(d) \/ RunSettles(d)
  BY <1>5 DEF ClaimFails, LaunchFails, HandOff, RunSettles
<1>6. CASE CountFailure(d) \/ ReadCompleted(d)
  BY <1>6 DEF CountFailure, ReadCompleted
<1> QED
  BY <1>1, <1>2, <1>3, <1>4, <1>5, <1>6 DEF QuietStep

\* Giving up keeps the file: the task becomes held, and nobody else is affected.
LEMMA KeepFrame ==
    ASSUME Shape, NEW d \in Devices, KeepStep(d) \/ Crash(d)
    PROVE  /\ UNCHANGED <<inbox, born, session, raced, takenOver>>
           /\ \A p \in Devices \cup Sessions, t \in Tasks :
                 Holds(p, t)' <=> p # d /\ Holds(p, t)
           /\ \A t \in Tasks : t \in held' <=> t \in held \/ Holds(d, t)
           /\ held' \subseteq Tasks
           /\ \A e \in Editors \cup Devices : edit'[e] \in {edit[e], NoEdit}
           /\ \A e \in Devices : phase'[e] = IF e = d THEN "idle" ELSE phase[e]
           /\ \A e \in Devices : e # d => job'[e] = job[e]
<1> USE InboxAssumption DEF Shape, TypeOK, Coherent, BusyPhases, HoldingPhases, Holds, Enter, schedVars, tickVars, jobVars, sessionVars, editVars, history
<1>1. EndTick(d)
  BY DEF KeepStep, RunAmbiguous, FailureHeld, ReleaseHeld, LinkCollides, Hold, Crash
<1>2. /\ UNCHANGED <<inbox, born, session, raced, takenOver>>
      /\ \A e \in Editors \cup Devices : edit'[e] \in {edit[e], NoEdit}
  BY DEF KeepStep, RunAmbiguous, FailureHeld, ReleaseHeld, LinkCollides, Hold, Crash
<1>3. held' = IF phase[d] \in HoldingPhases THEN held \cup {job[d]} ELSE held
  BY DEF KeepStep, RunAmbiguous, FailureHeld, ReleaseHeld, LinkCollides, Hold, Crash
<1>4. \A e \in Devices : /\ phase'[e] = IF e = d THEN "idle" ELSE phase[e]
                         /\ job'[e] = IF e = d THEN NoTask ELSE job[e]
  BY <1>1, EndTickShape
<1> QED
  BY <1>2, <1>3, <1>4

LEMMA ClaimFrame ==
    ASSUME Shape, NEW d \in Devices, Claim(d)
    PROVE  /\ UNCHANGED <<born, held, session, edit, raced, takenOver>>
           /\ job[d] \in Tasks /\ Exists(job[d], Ordinary)
           /\ inbox' \in Inboxes
           /\ \A u \in Tasks, m \in Names :
                 inbox'[u][m] = IF u # job[d] THEN inbox[u][m]
                                ELSE IF m = d THEN inbox[u][Ordinary]
                                ELSE IF m = Ordinary THEN NoFile
                                ELSE inbox[u][m]
           /\ \A p \in Devices \cup Sessions, t \in Tasks :
                 Holds(p, t)' <=> Holds(p, t) \/ (p = d /\ t = job[d])
           /\ \A t \in Tasks : ~Holds(d, t)
           /\ \A e \in Devices : phase'[e] = IF e = d THEN "launching" ELSE phase[e]
           /\ job' = job
<1> USE InboxAssumption DEF Shape, TypeOK, Coherent, BusyPhases, HoldingPhases, Holds, Enter, schedVars, tickVars, jobVars, sessionVars, editVars, history
<1>1. job[d] \in Tasks /\ Exists(job[d], Ordinary) /\ job' = job
  BY DEF Claim
<1>2. inbox \in Inboxes /\ d \in Names /\ Ordinary \in Names /\ Ordinary # d
  BY DEF Inboxes, Names
<1>3. /\ inbox' \in Inboxes
      /\ \A u \in Tasks, m \in Names :
            inbox'[u][m] = IF u # job[d] THEN inbox[u][m]
                           ELSE IF m = d THEN inbox[job[d]][Ordinary]
                           ELSE IF m = Ordinary THEN NoFile
                           ELSE inbox[u][m]
  <2>1. Rename(job[d], Ordinary, d)
    BY DEF Claim
  <2> HIDE DEF Shape, TypeOK, Coherent
  <2> QED
    BY <2>1, <1>1, <1>2, RenameAt
<1> QED
  BY <1>1, <1>3 DEF Claim

\* The link of a requeue or a release.
LEMMA LinkFrame ==
    ASSUME Shape, NEW d \in Devices, Requeue(d) \/ Restore(d)
    PROVE  /\ UNCHANGED <<born, held, session, edit, raced, takenOver>>
           /\ job[d] \in Tasks /\ Holds(d, job[d]) /\ ~Exists(job[d], Ordinary)
           /\ copy[d] \in Content
           /\ inbox' \in Inboxes
           /\ \A u \in Tasks, m \in Names :
                 inbox'[u][m] = IF u = job[d] /\ m = Ordinary THEN copy[d] ELSE inbox[u][m]
           /\ \A p \in Devices \cup Sessions, t \in Tasks :
                 Holds(p, t)' <=> p # d /\ Holds(p, t)
           /\ \A e \in Devices : phase'[e] = IF e = d THEN "unlinking" ELSE phase[e]
           /\ job' = job
<1> USE InboxAssumption DEF Shape, TypeOK, Coherent, BusyPhases, HoldingPhases, Holds, Enter, schedVars, tickVars, jobVars, sessionVars, editVars, history
<1>1. /\ job[d] \in Tasks /\ ~Exists(job[d], Ordinary) /\ job' = job
      /\ copy[d] \in Content /\ WriteFile(job[d], Ordinary, copy[d])
  BY DEF Requeue, Restore
<1>2. inbox \in Inboxes /\ Ordinary \in Names
  BY DEF Inboxes, Names
<1>3. /\ inbox' \in Inboxes
      /\ \A u \in Tasks, m \in Names :
            inbox'[u][m] = IF u = job[d] /\ m = Ordinary THEN copy[d] ELSE inbox[u][m]
  <2> HIDE DEF Shape, TypeOK, Coherent
  <2> QED
    BY <1>1, <1>2, WriteFileAt
<1> QED
  BY <1>1, <1>3 DEF Requeue, Restore

LEMMA ExhaustFrame ==
    ASSUME Shape, NEW d \in Devices, Exhaust(d)
    PROVE  /\ UNCHANGED <<born, session, edit, raced, takenOver>>
           /\ job[d] \in Tasks /\ Holds(d, job[d]) /\ held' = held \cup {job[d]}
           /\ copy[d] \in Content
           /\ inbox' \in Inboxes
           /\ \A u \in Tasks, m \in Names :
                 inbox'[u][m] = IF u = job[d] /\ m = d THEN copy[d] ELSE inbox[u][m]
           /\ \A p \in Devices \cup Sessions, t \in Tasks :
                 Holds(p, t)' <=> p # d /\ Holds(p, t)
           /\ \A e \in Devices : phase'[e] = IF e = d THEN "idle" ELSE phase[e]
           /\ \A e \in Devices : e # d => job'[e] = job[e]
<1> USE InboxAssumption DEF Shape, TypeOK, Coherent, BusyPhases, HoldingPhases, Holds, Enter, schedVars, tickVars, jobVars, sessionVars, editVars, history
<1>1. /\ job[d] \in Tasks /\ EndTick(d) /\ held' = held \cup {job[d]}
      /\ copy[d] \in Content /\ WriteFile(job[d], d, copy[d])
  BY DEF Exhaust
<1>2. inbox \in Inboxes /\ d \in Names
  BY DEF Inboxes, Names
<1>3. /\ inbox' \in Inboxes
      /\ \A u \in Tasks, m \in Names :
            inbox'[u][m] = IF u = job[d] /\ m = d THEN copy[d] ELSE inbox[u][m]
  <2> HIDE DEF Shape, TypeOK, Coherent
  <2> QED
    BY <1>1, <1>2, WriteFileAt
<1>4. \A e \in Devices : /\ phase'[e] = IF e = d THEN "idle" ELSE phase[e]
                         /\ job'[e] = IF e = d THEN NoTask ELSE job[e]
  BY <1>1, EndTickShape
<1> QED
  BY <1>1, <1>3, <1>4 DEF Exhaust

LEMMA UnlinkFrame ==
    ASSUME Shape, NEW d \in Devices, Unlink(d)
    PROVE  /\ UNCHANGED <<born, held, session, edit, raced, takenOver>>
           /\ job[d] \in Tasks
           /\ inbox' \in Inboxes
           /\ \A u \in Tasks, m \in Names :
                 inbox'[u][m] = IF u = job[d] /\ m = d THEN NoFile ELSE inbox[u][m]
           /\ \A p \in Devices \cup Sessions, t \in Tasks : Holds(p, t)' <=> Holds(p, t)
           /\ \A e \in Devices : phase'[e] = IF e = d THEN "idle" ELSE phase[e]
           /\ \A e \in Devices : e # d => job'[e] = job[e]
<1> USE InboxAssumption DEF Shape, TypeOK, Coherent, BusyPhases, HoldingPhases, Holds, Enter, schedVars, tickVars, jobVars, sessionVars, editVars, history
<1>1. job[d] \in Tasks /\ EndTick(d) /\ WriteFile(job[d], d, NoFile)
  BY DEF Unlink
<1>2. inbox \in Inboxes /\ d \in Names
  BY DEF Inboxes, Names
<1>3. /\ inbox' \in Inboxes
      /\ \A u \in Tasks, m \in Names :
            inbox'[u][m] = IF u = job[d] /\ m = d THEN NoFile ELSE inbox[u][m]
  <2> HIDE DEF Shape, TypeOK, Coherent
  <2> QED
    BY <1>1, <1>2, WriteFileAt
<1>4. \A e \in Devices : /\ phase'[e] = IF e = d THEN "idle" ELSE phase[e]
                         /\ job'[e] = IF e = d THEN NoTask ELSE job[e]
  BY <1>1, EndTickShape
<1> QED
  BY <1>1, <1>3, <1>4 DEF Unlink

\* A session's steps that write no file.
SessionWaits(s) ==
    \/ \E t \in Tasks, n \in Names : SessionProbe(s, t, n)
    \/ SessionClaimFails(s) \/ SessionEnds(s)

LEMMA SessionFrame ==
    ASSUME Shape, NEW s \in Sessions, SessionWaits(s)
    PROVE  /\ UNCHANGED <<inbox, born, edit, raced, takenOver, phase, job>>
           /\ \A p \in Devices \cup Sessions, t \in Tasks :
                 Holds(p, t)' <=> p # s /\ Holds(p, t)
           /\ \A t \in Tasks : t \in held' <=> t \in held \/ Holds(s, t)
           /\ held' \subseteq Tasks
<1> USE InboxAssumption DEF Shape, TypeOK, Coherent, HoldingPhases, Holds, schedVars, tickVars, jobVars, sessionVars, editVars, history
<1>1. CASE \E t \in Tasks, n \in Names : SessionProbe(s, t, n)
  BY <1>1 DEF SessionProbe
<1>2. CASE SessionClaimFails(s)
  <2>1. session' = [session EXCEPT ![s].step = "idle"]
    BY <1>2 DEF SessionClaimFails
  <2>2. /\ \A r \in Sessions : r # s => session'[r] = session[r]
        /\ session'[s].step = "idle"
    BY <2>1, SetStep
  <2> QED
    BY <1>2, <2>2 DEF SessionClaimFails
<1>3. CASE SessionEnds(s)
  <2>1. session' = [session EXCEPT ![s].step = "idle"]
    BY <1>3 DEF SessionEnds
  <2>2. /\ \A r \in Sessions : r # s => session'[r] = session[r]
        /\ session'[s].step = "idle"
    BY <2>1, SetStep
  <2> QED
    BY <1>3, <2>2 DEF SessionEnds
<1> QED
  BY <1>1, <1>2, <1>3 DEF SessionWaits

LEMMA SessionClaimFrame ==
    ASSUME Shape, NEW s \in Sessions, SessionClaim(s)
    PROVE  LET t == session[s].task
               n == session[s].name
           IN  /\ UNCHANGED <<born, held, edit, raced, phase, job>>
               /\ t \in Tasks /\ n \in Names /\ Exists(t, n)
               /\ takenOver' = IF n = Ordinary THEN takenOver ELSE takenOver \cup {t}
               /\ \A u \in Tasks, m \in Names :
                     inbox'[u][m] = IF u = t /\ m = n THEN NoFile
                                    ELSE IF u = t /\ m = s THEN inbox[u][n]
                                    ELSE inbox[u][m]
               /\ \A p \in Devices \cup Sessions, u \in Tasks :
                     Holds(p, u)' <=> Holds(p, u) \/ (p = s /\ u = t)
               /\ \A u \in Tasks : ~Holds(s, u)
<1> DEFINE t == session[s].task
           n == session[s].name
<1>1. t \in Tasks /\ n \in Names /\ Exists(t, n) /\ session[s].step = "claiming"
  BY DEF SessionClaim, Shape, TypeOK, Coherent
<1>2. inbox \in Inboxes
  BY DEF Shape, TypeOK, Inboxes
<1>3. \A u \in Tasks, m \in Names :
         inbox'[u][m] = IF u = t /\ m = n THEN NoFile
                        ELSE IF u = t /\ m = s THEN inbox[u][n]
                        ELSE inbox[u][m]
  BY <1>1, <1>2 DEF SessionClaim, Rename, Inboxes, Names
<1>4. session' = [session EXCEPT ![s].step = "holding"]
  BY DEF SessionClaim
<1>5. /\ \A r \in Sessions : r # s => session'[r] = session[r]
      /\ session'[s].step = "holding" /\ session'[s].task = t
  BY <1>4, SetStep
<1>6. /\ UNCHANGED <<born, held, edit, raced, phase, job>>
      /\ takenOver' = IF n = Ordinary THEN takenOver ELSE takenOver \cup {t}
  BY DEF SessionClaim, schedVars, tickVars, jobVars, sessionVars, editVars, history
<1>7. s \notin Devices
  BY InboxAssumption
<1> HIDE DEF t, n
<1>8. /\ \A p \in Devices \cup Sessions, u \in Tasks :
            Holds(p, u)' <=> Holds(p, u) \/ (p = s /\ u = t)
      /\ \A u \in Tasks : ~Holds(s, u)
  BY <1>1, <1>5, <1>6, <1>7 DEF Holds, t, n
<1> QED
  BY <1>1, <1>3, <1>6, <1>8 DEF t, n

LEMMA BeginEditFrame ==
    ASSUME Shape, NEW e \in Editors \cup Devices, NEW t \in Tasks, NEW n \in Names,
           NEW s \in Statuses, BeginEdit(e, t, n, s)
    PROVE  /\ UNCHANGED <<inbox, born, held, session, raced, takenOver, phase, job>>
           /\ \A p \in Devices \cup Sessions, u \in Tasks : Holds(p, u)' <=> Holds(p, u)
           /\ Exists(t, n)
           /\ \A x \in Editors \cup Devices : x # e => edit'[x] = edit[x]
           /\ edit'[e].task = t /\ edit'[e].name = n /\ edit'[e].read = inbox[t][n]
<1>1. edit' = [edit EXCEPT ![e] = [task |-> t, name |-> n, read |-> inbox[t][n], status |-> s]]
  BY DEF BeginEdit
<1>2. /\ \A x \in Editors \cup Devices : x # e => edit'[x] = edit[x]
      /\ edit'[e] = [task |-> t, name |-> n, read |-> inbox[t][n], status |-> s]
  BY <1>1 DEF Shape, TypeOK
<1>3. edit'[e].task = t /\ edit'[e].name = n /\ edit'[e].read = inbox[t][n]
  BY <1>2
<1>4. /\ UNCHANGED <<inbox, born, held, session, raced, takenOver, phase, job>>
      /\ Exists(t, n)
  BY DEF BeginEdit, schedVars, tickVars, jobVars, sessionVars, editVars, history
<1> QED
  BY <1>2, <1>3, <1>4 DEF Holds

LEMMA WriteEditFrame ==
    ASSUME Shape, NEW e \in Editors \cup Devices, WriteEdit(e)
    PROVE  /\ UNCHANGED <<born, held, session, takenOver, phase, job>>
           /\ \A p \in Devices \cup Sessions, u \in Tasks : Holds(p, u)' <=> Holds(p, u)
           /\ \A x \in Editors \cup Devices :
                 edit'[x] = IF x = e THEN NoEdit ELSE edit[x]
           /\ raced \subseteq raced'
           /\ edit[e] # NoEdit
           /\ \E t \in Tasks, n \in Names, c, r \in Content :
                 /\ t = edit[e].task /\ n = edit[e].name /\ r = edit[e].read
                 /\ c.attempts = r.attempts /\ c.status = edit[e].status
                 /\ inbox[t][n] = r \/ t \in raced'
                 /\ \A u \in Tasks, m \in Names :
                       inbox'[u][m] = IF u = t /\ m = n THEN c ELSE inbox[u][m]
<1> DEFINE t == edit[e].task
           n == edit[e].name
           r == edit[e].read
           c == [edit[e].read EXCEPT !.status = edit[e].status]
<1>1. edit[e] # NoEdit /\ edit[e] \in Edits
  BY DEF WriteEdit, Shape, TypeOK
<1>2. /\ t \in Tasks /\ n \in Names /\ r \in Content /\ c \in Content
      /\ c.attempts = r.attempts /\ c.status = edit[e].status
  BY <1>1 DEF Edits, Content
<1>3. inbox \in Inboxes
  BY DEF Shape, TypeOK, Inboxes
<1>4. WriteFile(t, n, c)
  BY DEF WriteEdit
<1>5. /\ UNCHANGED <<born, held, session, takenOver, phase, job>>
      /\ raced' = IF inbox[t][n] = r THEN raced ELSE raced \cup {t}
      /\ edit' = [edit EXCEPT ![e] = NoEdit]
  BY DEF WriteEdit, schedVars, tickVars, jobVars, sessionVars, editVars, history
<1>6. \A x \in Editors \cup Devices : edit'[x] = IF x = e THEN NoEdit ELSE edit[x]
  BY <1>5 DEF Shape, TypeOK
<1>7. \A p \in Devices \cup Sessions, u \in Tasks : Holds(p, u)' <=> Holds(p, u)
  BY <1>5 DEF Holds
<1>8. t = edit[e].task /\ n = edit[e].name /\ r = edit[e].read
  OBVIOUS
<1> HIDE DEF t, n, c, r
<1>9. \A u \in Tasks, m \in Names :
         inbox'[u][m] = IF u = t /\ m = n THEN c ELSE inbox[u][m]
  BY <1>2, <1>3, <1>4, WriteFileAt
<1>10. inbox[t][n] = r \/ t \in raced'
  BY <1>5
<1>11. raced \subseteq raced'
  BY <1>5
<1> QED
  BY <1>1, <1>2, <1>5, <1>6, <1>7, <1>8, <1>9, <1>10, <1>11

LEMMA CreateFrame ==
    ASSUME Shape, NEW t \in Tasks, Create(t)
    PROVE  /\ UNCHANGED <<held, session, edit, raced, takenOver, phase, job>>
           /\ t \notin born /\ born' = born \cup {t}
           /\ \A u \in Tasks, m \in Names :
                 inbox'[u][m] = IF u = t /\ m = Ordinary
                                THEN [status |-> "pending", attempts |-> 0]
                                ELSE inbox[u][m]
           /\ \A p \in Devices \cup Sessions, u \in Tasks : Holds(p, u)' <=> Holds(p, u)
<1>1. [status |-> "pending", attempts |-> 0] \in Content
  BY DEF Content, Statuses
<1>2. inbox \in Inboxes /\ Ordinary \in Names
  BY DEF Shape, TypeOK, Inboxes, Names
<1>3. \A u \in Tasks, m \in Names :
         inbox'[u][m] = IF u = t /\ m = Ordinary
                        THEN [status |-> "pending", attempts |-> 0] ELSE inbox[u][m]
  BY <1>1, <1>2, WriteFileAt DEF Create
<1> QED
  BY <1>3 DEF Create, Holds, schedVars, tickVars, jobVars, sessionVars, editVars, history

\* Every step is one of the kinds the frames describe.
LEMMA StepKinds ==
    ASSUME [Next]_vars
    PROVE  \/ \E t \in Tasks : Create(t)
           \/ \E d \in Devices : \/ QuietStep(d) \/ KeepStep(d) \/ Crash(d) \/ Claim(d)
                                  \/ Requeue(d) \/ Restore(d) \/ Exhaust(d) \/ Unlink(d)
           \/ \E d \in Devices \cup Sessions : GrowStale(d)
           \/ \E f \in cooling : EndBackoff(f[1], f[2])
           \/ \E s \in Sessions : SessionWaits(s) \/ SessionClaim(s)
           \/ \E e \in Editors \cup Devices :
                 \/ \E t \in Tasks, n \in Names, s \in Statuses : BeginEdit(e, t, n, s)
                 \/ WriteEdit(e)
           \/ UNCHANGED vars
BY DEF Next, Step, QuietStep, KeepStep, SessionWaits

LEMMA BornFirstStep == Shape /\ BornFirst /\ [Next]_vars => BornFirst'
<1> SUFFICES ASSUME Shape, BornFirst, [Next]_vars PROVE BornFirst'
  OBVIOUS
<1> USE DEF BornFirst, Exists
<1>names. Ordinary \in Names /\ Devices \subseteq Names /\ Sessions \subseteq Names
  BY DEF Names
<1>1. ASSUME NEW t \in Tasks, Create(t) PROVE BornFirst'
  BY <1>1, CreateFrame
<1>2. ASSUME NEW d \in Devices, QuietStep(d) PROVE BornFirst'
  BY <1>2, QuietFrame
<1>3. ASSUME NEW d \in Devices, KeepStep(d) \/ Crash(d) PROVE BornFirst'
  BY <1>3, KeepFrame
<1>4. ASSUME NEW d \in Devices, Claim(d) PROVE BornFirst'
  BY <1>4, <1>names, ClaimFrame
<1>5. ASSUME NEW d \in Devices, Requeue(d) \/ Restore(d) PROVE BornFirst'
  BY <1>5, <1>names, LinkFrame
<1>6. ASSUME NEW d \in Devices, Exhaust(d) PROVE BornFirst'
  BY <1>6, <1>names, ExhaustFrame
<1>7. ASSUME NEW d \in Devices, Unlink(d) PROVE BornFirst'
  BY <1>7, <1>names, UnlinkFrame
<1>8. ASSUME NEW s \in Sessions, SessionWaits(s) PROVE BornFirst'
  BY <1>8, SessionFrame
<1>9. ASSUME NEW s \in Sessions, SessionClaim(s) PROVE BornFirst'
  BY <1>9, <1>names, SessionClaimFrame
<1>10. ASSUME NEW e \in Editors \cup Devices, NEW t \in Tasks, NEW n \in Names,
              NEW s \in Statuses, BeginEdit(e, t, n, s)
       PROVE  BornFirst'
  <2>1. /\ UNCHANGED <<inbox, born, held, phase, job>>
        /\ \A p \in Devices \cup Sessions, u \in Tasks : Holds(p, u)' <=> Holds(p, u)
    BY <1>10, BeginEditFrame
  <2>2. \A x \in Editors \cup Devices : edit'[x] = edit[x] \/ edit'[x].task = t
    BY <1>10, BeginEditFrame
  <2>3. t \in born
    BY <1>10, BeginEditFrame
  <2> QED
    BY <2>1, <2>2, <2>3
<1>11. ASSUME NEW e \in Editors \cup Devices, WriteEdit(e) PROVE BornFirst'
  <2>1. /\ UNCHANGED <<born, held, phase, job>>
        /\ \A p \in Devices \cup Sessions, u \in Tasks : Holds(p, u)' <=> Holds(p, u)
        /\ \A x \in Editors \cup Devices : edit'[x] \in {edit[x], NoEdit}
    BY <1>11, WriteEditFrame
  <2>2. \A u \in Tasks, m \in Names : Exists(u, m)' => u \in born
    BY <1>11, WriteEditFrame
  <2> QED
    BY <2>1, <2>2
<1>12. CASE \/ \E d \in Devices \cup Sessions : GrowStale(d)
            \/ \E f \in cooling : EndBackoff(f[1], f[2])
            \/ UNCHANGED vars
  BY <1>12 DEF GrowStale, EndBackoff, vars, Holds, schedVars, tickVars, jobVars, sessionVars, editVars, history
<1> QED
  BY <1>1, <1>2, <1>3, <1>4, <1>5, <1>6, <1>7, <1>8, <1>9, <1>10, <1>11, <1>12, StepKinds

LEMMA ExclusiveStep == Shape /\ BornFirst /\ Exclusive /\ [Next]_vars => Exclusive'
<1> SUFFICES ASSUME Shape, BornFirst, Exclusive, [Next]_vars PROVE Exclusive'
  OBVIOUS
<1> USE DEF Exclusive, Exists, Undisturbed
<1>names. Ordinary \in Names /\ Devices \subseteq Names /\ Sessions \subseteq Names
          /\ Ordinary \notin Devices \cup Sessions /\ Devices \cap Sessions = {}
  BY InboxAssumption DEF Names
<1>types. held \subseteq Tasks
  BY DEF Shape, TypeOK
<1>1. ASSUME NEW t \in Tasks, Create(t) PROVE Exclusive'
  BY <1>1, <1>names, <1>types, CreateFrame DEF BornFirst
<1>2. ASSUME NEW d \in Devices, QuietStep(d) PROVE Exclusive'
  BY <1>2, <1>types, QuietFrame
<1>3. ASSUME NEW d \in Devices, KeepStep(d) \/ Crash(d) PROVE Exclusive'
  BY <1>3, <1>types, KeepFrame
<1>4. ASSUME NEW d \in Devices, Claim(d) PROVE Exclusive'
  BY <1>4, <1>names, <1>types, ClaimFrame
<1>5. ASSUME NEW d \in Devices, Requeue(d) \/ Restore(d) PROVE Exclusive'
  BY <1>5, <1>names, <1>types, LinkFrame
<1>6. ASSUME NEW d \in Devices, Exhaust(d) PROVE Exclusive'
  BY <1>6, <1>names, <1>types, ExhaustFrame
<1>7. ASSUME NEW d \in Devices, Unlink(d) PROVE Exclusive'
  BY <1>7, <1>names, <1>types, UnlinkFrame
<1>8. ASSUME NEW s \in Sessions, SessionWaits(s) PROVE Exclusive'
  BY <1>8, <1>types, SessionFrame
<1>9. ASSUME NEW s \in Sessions, SessionClaim(s) PROVE Exclusive'
  BY <1>9, <1>names, <1>types, SessionClaimFrame
<1>10. ASSUME NEW e \in Editors \cup Devices, NEW t \in Tasks, NEW n \in Names,
              NEW s \in Statuses, BeginEdit(e, t, n, s)
       PROVE  Exclusive'
  BY <1>10, <1>types, BeginEditFrame
\* An edit that recreates a file raced, and one that replaces it changes no name.
<1>11. ASSUME NEW e \in Editors \cup Devices, WriteEdit(e) PROVE Exclusive'
  <2>1. NoFile \notin Content
    BY InboxAssumption
  <2>2. \A u \in Tasks, m \in Names :
           inbox'[u][m] # NoFile => inbox[u][m] # NoFile \/ u \in raced'
    BY <1>11, <2>1, WriteEditFrame
  <2>3. /\ raced \subseteq raced' /\ UNCHANGED <<held, takenOver>>
        /\ \A p \in Devices \cup Sessions, u \in Tasks : Holds(p, u)' <=> Holds(p, u)
    BY <1>11, WriteEditFrame
  <2> QED
    BY <1>names, <1>types, <2>2, <2>3
<1>12. CASE \/ \E d \in Devices \cup Sessions : GrowStale(d)
            \/ \E f \in cooling : EndBackoff(f[1], f[2])
            \/ UNCHANGED vars
  BY <1>12 DEF GrowStale, EndBackoff, vars, Holds, schedVars, tickVars, jobVars, sessionVars, editVars, history
<1> QED
  BY <1>1, <1>2, <1>3, <1>4, <1>5, <1>6, <1>7, <1>8, <1>9, <1>10, <1>11, <1>12, StepKinds

LeaseInv == Shape /\ BornFirst /\ Exclusive

LEMMA LeaseInvariant == Spec => []LeaseInv
<1>1. Init => LeaseInv
  BY ShapeInit, BornFirstInit, ExclusiveInit DEF LeaseInv
<1>2. LeaseInv /\ [Next]_vars => LeaseInv'
  BY ShapeStep, BornFirstStep, ExclusiveStep DEF LeaseInv
<1> QED
  BY <1>1, <1>2, PTL DEF Spec

\* No two schedulers or sessions own an undisturbed task at once.
THEOREM ClaimsAreExclusive == Spec => []OneHolder
<1>1. LeaseInv => OneHolder
  BY HoldersAre DEF LeaseInv, Exclusive, OneHolder
<1> QED
  BY <1>1, LeaseInvariant, PTL

\* What a claimant gave up stays out of everybody's reach.
THEOREM HeldIsFinal == Spec => []HeldStaysHeld
<1>1. LeaseInv => HeldStaysHeld
  BY HoldersAre DEF LeaseInv, Shape, TypeOK, Exclusive, HeldStaysHeld
<1> QED
  BY <1>1, LeaseInvariant, PTL
-----------------------------------------------------------------------------
(* No task is lost.  A task always has a file that is not being unlinked: an *)
(* unlink follows the link of the ordinary name, a claim moves the file, and *)
(* a session never renames a file onto itself.                               *)

\* A session renames to its own name from another one.
MovesAway == \A s \in Sessions : session[s].step = "claiming" => session[s].name # s

LEMMA MovesAwayStep == Shape /\ MovesAway /\ [Next]_vars => MovesAway'
<1> SUFFICES ASSUME Shape, MovesAway, [Next]_vars PROVE MovesAway'
  OBVIOUS
<1>1. ASSUME NEW s \in Sessions, NEW t \in Tasks, NEW n \in Names, SessionProbe(s, t, n)
      PROVE  MovesAway'
  <2>1. n # s
    BY <1>1 DEF SessionProbe
  <2>2. \A r \in Sessions : session'[r] = IF r = s THEN [step |-> "claiming", task |-> t, name |-> n]
                                                   ELSE session[r]
    BY <1>1 DEF SessionProbe, Shape, TypeOK
  <2> QED
    BY <2>1, <2>2 DEF MovesAway
<1>2. ASSUME NEW s \in Sessions, NEW p \in {"idle", "holding"},
             session' = [session EXCEPT ![s].step = p]
      PROVE  MovesAway'
  <2>1. /\ \A r \in Sessions : r # s => session'[r] = session[r]
        /\ session'[s].step = p
    BY <1>2, SetStep
  <2> QED
    BY <2>1 DEF MovesAway
<1>3. ASSUME NEW s \in Sessions, SessionClaim(s) \/ SessionClaimFails(s) \/ SessionEnds(s)
      PROVE  MovesAway'
  BY <1>2, <1>3 DEF SessionClaim, SessionClaimFails, SessionEnds
<1>4. CASE UNCHANGED session
  BY <1>4 DEF MovesAway
<1>5. \/ UNCHANGED session
      \/ \E s \in Sessions : \/ \E t \in Tasks, n \in Names : SessionProbe(s, t, n)
                             \/ SessionClaim(s) \/ SessionClaimFails(s) \/ SessionEnds(s)
  <2>1. ASSUME NEW t \in Tasks, Create(t) PROVE UNCHANGED session
    BY <2>1, CreateFrame
  <2>2. ASSUME NEW d \in Devices, QuietStep(d) PROVE UNCHANGED session
    BY <2>2, QuietFrame
  <2>3. ASSUME NEW d \in Devices, KeepStep(d) \/ Crash(d) PROVE UNCHANGED session
    BY <2>3, KeepFrame
  <2>4. ASSUME NEW d \in Devices, Claim(d) PROVE UNCHANGED session
    BY <2>4, ClaimFrame
  <2>5. ASSUME NEW d \in Devices, Requeue(d) \/ Restore(d) PROVE UNCHANGED session
    BY <2>5, LinkFrame
  <2>6. ASSUME NEW d \in Devices, Exhaust(d) \/ Unlink(d) PROVE UNCHANGED session
    BY <2>6, ExhaustFrame, UnlinkFrame
  <2>7. ASSUME NEW e \in Editors \cup Devices, NEW t \in Tasks, NEW n \in Names,
               NEW s \in Statuses, BeginEdit(e, t, n, s)
        PROVE  UNCHANGED session
    BY <2>7, BeginEditFrame
  <2>8. ASSUME NEW e \in Editors \cup Devices, WriteEdit(e) PROVE UNCHANGED session
    BY <2>8, WriteEditFrame
  <2>9. CASE \/ \E d \in Devices \cup Sessions : GrowStale(d)
             \/ \E f \in cooling : EndBackoff(f[1], f[2])
             \/ UNCHANGED vars
    BY <2>9 DEF GrowStale, EndBackoff, vars, sessionVars
  <2> QED
    BY <2>1, <2>2, <2>3, <2>4, <2>5, <2>6, <2>7, <2>8, <2>9, StepKinds DEF SessionWaits
<1> QED
  BY <1>1, <1>3, <1>4, <1>5

Unlinking(n, t) == n \in Devices /\ phase[n] = "unlinking" /\ job[n] = t

LEMMA NoTaskLostStep == LeaseInv /\ MovesAway /\ NoTaskLost /\ [Next]_vars => NoTaskLost'
<1> SUFFICES ASSUME Shape, BornFirst, MovesAway,
                    \A t \in born : \E n \in Names : Exists(t, n) /\ ~Unlinking(n, t),
                    [Next]_vars,
                    NEW t \in born'
             PROVE  \E n \in Names : (Exists(t, n) /\ ~Unlinking(n, t))'
  BY DEF LeaseInv, NoTaskLost, Unlinking
<1> USE DEF Exists, Unlinking
<1>names. Ordinary \in Names /\ Devices \subseteq Names /\ Sessions \subseteq Names
          /\ Ordinary \notin Devices \cup Sessions /\ Devices \cap Sessions = {}
          /\ NoFile \notin Content /\ born \subseteq Tasks
  BY InboxAssumption DEF Names, Shape, TypeOK
<1>1. ASSUME NEW u \in Tasks, Create(u) PROVE \E n \in Names : (Exists(t, n) /\ ~Unlinking(n, t))'
  BY <1>1, <1>names, CreateFrame DEF Content, Statuses
<1>2. ASSUME NEW d \in Devices, QuietStep(d) PROVE \E n \in Names : (Exists(t, n) /\ ~Unlinking(n, t))'
  BY <1>2, QuietFrame
<1>3. ASSUME NEW d \in Devices, KeepStep(d) \/ Crash(d)
      PROVE  \E n \in Names : (Exists(t, n) /\ ~Unlinking(n, t))'
  BY <1>3, KeepFrame
<1>4. ASSUME NEW d \in Devices, Claim(d) PROVE \E n \in Names : (Exists(t, n) /\ ~Unlinking(n, t))'
  BY <1>4, <1>names, ClaimFrame
<1>5. ASSUME NEW d \in Devices, Requeue(d) \/ Restore(d)
      PROVE  \E n \in Names : (Exists(t, n) /\ ~Unlinking(n, t))'
  BY <1>5, <1>names, LinkFrame
<1>6. ASSUME NEW d \in Devices, Exhaust(d) PROVE \E n \in Names : (Exists(t, n) /\ ~Unlinking(n, t))'
  BY <1>6, <1>names, ExhaustFrame
<1>7. ASSUME NEW d \in Devices, Unlink(d) PROVE \E n \in Names : (Exists(t, n) /\ ~Unlinking(n, t))'
  <2>1. phase[d] = "unlinking"
    BY <1>7 DEF Unlink
  <2> QED
    BY <1>7, <2>1, <1>names, UnlinkFrame
<1>8. ASSUME NEW s \in Sessions, SessionWaits(s)
      PROVE  \E n \in Names : (Exists(t, n) /\ ~Unlinking(n, t))'
  BY <1>8, SessionFrame
<1>9. ASSUME NEW s \in Sessions, SessionClaim(s)
      PROVE  \E n \in Names : (Exists(t, n) /\ ~Unlinking(n, t))'
  <2>1. session[s].name # s
    BY <1>9 DEF MovesAway, SessionClaim
  <2> QED
    BY <1>9, <2>1, <1>names, SessionClaimFrame
<1>10. ASSUME NEW e \in Editors \cup Devices, NEW u \in Tasks, NEW m \in Names,
              NEW s \in Statuses, BeginEdit(e, u, m, s)
       PROVE  \E n \in Names : (Exists(t, n) /\ ~Unlinking(n, t))'
  BY <1>10, BeginEditFrame
<1>11. ASSUME NEW e \in Editors \cup Devices, WriteEdit(e)
       PROVE  \E n \in Names : (Exists(t, n) /\ ~Unlinking(n, t))'
  <2>1. \A n \in Names : inbox[t][n] # NoFile => inbox'[t][n] # NoFile
    BY <1>11, <1>names, WriteEditFrame
  <2>2. UNCHANGED <<born, phase, job>>
    BY <1>11, WriteEditFrame
  <2> QED
    BY <2>1, <2>2
<1>12. CASE \/ \E d \in Devices \cup Sessions : GrowStale(d)
            \/ \E f \in cooling : EndBackoff(f[1], f[2])
            \/ UNCHANGED vars
  BY <1>12 DEF GrowStale, EndBackoff, vars, schedVars, tickVars, jobVars, sessionVars, editVars, history
<1> QED
  BY <1>1, <1>2, <1>3, <1>4, <1>5, <1>6, <1>7, <1>8, <1>9, <1>10, <1>11, <1>12, StepKinds

\* Whatever devices, sessions and editors do to a task, and wherever they
\* crash, it keeps a file that no unlink in flight is about to remove.
THEOREM TasksAreKept == Spec => []NoTaskLost
<1>1. Init => MovesAway /\ NoTaskLost
  BY DEF Init, MovesAway, NoTaskLost
<1>2. LeaseInv /\ MovesAway /\ NoTaskLost /\ [Next]_vars => MovesAway' /\ NoTaskLost'
  BY MovesAwayStep, NoTaskLostStep DEF LeaseInv
<1> QED
  BY <1>1, <1>2, LeaseInvariant, PTL DEF Spec
-----------------------------------------------------------------------------
(* Bounded retries.  The attempts written in the file an undisturbed task can *)
(* be claimed or counted from are the launch failures so far, and there is    *)
(* room for one more; a copy about to be written has counted the one at hand. *)

Spare(t) == failures[t] < MaxAttempts /\ (t \notin Retryable => failures[t] = 0)

\* The phases between the reading and the writing of a claimed file.
CopyPhases == {"requeueing", "exhausting", "restoring"}

CopyCounts(d, t) ==
    /\ phase[d] \in {"requeueing", "exhausting"} =>
          t \in Retryable /\ copy[d].attempts = failures[t] + 1
    /\ phase[d] = "requeueing" => copy[d].attempts < MaxAttempts
    /\ phase[d] = "restoring" => copy[d].attempts = failures[t]

CountsAt(t) ==
    /\ t \notin born => failures[t] = 0
    /\ failures[t] <= IF t \in Retryable THEN MaxAttempts ELSE 0
    /\ Exists(t, Ordinary) => Spare(t) /\ inbox[t][Ordinary].attempts = failures[t]
    /\ \A d \in Devices : Holds(d, t) =>
          /\ Spare(t)
          /\ Exists(t, d) => inbox[t][d].attempts = failures[t]
          /\ CopyCounts(d, t)

Counted == \A t \in Tasks : Undisturbed(t) => CountsAt(t)

LEMMA CountedInit == Init => Counted
BY InboxAssumption DEF Init, Counted, CountsAt, Exists, Holds, HoldingPhases, Names

\* Only an exhaustion and a requeue count, and only two steps make a copy.
LEMMA CountFrame ==
    ASSUME Shape, [Next]_vars
    PROVE  /\ (\A d \in Devices : ~Exhaust(d) /\ ~Requeue(d)) => UNCHANGED failures
           /\ \A e \in Devices :
                 phase'[e] \in CopyPhases =>
                    \/ phase'[e] = phase[e] /\ copy'[e] = copy[e] /\ job'[e] = job[e]
                    \/ CountFailure(e) \/ ReadCompleted(e)
<1> USE DEF CopyPhases, Shape, TypeOK, Enter, schedVars, tickVars, jobVars, sessionVars, editVars, history
<1>1. ASSUME NEW d \in Devices, EndTick(d)
      PROVE  \A e \in Devices : phase'[e] \in CopyPhases =>
                 phase'[e] = phase[e] /\ copy'[e] = copy[e] /\ job'[e] = job[e]
  BY <1>1, EndTickShape
<1>2. ASSUME NEW d \in Devices, KeepStep(d) \/ Crash(d)
      PROVE  EndTick(d) /\ UNCHANGED failures
  BY <1>2 DEF KeepStep, RunAmbiguous, FailureHeld, ReleaseHeld, LinkCollides, Hold, Crash
<1>3. ASSUME NEW d \in Devices, NoWork(d) \/ Unlink(d) \/ \E t \in Tasks, n \in Names : ReadVanished(d, t, n)
      PROVE  EndTick(d) /\ UNCHANGED failures
  BY <1>3 DEF NoWork, Unlink, ReadVanished
<1>4. ASSUME NEW d \in Devices, Exhaust(d) PROVE EndTick(d)
  BY <1>4 DEF Exhaust
<1>5. ASSUME NEW d \in Devices,
             \/ BeginTick(d) \/ List(d) \/ Plan(d) \/ Claim(d) \/ ClaimFails(d) \/ LaunchFails(d)
             \/ HandOff(d) \/ RunSettles(d) \/ Restore(d)
             \/ \E t \in Tasks, n \in Names : Read(d, t, n)
      PROVE  /\ UNCHANGED failures
             /\ \A e \in Devices : phase'[e] \in CopyPhases =>
                    phase'[e] = phase[e] /\ copy'[e] = copy[e] /\ job'[e] = job[e]
  BY <1>5 DEF BeginTick, List, Plan, Claim, ClaimFails, LaunchFails, HandOff, RunSettles, Restore, Read
<1>6. ASSUME NEW d \in Devices, NEW t \in Tasks, Probe(d, t)
      PROVE  /\ UNCHANGED failures
             /\ \A e \in Devices : phase'[e] \in CopyPhases =>
                    phase'[e] = phase[e] /\ copy'[e] = copy[e] /\ job'[e] = job[e]
  BY <1>6 DEF Probe
<1>7. ASSUME NEW d \in Devices, Requeue(d)
      PROVE  \A e \in Devices : phase'[e] \in CopyPhases =>
                 phase'[e] = phase[e] /\ copy'[e] = copy[e] /\ job'[e] = job[e]
  BY <1>7 DEF Requeue
<1>8. ASSUME NEW d \in Devices, CountFailure(d) \/ ReadCompleted(d)
      PROVE  /\ UNCHANGED failures
             /\ \A e \in Devices : e # d =>
                    phase'[e] = phase[e] /\ copy'[e] = copy[e] /\ job'[e] = job[e]
  BY <1>8 DEF CountFailure, ReadCompleted
<1> HIDE DEF Shape, TypeOK, CopyPhases, Enter
<1>9. ASSUME \/ \E t \in Tasks : Create(t)
             \/ \E d \in Devices \cup Sessions : GrowStale(d)
             \/ \E f \in cooling : EndBackoff(f[1], f[2])
             \/ \E s \in Sessions : SessionWaits(s) \/ SessionClaim(s)
             \/ \E e \in Editors \cup Devices :
                   \/ \E t \in Tasks, n \in Names, s \in Statuses : BeginEdit(e, t, n, s)
                   \/ WriteEdit(e)
             \/ UNCHANGED vars
      PROVE  UNCHANGED <<failures, phase, copy, job>>
  <2>1. CASE (\E t \in Tasks : Create(t)) \/ (\E d \in Devices \cup Sessions : GrowStale(d))
             \/ UNCHANGED vars
    BY <2>1 DEF Create, GrowStale, vars
  <2>2. CASE \E f \in cooling : EndBackoff(f[1], f[2])
    BY <2>2 DEF EndBackoff
  <2>3. CASE \E s \in Sessions : SessionWaits(s) \/ SessionClaim(s)
    BY <2>3 DEF SessionWaits, SessionProbe, SessionClaim, SessionClaimFails, SessionEnds
  <2>4. CASE \E e \in Editors \cup Devices :
                \/ \E t \in Tasks, n \in Names, s \in Statuses : BeginEdit(e, t, n, s)
                \/ WriteEdit(e)
    BY <2>4 DEF BeginEdit, WriteEdit
  <2> QED
    BY <1>9, <2>1, <2>2, <2>3, <2>4
<1> HIDE DEF schedVars, tickVars, jobVars, sessionVars, editVars, history
<1>10. ASSUME NEW d \in Devices, QuietStep(d)
       PROVE  /\ UNCHANGED failures
              /\ \A e \in Devices : phase'[e] \in CopyPhases =>
                    \/ phase'[e] = phase[e] /\ copy'[e] = copy[e] /\ job'[e] = job[e]
                    \/ CountFailure(e) \/ ReadCompleted(e)
  <2>1. CASE NoWork(d) \/ \E t \in Tasks, n \in Names : ReadVanished(d, t, n)
    BY <1>1, <1>3, <2>1
  <2>2. CASE \E t \in Tasks : Probe(d, t)
    BY <1>6, <2>2
  <2>3. CASE CountFailure(d) \/ ReadCompleted(d)
    BY <1>8, <2>3
  <2>4. CASE \/ BeginTick(d) \/ List(d) \/ Plan(d) \/ ClaimFails(d) \/ LaunchFails(d)
             \/ HandOff(d) \/ RunSettles(d)
             \/ \E t \in Tasks, n \in Names : Read(d, t, n)
    BY <1>5, <2>4
  <2> QED
    BY <1>10, <2>1, <2>2, <2>3, <2>4 DEF QuietStep
<1>11. ASSUME NEW d \in Devices,
              KeepStep(d) \/ Crash(d) \/ Unlink(d) \/ Claim(d) \/ Restore(d) \/ Exhaust(d) \/ Requeue(d)
       PROVE  /\ ~Exhaust(d) /\ ~Requeue(d) => UNCHANGED failures
              /\ \A e \in Devices : phase'[e] \in CopyPhases =>
                    phase'[e] = phase[e] /\ copy'[e] = copy[e] /\ job'[e] = job[e]
  BY <1>1, <1>2, <1>3, <1>4, <1>5, <1>7, <1>11
<1> QED
  BY <1>9, <1>10, <1>11, StepKinds
\* A step that neither counts nor copies keeps what it knows of the counts.
LEMMA CountsKept ==
    ASSUME Shape, [Next]_vars, UNCHANGED failures, born \subseteq born',
           \A d \in Devices : ~CountFailure(d) /\ ~ReadCompleted(d),
           NEW t \in Tasks, CountsAt(t),
           Exists(t, Ordinary)' =>
              \/ Exists(t, Ordinary) /\ inbox'[t][Ordinary].attempts = inbox[t][Ordinary].attempts
              \/ t \notin born /\ inbox'[t][Ordinary].attempts = 0,
           \A d \in Devices : Holds(d, t)' =>
              /\ Holds(d, t)
              /\ Exists(t, d)' => Exists(t, d) /\ inbox'[t][d].attempts = inbox[t][d].attempts
    PROVE  CountsAt(t)'
<1>1. \A d \in Devices : Holds(d, t)' => CopyCounts(d, t)'
  BY CountFrame DEF CountsAt, CopyCounts, CopyPhases
<1>2. Spare(t)' <=> Spare(t)
  BY DEF Spare
<1>3. Exists(t, Ordinary)' => Spare(t) /\ inbox'[t][Ordinary].attempts = failures[t]
  BY InboxAssumption DEF CountsAt, Spare
<1> QED
  BY <1>1, <1>2, <1>3 DEF CountsAt

LEMMA CountedStep == LeaseInv /\ Counted /\ [Next]_vars => Counted'
<1> SUFFICES ASSUME Shape, BornFirst, Exclusive, [Next]_vars,
                    NEW t \in Tasks, Undisturbed(t)', Undisturbed(t) => CountsAt(t)
             PROVE  CountsAt(t)'
  BY DEF LeaseInv, Counted
<1>names. Ordinary \in Names /\ Devices \subseteq Names /\ Sessions \subseteq Names
          /\ Ordinary \notin Devices \cup Sessions /\ Devices \cap Sessions = {}
          /\ NoFile \notin Content
  BY InboxAssumption DEF Names
<1>types. failures \in [Tasks -> Nat] /\ MaxAttempts \in Nat \ {0}
  BY InboxAssumption DEF Shape, TypeOK
<1> DEFINE Calm == \A d \in Devices : ~CountFailure(d) /\ ~ReadCompleted(d)
           Loud == \E d \in Devices : Exhaust(d) \/ Requeue(d)
\* The steps that leave the counts alone.
<1>1. ASSUME UNCHANGED <<inbox, born, raced, takenOver>>, Calm, ~Loud,
             \A d \in Devices : Holds(d, t)' => Holds(d, t)
      PROVE  CountsAt(t)'
  <2>1. UNCHANGED failures
    BY <1>1, CountFrame
  <2> QED
    BY <1>1, <2>1, CountsKept DEF Undisturbed, Exists
\* The steps that make a copy: it counts one more failure, or none.
<1>2. ASSUME NEW d \in Devices, CountFailure(d) \/ ReadCompleted(d)
      PROVE  CountsAt(t)'
  <2>1. /\ UNCHANGED <<inbox, born, raced, takenOver, failures, job>>
        /\ phase[d] \in HoldingPhases /\ Exists(job[d], d)
        /\ \A e \in Devices : e # d => phase'[e] = phase[e] /\ copy'[e] = copy[e]
    BY <1>2 DEF CountFailure, ReadCompleted, MayRetry, IsCompleted, HoldingPhases, Enter,
                Shape, TypeOK, tickVars, jobVars, sessionVars, editVars, history
  <2>2. \A e \in Devices : Holds(e, t)' <=> Holds(e, t)
    BY <1>2, QuietFrame DEF QuietStep
  <2>3. CountsAt(t)
    BY <2>1 DEF Undisturbed
  <2>4. ASSUME Holds(d, t) PROVE CopyCounts(d, t)'
    <3>1. job[d] = t /\ inbox[t][d].attempts = failures[t] /\ inbox[t][d] \in Content
      BY <2>1, <2>3, <2>4, <1>names DEF Holds, CountsAt, Exists, Shape, TypeOK
    <3>2. CASE ReadCompleted(d)
      BY <3>1, <3>2, <2>1 DEF ReadCompleted, CopyCounts, Enter, Shape, TypeOK
    <3>3. CASE CountFailure(d)
      <4> DEFINE content == inbox[job[d]][d]
      <4>1. [content EXCEPT !.attempts = content.attempts + 1].attempts = failures[t] + 1
        BY <3>1 DEF Content
      <4>2. copy'[d].attempts = failures[t] + 1
        BY <3>3, <4>1 DEF CountFailure, Shape, TypeOK
      <4>3. phase'[d] = IF failures[t] + 1 >= MaxAttempts THEN "exhausting" ELSE "requeueing"
        BY <3>1, <3>3 DEF CountFailure, Enter, Shape, TypeOK
      <4>4. t \in Retryable
        BY <3>1, <3>3 DEF CountFailure, MayRetry
      <4> QED
        BY <4>2, <4>3, <4>4, <2>1, <1>types DEF CopyCounts
    <3> QED
      BY <1>2, <3>2, <3>3
  <2>5. \A e \in Devices : e # d /\ Holds(e, t) => CopyCounts(e, t)'
    BY <2>1, <2>3 DEF CountsAt, CopyCounts
  <2> QED
    BY <2>1, <2>2, <2>3, <2>4, <2>5 DEF CountsAt, Spare, Exists
\* The steps that count: the failure was in the copy.
<1>3. ASSUME NEW d \in Devices, Exhaust(d) \/ Requeue(d)
      PROVE  CountsAt(t)'
  <2>1. /\ UNCHANGED <<born, raced, takenOver>>
        /\ job[d] \in Tasks /\ Holds(d, job[d])
        /\ \A p \in Devices \cup Sessions, u \in Tasks : Holds(p, u)' <=> p # d /\ Holds(p, u)
    BY <1>3, ExhaustFrame, LinkFrame
  <2>2. failures' = [failures EXCEPT ![job[d]] = @ + 1]
    BY <1>3 DEF Exhaust, Requeue
  <2>3. CountsAt(t) /\ Undisturbed(t)
    BY <2>1 DEF Undisturbed
  <2>4. CASE t = job[d]
    <3>1. /\ t \in born /\ t \in Retryable /\ copy[d].attempts = failures[t] + 1
          /\ failures[t] < MaxAttempts /\ failures'[t] = failures[t] + 1
      BY <1>3, <2>1, <2>2, <2>3, <2>4, <1>types DEF CountsAt, CopyCounts, Spare, BornFirst, Exhaust, Requeue
    <3>2. \A e \in Devices : ~Holds(e, t)'
      BY <2>1, <2>3, <2>4, <1>names DEF Exclusive
    <3>3. Exists(t, Ordinary)' => failures'[t] < MaxAttempts /\ inbox'[t][Ordinary].attempts = failures'[t]
      <4>1. CASE Exhaust(d)
        <5>1. ~Exists(t, Ordinary)
          BY <2>1, <2>3, <2>4, <1>names DEF Exclusive
        <5> QED
          BY <4>1, <5>1, <1>names, ExhaustFrame DEF Exists
      <4>2. CASE Requeue(d)
        <5>1. copy[d].attempts < MaxAttempts
          BY <4>2, <2>1, <2>3, <2>4 DEF CountsAt, CopyCounts, Requeue
        <5>2. inbox'[t][Ordinary] = copy[d]
          BY <4>2, <2>4, <1>names, LinkFrame
        <5> QED
          BY <5>1, <5>2, <3>1
      <4> QED
        BY <1>3, <4>1, <4>2
    <3> QED
      BY <2>1, <3>1, <3>2, <3>3, <1>types DEF CountsAt, Spare
  <2>5. CASE t # job[d]
    <3>1. failures'[t] = failures[t]
      BY <2>1, <2>2, <2>5, <1>types
    <3>2. \A m \in Names : inbox'[t][m] = inbox[t][m]
      BY <1>3, <2>5, ExhaustFrame, LinkFrame
    <3>3. \A e \in Devices : Holds(e, t)' => Holds(e, t) /\ e # d
      BY <2>1
    <3>4. \A e \in Devices : e # d => phase'[e] = phase[e] /\ copy'[e] = copy[e]
      BY <1>3, EndTickShape DEF Exhaust, Requeue, Enter, Shape, TypeOK, jobVars
    <3>5. \A e \in Devices : Holds(e, t)' => CopyCounts(e, t)'
      BY <2>3, <3>1, <3>3, <3>4 DEF CountsAt, CopyCounts
    <3> QED
      BY <1>names, <2>1, <2>3, <3>1, <3>2, <3>3, <3>5 DEF CountsAt, Spare, Exists
  <2> QED
    BY <2>4, <2>5
\* What is left neither counts nor copies.
<1>4. ASSUME Calm, ~Loud PROVE CountsAt(t)'
  <2>fail. UNCHANGED failures
    BY <1>4, CountFrame
  <2>kept. ASSUME born \subseteq born', CountsAt(t),
                  Exists(t, Ordinary)' =>
                     \/ Exists(t, Ordinary) /\ inbox'[t][Ordinary].attempts = inbox[t][Ordinary].attempts
                     \/ t \notin born /\ inbox'[t][Ordinary].attempts = 0,
                  \A d \in Devices : Holds(d, t)' =>
                     /\ Holds(d, t)
                     /\ Exists(t, d)' => Exists(t, d) /\ inbox'[t][d].attempts = inbox[t][d].attempts
           PROVE  CountsAt(t)'
    BY <1>4, <2>kept, <2>fail, CountsKept
  <2> HIDE DEF Calm, Loud
  <2>1. ASSUME NEW u \in Tasks, Create(u) PROVE CountsAt(t)'
    <3>1. CountsAt(t)
      BY <2>1, CreateFrame DEF Undisturbed
    <3>2. /\ born \subseteq born' /\ u \notin born
          /\ \A d \in Devices : Holds(d, t)' <=> Holds(d, t)
          /\ \A m \in Names : \/ inbox'[t][m] = inbox[t][m]
                              \/ t = u /\ m = Ordinary /\ inbox'[t][m].attempts = 0
      BY <2>1, CreateFrame
    <3> QED
      BY <2>kept, <3>1, <3>2, <1>names DEF Exists
  <2>2. ASSUME NEW d \in Devices, QuietStep(d) PROVE CountsAt(t)'
    BY <1>1, <1>4, <2>2, QuietFrame
  <2>3. ASSUME NEW d \in Devices, KeepStep(d) \/ Crash(d) PROVE CountsAt(t)'
    BY <1>1, <1>4, <2>3, KeepFrame
  <2>4. ASSUME NEW d \in Devices, Claim(d) PROVE CountsAt(t)'
    <3>1. CountsAt(t) /\ Undisturbed(t) /\ UNCHANGED born
      BY <2>4, ClaimFrame DEF Undisturbed
    <3>2. CASE t # job[d]
      BY <2>kept, <2>4, <3>1, <3>2, <1>names, ClaimFrame DEF Exists
    <3>3. CASE t = job[d]
      <4>1. Spare(t) /\ inbox[t][Ordinary].attempts = failures[t]
        BY <2>4, <3>1, <3>3, ClaimFrame DEF CountsAt
      <4>2. \A e \in Devices : Holds(e, t)' => e = d
        BY <2>4, <3>1, <3>3, <1>names, ClaimFrame DEF Exclusive
      <4>3. ~Exists(t, Ordinary)' /\ inbox'[t][d] = inbox[t][Ordinary]
        BY <2>4, <3>3, <1>names, ClaimFrame DEF Exists
      <4>4. CopyCounts(d, t)'
        BY <2>4, ClaimFrame DEF CopyCounts
      <4> QED
        BY <2>fail, <3>1, <4>1, <4>2, <4>3, <4>4 DEF CountsAt, Spare
    <3> QED
      BY <3>2, <3>3
  <2>5. ASSUME NEW d \in Devices, Restore(d) PROVE CountsAt(t)'
    <3>1. CountsAt(t) /\ Undisturbed(t) /\ UNCHANGED born
      BY <2>5, LinkFrame DEF Undisturbed
    <3>2. CASE t # job[d]
      BY <2>kept, <2>5, <3>1, <3>2, <1>names, LinkFrame DEF Exists
    <3>3. CASE t = job[d]
      <4>1. Spare(t) /\ copy[d].attempts = failures[t]
        BY <2>5, <3>1, <3>3, LinkFrame DEF CountsAt, CopyCounts, Restore
      <4>2. \A e \in Devices : ~Holds(e, t)'
        BY <2>5, <3>1, <3>3, <1>names, LinkFrame DEF Exclusive
      <4>3. inbox'[t][Ordinary] = copy[d]
        BY <2>5, <3>3, <1>names, LinkFrame
      <4> QED
        BY <2>fail, <3>1, <4>1, <4>2, <4>3 DEF CountsAt, Spare
    <3> QED
      BY <3>2, <3>3
  <2>6. ASSUME NEW d \in Devices, Unlink(d) PROVE CountsAt(t)'
    <3>1. CountsAt(t) /\ UNCHANGED born
      BY <2>6, UnlinkFrame DEF Undisturbed
    <3> QED
      BY <2>kept, <2>6, <3>1, <1>names, UnlinkFrame DEF Exists
  <2>7. ASSUME NEW s \in Sessions, SessionWaits(s) PROVE CountsAt(t)'
    BY <1>1, <1>4, <2>7, <1>names, SessionFrame
  <2>8. ASSUME NEW s \in Sessions, SessionClaim(s) PROVE CountsAt(t)'
    <3>1. CountsAt(t) /\ UNCHANGED born
      BY <2>8, SessionClaimFrame DEF Undisturbed
    <3>2. \A d \in Devices : Holds(d, t)' => Holds(d, t)
      BY <2>8, <1>names, SessionClaimFrame
    <3>3. \A m \in Names : m # s /\ Exists(t, m)' => Exists(t, m) /\ inbox'[t][m] = inbox[t][m]
      BY <2>8, SessionClaimFrame DEF Exists
    <3> QED
      BY <2>kept, <3>1, <3>2, <3>3, <1>names
  <2>9. ASSUME NEW e \in Editors \cup Devices, NEW u \in Tasks, NEW m \in Names,
               NEW s \in Statuses, BeginEdit(e, u, m, s)
        PROVE  CountsAt(t)'
    BY <1>1, <1>4, <2>9, BeginEditFrame
  <2>10. ASSUME NEW e \in Editors \cup Devices, WriteEdit(e) PROVE CountsAt(t)'
    <3>1. CountsAt(t) /\ UNCHANGED born
      BY <2>10, WriteEditFrame DEF Undisturbed
    <3>2. \A d \in Devices : Holds(d, t)' <=> Holds(d, t)
      BY <2>10, WriteEditFrame
    <3>3. \A m \in Names : Exists(t, m)' => Exists(t, m) /\ inbox'[t][m].attempts = inbox[t][m].attempts
      BY <2>10, <1>names, WriteEditFrame DEF Exists, Undisturbed
    <3> QED
      BY <2>kept, <3>1, <3>2, <3>3, <1>names
  <2>11. CASE \/ \E d \in Devices \cup Sessions : GrowStale(d)
              \/ \E f \in cooling : EndBackoff(f[1], f[2])
              \/ UNCHANGED vars
    <3>1. /\ UNCHANGED <<inbox, born, raced, takenOver>>
          /\ \A d \in Devices : Holds(d, t)' => Holds(d, t)
      BY <2>11 DEF GrowStale, EndBackoff, vars, Holds, schedVars, tickVars, jobVars, sessionVars, editVars, history
    <3> QED
      BY <1>1, <1>4, <3>1
  <2>12. \A d \in Devices : ~Exhaust(d) /\ ~Requeue(d)
    BY <1>4 DEF Loud
  <2> QED
    BY <2>1, <2>2, <2>3, <2>4, <2>5, <2>6, <2>7, <2>8, <2>9, <2>10, <2>11, <2>12, StepKinds
<1> QED
  BY <1>2, <1>3, <1>4

\* Whoever fails and however transitions interleave, the launch failures of an
\* undisturbed task stay within its policy.
THEOREM RetriesAreBounded == Spec => []RetryBounded
<1>1. LeaseInv /\ Counted /\ [Next]_vars => Counted'
  BY CountedStep
<1>2. Counted => RetryBounded
  BY DEF Counted, CountsAt, RetryBounded
<1> QED
  BY <1>1, <1>2, CountedInit, LeaseInvariant, PTL DEF Spec
-----------------------------------------------------------------------------
(* Dependencies.  What a scheduler knows may be old, but once a prerequisite *)
(* has been seen ordinary and completed that stays true of the past: so it   *)
(* holds of the files, of what was read from them, of what is planned from   *)
(* that, of the task being claimed, and of the tasks started.                *)

CompletedSeen ==
    \A t \in Tasks :
        Exists(t, Ordinary) /\ inbox[t][Ordinary].status = "completed" => t \in completedOnce

ReadSeen ==
    \A d \in Devices : \A f \in nodes[d] :
        f.name = Ordinary /\ f.content.status = "completed" => f.task \in completedOnce

PlannedReady == \A d \in Devices : \A t \in planned[d] : DependsOn[t] \subseteq completedOnce

ClaimedReady ==
    \A d \in Devices :
        phase[d] \in {"claiming", "launching"} => DependsOn[job[d]] \subseteq completedOnce

Ready == CompletedSeen /\ ReadSeen /\ PlannedReady /\ ClaimedReady /\ DependenciesFirst

LEMMA ReadyInit == Init => Ready
BY InboxAssumption DEF Init, Ready, CompletedSeen, ReadSeen, PlannedReady, ClaimedReady,
                       DependenciesFirst, Exists, Names

\* What is planned from files that tell the truth is ready.
LEMMA PlanIsReady ==
    ASSUME NEW read, \A f \in read : f.name = Ordinary /\ f.content.status = "completed"
                                       => f.task \in completedOnce
    PROVE  \A t \in Claimable(read) : DependsOn[t] \subseteq completedOnce
BY DEF Claimable, Satisfied, SeenAs

\* The end of a tick forgets, and the past stays.
LEMMA ReadyEndTick ==
    ASSUME Shape, ReadSeen, PlannedReady, ClaimedReady, DependenciesFirst,
           NEW d \in Devices, EndTick(d), UNCHANGED <<started, completedOnce>>
    PROVE  ReadSeen' /\ PlannedReady' /\ ClaimedReady' /\ DependenciesFirst'
BY EndTickShape DEF ReadSeen, PlannedReady, ClaimedReady, DependenciesFirst

\* Steps that do not touch a scheduler.
LEMMA ReadyElsewhere ==
    ASSUME ReadSeen, PlannedReady, ClaimedReady, DependenciesFirst,
           UNCHANGED <<schedVars, started>>, completedOnce \subseteq completedOnce'
    PROVE  ReadSeen' /\ PlannedReady' /\ ClaimedReady' /\ DependenciesFirst'
BY DEF ReadSeen, PlannedReady, ClaimedReady, DependenciesFirst, schedVars, tickVars, jobVars

LEMMA ReadyStep == Shape /\ Ready /\ [Next]_vars => Ready'
<1> SUFFICES ASSUME Shape, Ready, [Next]_vars PROVE Ready'
  OBVIOUS
<1> USE DEF Ready
<1>names. Ordinary \in Names /\ Devices \subseteq Names /\ Sessions \subseteq Names
          /\ Ordinary \notin Devices \cup Sessions /\ NoFile \notin Content
  BY InboxAssumption DEF Names
<1>files. UNCHANGED <<inbox, completedOnce>> => CompletedSeen'
  BY DEF CompletedSeen, Exists
<1>1. ASSUME NEW t \in Tasks, Create(t) PROVE Ready'
  <2>1. UNCHANGED <<schedVars, started, completedOnce>>
    BY <1>1 DEF Create
  <2>2. CompletedSeen'
    BY <1>1, <2>1, <1>names, CreateFrame DEF CompletedSeen, Exists
  <2> QED
    BY <2>1, <2>2, ReadyElsewhere
<1>2. ASSUME NEW d \in Devices, BeginTick(d) \/ List(d) \/ ClaimFails(d) \/ LaunchFails(d)
                                 \/ RunSettles(d) \/ CountFailure(d) \/ ReadCompleted(d)
      PROVE  Ready'
  <2>1. /\ UNCHANGED <<inbox, nodes, planned, started, completedOnce>>
        /\ phase'[d] \notin {"claiming", "launching"}
        /\ \A e \in Devices : e # d => phase'[e] = phase[e] /\ job'[e] = job[e]
    BY <1>2 DEF BeginTick, List, ClaimFails, LaunchFails, RunSettles, CountFailure, ReadCompleted,
                Enter, Shape, TypeOK, tickVars, jobVars, history
  <2> QED
    BY <2>1, <1>files DEF ReadSeen, PlannedReady, ClaimedReady, DependenciesFirst
<1>3. ASSUME NEW d \in Devices, NEW t \in Tasks, NEW n \in Names, Read(d, t, n) PROVE Ready'
  <2> DEFINE f == [task |-> t, name |-> n, content |-> inbox[t][n]]
  <2>1. /\ UNCHANGED <<inbox, phase, planned, job, started, completedOnce>>
        /\ nodes' = [nodes EXCEPT ![d] = @ \cup {f}] /\ Exists(t, n)
    BY <1>3 DEF Read, jobVars, history
  <2>2. f.task = t /\ f.name = n /\ f.content = inbox[t][n]
    OBVIOUS
  <2> HIDE DEF f
  <2>3. ReadSeen'
    BY <2>1, <2>2 DEF ReadSeen, CompletedSeen, Shape, TypeOK
  <2> QED
    BY <2>1, <2>3, <1>files DEF PlannedReady, ClaimedReady, DependenciesFirst
<1>4. ASSUME NEW d \in Devices, Plan(d) PROVE Ready'
  <2>1. /\ UNCHANGED <<inbox, job, started, completedOnce>>
        /\ \A e \in Devices : /\ phase'[e] = IF e = d THEN "walking" ELSE phase[e]
                              /\ planned'[e] = IF e = d THEN Claimable(nodes[d]) ELSE planned[e]
                              /\ nodes'[e] = IF e = d THEN {} ELSE nodes[e]
    BY <1>4 DEF Plan, Enter, Shape, TypeOK, jobVars, history
  <2>2. \A t \in Claimable(nodes[d]) : DependsOn[t] \subseteq completedOnce
    BY PlanIsReady DEF ReadSeen
  <2> QED
    BY <2>1, <2>2, <1>files DEF ReadSeen, PlannedReady, ClaimedReady, DependenciesFirst
<1>5. ASSUME NEW d \in Devices, NEW t \in Tasks, Probe(d, t) PROVE Ready'
  <2>1. /\ UNCHANGED <<inbox, nodes, started, completedOnce>> /\ t \in planned[d]
        /\ \A e \in Devices : planned'[e] \subseteq planned[e]
        /\ \A e \in Devices : \/ phase'[e] = phase[e] /\ job'[e] = job[e]
                              \/ e = d /\ job'[e] = t
    BY <1>5 DEF Probe, Enter, Shape, TypeOK, history
  <2> QED
    BY <2>1, <1>files DEF ReadSeen, PlannedReady, ClaimedReady, DependenciesFirst
<1>6. ASSUME NEW d \in Devices, Claim(d) PROVE Ready'
  <2>1. /\ UNCHANGED <<nodes, job, started, completedOnce>> /\ phase[d] = "claiming"
        /\ \A e \in Devices : planned'[e] \subseteq planned[e] /\ (e # d => phase'[e] = phase[e])
    BY <1>6 DEF Claim, Enter, Shape, TypeOK, jobVars, history
  <2>2. CompletedSeen'
    BY <1>6, <2>1, <1>names, ClaimFrame DEF CompletedSeen, Exists
  <2> QED
    BY <2>1, <2>2 DEF ReadSeen, PlannedReady, ClaimedReady, DependenciesFirst
<1>7. ASSUME NEW d \in Devices, HandOff(d) PROVE Ready'
  <2>1. /\ UNCHANGED <<inbox, nodes, planned, job, completedOnce>>
        /\ started' = started \cup {job[d]} /\ phase[d] = "launching"
        /\ \A e \in Devices : phase'[e] = IF e = d THEN "running" ELSE phase[e]
    BY <1>7 DEF HandOff, Enter, Shape, TypeOK, tickVars, jobVars
  <2> QED
    BY <2>1, <1>files DEF ReadSeen, PlannedReady, ClaimedReady, DependenciesFirst
<1>8. ASSUME NEW d \in Devices, Requeue(d) \/ Restore(d) PROVE Ready'
  <2>1. /\ UNCHANGED <<nodes, planned, job, started>>
        /\ completedOnce \subseteq completedOnce'
        /\ copy[d].status = "completed" => job[d] \in completedOnce'
        /\ \A e \in Devices : phase'[e] = IF e = d THEN "unlinking" ELSE phase[e]
    BY <1>8 DEF Requeue, Restore, Enter, Shape, TypeOK, tickVars, jobVars
  <2>2. CompletedSeen'
    BY <1>8, <2>1, <1>names, LinkFrame DEF CompletedSeen, Exists
  <2> QED
    BY <2>1, <2>2 DEF ReadSeen, PlannedReady, ClaimedReady, DependenciesFirst
<1>9. ASSUME NEW d \in Devices,
             NoWork(d) \/ KeepStep(d) \/ Crash(d) \/ \E t \in Tasks, n \in Names : ReadVanished(d, t, n)
      PROVE  Ready'
  <2>1. EndTick(d) /\ UNCHANGED <<inbox, started, completedOnce>>
    BY <1>9 DEF NoWork, ReadVanished, KeepStep, RunAmbiguous, FailureHeld, ReleaseHeld, LinkCollides,
                Hold, Crash, history
  <2> QED
    BY <2>1, <1>files, ReadyEndTick
<1>10. ASSUME NEW d \in Devices, Exhaust(d) \/ Unlink(d) PROVE Ready'
  <2>1. EndTick(d) /\ UNCHANGED <<started, completedOnce>>
    BY <1>10 DEF Exhaust, Unlink, history
  <2>2. CompletedSeen'
    BY <1>10, <2>1, <1>names, ExhaustFrame, UnlinkFrame DEF CompletedSeen, Exists
  <2> QED
    BY <2>1, <2>2, ReadyEndTick
<1>11. ASSUME NEW s \in Sessions, SessionWaits(s) \/ SessionClaim(s) PROVE Ready'
  <2>1. UNCHANGED <<schedVars, started, completedOnce>>
    BY <1>11 DEF SessionWaits, SessionProbe, SessionClaim, SessionClaimFails, SessionEnds, history
  <2>2. \A t \in Tasks : Exists(t, Ordinary)' => Exists(t, Ordinary) /\ inbox'[t][Ordinary] = inbox[t][Ordinary]
    BY <1>11, <1>names, SessionFrame, SessionClaimFrame DEF Exists
  <2> QED
    BY <2>1, <2>2, ReadyElsewhere DEF CompletedSeen
<1>12. ASSUME NEW e \in Editors \cup Devices, NEW t \in Tasks, NEW n \in Names, NEW s \in Statuses,
              BeginEdit(e, t, n, s)
       PROVE  Ready'
  BY <1>12, <1>files, ReadyElsewhere DEF BeginEdit, history
<1>13. ASSUME NEW e \in Editors \cup Devices, WriteEdit(e) PROVE Ready'
  <2>1. UNCHANGED <<schedVars, started>> /\ completedOnce \subseteq completedOnce'
    BY <1>13 DEF WriteEdit
  <2>2. edit[e].name = Ordinary /\ edit[e].status = "completed" => edit[e].task \in completedOnce'
    BY <1>13 DEF WriteEdit
  <2>3. CompletedSeen'
    BY <1>13, <2>1, <2>2, <1>names, WriteEditFrame DEF CompletedSeen, Exists
  <2> QED
    BY <2>1, <2>3, ReadyElsewhere
<1>14. CASE \/ \E d \in Devices \cup Sessions : GrowStale(d)
            \/ \E f \in cooling : EndBackoff(f[1], f[2])
            \/ UNCHANGED vars
  BY <1>14, <1>files, ReadyElsewhere DEF GrowStale, EndBackoff, vars, history
<1> QED
  BY <1>1, <1>2, <1>3, <1>4, <1>5, <1>6, <1>7, <1>8, <1>9, <1>10, <1>11, <1>12, <1>13, <1>14,
     StepKinds DEF QuietStep

\* No scheduler starts a task before each of its prerequisites has been
\* ordinary and completed, however old its plan is.
THEOREM PrerequisitesFirst == Spec => []DependenciesFirst
<1>1. Shape /\ Ready /\ [Next]_vars => Shape' /\ Ready'
  BY ShapeStep, ReadyStep
<1>2. Ready => DependenciesFirst
  BY DEF Ready
<1> QED
  BY <1>1, <1>2, ShapeInit, ReadyInit, PTL DEF Spec
-----------------------------------------------------------------------------
(* No second run after a failure.  Once a task has been handed to an agent   *)
(* it rests, as long as nothing upsets it and it has not been released as    *)
(* completed: it has no ordinary file to claim, and nobody is on the way to  *)
(* hand it over again or to requeue it.                                      *)

Launching(d, t) == job[d] = t /\ phase[d] \in {"launching", "failing", "requeueing", "exhausting"}

Unsettled(t) == t \in started /\ Undisturbed(t) /\ t \notin completedOnce

Rests ==
    /\ started \subseteq born
    /\ \A t \in Tasks : Unsettled(t) =>
          ~Exists(t, Ordinary) /\ \A d \in Devices : ~Launching(d, t)

LEMMA RestsInit == Init => Rests
BY DEF Init, Rests, Unsettled

\* A step that starts nothing, and neither brings back the ordinary file of an
\* unsettled task nor puts somebody on the way to hand it over, keeps it at rest.
LEMMA RestsFrame ==
    ASSUME Rests, UNCHANGED started, born \subseteq born', completedOnce \subseteq completedOnce',
           raced \subseteq raced', takenOver \subseteq takenOver',
           \A t \in Tasks : Unsettled(t)' /\ Exists(t, Ordinary)' => Exists(t, Ordinary),
           \A d \in Devices, t \in Tasks : Unsettled(t)' /\ Launching(d, t)' => Launching(d, t)
    PROVE  Rests'
BY DEF Rests, Unsettled, Undisturbed

LEMMA RestsStep == LeaseInv /\ Rests /\ [Next]_vars => Rests'
<1> SUFFICES ASSUME LeaseInv, Rests, [Next]_vars PROVE Rests'
  OBVIOUS
<1>inv. Shape /\ BornFirst /\ Exclusive
  BY DEF LeaseInv
<1>names. Ordinary \in Names /\ Devices \subseteq Names /\ Sessions \subseteq Names
          /\ Ordinary \notin Devices \cup Sessions /\ NoFile \notin Content
  BY InboxAssumption DEF Names
<1>1. ASSUME NEW t \in Tasks, Create(t) PROVE Rests'
  <2>1. UNCHANGED <<started, completedOnce>> /\ t \notin started
    BY <1>1 DEF Create, Rests
  <2> QED
    BY <1>1, <2>1, <1>inv, <1>names, CreateFrame, RestsFrame DEF Unsettled, Exists, Launching
<1>2. ASSUME NEW d \in Devices, BeginTick(d) \/ List(d) \/ Plan(d) \/ ClaimFails(d) \/ RunSettles(d)
                                 \/ ReadCompleted(d) \/ LaunchFails(d) \/ CountFailure(d)
      PROVE  Rests'
  <2>1. /\ UNCHANGED <<inbox, born, started, completedOnce, raced, takenOver>>
        /\ \A e \in Devices, t \in Tasks : Launching(e, t)' => Launching(e, t)
    BY <1>2, <1>inv DEF BeginTick, List, Plan, ClaimFails, RunSettles, ReadCompleted, LaunchFails,
         CountFailure, Launching, Enter, Shape, TypeOK, tickVars, jobVars, sessionVars, editVars, history
  <2> QED
    BY <2>1, RestsFrame DEF Exists
<1>3. ASSUME NEW d \in Devices, NEW t \in Tasks, NEW n \in Names, Read(d, t, n) \/ Probe(d, t)
      PROVE  Rests'
  <2>1. /\ UNCHANGED <<inbox, born, started, completedOnce, raced, takenOver>>
        /\ \A e \in Devices, u \in Tasks : Launching(e, u)' => Launching(e, u)
    BY <1>3, <1>inv DEF Read, Probe, Launching, Enter, Shape, TypeOK, jobVars, sessionVars,
         editVars, history
  <2> QED
    BY <2>1, RestsFrame DEF Exists
\* The claimed file was ordinary, so the task was not unsettled.
<1>4. ASSUME NEW d \in Devices, Claim(d) PROVE Rests'
  <2>1. /\ UNCHANGED <<born, started, completedOnce, raced, takenOver, job>>
        /\ Exists(job[d], Ordinary) /\ job[d] \in Tasks
        /\ \A e \in Devices : e # d => phase'[e] = phase[e]
    BY <1>4, <1>inv, ClaimFrame DEF Claim, history
  <2>2. ~Unsettled(job[d])
    BY <2>1 DEF Rests
  <2>3. \A t \in Tasks : Exists(t, Ordinary)' => Exists(t, Ordinary)
    BY <1>4, <1>inv, <1>names, ClaimFrame DEF Exists
  <2>4. \A t \in Tasks : Unsettled(t)' <=> Unsettled(t)
    BY <2>1 DEF Unsettled, Undisturbed
  <2> QED
    BY <2>1, <2>2, <2>3, <2>4, RestsFrame DEF Launching
\* Only the one holder hands over, and it stops launching.
<1>5. ASSUME NEW d \in Devices, HandOff(d) PROVE Rests'
  <2>1. /\ UNCHANGED <<inbox, born, completedOnce, raced, takenOver, job>>
        /\ started' = started \cup {job[d]} /\ phase[d] = "launching"
        /\ \A e \in Devices : phase'[e] = IF e = d THEN "running" ELSE phase[e]
    BY <1>5, <1>inv DEF HandOff, Enter, Shape, TypeOK, jobVars, sessionVars, editVars
  <2>2. job[d] \in Tasks /\ Holds(d, job[d])
    BY <2>1, <1>inv DEF Shape, Coherent, Holds, BusyPhases, HoldingPhases
  <2>3. job[d] \in born
    BY <2>2, <1>inv DEF BornFirst
  <2>4. ASSUME Undisturbed(job[d])
        PROVE  ~Exists(job[d], Ordinary) /\ \A e \in Devices : e # d => ~Launching(e, job[d])
    BY <2>2, <2>4, <1>inv DEF Exclusive, Launching, Holds, HoldingPhases
  <2> QED
    BY <2>1, <2>2, <2>3, <2>4 DEF Rests, Unsettled, Undisturbed, Exists, Launching
\* What is requeued is not unsettled, and what is restored is completed.
<1>6. ASSUME NEW d \in Devices, Requeue(d) \/ Restore(d) PROVE Rests'
  <2>1. /\ UNCHANGED <<born, started, raced, takenOver, job>> /\ job[d] \in Tasks
        /\ completedOnce \subseteq completedOnce'
        /\ phase[d] = "requeueing" \/ job[d] \in completedOnce'
        /\ \A e \in Devices : phase'[e] = IF e = d THEN "unlinking" ELSE phase[e]
    BY <1>6, <1>inv, LinkFrame DEF Requeue, Restore
  <2>2. ~Unsettled(job[d])'
    BY <2>1 DEF Rests, Unsettled, Undisturbed, Launching
  <2>3. \A t \in Tasks : t # job[d] /\ Exists(t, Ordinary)' => Exists(t, Ordinary)
    BY <1>6, <1>inv, <1>names, LinkFrame DEF Exists
  <2> QED
    BY <2>1, <2>2, <2>3, RestsFrame DEF Launching
<1>7. ASSUME NEW d \in Devices,
             \/ NoWork(d) \/ KeepStep(d) \/ Crash(d) \/ Exhaust(d) \/ Unlink(d)
             \/ \E t \in Tasks, n \in Names : ReadVanished(d, t, n)
      PROVE  Rests'
  <2>1. EndTick(d) /\ UNCHANGED <<born, started, completedOnce, raced, takenOver>>
    BY <1>7 DEF NoWork, ReadVanished, KeepStep, RunAmbiguous, FailureHeld, ReleaseHeld, LinkCollides,
                Hold, Crash, Exhaust, Unlink, sessionVars, editVars, history
  <2>2. \A e \in Devices : phase'[e] = IF e = d THEN "idle" ELSE phase[e]
    BY <2>1, <1>inv, EndTickShape
  <2>3. \A e \in Devices : e # d => job'[e] = job[e]
    BY <2>1, <1>inv, EndTickShape
  <2>4. inbox' = inbox \/ Exhaust(d) \/ Unlink(d)
    BY <1>7 DEF NoWork, ReadVanished, KeepStep, RunAmbiguous, FailureHeld, ReleaseHeld, LinkCollides,
                Hold, Crash
  <2>5. \A t \in Tasks : Exists(t, Ordinary)' => Exists(t, Ordinary)
    BY <2>4, <1>inv, <1>names, ExhaustFrame, UnlinkFrame DEF Exists
  <2> QED
    BY <2>1, <2>2, <2>3, <2>5, RestsFrame DEF Launching
<1>8. ASSUME NEW s \in Sessions, SessionWaits(s) \/ SessionClaim(s) PROVE Rests'
  <2>1. /\ UNCHANGED <<schedVars, born, started, completedOnce, raced>> /\ takenOver \subseteq takenOver'
    BY <1>8 DEF SessionWaits, SessionProbe, SessionClaim, SessionClaimFails, SessionEnds, editVars, history
  <2>2. \A t \in Tasks : Exists(t, Ordinary)' => Exists(t, Ordinary)
    BY <1>8, <1>inv, <1>names, SessionFrame, SessionClaimFrame DEF Exists
  <2> QED
    BY <2>1, <2>2, RestsFrame DEF Launching, schedVars, jobVars
<1>9. ASSUME NEW e \in Editors \cup Devices, NEW t \in Tasks, NEW n \in Names, NEW s \in Statuses,
             BeginEdit(e, t, n, s)
      PROVE  Rests'
  BY <1>9, RestsFrame DEF BeginEdit, Exists, Launching, schedVars, jobVars, sessionVars, history
<1>10. ASSUME NEW e \in Editors \cup Devices, WriteEdit(e) PROVE Rests'
  <2>1. UNCHANGED <<schedVars, born, started, takenOver>> /\ completedOnce \subseteq completedOnce'
        /\ raced \subseteq raced'
    BY <1>10, <1>inv, WriteEditFrame DEF WriteEdit
  <2>2. \A t \in Tasks : Exists(t, Ordinary)' => Exists(t, Ordinary) \/ t \in raced'
    BY <1>10, <1>inv, <1>names, WriteEditFrame DEF Exists
  <2> QED
    BY <2>1, <2>2, RestsFrame DEF Unsettled, Undisturbed, Launching, schedVars, jobVars
<1>11. CASE \/ \E d \in Devices \cup Sessions : GrowStale(d)
            \/ \E f \in cooling : EndBackoff(f[1], f[2])
            \/ UNCHANGED vars
  BY <1>11, RestsFrame DEF GrowStale, EndBackoff, vars, Exists, Launching, schedVars, jobVars,
                           sessionVars, editVars, history
<1>12. ASSUME NEW d \in Devices, QuietStep(d) PROVE Rests'
  BY <1>12, <1>2, <1>3, <1>5, <1>7, <1>names DEF QuietStep
<1> QED
  BY <1>1, <1>4, <1>6, <1>7, <1>8, <1>9, <1>10, <1>11, <1>12, StepKinds

\* An undisturbed task is handed to an agent a second time only after it has
\* been released as completed.
THEOREM NoSecondRun == Spec => NoRerunAfterFailure
<1> DEFINE A == \A d \in Devices :
                   (phase[d] = "launching" /\ phase'[d] = "running"
                      /\ job[d] \in started /\ Undisturbed(job[d])) => job[d] \in completedOnce
<1>1. Rests /\ Shape => A
  BY DEF Rests, Unsettled, Launching, Shape, Coherent, BusyPhases, HoldingPhases
<1>2. Spec => [](LeaseInv /\ Rests)
  <2>1. Init => Rests
    BY RestsInit
  <2> QED
    BY <2>1, RestsStep, LeaseInvariant, PTL DEF Spec
<1>3. LeaseInv /\ Rests => A
  BY <1>1 DEF LeaseInv
<1> HIDE DEF A
<1>4. Spec => [][A]_vars
  BY <1>2, <1>3, PTL
<1> QED
  BY <1>4 DEF NoRerunAfterFailure, A

-----------------------------------------------------------------------------
(***************************************************************************)
(* The inbox implements TaskLease.  A step changes the owner of one task   *)
(* at most: a claim takes a free task, a link gives one back, giving up    *)
(* keeps one, and a racing edit or a stale-claim recovery upsets one.      *)
(***************************************************************************)

Workers == Devices \cup Sessions

Owned == [t \in Tasks |-> Owner(t)]

\* Who owns a task, without a choice: there is one holder at most.
OwnerReads ==
    \A t \in Tasks :
        /\ ~Undisturbed(t) => Owner(t) = Lost
        /\ \A p \in Workers : Undisturbed(t) /\ Holds(p, t) => Owner(t) = p
        /\ Undisturbed(t) /\ (\A p \in Workers : ~Holds(p, t)) =>
              Owner(t) = IF t \in born /\ ~Exists(t, Ordinary) THEN Kept ELSE Free

Owning == LeaseInv /\ OwnerReads

LEMMA OwnerIsRead == LeaseInv => OwnerReads
<1>. SUFFICES ASSUME LeaseInv, NEW t \in Tasks
     PROVE  /\ ~Undisturbed(t) => Owner(t) = Lost
            /\ \A p \in Workers : Undisturbed(t) /\ Holds(p, t) => Owner(t) = p
            /\ Undisturbed(t) /\ (\A p \in Workers : ~Holds(p, t)) =>
                  Owner(t) = IF t \in born /\ ~Exists(t, Ordinary) THEN Kept ELSE Free
    BY DEF OwnerReads
<1>1. Holders(t) = {p \in Workers : Holds(p, t)}
    BY HoldersAre DEF Workers
<1>2. ASSUME NEW p \in Workers, Undisturbed(t), Holds(p, t) PROVE Owner(t) = p
    <2>1. \A q \in Holders(t) : q = p
        BY <1>1, <1>2 DEF LeaseInv, Exclusive, Workers
    <2>2. p \in Holders(t)
        BY <1>1, <1>2
    <2>. QED BY <1>2, <2>1, <2>2 DEF Owner
<1>. QED BY <1>1, <1>2 DEF Owner

\* A step that changes the owner of one task as the lease allows.
LEMMA OneOwnerChanges ==
    ASSUME NEW t \in Tasks,
           \A u \in Tasks : u # t => Owner(u)' = Owner(u),
           \/ Owner(t)' = Owner(t)
           \/ Owner(t) = Free /\ \E w \in Workers : Owner(t)' = w /\ \A u \in Tasks : Owner(u) # w
           \/ Owner(t) \in Workers /\ Owner(t)' \in {Free, Kept}
           \/ Owner(t)' = Lost
    PROVE  [Lease!Next]_Owned
<1>1. CASE Owner(t)' = Owner(t)
    <2>1. Owned' = Owned
        BY <1>1 DEF Owned
    <2>. QED BY <2>1
<1>2. ASSUME NEW x, Owner(t)' = x PROVE Owned' = [Owned EXCEPT ![t] = x]
    BY <1>2 DEF Owned
<1>3. CASE Owner(t) = Free /\ \E w \in Workers : Owner(t)' = w /\ \A u \in Tasks : Owner(u) # w
    <2>1. PICK w \in Workers : Owner(t)' = w /\ \A u \in Tasks : Owner(u) # w
        BY <1>3
    <2>2. Lease!Take(t, w)
        BY <1>2, <1>3, <2>1 DEF Lease!Take, Owned
    <2>. QED BY <2>2 DEF Lease!Next, Workers
<1>4. CASE Owner(t) \in Workers /\ Owner(t)' = Free
    <2>1. Lease!GiveBack(t)
        BY <1>2, <1>4 DEF Lease!GiveBack, Owned, Workers
    <2>. QED BY <2>1 DEF Lease!Next
<1>5. CASE Owner(t) \in Workers /\ Owner(t)' = Kept
    <2>1. Lease!Keep(t)
        BY <1>2, <1>5 DEF Lease!Keep, Owned, Workers
    <2>. QED BY <2>1 DEF Lease!Next
<1>6. CASE Owner(t)' = Lost
    <2>1. Lease!Upset(t)
        BY <1>2, <1>6 DEF Lease!Upset, Owned
    <2>. QED BY <2>1 DEF Lease!Next
<1>. QED BY <1>1, <1>3, <1>4, <1>5, <1>6

LEMMA LeaseStarts == Init => Lease!Init
<1>. SUFFICES ASSUME Init, NEW t \in Tasks PROVE Owner(t) = Free
    BY DEF Lease!Init
<1>1. Undisturbed(t) /\ t \notin born
    BY DEF Init, Undisturbed
<1>2. Holders(t) = {}
    BY InboxAssumption DEF Init, Holders, HoldingPhases
<1>. QED BY <1>1, <1>2 DEF Owner

\* Where nothing that an owner is read off changes, the owner does not either.
LEMMA SameOwner ==
    ASSUME Owning, Owning', NEW t \in Tasks,
           \A p \in Workers : Holds(p, t)' <=> Holds(p, t),
           Exists(t, Ordinary)' <=> Exists(t, Ordinary),
           t \in born' <=> t \in born,
           Undisturbed(t)' <=> Undisturbed(t)
    PROVE  Owner(t)' = Owner(t)
BY DEF Owning, OwnerReads

\* A worker that stops leaves its task kept.
LEMMA StopStep ==
    ASSUME Owning, Owning', NEW w \in Workers,
           UNCHANGED <<born, raced, takenOver>>,
           \A t \in Tasks : Exists(t, Ordinary)' <=> Exists(t, Ordinary),
           \A p \in Workers, t \in Tasks : Holds(p, t)' <=> p # w /\ Holds(p, t)
    PROVE  [Lease!Next]_Owned
<1>1. \A t \in Tasks : ~Holds(w, t) => Owner(t)' = Owner(t)
    BY SameOwner DEF Undisturbed
<1>2. CASE \A t \in Tasks : ~Holds(w, t)
    <2>1. Owned' = Owned
        BY <1>1, <1>2 DEF Owned
    <2>. QED BY <2>1
<1>3. CASE \E t \in Tasks : Holds(w, t)
    <2>1. PICK t \in Tasks : Holds(w, t)
        BY <1>3
    <2>2. \A u \in Tasks : u # t => ~Holds(w, u)
        BY <2>1, InboxAssumption DEF Holds
    <2>3. CASE ~Undisturbed(t)
        <3>1. Owner(t)' = Owner(t)
            BY <2>3 DEF Owning, OwnerReads, Undisturbed
        <3>. QED BY <1>1, <2>2, <3>1, OneOwnerChanges
    <2>4. CASE Undisturbed(t)
        <3>1. Owner(t) = w
            BY <2>1, <2>4 DEF Owning, OwnerReads
        <3>2. t \in born /\ ~Exists(t, Ordinary) /\ (\A p \in Workers : p # w => ~Holds(p, t))
            BY <2>1, <2>4 DEF Owning, LeaseInv, BornFirst, Exclusive, Workers
        <3>3. Undisturbed(t)' /\ t \in born' /\ ~Exists(t, Ordinary)' /\ (\A p \in Workers : ~Holds(p, t)')
            BY <2>4, <3>2 DEF Undisturbed
        <3>4. Owner(t)' = Kept
            BY <3>3 DEF Owning, OwnerReads
        <3>. QED BY <1>1, <2>2, <3>1, <3>4, OneOwnerChanges
    <2>. QED BY <2>3, <2>4
<1>. QED BY <1>2, <1>3

\* A rename of the ordinary file makes the one who renames it the owner.
LEMMA TakeStep ==
    ASSUME Owning, Owning', NEW w \in Workers, NEW t \in Tasks,
           UNCHANGED <<born, raced, takenOver>>,
           Exists(t, Ordinary),
           \A u \in Tasks : u # t => (Exists(u, Ordinary)' <=> Exists(u, Ordinary)),
           \A p \in Workers, u \in Tasks : Holds(p, u)' <=> Holds(p, u) \/ (p = w /\ u = t),
           \A u \in Tasks : ~Holds(w, u)
    PROVE  [Lease!Next]_Owned
<1>1. \A u \in Tasks : u # t => Owner(u)' = Owner(u)
    BY SameOwner DEF Undisturbed
<1>2. CASE ~Undisturbed(t)
    <2>1. Owner(t)' = Owner(t)
        BY <1>2 DEF Owning, OwnerReads, Undisturbed
    <2>. QED BY <1>1, <2>1, OneOwnerChanges
<1>3. CASE Undisturbed(t)
    <2>1. \A p \in Workers : ~Holds(p, t)
        BY <1>3 DEF Owning, LeaseInv, Exclusive, Workers
    <2>2. Owner(t) = Free
        BY <1>3, <2>1 DEF Owning, OwnerReads
    <2>3. Owner(t)' = w
        BY <1>3 DEF Owning, OwnerReads, Undisturbed
    <2>4. \A u \in Tasks : Owner(u) # w
        <3>. SUFFICES ASSUME NEW u \in Tasks PROVE Owner(u) # w
            OBVIOUS
        <3>1. w \notin {Free, Kept, Lost}
            BY LeaseAssumption DEF Workers
        <3>2. CASE \E p \in Workers : Undisturbed(u) /\ Holds(p, u)
            BY <3>2 DEF Owning, OwnerReads
        <3>3. CASE ~\E p \in Workers : Undisturbed(u) /\ Holds(p, u)
            BY <3>1, <3>3 DEF Owning, OwnerReads
        <3>. QED BY <3>2, <3>3
    <2>. QED BY <1>1, <2>2, <2>3, <2>4, OneOwnerChanges
<1>. QED BY <1>2, <1>3

LEMMA LeaseStep == Owning /\ Owning' /\ [Next]_vars => [Lease!Next]_Owned
<1>. SUFFICES ASSUME Owning, Owning', [Next]_vars PROVE [Lease!Next]_Owned
    OBVIOUS
<1>names. /\ Ordinary \in Names /\ Devices \subseteq Names /\ Sessions \subseteq Names
          /\ Ordinary \notin Workers /\ Devices \cap Sessions = {} /\ NoFile \notin Content
    BY InboxAssumption DEF Names, Workers
<1>shape. Shape /\ BornFirst /\ Exclusive
    BY DEF Owning, LeaseInv
<1>same. ASSUME \A t \in Tasks : Owner(t)' = Owner(t) PROVE [Lease!Next]_Owned
    <2>1. Owned' = Owned
        BY <1>same DEF Owned
    <2>. QED BY <2>1
<1>1. ASSUME NEW t \in Tasks, Create(t) PROVE [Lease!Next]_Owned
    <2>1. /\ UNCHANGED <<raced, takenOver>> /\ t \notin born /\ born' = born \cup {t}
          /\ \A p \in Workers, u \in Tasks : Holds(p, u)' <=> Holds(p, u)
          /\ \A u \in Tasks : Exists(u, Ordinary)' <=> Exists(u, Ordinary) \/ u = t
        <3>1. [status |-> "pending", attempts |-> 0] \in Content
            BY DEF Content, Statuses
        <3>. QED BY <1>1, <1>names, <1>shape, <3>1, CreateFrame DEF Workers, Exists
    <2>2. \A u \in Tasks : u # t => Owner(u)' = Owner(u)
        BY <2>1, SameOwner DEF Undisturbed
    <2>3. \A p \in Workers : ~Holds(p, t)
        BY <2>1, <1>shape DEF BornFirst, Workers
    <2>4. Owner(t)' = Owner(t)
        BY <2>1, <2>3 DEF Owning, OwnerReads, Undisturbed
    <2>. QED BY <1>same, <2>2, <2>4
<1>2. ASSUME NEW d \in Devices, QuietStep(d) PROVE [Lease!Next]_Owned
    BY <1>2, <1>same, <1>shape, QuietFrame, SameOwner DEF Workers, Exists, Undisturbed
<1>3. ASSUME NEW d \in Devices, KeepStep(d) \/ Crash(d) PROVE [Lease!Next]_Owned
    BY <1>3, <1>shape, KeepFrame, StopStep DEF Workers, Exists
<1>4. ASSUME NEW d \in Devices, Claim(d) PROVE [Lease!Next]_Owned
    <2>1. /\ UNCHANGED <<born, raced, takenOver>>
          /\ job[d] \in Tasks /\ Exists(job[d], Ordinary)
          /\ \A p \in Workers, u \in Tasks : Holds(p, u)' <=> Holds(p, u) \/ (p = d /\ u = job[d])
          /\ \A u \in Tasks : ~Holds(d, u)
        BY <1>4, <1>shape, ClaimFrame DEF Workers
    <2>2. \A u \in Tasks : u # job[d] => (Exists(u, Ordinary)' <=> Exists(u, Ordinary))
        BY <1>4, <1>shape, <1>names, ClaimFrame DEF Exists
    <2>. QED BY <2>1, <2>2, TakeStep DEF Workers
<1>5. ASSUME NEW d \in Devices, Requeue(d) \/ Restore(d) PROVE [Lease!Next]_Owned
    <2>0. PICK t \in Tasks : t = job[d]
        BY <1>5, <1>shape, LinkFrame
    <2>1. /\ UNCHANGED <<born, raced, takenOver>>
          /\ Holds(d, t)
          /\ \A p \in Workers, u \in Tasks : Holds(p, u)' <=> p # d /\ Holds(p, u)
        BY <1>5, <1>shape, <2>0, LinkFrame DEF Workers
    <2>2. \A u \in Tasks : Exists(u, Ordinary)' <=> Exists(u, Ordinary) \/ u = t
        BY <1>5, <1>shape, <1>names, <2>0, LinkFrame DEF Exists
    <2>3. \A u \in Tasks : u # t => ~Holds(d, u)
        BY <2>1, InboxAssumption DEF Holds
    <2>4. \A u \in Tasks : u # t => Owner(u)' = Owner(u)
        BY <2>1, <2>2, <2>3, SameOwner DEF Undisturbed
    <2>5. CASE ~Undisturbed(t)
        <3>1. Owner(t)' = Owner(t)
            BY <2>1, <2>5 DEF Owning, OwnerReads, Undisturbed
        <3>. QED BY <2>1, <2>4, <3>1, OneOwnerChanges
    <2>6. CASE Undisturbed(t)
        <3>1. Owner(t) = d
            BY <2>1, <2>6 DEF Owning, OwnerReads, Workers
        <3>2. \A p \in Workers : ~Holds(p, t)'
            BY <2>1, <2>6, <1>shape DEF Exclusive, Workers
        <3>3. Undisturbed(t)' /\ Exists(t, Ordinary)'
            BY <2>1, <2>2, <2>6 DEF Undisturbed
        <3>4. Owner(t)' = Free
            BY <2>1, <3>2, <3>3 DEF Owning, OwnerReads
        <3>. QED BY <2>1, <2>4, <3>1, <3>4, OneOwnerChanges DEF Workers
    <2>. QED BY <2>5, <2>6
<1>6. ASSUME NEW d \in Devices, Exhaust(d) PROVE [Lease!Next]_Owned
    <2>1. /\ UNCHANGED <<born, raced, takenOver>>
          /\ \A p \in Workers, u \in Tasks : Holds(p, u)' <=> p # d /\ Holds(p, u)
        BY <1>6, <1>shape, ExhaustFrame DEF Workers
    <2>2. \A u \in Tasks : Exists(u, Ordinary)' <=> Exists(u, Ordinary)
        BY <1>6, <1>shape, <1>names, ExhaustFrame DEF Exists, Workers
    <2>. QED BY <2>1, <2>2, StopStep DEF Workers
<1>7. ASSUME NEW d \in Devices, Unlink(d) PROVE [Lease!Next]_Owned
    <2>1. /\ UNCHANGED <<born, raced, takenOver>>
          /\ \A p \in Workers, u \in Tasks : Holds(p, u)' <=> Holds(p, u)
        BY <1>7, <1>shape, UnlinkFrame DEF Workers
    <2>2. \A u \in Tasks : Exists(u, Ordinary)' <=> Exists(u, Ordinary)
        BY <1>7, <1>shape, <1>names, UnlinkFrame DEF Exists, Workers
    <2>. QED BY <1>same, <2>1, <2>2, SameOwner DEF Undisturbed
<1>8. ASSUME NEW s \in Sessions, SessionWaits(s) PROVE [Lease!Next]_Owned
    BY <1>8, <1>shape, SessionFrame, StopStep DEF Workers, Exists
<1>9. ASSUME NEW s \in Sessions, SessionClaim(s) PROVE [Lease!Next]_Owned
    <2>0. PICK t \in Tasks, n \in Names : t = session[s].task /\ n = session[s].name
        BY <1>9, <1>shape, SessionClaimFrame
    <2>1. /\ UNCHANGED <<born, raced>> /\ Exists(t, n)
          /\ takenOver' = IF n = Ordinary THEN takenOver ELSE takenOver \cup {t}
          /\ \A p \in Workers, u \in Tasks : Holds(p, u)' <=> Holds(p, u) \/ (p = s /\ u = t)
          /\ \A u \in Tasks : ~Holds(s, u)
        BY <1>9, <1>shape, <2>0, SessionClaimFrame DEF Workers
    <2>2. \A u \in Tasks : u # t => (Exists(u, Ordinary)' <=> Exists(u, Ordinary))
        BY <1>9, <1>shape, <1>names, <2>0, SessionClaimFrame DEF Exists
    <2>3. CASE n = Ordinary
        BY <2>1, <2>2, <2>3, TakeStep DEF Workers
    <2>4. CASE n # Ordinary
        <3>1. \A u \in Tasks : u # t => Owner(u)' = Owner(u)
            BY <2>1, <2>2, <2>4, SameOwner DEF Undisturbed
        <3>2. Owner(t)' = Lost
            BY <2>1, <2>4 DEF Owning, OwnerReads, Undisturbed
        <3>. QED BY <2>1, <3>1, <3>2, OneOwnerChanges
    <2>. QED BY <2>3, <2>4
<1>10. ASSUME NEW e \in Editors \cup Devices, NEW t \in Tasks, NEW n \in Names,
              NEW x \in Statuses, BeginEdit(e, t, n, x)
       PROVE  [Lease!Next]_Owned
    BY <1>10, <1>same, <1>shape, BeginEditFrame, SameOwner DEF Workers, Exists, Undisturbed
<1>11. ASSUME NEW e \in Editors \cup Devices, WriteEdit(e) PROVE [Lease!Next]_Owned
    <2>1. /\ UNCHANGED <<born, takenOver>>
          /\ \A p \in Workers, u \in Tasks : Holds(p, u)' <=> Holds(p, u)
        BY <1>11, <1>shape, WriteEditFrame DEF Workers
    <2>2. PICK t \in Tasks, n \in Names, c, r \in Content :
              /\ t = edit[e].task /\ n = edit[e].name /\ r = edit[e].read
              /\ inbox[t][n] = r \/ t \in raced'
              /\ \A u \in Tasks, m \in Names :
                    inbox'[u][m] = IF u = t /\ m = n THEN c ELSE inbox[u][m]
        BY <1>11, <1>shape, WriteEditFrame
    <2>3. raced' = IF inbox[t][n] = r THEN raced ELSE raced \cup {t}
        BY <1>11, <2>2 DEF WriteEdit
    <2>4. \A u \in Tasks : u # t => (Exists(u, Ordinary)' <=> Exists(u, Ordinary))
        BY <2>2, <1>names DEF Exists
    <2>5. \A u \in Tasks : u # t => Owner(u)' = Owner(u)
        BY <2>1, <2>3, <2>4, SameOwner DEF Undisturbed
    <2>6. CASE t \in raced'
        <3>1. Owner(t)' = Lost
            BY <2>6 DEF Owning, OwnerReads, Undisturbed
        <3>. QED BY <2>5, <3>1, OneOwnerChanges
    <2>7. CASE t \notin raced'
        <3>1. Exists(t, Ordinary)' <=> Exists(t, Ordinary)
            BY <2>2, <2>7, <1>names DEF Exists
        <3>2. raced' = raced
            BY <2>3, <2>7
        <3>3. Owner(t)' = Owner(t)
            BY <2>1, <3>1, <3>2, SameOwner DEF Undisturbed
        <3>. QED BY <1>same, <2>5, <3>3
    <2>. QED BY <2>6, <2>7
<1>12. CASE \/ \E d \in Devices \cup Sessions : GrowStale(d)
            \/ \E f \in cooling : EndBackoff(f[1], f[2])
            \/ UNCHANGED vars
    <2>1. UNCHANGED <<inbox, born, raced, takenOver, phase, job, session>>
        BY <1>12 DEF GrowStale, EndBackoff, vars, schedVars, tickVars, jobVars, sessionVars, editVars, history
    <2>2. \A t \in Tasks : Owner(t)' = Owner(t)
        BY <2>1, SameOwner DEF Holds, Exists, Undisturbed
    <2>. QED BY <1>same, <2>2
<1>. QED BY <1>1, <1>2, <1>3, <1>4, <1>5, <1>6, <1>7, <1>8, <1>9, <1>10, <1>11, <1>12, StepKinds

(* Every behaviour of the inbox is one of the lease: who works on a task is *)
(* settled by the file names alone, one worker at a time, and what a worker *)
(* left behind stays where it is.                                           *)
THEOREM InboxIsALease == Spec => LeaseSpec
<1>1. Init => Lease!Init
    BY LeaseStarts
<1>2. Owning /\ Owning' /\ [Next]_vars => [Lease!Next]_Owned
    BY LeaseStep
<1>3. Spec => []Owning
    <2>1. LeaseInv => Owning
        BY OwnerIsRead DEF Owning
    <2>. QED BY <2>1, LeaseInvariant, PTL
<1>. QED BY <1>1, <1>2, <1>3, PTL DEF Spec, LeaseSpec, Lease!Spec, Owned

-----------------------------------------------------------------------------
(***************************************************************************)
(* The task commands.  While an archive reads the inboxes it knows every   *)
(* live task of those nobody else has changed since it began, so what it   *)
(* finds eligible no such task depends on; its own moves only take files   *)
(* away, and whoever else changes an inbox ends its quiet.                 *)
(***************************************************************************)

Node == [file : Files, status : TaskStatuses]

\* What a client that archives has in hand.
ArchiveTool ==
    [at : {"listing", "reading", "moving", "renaming", "archived"}, verb : {"archive"}, agent : Owners,
     yes : BOOLEAN, second : BOOLEAN, shown : SUBSET Files, todo : SUBSET Owners, unread : SUBSET Files,
     batch : SUBSET Node, nodes : SUBSET Node, plan : SUBSET Files, moved : SUBSET Files,
     item : Files \cup {Gone}]

\* What a client has in hand that has found the file of a task.
ResolvedTool == [at : {"resolved", "editing"}, verb : {"show", "claim"} \cup TaskStatuses, file : Files]

ToolTyped(c) ==
    /\ tool[c].verb = "archive" => tool[c] \in ArchiveTool
    /\ tool[c].at \in {"listing", "reading", "moving", "renaming"} => tool[c].verb = "archive"
    /\ tool[c].at = "renaming" => tool[c].item \in Files
    /\ tool[c].at \in {"resolved", "editing"} => tool[c] \in ResolvedTool
    /\ tool[c].at = "claiming" => tool[c].file \in Files /\ tool[c].box \in Boxes
    /\ tool[c].at = "editing" => tool[c].verb \in TaskStatuses

CommandTypes ==
    /\ filed \in [Files -> TaskStatuses \cup {Gone}]
    /\ DOMAIN tool = Clients /\ \A c \in Clients : ToolTyped(c)
    /\ quiet \in [Clients -> SUBSET Owners]

\* While it reads the inboxes, an archive knows every live task of an inbox it
\* has listed and nobody else has changed; and it reads one inbox at a time.
Loaded(c) ==
    tool[c].at \in {"listing", "reading"} =>
        /\ \A g \in Files :
             OwnerOf[g[1]] \in quiet[c] \ tool[c].todo /\ filed[g] \notin Terminal \cup {Gone}
             => \/ g \in tool[c].unread
                \/ [file |-> g, status |-> filed[g]] \in tool[c].nodes \cup tool[c].batch
        /\ \A g \in tool[c].unread : OwnerOf[g[1]] \in quiet[c] => filed[g] # Gone
        /\ \E o \in Owners : /\ \A g \in tool[c].unread : OwnerOf[g[1]] = o
                             /\ \A n \in tool[c].batch : OwnerOf[n.file[1]] = o
        /\ tool[c].at = "listing" => tool[c].unread = {} /\ tool[c].batch = {}

\* No live task of an inbox that nobody else has changed depends on f's.
Spared(c, f) ==
    \A g \in Files : f[1] \in Requires[g[1]] /\ OwnerOf[g[1]] \in quiet[c] => filed[g] \in Terminal \cup {Gone}

ArchiveFits(c) ==
    tool[c].verb = "archive" =>
        /\ Loaded(c)
        /\ \A f \in tool[c].plan \cup tool[c].moved : Spared(c, f)
        /\ tool[c].at = "renaming" => Spared(c, tool[c].item)

CommandInv == CommandTypes /\ \A c \in Clients : ArchiveFits(c)

LEMMA FilesAre == \A f \in Files : f[1] \in Errands /\ OwnerOf[f[1]] \in Owners /\ <<f[1], Plain>> \in Files
                                   /\ \A b \in Boxes : <<f[1], b>> \in Files
BY TaskCommandsAssumption DEF Files

LEMMA ArchiveTyped ==
    ASSUME CommandInv, NEW c \in Clients, tool[c].verb = "archive"
    PROVE  tool[c] \in ArchiveTool /\ ArchiveFits(c)
BY DEF CommandInv, CommandTypes, ToolTyped

(* A client whose tool stays, in inboxes that stay or are not quiet.       *)
LEMMA OthersKeep ==
    ASSUME CommandTypes, NEW c \in Clients, ArchiveFits(c), tool'[c] = tool[c], quiet'[c] \subseteq quiet[c],
           \A g \in Files : OwnerOf[g[1]] \in quiet'[c] => filed'[g] = filed[g]
    PROVE  ArchiveFits(c)'
<1>. SUFFICES ASSUME tool[c].verb = "archive" PROVE ArchiveFits(c)'
    BY DEF ArchiveFits
<1>1. ASSUME NEW f, Spared(c, f) PROVE Spared(c, f)'
    BY <1>1 DEF Spared
<1>2. \A f \in tool'[c].plan \cup tool'[c].moved : Spared(c, f)'
    BY <1>1 DEF ArchiveFits
<1>3. (tool[c].at = "renaming" => Spared(c, tool[c].item))'
    <2>1. tool[c].at = "renaming" => Spared(c, tool[c].item)
        BY DEF ArchiveFits
    <2>. QED BY <2>1 DEF Spared
<1>4. Loaded(c)'
    <2>1. Loaded(c)
        BY DEF ArchiveFits
    <2>2. CASE ~(tool[c].at \in {"listing", "reading"})
        BY <2>2 DEF Loaded
    <2>3. CASE tool[c].at \in {"listing", "reading"}
        <3>1. ASSUME NEW g \in Files, OwnerOf[g[1]] \in quiet'[c] \ tool'[c].todo,
                     filed'[g] \notin Terminal \cup {Gone}
              PROVE  \/ g \in tool'[c].unread
                     \/ [file |-> g, status |-> filed'[g]] \in tool'[c].nodes \cup tool'[c].batch
            <4>1. filed'[g] = filed[g] /\ OwnerOf[g[1]] \in quiet[c] \ tool[c].todo
                BY <3>1
            <4>2. \/ g \in tool[c].unread
                  \/ [file |-> g, status |-> filed[g]] \in tool[c].nodes \cup tool[c].batch
                BY <2>1, <2>3, <3>1, <4>1 DEF Loaded
            <4>. QED BY <4>1, <4>2
        <3>2. ASSUME NEW g \in tool'[c].unread, OwnerOf[g[1]] \in quiet'[c] PROVE filed'[g] # Gone
            <4>1. g \in Files /\ g \in tool[c].unread
                BY <3>2 DEF CommandTypes, ToolTyped, ArchiveTool
            <4>. QED BY <2>1, <2>3, <3>2, <4>1 DEF Loaded
        <3>3. /\ \E o \in Owners : /\ \A g \in tool'[c].unread : OwnerOf[g[1]] = o
                                   /\ \A n \in tool'[c].batch : OwnerOf[n.file[1]] = o
              /\ tool'[c].at = "listing" => tool'[c].unread = {} /\ tool'[c].batch = {}
            BY <2>1, <2>3 DEF Loaded
        <3>. QED BY <3>1, <3>2, <3>3 DEF Loaded
    <2>. QED BY <2>2, <2>3
<1>. QED BY <1>2, <1>3, <1>4 DEF ArchiveFits

(* Steps of one client that leave the inboxes and what was promised alone. *)
LEMMA WithIs ==
    ASSUME CommandTypes, NEW c \in Clients, NEW new, With(c, new)
    PROVE  tool'[c] = new /\ DOMAIN tool' = Clients /\ \A b \in Clients \ {c} : tool'[b] = tool[b]
BY DEF CommandTypes, With

(* All other clients, when client c takes a step.                          *)
LEMMA OneSteps ==
    ASSUME CommandInv, NEW c \in Clients,
           DOMAIN tool' = Clients /\ \A b \in Clients \ {c} : tool'[b] = tool[b],
           ToolTyped(c)', ArchiveFits(c)', filed' \in [Files -> TaskStatuses \cup {Gone}],
           quiet' \in [Clients -> SUBSET Owners],
           \A b \in Clients \ {c} : quiet'[b] \subseteq quiet[b]
               /\ \A g \in Files : OwnerOf[g[1]] \in quiet'[b] => filed'[g] = filed[g]
    PROVE  CommandInv'
<1>1. ASSUME NEW b \in Clients PROVE ToolTyped(b)' /\ ArchiveFits(b)'
    <2>1. CASE b = c
        BY <2>1
    <2>2. CASE b # c
        <3>1. tool'[b] = tool[b]
            BY <2>2
        <3>2. ToolTyped(b)'
            BY <3>1 DEF CommandInv, CommandTypes, ToolTyped
        <3>. QED BY <2>2, <3>1, <3>2, OthersKeep DEF CommandInv
    <2>. QED BY <2>1, <2>2
<1>. QED BY <1>1 DEF CommandInv, CommandTypes

LEMMA ToolSteps ==
    ASSUME CommandInv, NEW c \in Clients, NEW new, With(c, new), UNCHANGED <<filed, quiet>>,
           ToolTyped(c)', ArchiveFits(c)'
    PROVE  CommandInv'
<1>1. DOMAIN tool' = Clients /\ \A b \in Clients \ {c} : tool'[b] = tool[b]
    BY WithIs DEF CommandInv
<1>2. /\ filed' \in [Files -> TaskStatuses \cup {Gone}] /\ quiet' \in [Clients -> SUBSET Owners]
      /\ \A b \in Clients \ {c} : quiet'[b] \subseteq quiet[b]
    BY DEF CommandInv, CommandTypes
<1>. QED BY <1>1, <1>2, OneSteps

(* The tool of a client that does not archive.                             *)
LEMMA PlainTool ==
    ASSUME CommandInv, NEW c \in Clients, NEW new, With(c, new), UNCHANGED <<filed, quiet>>,
           \/ new = NoTool
           \/ new \in ResolvedTool /\ (new.at = "editing" => new.verb \in TaskStatuses)
           \/ new.at = "claiming" /\ new.file \in Files /\ new.box \in Boxes /\ new.verb # "archive"
    PROVE  CommandInv'
<1>1. tool'[c] = new
    BY WithIs DEF CommandInv
<1>2. new.verb # "archive"
    BY DEF NoTool, ResolvedTool, TaskStatuses, Terminal
<1>3. ToolTyped(c)'
    BY <1>1, <1>2 DEF ToolTyped, NoTool, ResolvedTool
<1>4. ArchiveFits(c)'
    BY <1>1, <1>2 DEF ArchiveFits
<1>. QED BY <1>3, <1>4, ToolSteps

(* A step of an archive that leaves the inboxes alone.                     *)
LEMMA ArchiveSteps ==
    ASSUME CommandInv, NEW c \in Clients, NEW new \in ArchiveTool, With(c, new), UNCHANGED <<filed, quiet>>,
           Loaded(c)',
           \A f \in new.plan \cup new.moved : Spared(c, f),
           new.at = "renaming" => new.item \in Files /\ Spared(c, new.item)
    PROVE  CommandInv'
<1>1. tool'[c] = new /\ new.verb = "archive"
    BY WithIs DEF CommandInv, ArchiveTool
<1>2. ToolTyped(c)'
    BY <1>1 DEF ToolTyped, ArchiveTool
<1>3. ArchiveFits(c)'
    BY <1>1 DEF ArchiveFits, Spared
<1>. QED BY <1>2, <1>3, ToolSteps

LEMMA ListInboxFits ==
    ASSUME CommandInv, NEW c \in Clients, NEW o \in Owners, ListInbox(c, o)
    PROVE  CommandInv'
<1>. DEFINE listed == {f \in Files : OwnerOf[f[1]] = o /\ filed[f] # Gone}
            new == [tool[c] EXCEPT !.at = "reading", !.todo = @ \ {o}, !.unread = listed, !.batch = {}]
<1>1. tool[c] \in ArchiveTool /\ ArchiveFits(c) /\ tool[c].at = "listing" /\ tool[c].verb = "archive"
    BY ArchiveTyped DEF ListInbox, Archiving
<1>2. With(c, new) /\ UNCHANGED <<filed, quiet>>
    BY DEF ListInbox
<1>3. new \in ArchiveTool
    BY <1>1 DEF ArchiveTool
<1>4. /\ new.at = "reading" /\ new.todo = tool[c].todo \ {o} /\ new.unread = listed /\ new.batch = {}
      /\ new.nodes = tool[c].nodes /\ new.plan = tool[c].plan /\ new.moved = tool[c].moved
    BY <1>1 DEF ArchiveTool
<1>. HIDE DEF new
<1>5. tool'[c] = new
    BY <1>2, WithIs DEF CommandInv
<1>6. Loaded(c)'
    <2>1. ASSUME NEW g \in Files, OwnerOf[g[1]] \in quiet[c] \ new.todo, filed[g] \notin Terminal \cup {Gone}
          PROVE  g \in new.unread \/ [file |-> g, status |-> filed[g]] \in new.nodes \cup new.batch
        <3>1. CASE OwnerOf[g[1]] = o
            BY <1>4, <2>1, <3>1
        <3>2. CASE OwnerOf[g[1]] # o
            <4>1. OwnerOf[g[1]] \in quiet[c] \ tool[c].todo
                BY <1>4, <2>1, <3>2
            <4>2. [file |-> g, status |-> filed[g]] \in tool[c].nodes
                BY <1>1, <2>1, <4>1 DEF ArchiveFits, Loaded
            <4>. QED BY <1>4, <4>2
        <3>. QED BY <3>1, <3>2
    <2>. QED BY <1>2, <1>4, <1>5, <2>1 DEF Loaded
<1>7. \A f \in new.plan \cup new.moved : Spared(c, f)
    BY <1>1, <1>4 DEF ArchiveFits
<1>. QED BY <1>2, <1>3, <1>4, <1>6, <1>7, ArchiveSteps

LEMMA ReadListedFits ==
    ASSUME CommandInv, NEW c \in Clients, NEW f \in Files, ReadListed(c, f)
    PROVE  CommandInv'
<1>. DEFINE node == [file |-> f, status |-> filed[f]]
            new == [tool[c] EXCEPT !.unread = @ \ {f}, !.batch = @ \cup {node}]
<1>1. tool[c] \in ArchiveTool /\ ArchiveFits(c) /\ tool[c].at = "reading" /\ f \in tool[c].unread /\ tool[c].verb = "archive"
    BY ArchiveTyped DEF ReadListed, Archiving
<1>2. With(c, new) /\ UNCHANGED <<filed, quiet>>
    BY DEF ReadListed
<1>0. node \in Node
    BY DEF ReadListed, CommandInv, CommandTypes, Node
<1>3. new \in ArchiveTool
    BY <1>0, <1>1 DEF ArchiveTool
<1>4. /\ new.at = "reading" /\ new.todo = tool[c].todo /\ new.unread = tool[c].unread \ {f}
      /\ new.batch = tool[c].batch \cup {node}
      /\ new.nodes = tool[c].nodes /\ new.plan = tool[c].plan /\ new.moved = tool[c].moved
    BY <1>1 DEF ArchiveTool
<1>. HIDE DEF new
<1>5. tool'[c] = new
    BY <1>2, WithIs DEF CommandInv
<1>6. Loaded(c)'
    <2>0. Loaded(c)
        BY <1>1 DEF ArchiveFits
    <2>1. ASSUME NEW g \in Files, OwnerOf[g[1]] \in quiet[c] \ new.todo, filed[g] \notin Terminal \cup {Gone}
          PROVE  g \in new.unread \/ [file |-> g, status |-> filed[g]] \in new.nodes \cup new.batch
        <3>1. \/ g \in tool[c].unread
              \/ [file |-> g, status |-> filed[g]] \in tool[c].nodes \cup tool[c].batch
            BY <1>1, <1>4, <2>0, <2>1 DEF Loaded
        <3>. QED BY <1>4, <3>1
    <2>2. PICK o \in Owners : /\ \A g \in tool[c].unread : OwnerOf[g[1]] = o
                              /\ \A n \in tool[c].batch : OwnerOf[n.file[1]] = o
        BY <1>1, <2>0 DEF Loaded
    <2>3. /\ \A g \in new.unread : OwnerOf[g[1]] = o
          /\ \A n \in new.batch : OwnerOf[n.file[1]] = o
        BY <1>1, <1>4, <2>2
    <2>4. \A g \in new.unread : OwnerOf[g[1]] \in quiet[c] => filed[g] # Gone
        BY <1>1, <1>4, <2>0 DEF Loaded
    <2>. QED BY <1>2, <1>4, <1>5, <2>1, <2>3, <2>4 DEF Loaded
<1>7. \A g \in new.plan \cup new.moved : Spared(c, g)
    BY <1>1, <1>4 DEF ArchiveFits
<1>. QED BY <1>2, <1>3, <1>4, <1>6, <1>7, ArchiveSteps

LEMMA ListedVanishedFits ==
    ASSUME CommandInv, NEW c \in Clients, NEW f \in Files, ListedVanished(c, f)
    PROVE  CommandInv'
<1>. DEFINE new == [tool[c] EXCEPT !.at = "listing", !.unread = {}, !.batch = {}]
<1>1. tool[c] \in ArchiveTool /\ ArchiveFits(c) /\ tool[c].at = "reading" /\ f \in tool[c].unread /\ tool[c].verb = "archive"
    BY ArchiveTyped DEF ListedVanished, Archiving
<1>2. With(c, new) /\ UNCHANGED <<filed, quiet>> /\ filed[f] = Gone
    BY DEF ListedVanished
<1>3. new \in ArchiveTool
    BY <1>1 DEF ArchiveTool
<1>4. /\ new.at = "listing" /\ new.todo = tool[c].todo /\ new.unread = {} /\ new.batch = {}
      /\ new.nodes = tool[c].nodes /\ new.plan = tool[c].plan /\ new.moved = tool[c].moved
    BY <1>1 DEF ArchiveTool
<1>. HIDE DEF new
<1>5. tool'[c] = new
    BY <1>2, WithIs DEF CommandInv
<1>6. Loaded(c)'
    <2>0. Loaded(c)
        BY <1>1 DEF ArchiveFits
    <2>1. PICK o \in Owners : /\ \A g \in tool[c].unread : OwnerOf[g[1]] = o
                              /\ \A n \in tool[c].batch : OwnerOf[n.file[1]] = o
        BY <1>1, <2>0 DEF Loaded
    <2>2. o \notin quiet[c]
        BY <1>1, <1>2, <2>0, <2>1 DEF Loaded
    <2>3. ASSUME NEW g \in Files, OwnerOf[g[1]] \in quiet[c] \ new.todo, filed[g] \notin Terminal \cup {Gone}
          PROVE  [file |-> g, status |-> filed[g]] \in new.nodes
        <3>1. \/ g \in tool[c].unread
              \/ [file |-> g, status |-> filed[g]] \in tool[c].nodes \cup tool[c].batch
            BY <1>1, <1>4, <2>0, <2>3 DEF Loaded
        <3>2. [file |-> g, status |-> filed[g]].file = g
            OBVIOUS
        <3>. QED BY <1>4, <2>1, <2>2, <2>3, <3>1, <3>2
    <2>. QED BY <1>2, <1>4, <1>5, <2>1, <2>3 DEF Loaded
<1>7. \A g \in new.plan \cup new.moved : Spared(c, g)
    BY <1>1, <1>4 DEF ArchiveFits
<1>. QED BY <1>2, <1>3, <1>4, <1>6, <1>7, ArchiveSteps

LEMMA InboxLoadedFits ==
    ASSUME CommandInv, NEW c \in Clients, InboxLoaded(c)
    PROVE  CommandInv'
<1>. DEFINE new == [tool[c] EXCEPT !.at = "listing", !.nodes = @ \cup tool[c].batch, !.batch = {}]
<1>1. tool[c] \in ArchiveTool /\ ArchiveFits(c) /\ tool[c].at = "reading" /\ tool[c].unread = {} /\ tool[c].verb = "archive"
    BY ArchiveTyped DEF InboxLoaded, Archiving
<1>2. With(c, new) /\ UNCHANGED <<filed, quiet>>
    BY DEF InboxLoaded
<1>3. new \in ArchiveTool
    BY <1>1 DEF ArchiveTool
<1>4. /\ new.at = "listing" /\ new.todo = tool[c].todo /\ new.unread = {} /\ new.batch = {}
      /\ new.nodes = tool[c].nodes \cup tool[c].batch /\ new.plan = tool[c].plan /\ new.moved = tool[c].moved
    BY <1>1 DEF ArchiveTool
<1>. HIDE DEF new
<1>5. tool'[c] = new
    BY <1>2, WithIs DEF CommandInv
<1>6. Loaded(c)'
    <2>0. Loaded(c) /\ \E o \in Owners : TRUE
        BY <1>1 DEF ArchiveFits, Loaded
    <2>1. ASSUME NEW g \in Files, OwnerOf[g[1]] \in quiet[c] \ new.todo, filed[g] \notin Terminal \cup {Gone}
          PROVE  [file |-> g, status |-> filed[g]] \in new.nodes
        BY <1>1, <1>4, <2>0, <2>1 DEF Loaded
    <2>. QED BY <1>2, <1>4, <1>5, <2>0, <2>1 DEF Loaded
<1>7. \A g \in new.plan \cup new.moved : Spared(c, g)
    BY <1>1, <1>4 DEF ArchiveFits
<1>. QED BY <1>2, <1>3, <1>4, <1>6, <1>7, ArchiveSteps

(* What is found eligible once all inboxes are read, no live task needs.   *)
LEMMA EligibleIsSpared ==
    ASSUME CommandInv, NEW c \in Clients, Archiving(c, "listing"), tool[c].todo = {}, NEW o,
           NEW f \in Eligible(tool[c].nodes, o)
    PROVE  Spared(c, f)
<1>. SUFFICES ASSUME NEW g \in Files, f[1] \in Requires[g[1]], OwnerOf[g[1]] \in quiet[c],
                     filed[g] \notin Terminal \cup {Gone}
              PROVE  FALSE
    BY DEF Spared
<1>1. tool[c] \in ArchiveTool /\ Loaded(c) /\ tool[c].at = "listing"
    BY ArchiveTyped DEF Archiving, ArchiveFits
<1>2. [file |-> g, status |-> filed[g]] \in tool[c].nodes
    BY <1>1 DEF Loaded
<1>3. ~Needed(tool[c].nodes, f[1])
    BY DEF Eligible
<1>. QED BY <1>2, <1>3 DEF Needed

LEMMA EligibleType ==
    ASSUME CommandInv, NEW c \in Clients, tool[c].verb = "archive", NEW o
    PROVE  Eligible(tool[c].nodes, o) \subseteq Files
<1>1. tool[c].nodes \subseteq Node
    BY ArchiveTyped DEF ArchiveTool
<1>. QED BY <1>1 DEF Eligible, Node

LEMMA PreviewFits ==
    ASSUME CommandInv, NEW c \in Clients, Preview(c)
    PROVE  CommandInv'
<1>. DEFINE found == Eligible(tool[c].nodes, tool[c].agent)
            again == [tool[c] EXCEPT !.second = TRUE, !.shown = found, !.nodes = {}, !.todo = Owners]
            go    == [tool[c] EXCEPT !.at = "moving", !.plan = found, !.nodes = {}]
<1>1. tool[c] \in ArchiveTool /\ ArchiveFits(c) /\ tool[c].at = "listing" /\ tool[c].todo = {} /\ tool[c].verb = "archive"
    BY ArchiveTyped DEF Preview, Archiving
<1>2. UNCHANGED <<filed, quiet>> /\ (With(c, NoTool) \/ With(c, again) \/ With(c, go))
    BY DEF Preview, Ends, With
<1>3. found \subseteq Files
    BY <1>1, EligibleType
<1>4. \A f \in found : Spared(c, f)
    BY EligibleIsSpared DEF Preview
<1>. HIDE DEF found
<1>5. CASE With(c, NoTool)
    BY <1>2, <1>5, PlainTool
<1>6. CASE With(c, again)
    <2>1. again \in ArchiveTool
        BY <1>1, <1>3 DEF ArchiveTool
    <2>2. /\ again.at = "listing" /\ again.todo = Owners /\ again.unread = {} /\ again.batch = {}
          /\ again.plan = tool[c].plan /\ again.moved = tool[c].moved
        BY <1>1 DEF ArchiveTool, ArchiveFits, Loaded
    <2>. HIDE DEF again
    <2>3. tool'[c] = again
        BY <1>6, WithIs DEF CommandInv
    <2>4. Loaded(c)'
        <3>1. quiet[c] \subseteq Owners /\ \E o \in Owners : TRUE
            BY <1>1 DEF CommandInv, CommandTypes, ArchiveTool
        <3>. QED BY <1>2, <2>2, <2>3, <3>1 DEF Loaded
    <2>5. \A f \in again.plan \cup again.moved : Spared(c, f)
        BY <1>1, <2>2 DEF ArchiveFits
    <2>. QED BY <1>2, <1>6, <2>1, <2>2, <2>4, <2>5, ArchiveSteps
<1>7. CASE With(c, go)
    <2>1. go \in ArchiveTool
        BY <1>1, <1>3 DEF ArchiveTool
    <2>2. go.at = "moving" /\ go.plan = found /\ go.moved = tool[c].moved
        BY <1>1 DEF ArchiveTool
    <2>. HIDE DEF go
    <2>3. Loaded(c)'
        BY <1>7, <2>2, WithIs DEF CommandInv, Loaded
    <2>4. \A f \in go.plan \cup go.moved : Spared(c, f)
        BY <1>1, <1>4, <2>2 DEF ArchiveFits
    <2>. QED BY <1>2, <1>7, <2>1, <2>2, <2>3, <2>4, ArchiveSteps
<1>. QED BY <1>2, <1>5, <1>6, <1>7

(* The steps of the moving part that leave the inboxes alone.              *)
LEMMA MovingFits ==
    ASSUME CommandInv, NEW c \in Clients, ArchiveReports(c) \/ (\E f \in Files : ProbeShelf(c, f))
    PROVE  CommandInv'
<1>1. tool[c] \in ArchiveTool /\ ArchiveFits(c) /\ tool[c].at = "moving" /\ tool[c].verb = "archive"
    BY ArchiveTyped DEF ArchiveReports, ProbeShelf, Archiving
<1>2. UNCHANGED <<filed, quiet>>
    BY DEF ArchiveReports, ProbeShelf
<1>3. PICK new \in ArchiveTool :
        /\ With(c, new) /\ new.moved = tool[c].moved /\ new.plan \subseteq tool[c].plan
        /\ new.at \in {"archived", "renaming"} /\ (new.at = "renaming" => new.item \in tool[c].plan)
    <2>1. CASE ArchiveReports(c)
        <3>. DEFINE new == [tool[c] EXCEPT !.at = "archived"]
        <3>1. new \in ArchiveTool /\ new.at = "archived" /\ new.moved = tool[c].moved /\ new.plan = tool[c].plan
            BY <1>1 DEF ArchiveTool
        <3>. QED BY <2>1, <3>1 DEF ArchiveReports
    <2>2. ASSUME NEW f \in Files, ProbeShelf(c, f)
          PROVE  \E new \in ArchiveTool :
                    /\ With(c, new) /\ new.moved = tool[c].moved /\ new.plan \subseteq tool[c].plan
                    /\ new.at \in {"archived", "renaming"} /\ (new.at = "renaming" => new.item \in tool[c].plan)
        <3>. DEFINE stop == [tool[c] EXCEPT !.at = "archived", !.plan = {}]
                    go == [tool[c] EXCEPT !.at = "renaming", !.plan = @ \ {f}, !.item = f]
        <3>1. stop \in ArchiveTool /\ stop.at = "archived" /\ stop.moved = tool[c].moved /\ stop.plan = {}
            BY <1>1 DEF ArchiveTool
        <3>2. /\ go \in ArchiveTool /\ go.at = "renaming" /\ go.moved = tool[c].moved
              /\ go.plan = tool[c].plan \ {f} /\ go.item = f
            BY <1>1 DEF ArchiveTool
        <3>3. f \in tool[c].plan /\ (With(c, stop) \/ With(c, go))
            BY <2>2 DEF ProbeShelf
        <3>. HIDE DEF stop, go
        <3>. QED BY <3>1, <3>2, <3>3
    <2>. QED BY <2>1, <2>2
<1>4. Loaded(c)'
    BY <1>3, WithIs DEF CommandInv, Loaded
<1>5. tool[c].plan \subseteq Files
    BY <1>1 DEF ArchiveTool
<1>. QED BY <1>1, <1>2, <1>3, <1>4, <1>5, ArchiveSteps DEF ArchiveFits

(* What client c has done with a file, seen by the others.                 *)
LEMMA PutIs ==
    ASSUME CommandInv, NEW c \in Clients, NEW f \in Files, NEW s \in TaskStatuses \cup {Gone}, Put(c, f, s)
    PROVE  /\ filed' \in [Files -> TaskStatuses \cup {Gone}] /\ quiet' \in [Clients -> SUBSET Owners]
           /\ filed'[f] = s /\ \A g \in Files \ {f} : filed'[g] = filed[g]
           /\ quiet'[c] = quiet[c]
           /\ \A b \in Clients \ {c} : quiet'[b] = quiet[b] \ {OwnerOf[f[1]]}
BY DEF Put, CommandInv, CommandTypes

LEMMA PutSeen ==
    ASSUME CommandInv, NEW c \in Clients, NEW f \in Files, NEW s \in TaskStatuses \cup {Gone}, Put(c, f, s)
    PROVE  \A b \in Clients \ {c} : quiet'[b] \subseteq quiet[b]
               /\ \A g \in Files : OwnerOf[g[1]] \in quiet'[b] => filed'[g] = filed[g]
<1>1. /\ \A g \in Files \ {f} : filed'[g] = filed[g]
      /\ \A b \in Clients \ {c} : quiet'[b] = quiet[b] \ {OwnerOf[f[1]]}
    BY PutIs
<1>. QED BY <1>1

LEMMA BeginArchiveFits ==
    ASSUME CommandInv, NEW c \in Clients, NEW o \in Owners, NEW yes \in BOOLEAN, BeginArchive(c, o, yes)
    PROVE  CommandInv'
<1>. DEFINE new == [at |-> "listing", verb |-> "archive", agent |-> o, yes |-> yes, second |-> FALSE,
                    shown |-> {}, todo |-> Owners, unread |-> {}, batch |-> {}, nodes |-> {},
                    plan |-> {}, moved |-> {}, item |-> Gone]
<1>1. new \in ArchiveTool /\ With(c, new)
    BY DEF ArchiveTool, BeginArchive, Starts, With
<1>2. tool'[c] = new /\ DOMAIN tool' = Clients /\ \A b \in Clients \ {c} : tool'[b] = tool[b]
    BY <1>1, WithIs DEF CommandInv
<1>3. /\ new.verb = "archive" /\ new.at = "listing" /\ new.todo = Owners /\ new.unread = {} /\ new.batch = {}
      /\ new.plan = {} /\ new.moved = {}
    OBVIOUS
<1>. HIDE DEF new
<1>4. /\ filed' = filed /\ quiet' \in [Clients -> SUBSET Owners] /\ quiet'[c] = Owners
      /\ \A b \in Clients \ {c} : quiet'[b] = quiet[b]
    BY DEF BeginArchive, CommandInv, CommandTypes
<1>5. ToolTyped(c)'
    BY <1>1, <1>2, <1>3 DEF ToolTyped
<1>6. Loaded(c)'
    BY <1>2, <1>3, <1>4 DEF Loaded
<1>7. ArchiveFits(c)'
    BY <1>2, <1>3, <1>6 DEF ArchiveFits
<1>8. filed' \in [Files -> TaskStatuses \cup {Gone}]
    BY <1>4 DEF CommandInv, CommandTypes
<1>. QED BY <1>2, <1>4, <1>5, <1>7, <1>8, OneSteps

(* A client's own moves take files away, which frees tasks and binds none. *)
LEMMA MoveItemFits ==
    ASSUME CommandInv, NEW c \in Clients, MoveItem(c)
    PROVE  CommandInv'
<1>. DEFINE f == tool[c].item
            stop == [tool[c] EXCEPT !.at = "archived", !.plan = {}, !.item = Gone]
            go   == [tool[c] EXCEPT !.at = "moving", !.moved = @ \cup {f}, !.item = Gone]
<1>1. tool[c] \in ArchiveTool /\ ArchiveFits(c) /\ tool[c].at = "renaming" /\ tool[c].verb = "archive"
    BY ArchiveTyped DEF MoveItem, Archiving
<1>2. CASE With(c, stop) /\ UNCHANGED <<filed, quiet>>
    <2>1. stop \in ArchiveTool /\ stop.at = "archived" /\ stop.plan = {} /\ stop.moved = tool[c].moved
        BY <1>1 DEF ArchiveTool
    <2>. HIDE DEF stop
    <2>2. Loaded(c)'
        BY <1>2, <2>1, WithIs DEF CommandInv, Loaded
    <2>. QED BY <1>1, <1>2, <2>1, <2>2, ArchiveSteps DEF ArchiveFits
<1>3. CASE filed[f] # Gone /\ Put(c, f, Gone) /\ With(c, go)
    <2>0. f \in Files
        BY <1>1 DEF CommandInv, CommandTypes, ToolTyped
    <2>1. /\ go \in ArchiveTool /\ go.at = "moving" /\ go.moved = tool[c].moved \cup {f} /\ go.verb = "archive"
          /\ go.plan = tool[c].plan
        BY <1>1, <2>0 DEF ArchiveTool
    <2>. HIDE DEF go
    <2>2. tool'[c] = go /\ DOMAIN tool' = Clients /\ \A b \in Clients \ {c} : tool'[b] = tool[b]
        BY <1>3, WithIs DEF CommandInv
    <2>3. /\ filed' \in [Files -> TaskStatuses \cup {Gone}] /\ quiet' \in [Clients -> SUBSET Owners]
          /\ quiet'[c] = quiet[c] /\ \A g \in Files : filed'[g] \in {filed[g], Gone}
        <3>1. /\ filed' \in [Files -> TaskStatuses \cup {Gone}] /\ quiet' \in [Clients -> SUBSET Owners]
              /\ filed'[f] = Gone /\ \A g \in Files \ {f} : filed'[g] = filed[g]
              /\ quiet'[c] = quiet[c]
            BY <1>3, <2>0, PutIs
        <3>. QED BY <3>1
    <2>4. \A g \in tool[c].plan \cup tool[c].moved \cup {f} : Spared(c, g)
        BY <1>1 DEF ArchiveFits
    <2>5. \A g \in go.plan \cup go.moved : Spared(c, g)'
        BY <2>1, <2>3, <2>4 DEF Spared
    <2>6. ToolTyped(c)'
        BY <2>1, <2>2 DEF ToolTyped
    <2>7. ArchiveFits(c)'
        BY <2>1, <2>2, <2>5 DEF ArchiveFits, Loaded
    <2>8. \A b \in Clients \ {c} : quiet'[b] \subseteq quiet[b]
              /\ \A g \in Files : OwnerOf[g[1]] \in quiet'[b] => filed'[g] = filed[g]
        BY <1>3, <2>0, PutSeen
    <2>. QED BY <2>2, <2>3, <2>6, <2>7, <2>8, OneSteps
<1>. QED BY <1>2, <1>3 DEF MoveItem

LEMMA PutFits ==
    ASSUME CommandInv, NEW c \in Clients, NEW f \in Files, NEW s \in TaskStatuses \cup {Gone}, Put(c, f, s),
           Ends(c)
    PROVE  CommandInv'
<1>1. With(c, NoTool)
    BY DEF Ends, With
<1>2. tool'[c] = NoTool /\ DOMAIN tool' = Clients /\ \A b \in Clients \ {c} : tool'[b] = tool[b]
    BY <1>1, WithIs DEF CommandInv
<1>3. ToolTyped(c)' /\ ArchiveFits(c)'
    BY <1>2 DEF ToolTyped, ArchiveFits, NoTool
<1>4. filed' \in [Files -> TaskStatuses \cup {Gone}] /\ quiet' \in [Clients -> SUBSET Owners]
    BY PutIs
<1>. QED BY <1>2, <1>3, <1>4, PutSeen, OneSteps

LEMMA MoveClaimFits ==
    ASSUME CommandInv, NEW c \in Clients, MoveClaim(c)
    PROVE  CommandInv'
<1>1. tool[c].at = "claiming" /\ tool[c].file \in Files /\ tool[c].box \in Boxes /\ With(c, NoTool)
    BY DEF MoveClaim, Ends, With, CommandInv, CommandTypes, ToolTyped
<1>2. CASE UNCHANGED <<filed, quiet>>
    BY <1>1, <1>2, PlainTool
<1>3. CASE ~UNCHANGED <<filed, quiet>>
    <2>. DEFINE f == tool[c].file
                t == <<f[1], tool[c].box>>
    <2>1. t \in Files /\ t[1] = f[1]
        BY <1>1, FilesAre
    <2>2. /\ filed' = [filed EXCEPT ![t] = filed[f], ![f] = Gone]
          /\ quiet' = [u \in Clients |-> IF u = c THEN quiet[u] ELSE quiet[u] \ {OwnerOf[f[1]]}]
        BY <1>3 DEF MoveClaim
    <2>3. f \in Files
        BY <1>1
    <2>. HIDE DEF f, t
    <2>4. filed' \in [Files -> TaskStatuses \cup {Gone}] /\ quiet' \in [Clients -> SUBSET Owners]
        BY <2>1, <2>2, <2>3 DEF CommandInv, CommandTypes
    <2>5. \A g \in Files : OwnerOf[g[1]] # OwnerOf[f[1]] => filed'[g] = filed[g]
        BY <2>1, <2>2, <2>3 DEF CommandInv, CommandTypes
    <2>6. \A b \in Clients \ {c} : quiet'[b] = quiet[b] \ {OwnerOf[f[1]]}
        BY <2>2
    <2>7. tool'[c] = NoTool /\ DOMAIN tool' = Clients /\ \A b \in Clients \ {c} : tool'[b] = tool[b]
        BY <1>1, WithIs DEF CommandInv
    <2>8. ToolTyped(c)' /\ ArchiveFits(c)'
        BY <2>7 DEF ToolTyped, ArchiveFits, NoTool
    <2>. QED BY <2>4, <2>5, <2>6, <2>7, <2>8, OneSteps
<1>. QED BY <1>2, <1>3

(* The commands on a single task.                                          *)
LEMMA SingleFits ==
    ASSUME CommandInv, NEW c \in Clients,
           \/ \E verb \in {"show", "claim"} \cup TaskStatuses, f \in Files : ResolveTask(c, verb, f[1], f)
           \/ ShowTask(c) \/ ReadForEdit(c) \/ \E b \in Boxes : ProbeClaim(c, b)
    PROVE  CommandInv'
<1>. SUFFICES \E new : /\ With(c, new) /\ UNCHANGED <<filed, quiet>>
                       /\ \/ new = NoTool
                          \/ new \in ResolvedTool /\ (new.at = "editing" => new.verb \in TaskStatuses)
                          \/ new.at = "claiming" /\ new.file \in Files /\ new.box \in Boxes /\ new.verb # "archive"
    BY PlainTool
<1>1. tool[c].at = "resolved" => tool[c] \in ResolvedTool
    BY DEF CommandInv, CommandTypes, ToolTyped
<1>2. ASSUME NEW verb \in {"show", "claim"} \cup TaskStatuses, NEW f \in Files, ResolveTask(c, verb, f[1], f)
      PROVE  \E new : /\ With(c, new) /\ UNCHANGED <<filed, quiet>>
                      /\ new \in ResolvedTool /\ new.at # "editing"
    <2>. DEFINE new == [at |-> "resolved", verb |-> verb, file |-> f]
    <2>1. new \in ResolvedTool /\ new.at # "editing"
        BY DEF ResolvedTool
    <2>2. With(c, new) /\ UNCHANGED <<filed, quiet>>
        BY <1>2 DEF ResolveTask, Starts, With
    <2>. QED BY <2>1, <2>2
<1>3. CASE ShowTask(c)
    BY <1>3 DEF ShowTask, Ends, With
<1>4. CASE ReadForEdit(c)
    <2>1. CASE With(c, NoTool)
        BY <1>4, <2>1 DEF ReadForEdit
    <2>2. CASE With(c, [tool[c] EXCEPT !.at = "editing"])
        <3>. DEFINE new == [tool[c] EXCEPT !.at = "editing"]
        <3>1. new \in ResolvedTool /\ new.verb = tool[c].verb
            BY <1>1, <1>4 DEF ReadForEdit, ResolvedTool
        <3>2. With(c, new) /\ UNCHANGED <<filed, quiet>> /\ tool[c].verb \in TaskStatuses
            BY <1>1, <1>4, <2>2 DEF ReadForEdit
        <3>. HIDE DEF new
        <3>. QED BY <3>1, <3>2
    <2>. QED BY <1>4, <2>1, <2>2 DEF ReadForEdit, Ends, With
<1>5. ASSUME NEW b \in Boxes, ProbeClaim(c, b)
      PROVE  \E new : /\ With(c, new) /\ UNCHANGED <<filed, quiet>>
                      /\ \/ new = NoTool
                         \/ new.at = "claiming" /\ new.file \in Files /\ new.box \in Boxes /\ new.verb # "archive"
    <2>1. tool[c].file \in Files /\ UNCHANGED <<filed, quiet>>
        BY <1>1, <1>5 DEF ProbeClaim, ResolvedTool
    <2>2. With(c, NoTool) \/ With(c, [at |-> "claiming", verb |-> "claim", file |-> tool[c].file, box |-> b])
        BY <1>5 DEF ProbeClaim, Ends, With
    <2>. QED BY <2>1, <2>2
<1>. QED BY <1>2, <1>3, <1>4, <1>5

LEMMA CommandInit == TasksInit => CommandInv
<1>. SUFFICES ASSUME TasksInit PROVE CommandInv
    OBVIOUS
<1>1. filed \in [Files -> TaskStatuses \cup {Gone}]
    BY DEF TasksInit, TaskStatuses, Terminal
<1>2. \A c \in Clients : ToolTyped(c) /\ ArchiveFits(c)
    BY DEF TasksInit, ToolTyped, ArchiveFits, NoTool
<1>. QED BY <1>1, <1>2 DEF CommandInv, CommandTypes, TasksInit

LEMMA CommandStep == CommandInv /\ [TasksNext]_taskVars => CommandInv'
<1>. SUFFICES ASSUME CommandInv, [TasksNext]_taskVars PROVE CommandInv'
    OBVIOUS
<1>1. CASE UNCHANGED taskVars
    BY <1>1 DEF taskVars, CommandInv, CommandTypes, ToolTyped, ArchiveFits, Loaded, Spared
<1>2. ASSUME NEW c \in Clients, NEW o \in Owners, (\E yes \in BOOLEAN : BeginArchive(c, o, yes)) \/ ListInbox(c, o)
      PROVE  CommandInv'
    BY <1>2, BeginArchiveFits, ListInboxFits
<1>3. ASSUME NEW c \in Clients, NEW f \in Files, ReadListed(c, f) \/ ListedVanished(c, f) \/ ProbeShelf(c, f)
      PROVE  CommandInv'
    BY <1>3, ReadListedFits, ListedVanishedFits, MovingFits
<1>4. ASSUME NEW c \in Clients, InboxLoaded(c) \/ Preview(c) \/ MoveItem(c) \/ ArchiveReports(c)
      PROVE  CommandInv'
    BY <1>4, InboxLoadedFits, PreviewFits, MoveItemFits, MovingFits
<1>5. ASSUME NEW c \in Clients, NEW t \in Errands, SendTask(c, t)
      PROVE  CommandInv'
    <2>1. <<t, Plain>> \in Files /\ "pending" \in TaskStatuses
        BY DEF Files, TaskStatuses
    <2>2. Put(c, <<t, Plain>>, "pending") /\ Ends(c)
        BY <1>5 DEF SendTask, Starts, Ends
    <2>. QED BY <2>1, <2>2, PutFits
<1>6. ASSUME NEW c \in Clients, WriteEdited(c)
      PROVE  CommandInv'
    <2>1. tool[c].file \in Files /\ tool[c].verb \in TaskStatuses
        BY <1>6 DEF WriteEdited, CommandInv, CommandTypes, ToolTyped, ResolvedTool
    <2>2. Put(c, tool[c].file, tool[c].verb) /\ Ends(c)
        BY <1>6 DEF WriteEdited
    <2>. QED BY <2>1, <2>2, PutFits
<1>7. ASSUME NEW c \in Clients,
             \/ \E verb \in {"show", "claim"} \cup TaskStatuses, f \in Files : ResolveTask(c, verb, f[1], f)
             \/ ShowTask(c) \/ ReadForEdit(c) \/ \E b \in Boxes : ProbeClaim(c, b)
      PROVE  CommandInv'
    BY <1>7, SingleFits
<1>8. CASE TasksNext
    BY <1>2, <1>3, <1>4, <1>5, <1>6, <1>7, <1>8, MoveClaimFits DEF TasksNext
<1>. QED BY <1>1, <1>8

LEMMA CommandInvariant == TasksSpec => []CommandInv
<1>. QED BY CommandInit, CommandStep, PTL DEF TasksSpec

\* No task is archived that a live task of any agent depends on, unless the inbox
\* of that task changed while the command ran, whatever the other commands do
\* (previewStoredTerminalTaskArchive, archiveStoredTerminalTasks, task-archive-store.ts).
THEOREM DependentsSpared == TasksSpec => []DependentsKept
<1>1. CommandInv => DependentsKept
    BY DEF CommandInv, ArchiveFits, Spared, DependentsKept
<1>. QED BY <1>1, CommandInvariant, PTL
=============================================================================
