----------------------- MODULE ConversationBroker_proofs -----------------------
(***************************************************************************)
(* Proofs about the conversation broker, for any agents, requests, budgets *)
(* and bounds: one run per agent, answers that reach only the run they are *)
(* for, an end that is told as what settled the run first, and no recorded *)
(* edge forgotten between an accept and the end of its source run.         *)
(***************************************************************************)
EXTENDS ConversationBroker, TLAPS

Underlock == {"planning", "joining", "recording", "late"}

Accepts == {"none", "acquiring", "accepted", "rejected"} \cup Underlock

Types ==
    /\ lock \in Handoffs \cup {Free, Other} /\ faults \in Nat
    /\ report \in [Runs -> Reports \cup {"none"}]
    /\ active \in [Agents -> Runs \cup {0}] /\ stopping \subseteq Runs
    /\ phase \in [Runs -> Phases]
    /\ agent \in [Runs -> Agents \cup {NoAgent}]
    /\ cause \in [Runs -> Causes \cup {"none"}]
    /\ gate \in [Runs -> Agents \cup {NoAgent}] /\ asks \in [Runs -> BOOLEAN]
    /\ deferred \in [Runs -> Handoffs \cup {0}]
    /\ accept \in [Handoffs -> Accepts]
    /\ edge \in [Handoffs -> {"none", "deferred", "overwritten", "reading", "checking",
                              "running", "failing", "failed", "done"}]
    /\ source \in [Handoffs -> Runs \cup {0}]
    /\ target \in [Handoffs -> Agents \cup {NoAgent}]

\* A run that has been reserved has an agent, and an accept that has begun has
\* both ends; what is recorded has been accepted.
Begun ==
    /\ \A r \in Runs : phase[r] # "none" => agent[r] \in Agents
    /\ \A h \in Handoffs : accept[h] # "none" => source[h] \in Runs /\ target[h] \in Agents
    /\ \A h \in Handoffs : edge[h] # "none" => accept[h] # "none"
    /\ \A r \in Runs : deferred[r] # 0 => accept[deferred[r]] # "none"

\* What may have settled a run, and what it has told, by where its driver is.
Truthful(r) ==
    \/ report[r] = "none" /\ faults > 0
    \/ report[r] = "completed" /\ cause[r] = "completed"
    \/ report[r] = "timed_out" /\ cause[r] = "timeout"
    \/ report[r] = "cancelled" /\ cause[r] = "cancel"
    \/ report[r] = "failed"    /\ cause[r] \notin {"completed", "timeout"}

Tells(r) ==
    /\ phase[r] \in {"none", "starting", "stopped", "unstarted", "announcing"} =>
          cause[r] \in {"none", "cancel"}
    /\ phase[r] = "stopped" => cause[r] = "cancel"
    /\ phase[r] \in {"aborting", "telling", "reporting"} => Settled(r)
    /\ phase[r] \in {"none", "starting", "stopped", "unstarted", "announcing", "working",
                    "aborting", "telling", "reporting"} => report[r] = "none"
    /\ phase[r] \in {"ending", "waiting", "over"} => Truthful(r)

Telling == \A r \in Runs : Tells(r)

\* Whoever works under the lock has it, and a deferred edge is its source's one.
Waiting ==
    /\ \A h \in Handoffs : accept[h] \in Underlock => lock = h
    /\ \A h \in Handoffs : edge[h] = "deferred" =>
          /\ deferred[source[h]] = h /\ accept[h] \in {"late", "accepted"}
          /\ phase[source[h]] \in {"waiting", "over"} /\ cause[source[h]] = "completed" =>
                accept[h] = "late"

BrokerInv == Types /\ Begun /\ OneRunPerAgent /\ ApprovalsAreLive /\ Telling /\ Waiting

-----------------------------------------------------------------------------

LEMMA Numbers ==
    /\ Runs \subseteq Nat /\ 0 \notin Runs /\ Handoffs \subseteq Nat /\ 0 \notin Handoffs
    /\ NoAgent \notin Agents /\ \A q \in Requests : ForAgent[q] \in Agents
    /\ Free \notin Handoffs /\ Other \notin Handoffs /\ Free # Other
BY BrokerAssumption DEF Runs, Handoffs

LEMMA BrokerStarts == Init => BrokerInv
<1>. SUFFICES ASSUME Init PROVE BrokerInv
    OBVIOUS
<1>1. Types
    BY Numbers DEF Init, Types, Phases, Accepts
<1>2. Begun /\ OneRunPerAgent /\ ApprovalsAreLive
    BY DEF Init, Begun, OneRunPerAgent, ApprovalsAreLive, Driven
<1>3. Telling /\ Waiting
    BY DEF Init, Telling, Tells, Waiting, Underlock, Settled
<1>. QED BY <1>1, <1>2, <1>3 DEF BrokerInv

-----------------------------------------------------------------------------
(* Frames: what the steps share.                                            *)

LEMMA PhaseAt ==
    ASSUME Types, NEW r \in Runs, NEW p \in Phases, At(r, p)
    PROVE  /\ phase' \in [Runs -> Phases]
           /\ \A s \in Runs : phase'[s] = IF s = r THEN p ELSE phase[s]
BY DEF Types, At

LEMMA TellsKept ==
    ASSUME NEW s \in Runs, Tells(s), phase'[s] = phase[s], report'[s] = report[s],
           cause'[s] = cause[s], faults' = faults \/ (faults \in Nat /\ faults' = faults + 1)
    PROVE  Tells(s)'
BY DEF Tells, Truthful, Settled

LEMMA WaitingKept ==
    ASSUME Types, Begun, Waiting, UNCHANGED <<lock, accept, edge, deferred, source>>,
           \A s \in Runs : phase'[s] \in {"waiting", "over"} /\ cause'[s] = "completed" =>
                              phase[s] \in {"waiting", "over"} /\ cause[s] = "completed"
    PROVE  Waiting'
<1>1. \A h \in Handoffs : edge[h] = "deferred" => source[h] \in Runs
    BY DEF Begun
<1>. QED BY <1>1 DEF Waiting

\* A driver goes on from one phase to another before its end.
DriverMoves(r, p) ==
    /\ phase[r] \notin {"none", "waiting", "over"} /\ p \notin {"none", "waiting", "over"}
    /\ p = "working" => phase[r] = "announcing"
    /\ phase[r] = "working" => Settled(r)
    /\ At(r, p)
    /\ faults' = faults \/ Fails(r)
    /\ UNCHANGED <<storeVars, tableVars, closeVars, turnVars, settleVars,
                   agent, role, launchVars, acceptVars>>

LEMMA DriverKeeps ==
    ASSUME BrokerInv, NEW r \in Runs, NEW p \in Phases, DriverMoves(r, p),
           report' \in [Runs -> Reports \cup {"none"}],
           \A s \in Runs : s # r => report'[s] = report[s],
           Tells(r)'
    PROVE  BrokerInv'
<1> USE DEF storeVars, logVars, tableVars, closeVars, turnVars, settleVars, driveVars, launchVars, acceptVars
<1>1. /\ phase' \in [Runs -> Phases]
      /\ \A s \in Runs : phase'[s] = IF s = r THEN p ELSE phase[s]
    BY PhaseAt DEF BrokerInv, DriverMoves
<1>2. faults \in Nat /\ (faults' = faults \/ faults' = faults + 1)
    BY DEF DriverMoves, Fails, BrokerInv, Types
<1>3. Types'
    BY <1>1, <1>2 DEF BrokerInv, Types, DriverMoves
<1>4. Begun'
    BY <1>1 DEF BrokerInv, Begun, DriverMoves
<1>5. OneRunPerAgent' /\ ApprovalsAreLive'
    BY <1>1 DEF BrokerInv, OneRunPerAgent, ApprovalsAreLive, Driven, Settled, DriverMoves
<1>6. Telling'
    BY <1>1, <1>2, TellsKept DEF BrokerInv, Telling, DriverMoves
<1>7. Waiting'
    BY <1>1, WaitingKept DEF BrokerInv, DriverMoves
<1>. QED BY <1>3, <1>4, <1>5, <1>6, <1>7 DEF BrokerInv

LEMMA DriveStep ==
    ASSUME BrokerInv, NEW r \in Runs,
           GetSession(r) \/ Announce(r) \/ Wake(r) \/ Aborted(r) \/ Tell(r) \/ Report(r)
    PROVE  BrokerInv'
<1>1. Types /\ Tells(r) /\ report[r] \in Reports \cup {"none"} /\ cause[r] \in Causes \cup {"none"}
      /\ faults \in Nat /\ report \in [Runs -> Reports \cup {"none"}]
    BY DEF BrokerInv, Telling, Types
<1>2. CASE GetSession(r)
    <2>1. PICK p \in {"stopped", "announcing", "unstarted"} :
              At(r, p) /\ (p = "stopped" => Settled(r)) /\ UNCHANGED <<report, faults, cause>>
        BY <1>2 DEF GetSession, logVars, settleVars
    <2>2. p \in Phases /\ phase[r] = "starting"
        BY <1>2 DEF Phases, GetSession
    <2>3. phase'[r] = p
        BY <1>1, <2>1, <2>2, PhaseAt
    <2>4. Tells(r)'
        BY <1>1, <2>1, <2>2, <2>3 DEF Tells, Settled
    <2>5. DriverMoves(r, p)
        BY <1>2, <2>1, <2>2 DEF DriverMoves, GetSession, logVars
    <2>. QED BY <1>1, <2>1, <2>2, <2>4, <2>5, DriverKeeps
<1>3. CASE Announce(r)
    <2>1. PICK p \in {"working", "ending"} :
              /\ At(r, p) /\ UNCHANGED <<report, cause>>
              /\ p = "working" => faults' = faults
              /\ p = "ending" => Fails(r)
        BY <1>3 DEF Announce, settleVars
    <2>2. p \in Phases /\ phase[r] = "announcing"
        BY <1>3, <2>1 DEF Phases, Announce
    <2>3. phase'[r] = p
        BY <1>1, <2>1, <2>2, PhaseAt
    <2>4. Tells(r)'
        BY <1>1, <2>1, <2>2, <2>3 DEF Tells, Truthful, Fails
    <2>5. DriverMoves(r, p)
        BY <1>3, <2>1, <2>2 DEF DriverMoves, Announce, logVars
    <2>. QED BY <1>1, <2>1, <2>2, <2>4, <2>5, DriverKeeps
<1>4. CASE Wake(r)
    <2>1. PICK p \in {"aborting", "telling", "reporting"} :
              At(r, p) /\ UNCHANGED <<report, faults, cause>>
        BY <1>4 DEF Wake, logVars, settleVars
    <2>2. p \in Phases /\ phase[r] = "working" /\ Settled(r)
        BY <1>4, <2>1 DEF Phases, Wake
    <2>3. phase'[r] = p
        BY <1>1, <2>1, <2>2, PhaseAt
    <2>4. Tells(r)'
        BY <1>1, <2>1, <2>2, <2>3 DEF Tells, Settled
    <2>5. DriverMoves(r, p)
        BY <1>4, <2>1, <2>2 DEF DriverMoves, Wake, logVars
    <2>. QED BY <1>1, <2>1, <2>2, <2>4, <2>5, DriverKeeps
<1>5. CASE Aborted(r)
    <2>1. At(r, "reporting") /\ UNCHANGED <<report, faults, cause>>
        BY <1>5 DEF Aborted, logVars, settleVars
    <2>2. "reporting" \in Phases /\ phase[r] = "aborting"
        BY <1>5 DEF Phases, Aborted
    <2>3. phase'[r] = "reporting"
        BY <1>1, <2>1, <2>2, PhaseAt
    <2>4. Tells(r)'
        BY <1>1, <2>1, <2>2, <2>3 DEF Tells, Settled
    <2>5. DriverMoves(r, "reporting")
        BY <1>5, <2>1, <2>2 DEF DriverMoves, Aborted, logVars
    <2>. QED BY <1>1, <2>1, <2>2, <2>4, <2>5, DriverKeeps
<1>6. CASE Tell(r)
    <2>1. PICK p \in {"reporting", "ending"} :
              /\ At(r, p) /\ UNCHANGED <<report, cause>>
              /\ p = "reporting" => faults' = faults
              /\ p = "ending" => Fails(r)
        BY <1>6 DEF Tell, settleVars
    <2>2. p \in Phases /\ phase[r] = "telling"
        BY <1>6, <2>1 DEF Phases, Tell
    <2>3. phase'[r] = p
        BY <1>1, <2>1, <2>2, PhaseAt
    <2>4. Tells(r)'
        BY <1>1, <2>1, <2>2, <2>3 DEF Tells, Truthful, Fails, Settled
    <2>5. DriverMoves(r, p)
        BY <1>6, <2>1, <2>2 DEF DriverMoves, Tell, logVars
    <2>. QED BY <1>1, <2>1, <2>2, <2>4, <2>5, DriverKeeps
<1>7. CASE Report(r)
    <2>1. At(r, "ending") /\ "ending" \in Phases /\ UNCHANGED cause
        BY <1>7 DEF Report, settleVars, Phases
    <2>2. phase[r] \in {"stopped", "unstarted", "reporting"}
        BY <1>7 DEF Report
    <2>3. phase'[r] = "ending"
        BY <1>1, <2>1, PhaseAt
    <2>4. ReportOf(r) \in Reports
        BY DEF ReportOf, Reports
    <2>5. report' \in [Runs -> Reports \cup {"none"}] /\ \A s \in Runs : s # r => report'[s] = report[s]
        BY <1>1, <1>7, <2>4 DEF Report
    <2>6. \/ report'[r] = ReportOf(r) /\ faults' = faults
          \/ report'[r] = "none" /\ faults' > 0
        BY <1>1, <1>7, <2>2 DEF Report, Fails, Tells
    <2>7. Tells(r)'
        <3>1. CASE report'[r] = "none" /\ faults' > 0
            BY <2>3, <3>1 DEF Tells, Truthful
        <3>2. CASE report'[r] = ReportOf(r)
            BY <1>1, <2>1, <2>2, <2>3, <3>2 DEF Tells, Truthful, Settled, ReportOf, Causes
        <3>. QED BY <2>6, <3>1, <3>2
    <2>8. DriverMoves(r, "ending")
        BY <1>7, <2>1, <2>2 DEF DriverMoves, Report, logVars
    <2>. QED BY <1>1, <2>1, <2>5, <2>7, <2>8, DriverKeeps
<1>. QED BY <1>2, <1>3, <1>4, <1>5, <1>6, <1>7

-----------------------------------------------------------------------------
(* The beginning and the end of a run.                                      *)

\* A reservation takes a fresh run for an agent that has none.
LEMMA ReserveKeeps ==
    ASSUME BrokerInv, NEW r \in Runs, NEW a \in Agents, NEW as, Reserve(r, a, as),
           UNCHANGED <<lock, stopping, logVars, settleVars, deferred, acceptVars, source, target>>,
           edge' \in [Handoffs -> {"none", "deferred", "overwritten", "reading", "checking",
                                   "running", "failing", "failed", "done"}],
           \A h \in Handoffs : edge'[h] = edge[h] \/ (edge[h] # "none" /\ edge'[h] # "deferred")
    PROVE  BrokerInv'
<1> USE DEF logVars, settleVars, acceptVars
<1>1. phase[r] = "none" /\ active[a] = 0 /\ "starting" \in Phases
    BY DEF Reserve, Fresh, Phases
<1>2. /\ phase' \in [Runs -> Phases]
      /\ \A s \in Runs : phase'[s] = IF s = r THEN "starting" ELSE phase[s]
    BY <1>1, PhaseAt DEF BrokerInv, Reserve
<1>3. /\ \A s \in Runs : agent'[s] = IF s = r THEN a ELSE agent[s]
      /\ \A b \in Agents : active'[b] = IF b = a THEN r ELSE active[b]
      /\ agent' \in [Runs -> Agents \cup {NoAgent}] /\ active' \in [Agents -> Runs \cup {0}]
    BY DEF Reserve, BrokerInv, Types
<1>4. Types'
    BY <1>2, <1>3 DEF BrokerInv, Types
<1>5. Begun'
    BY <1>2, <1>3 DEF BrokerInv, Begun
<1>6. \A s \in Runs : s # r /\ Driven(s) => agent[s] # a
    BY <1>1, Numbers DEF BrokerInv, OneRunPerAgent
<1>7. OneRunPerAgent'
    <2>. SUFFICES ASSUME NEW s \in Runs, Driven(s)' PROVE active'[agent'[s]] = s
        BY DEF OneRunPerAgent
    <2>1. CASE s = r
        BY <1>3, <2>1
    <2>2. CASE s # r
        <3>1. Driven(s) /\ agent'[s] = agent[s] /\ agent[s] \in Agents /\ agent[s] # a
            BY <1>2, <1>3, <1>6, <2>2 DEF Driven, BrokerInv, Begun
        <3>. QED BY <1>3, <3>1 DEF BrokerInv, OneRunPerAgent
    <2>. QED BY <2>1, <2>2
<1>8. ApprovalsAreLive'
    <2>. SUFFICES ASSUME NEW s \in Runs, asks'[s] \/ gate'[s] # NoAgent
                  PROVE  ~Settled(s)' /\ phase'[s] = "working" /\ active'[agent'[s]] = s
        BY DEF ApprovalsAreLive
    <2>1. ~Settled(s) /\ phase[s] = "working" /\ active[agent[s]] = s
        BY DEF BrokerInv, ApprovalsAreLive
    <2>2. s # r /\ agent[s] \in Agents /\ agent[s] # a
        BY <1>1, <1>6, <2>1 DEF Driven, BrokerInv, Begun
    <2>. QED BY <1>2, <1>3, <2>1, <2>2 DEF Settled
<1>9. Telling'
    <2>1. Tells(r)'
        BY <1>1, <1>2 DEF BrokerInv, Telling, Tells
    <2>. QED BY <1>2, <2>1, TellsKept DEF BrokerInv, Telling
<1>10. Waiting'
    <2>. SUFFICES ASSUME NEW h \in Handoffs
                  PROVE  /\ accept'[h] \in Underlock => lock' = h
                         /\ edge'[h] = "deferred" =>
                              /\ deferred'[source'[h]] = h /\ accept'[h] \in {"late", "accepted"}
                              /\ phase'[source'[h]] \in {"waiting", "over"} /\ cause'[source'[h]] = "completed"
                                    => accept'[h] = "late"
        BY DEF Waiting
    <2>1. edge'[h] = "deferred" => edge[h] = "deferred" /\ source[h] \in Runs
        BY DEF BrokerInv, Begun
    <2>. QED BY <1>2, <2>1 DEF BrokerInv, Waiting
<1>. QED BY <1>4, <1>5, <1>7, <1>8, <1>9, <1>10 DEF BrokerInv

LEMMA RequestStep ==
    ASSUME BrokerInv, NEW q \in Requests, ReadRequest(q) \/ StartRequest(q)
    PROVE  BrokerInv'
<1> USE DEF storeVars, logVars, tableVars, closeVars, turnVars, settleVars, driveVars, launchVars, acceptVars
<1>1. CASE UNCHANGED <<storeVars, logVars, active, closeVars, settleVars, driveVars, launchVars, acceptVars>>
    BY <1>1 DEF BrokerInv, Types, Begun, OneRunPerAgent, ApprovalsAreLive, Driven, Settled,
                Telling, Tells, Truthful, Waiting
<1>2. ASSUME NEW r \in Runs, Reserve(r, ForAgent[q], IF IsRoot[q] THEN "root" ELSE "start"),
             StartRequest(q)
      PROVE  BrokerInv'
    <2>1. ForAgent[q] \in Agents
        BY Numbers
    <2>2. UNCHANGED <<lock, stopping, logVars, settleVars, deferred, acceptVars, source, target, edge>>
        BY <1>2 DEF StartRequest
    <2>. QED BY <1>2, <2>1, <2>2, ReserveKeeps DEF BrokerInv, Types
<1>. QED BY <1>1, <1>2 DEF ReadRequest, StartRequest

LEMMA LaunchStep ==
    ASSUME BrokerInv, NEW h \in Handoffs, Launch(h)
    PROVE  BrokerInv'
<1> USE DEF storeVars, logVars, tableVars, closeVars, turnVars, settleVars, driveVars, launchVars, acceptVars
<1>1. edge[h] = "checking" /\ target[h] \in Agents
    BY DEF Launch, BrokerInv, Begun
<1>2. PICK to \in {"running", "failing"} :
          edge' = [edge EXCEPT ![h] = to] /\ (to = "running" => \E r \in Runs : Reserve(r, target[h], "workflow"))
                                          /\ (to = "failing" => UNCHANGED <<active, driveVars>>)
    BY DEF Launch
<1>3. /\ edge' \in [Handoffs -> {"none", "deferred", "overwritten", "reading", "checking",
                                 "running", "failing", "failed", "done"}]
      /\ \A g \in Handoffs : edge'[g] = edge[g] \/ (edge[g] # "none" /\ edge'[g] # "deferred")
      /\ \A g \in Handoffs : edge'[g] = "deferred" => edge[g] = "deferred"
    BY <1>1, <1>2 DEF BrokerInv, Types
<1>4. UNCHANGED <<lock, stopping, logVars, settleVars, deferred, acceptVars, source, target>>
    BY DEF Launch
<1>5. CASE to = "running"
    BY <1>1, <1>2, <1>3, <1>4, <1>5, ReserveKeeps
<1>6. CASE to = "failing"
    <2>1. UNCHANGED <<active, driveVars>>
        BY <1>2, <1>6
    <2>. QED BY <1>3, <1>4, <2>1
         DEF BrokerInv, Types, Begun, OneRunPerAgent, ApprovalsAreLive, Driven, Settled,
             Telling, Tells, Truthful, Waiting
<1>. QED BY <1>5, <1>6

LEMMA EndStep ==
    ASSUME BrokerInv, NEW r \in Runs, End(r)
    PROVE  BrokerInv'
<1> USE DEF storeVars, logVars, tableVars, closeVars, turnVars, settleVars, driveVars, launchVars, acceptVars
<1>1. /\ phase[r] = "ending" /\ agent[r] \in Agents /\ active[agent[r]] = r
      /\ UNCHANGED <<lock, report, faults, stopping, agent, cause, gate, asks, accept, source, target>>
    BY DEF End, BrokerInv, Begun, OneRunPerAgent, Driven
<1>2. PICK p \in {"waiting", "over"} :
          /\ At(r, p)
          /\ p = "waiting" => /\ deferred[r] # 0 /\ cause[r] = "completed"
                              /\ edge' = [edge EXCEPT ![deferred[r]] = "reading"]
                              /\ deferred' = [deferred EXCEPT ![r] = 0]
          /\ p = "over" => /\ ~(deferred[r] # 0 /\ cause[r] = "completed")
                           /\ UNCHANGED <<edge, deferred>>
    BY DEF End
<1>3. p \in Phases
    BY DEF Phases
<1>4. /\ phase' \in [Runs -> Phases]
      /\ \A s \in Runs : phase'[s] = IF s = r THEN p ELSE phase[s]
    BY <1>2, <1>3, PhaseAt DEF BrokerInv
<1>5. /\ active' \in [Agents -> Runs \cup {0}]
      /\ \A a \in Agents : active'[a] = IF a = agent[r] THEN 0 ELSE active[a]
    BY DEF End, BrokerInv, Types
<1>6. /\ edge' \in [Handoffs -> {"none", "deferred", "overwritten", "reading", "checking",
                                 "running", "failing", "failed", "done"}]
      /\ deferred' \in [Runs -> Handoffs \cup {0}]
      /\ \A s \in Runs : s # r => deferred'[s] = deferred[s]
      /\ \A h \in Handoffs : edge'[h] = IF p = "waiting" /\ h = deferred[r] THEN "reading" ELSE edge[h]
      /\ deferred'[r] \in {deferred[r], 0}
    BY <1>2, Numbers DEF BrokerInv, Types
<1>7. Types'
    BY <1>1, <1>4, <1>5, <1>6 DEF BrokerInv, Types
<1>8. Begun'
    BY <1>1, <1>2, <1>4, <1>6 DEF BrokerInv, Begun
<1>9. \A s \in Runs : s # r /\ phase[s] # "none" /\ active[agent[s]] = s => active'[agent[s]] = s
    BY <1>1, <1>5 DEF BrokerInv, Begun
<1>10. OneRunPerAgent' /\ ApprovalsAreLive'
    BY <1>1, <1>4, <1>9 DEF BrokerInv, OneRunPerAgent, ApprovalsAreLive, Driven, Settled
<1>11. Telling'
    <2>1. Tells(r)'
        BY <1>1, <1>4 DEF BrokerInv, Telling, Tells, Truthful
    <2>. QED BY <1>1, <1>4, <2>1, TellsKept DEF BrokerInv, Telling
<1>12. Waiting'
    <2>. SUFFICES ASSUME NEW h \in Handoffs, edge'[h] = "deferred"
                  PROVE  /\ deferred'[source[h]] = h /\ accept[h] \in {"late", "accepted"}
                         /\ phase'[source[h]] \in {"waiting", "over"} /\ cause[source[h]] = "completed"
                               => accept[h] = "late"
        BY <1>1 DEF Waiting, BrokerInv
    <2>1. /\ edge[h] = "deferred" /\ ~(p = "waiting" /\ h = deferred[r])
          /\ source[h] \in Runs /\ deferred[source[h]] = h /\ accept[h] \in {"late", "accepted"}
          /\ phase[source[h]] \in {"waiting", "over"} /\ cause[source[h]] = "completed" => accept[h] = "late"
        BY <1>6 DEF BrokerInv, Waiting, Begun
    <2>2. CASE source[h] = r
        <3>1. p = "over" /\ deferred[r] = h /\ h # 0 /\ cause[r] # "completed"
            BY <1>2, <2>1, <2>2, Numbers
        <3>. QED BY <1>2, <2>1, <2>2, <3>1
    <2>3. CASE source[h] # r
        BY <1>4, <1>6, <2>1, <2>3
    <2>. QED BY <2>2, <2>3
<1>. QED BY <1>7, <1>8, <1>10, <1>11, <1>12 DEF BrokerInv

LEMMA WaitedStep ==
    ASSUME BrokerInv, NEW r \in Runs, Waited(r)
    PROVE  BrokerInv'
<1> USE DEF storeVars, logVars, tableVars, closeVars, turnVars, settleVars, driveVars, launchVars, acceptVars
<1>1. /\ phase[r] = "waiting" /\ At(r, "over") /\ "over" \in Phases
      /\ UNCHANGED <<lock, report, faults, active, stopping, agent, cause, gate, asks, deferred,
                     edge, accept, source, target>>
    BY DEF Waited, Phases
<1>2. /\ phase' \in [Runs -> Phases]
      /\ \A s \in Runs : phase'[s] = IF s = r THEN "over" ELSE phase[s]
    BY <1>1, PhaseAt DEF BrokerInv
<1>3. Types' /\ Begun'
    BY <1>1, <1>2 DEF BrokerInv, Types, Begun
<1>4. OneRunPerAgent' /\ ApprovalsAreLive'
    BY <1>1, <1>2 DEF BrokerInv, OneRunPerAgent, ApprovalsAreLive, Driven, Settled
<1>5. Telling'
    <2>1. Tells(r)'
        BY <1>1, <1>2 DEF BrokerInv, Telling, Tells, Truthful
    <2>. QED BY <1>1, <1>2, <2>1, TellsKept DEF BrokerInv, Telling
<1>6. Waiting'
    BY <1>1, <1>2, WaitingKept DEF BrokerInv
<1>. QED BY <1>3, <1>4, <1>5, <1>6 DEF BrokerInv

-----------------------------------------------------------------------------
(* What settles a run, and what its agent asks for.                         *)

\* settle counts once, and takes the approvals of the runs it hits with it.
LEMMA SettlingAt ==
    ASSUME Types, NEW rs \in SUBSET Runs, NEW k \in Causes, Settling(rs, k)
    PROVE  /\ cause' \in [Runs -> Causes \cup {"none"}]
           /\ gate' \in [Runs -> Agents \cup {NoAgent}] /\ asks' \in [Runs -> BOOLEAN]
           /\ \A s \in Runs : cause'[s] = IF s \in rs /\ ~Settled(s) THEN k ELSE cause[s]
           /\ \A s \in Runs : gate'[s] # NoAgent => gate[s] # NoAgent /\ (s \notin rs \/ Settled(s))
           /\ \A s \in Runs : asks'[s] => asks[s] /\ (s \notin rs \/ Settled(s))
BY DEF Types, Settling

\* A run is settled while it works, or cancelled at any time.
LEMMA SettleKeeps ==
    ASSUME BrokerInv, NEW r \in Runs, NEW k \in Causes, Settling({r}, k),
           k # "cancel" => phase[r] = "working",
           stopping' \subseteq Runs,
           faults' = faults \/ Fails(r),
           UNCHANGED <<lock, report, active, phase, agent, deferred, edge, accept, source, target>>
    PROVE  BrokerInv'
<1>1. /\ cause' \in [Runs -> Causes \cup {"none"}]
      /\ gate' \in [Runs -> Agents \cup {NoAgent}] /\ asks' \in [Runs -> BOOLEAN]
      /\ \A s \in Runs : cause'[s] = IF s = r /\ ~Settled(s) THEN k ELSE cause[s]
      /\ \A s \in Runs : gate'[s] # NoAgent => gate[s] # NoAgent /\ (s # r \/ Settled(s))
      /\ \A s \in Runs : asks'[s] => asks[s] /\ (s # r \/ Settled(s))
    <2>1. {r} \in SUBSET Runs
        OBVIOUS
    <2>. QED BY <2>1, SettlingAt DEF BrokerInv
<1>2. faults \in Nat /\ (faults' = faults \/ faults' = faults + 1)
    BY DEF Fails, BrokerInv, Types
<1>3. Types' /\ Begun' /\ OneRunPerAgent'
    BY <1>1, <1>2 DEF BrokerInv, Types, Begun, OneRunPerAgent, Driven
<1>4. ApprovalsAreLive'
    BY <1>1 DEF BrokerInv, ApprovalsAreLive, Settled
<1>5. Telling'
    <2>1. Tells(r)'
        <3>1. CASE Settled(r)
            <4>1. cause'[r] = cause[r]
                BY <1>1, <3>1
            <4>. QED BY <1>2, <4>1, TellsKept DEF BrokerInv, Telling
        <3>2. CASE ~Settled(r)
            <4>1. cause'[r] = k /\ cause[r] = "none" /\ Tells(r)
                BY <1>1, <3>2 DEF Settled, BrokerInv, Telling
            <4>2. CASE phase[r] = "working"
                BY <4>1, <4>2 DEF Tells
            <4>3. CASE k = "cancel"
                BY <1>2, <4>1, <4>3 DEF Tells, Truthful, Settled
            <4>. QED BY <4>2, <4>3
        <3>. QED BY <3>1, <3>2
    <2>. QED BY <1>1, <1>2, <2>1, TellsKept DEF BrokerInv, Telling
<1>6. Waiting'
    <2>1. \A s \in Runs : phase[s] \in {"waiting", "over"} /\ cause'[s] = "completed" => cause[s] = "completed"
        BY <1>1
    <2>. QED BY <2>1, WaitingKept DEF BrokerInv
<1>. QED BY <1>3, <1>4, <1>5, <1>6 DEF BrokerInv

\* A step that asks, answers or only moves the agent's turn on.
LEMMA AskKeeps ==
    ASSUME BrokerInv, NEW r \in Runs, ~Settled(r), phase[r] = "working",
           gate' \in [Runs -> Agents \cup {NoAgent}], asks' \in [Runs -> BOOLEAN],
           \A s \in Runs : s # r => gate'[s] = gate[s] /\ asks'[s] = asks[s],
           faults' = faults \/ Fails(r),
           UNCHANGED <<lock, report, active, stopping, phase, agent, cause, deferred,
                       edge, accept, source, target>>
    PROVE  BrokerInv'
<1>1. faults \in Nat /\ (faults' = faults \/ faults' = faults + 1)
    BY DEF Fails, BrokerInv, Types
<1>2. Types' /\ Begun' /\ OneRunPerAgent' /\ Waiting'
    BY <1>1 DEF BrokerInv, Types, Begun, OneRunPerAgent, Driven, Waiting
<1>3. active[agent[r]] = r
    BY DEF BrokerInv, OneRunPerAgent, Driven
<1>4. ApprovalsAreLive'
    BY <1>3 DEF BrokerInv, ApprovalsAreLive, Settled
<1>5. Telling'
    BY <1>1, TellsKept DEF BrokerInv, Telling
<1>. QED BY <1>2, <1>4, <1>5 DEF BrokerInv

LEMMA JudgeKeeps ==
    ASSUME BrokerInv, NEW r \in Runs, Listening(r), NEW how, Judge(r, how),
           UNCHANGED <<lock, report, faults, active, stopping, phase, agent, deferred,
                       edge, accept, source, target>>
    PROVE  BrokerInv'
<1>1. CASE UNCHANGED settleVars
    BY <1>1, AskKeeps DEF settleVars, Listening, BrokerInv, Types
<1>2. CASE \E k \in {"provider_error", "completed"} : Settling({r}, k)
    BY <1>2, SettleKeeps DEF Listening, Causes, BrokerInv, Types
<1>. QED BY <1>1, <1>2 DEF Judge

LEMMA SettleStep ==
    ASSUME BrokerInv, NEW r \in Runs, Timeout(r) \/ Dies(r) \/ Abort(r)
    PROVE  BrokerInv'
<1>1. PICK k \in {"timeout", "ambiguous", "cancel"} :
          Settling({r}, k) /\ (k # "cancel" => phase[r] = "working")
    BY DEF Timeout, Dies, Abort, Settle, Listening
<1>2. UNCHANGED <<lock, report, faults, active, stopping, phase, agent, deferred, edge, accept, source, target>>
    BY DEF Timeout, Dies, Abort, Settle, storeVars, logVars, tableVars, closeVars, turnVars,
           driveVars, launchVars, acceptVars
<1>. QED BY <1>1, <1>2, SettleKeeps DEF Causes, BrokerInv, Types

LEMMA TurnStep ==
    ASSUME BrokerInv, NEW r \in Runs,
           \/ AgentSettles(r) \/ PolicyLoaded(r) \/ NoteSwitch(r) \/ SwitchModel(r) \/ NoteSkip(r)
           \/ Ask(r) \/ Answer(r) \/ RequestGate(r)
    PROVE  BrokerInv'
<1> USE DEF storeVars, logVars, tableVars, closeVars, turnVars, settleVars, driveVars, launchVars, acceptVars
<1>types. gate \in [Runs -> Agents \cup {NoAgent}] /\ asks \in [Runs -> BOOLEAN] /\ stopping \subseteq Runs
    BY DEF BrokerInv, Types
<1>1. CASE AgentSettles(r) \/ PolicyLoaded(r)
    <2>1. /\ Listening(r)
          /\ UNCHANGED <<lock, report, faults, active, stopping, phase, agent, deferred,
                         edge, accept, source, target>>
        BY <1>1 DEF AgentSettles, PolicyLoaded
    <2>2. UNCHANGED <<cause, gate, asks>> \/ \E how : Judge(r, how)
        BY <1>1 DEF AgentSettles, PolicyLoaded
    <2>3. CASE UNCHANGED <<cause, gate, asks>>
        BY <1>types, <2>1, <2>3, AskKeeps DEF Listening
    <2>. QED BY <2>1, <2>2, <2>3, JudgeKeeps
<1>2. CASE NoteSwitch(r) \/ NoteSkip(r) \/ SwitchModel(r)
    <2>1. /\ Listening(r)
          /\ UNCHANGED <<lock, report, active, stopping, phase, agent, deferred,
                         edge, accept, source, target>>
        BY <1>2 DEF NoteSwitch, NoteSkip, SwitchModel
    <2>2. \/ UNCHANGED <<faults, cause, gate, asks>>
          \/ Fails(r) /\ Settling({r}, "ambiguous")
          \/ Judge(r, "provider") /\ UNCHANGED faults
        BY <1>2 DEF NoteSwitch, NoteSkip, SwitchModel
    <2>3. CASE UNCHANGED <<faults, cause, gate, asks>>
        BY <1>types, <2>1, <2>3, AskKeeps DEF Listening
    <2>4. CASE Fails(r) /\ Settling({r}, "ambiguous")
        BY <1>types, <2>1, <2>4, SettleKeeps DEF Listening, Causes
    <2>5. CASE Judge(r, "provider") /\ UNCHANGED faults
        BY <2>1, <2>5, JudgeKeeps
    <2>. QED BY <2>2, <2>3, <2>4, <2>5
<1>3. CASE Ask(r)
    <2>1. /\ ~Settled(r) /\ phase[r] = "working"
          /\ asks' = [asks EXCEPT ![r] = TRUE]
          /\ UNCHANGED <<lock, report, faults, active, stopping, phase, agent, cause, gate, deferred,
                         edge, accept, source, target>>
        BY <1>3 DEF Ask, Listening
    <2>. QED BY <1>types, <2>1, AskKeeps
<1>4. CASE Answer(r)
    <2>1. /\ ~Settled(r) /\ asks[r]
          /\ asks' = [asks EXCEPT ![r] = FALSE]
          /\ UNCHANGED <<lock, report, faults, active, stopping, phase, agent, cause, gate, deferred,
                         edge, accept, source, target>>
        BY <1>4 DEF Answer
    <2>2. phase[r] = "working"
        BY <2>1 DEF BrokerInv, ApprovalsAreLive
    <2>. QED BY <1>types, <2>1, <2>2, AskKeeps
<1>5. CASE RequestGate(r)
    <2>1. /\ ~Settled(r) /\ phase[r] = "working"
          /\ \E a \in Agents : gate' = [gate EXCEPT ![r] = a]
          /\ UNCHANGED <<lock, report, faults, active, stopping, phase, agent, cause, asks, deferred,
                         edge, accept, source, target>>
        BY <1>5 DEF RequestGate, Listening
    <2>. QED BY <1>types, <2>1, AskKeeps
<1>. QED BY <1>1, <1>2, <1>3, <1>4, <1>5

-----------------------------------------------------------------------------
(* Handoffs.                                                                *)

\* An accept begins at the next free place.
LEMMA AcceptingKeeps ==
    ASSUME BrokerInv, NEW r \in Runs, NEW a \in Agents, Accepting(r, a),
           ~Settled(r), phase[r] = "working",
           gate' \in [Runs -> Agents \cup {NoAgent}], \A s \in Runs : gate'[s] \in {gate[s], NoAgent},
           UNCHANGED <<lock, report, faults, active, stopping, phase, agent, cause, asks, deferred, edge>>
    PROVE  BrokerInv'
<1>1. PICK h \in Handoffs :
          /\ accept[h] = "none" /\ accept' = [accept EXCEPT ![h] = "acquiring"]
          /\ source' = [source EXCEPT ![h] = r] /\ target' = [target EXCEPT ![h] = a]
    BY DEF Accepting
<1>2. /\ accept' \in [Handoffs -> Accepts] /\ source' \in [Handoffs -> Runs \cup {0}]
      /\ target' \in [Handoffs -> Agents \cup {NoAgent}]
      /\ \A g \in Handoffs : /\ accept'[g] = IF g = h THEN "acquiring" ELSE accept[g]
                             /\ source'[g] = IF g = h THEN r ELSE source[g]
                             /\ target'[g] = IF g = h THEN a ELSE target[g]
    BY <1>1 DEF BrokerInv, Types, Accepts
<1>3. Types'
    BY <1>2 DEF BrokerInv, Types
<1>4. Begun'
    <2>1. \A s \in Runs : deferred[s] # 0 => deferred[s] \in Handoffs
        BY DEF BrokerInv, Types
    <2>. QED BY <1>2, <2>1 DEF BrokerInv, Begun
<1>5. OneRunPerAgent' /\ ApprovalsAreLive'
    BY <1>2 DEF BrokerInv, OneRunPerAgent, ApprovalsAreLive, Driven, Settled
<1>6. Telling'
    BY TellsKept DEF BrokerInv, Telling
<1>7. edge[h] = "none"
    BY <1>1 DEF BrokerInv, Begun
<1>8. Waiting'
    BY <1>2, <1>7 DEF BrokerInv, Waiting, Underlock
<1>. QED BY <1>3, <1>4, <1>5, <1>6, <1>8 DEF BrokerInv

LEMMA ResolveStep ==
    ASSUME BrokerInv, NEW r \in Runs, ResolveGate(r) \/ RequestHandoff(r)
    PROVE  BrokerInv'
<1> USE DEF storeVars, logVars, tableVars, closeVars, turnVars, settleVars, driveVars, launchVars, acceptVars
<1>types. gate \in [Runs -> Agents \cup {NoAgent}] /\ asks \in [Runs -> BOOLEAN]
    BY DEF BrokerInv, Types
<1>1. CASE ResolveGate(r)
    <2>1. /\ gate[r] \in Agents /\ ~Settled(r) /\ phase[r] = "working"
          /\ gate' = [gate EXCEPT ![r] = NoAgent]
          /\ UNCHANGED <<lock, report, faults, active, stopping, phase, agent, cause, asks, deferred, edge>>
        BY <1>1, <1>types DEF ResolveGate, BrokerInv, ApprovalsAreLive
    <2>2. /\ gate' \in [Runs -> Agents \cup {NoAgent}]
          /\ \A s \in Runs : gate'[s] \in {gate[s], NoAgent} /\ (s # r => gate'[s] = gate[s])
        BY <1>types, <2>1
    <2>3. CASE Accepting(r, gate[r])
        BY <2>1, <2>2, <2>3, AcceptingKeeps
    <2>4. CASE UNCHANGED <<accept, source, target>>
        BY <1>types, <2>1, <2>2, <2>4, AskKeeps
    <2>. QED BY <1>1, <2>3, <2>4 DEF ResolveGate
<1>2. CASE RequestHandoff(r)
    <2>1. /\ ~Settled(r) /\ phase[r] = "working"
          /\ UNCHANGED <<lock, report, faults, active, stopping, phase, agent, cause, gate, asks, deferred, edge>>
        BY <1>2 DEF RequestHandoff, Listening
    <2>2. \E a \in Agents : Accepting(r, a)
        BY <1>2 DEF RequestHandoff
    <2>. QED BY <1>types, <2>1, <2>2, AcceptingKeeps
<1>. QED BY <1>1, <1>2

\* An accept goes on, taking the lock, keeping it, or giving it back.
LEMMA AcceptKeeps ==
    ASSUME BrokerInv, NEW h \in Handoffs, NEW p \in Accepts \ {"none"}, Accept(h, p),
           accept[h] \in {"acquiring", "planning", "joining", "recording"},
           p # "late",
           \/ p \in Underlock /\ lock' = h /\ lock \in {Free, h}
           \/ p \notin Underlock /\ lock' = lock /\ accept[h] = "acquiring"
           \/ p \notin Underlock /\ lock' = Free /\ lock = h,
           faults' = faults \/ Fails(source[h]),
           UNCHANGED <<report, active, stopping, phase, agent, cause, gate, asks, deferred, edge, source, target>>
    PROVE  BrokerInv'
<1>1. /\ accept' \in [Handoffs -> Accepts]
      /\ \A g \in Handoffs : accept'[g] = IF g = h THEN p ELSE accept[g]
    BY DEF Accept, BrokerInv, Types
<1>2. faults \in Nat /\ (faults' = faults \/ faults' = faults + 1)
    BY DEF Fails, BrokerInv, Types
<1>3. Types'
    BY <1>1, <1>2 DEF BrokerInv, Types
<1>4. Begun'
    <2>1. \A s \in Runs : deferred[s] # 0 => deferred[s] \in Handoffs
        BY DEF BrokerInv, Types
    <2>. QED BY <1>1, <2>1 DEF BrokerInv, Begun
<1>5. OneRunPerAgent' /\ ApprovalsAreLive'
    BY DEF BrokerInv, OneRunPerAgent, ApprovalsAreLive, Driven, Settled
<1>6. Telling'
    BY <1>2, TellsKept DEF BrokerInv, Telling
<1>7. edge[h] # "deferred"
    BY DEF BrokerInv, Waiting
<1>8. \A g \in Handoffs : accept'[g] \in Underlock => lock' = g
    BY <1>1, Numbers DEF BrokerInv, Waiting
<1>9. \A g \in Handoffs : edge[g] = "deferred" => accept'[g] = accept[g]
    BY <1>1, <1>7
<1>10. Waiting'
    BY <1>8, <1>9 DEF BrokerInv, Waiting
<1>. QED BY <1>3, <1>4, <1>5, <1>6, <1>10 DEF BrokerInv

LEMMA AcceptStep ==
    ASSUME BrokerInv, NEW h \in Handoffs, AcquireLock(h) \/ Plan(h) \/ Grow(h)
    PROVE  BrokerInv'
<1> USE DEF storeVars, logVars, tableVars, closeVars, turnVars, settleVars, driveVars, launchVars, acceptVars
<1>0. UNCHANGED <<report, faults, active, stopping, phase, agent, cause, gate, asks, deferred, edge, source, target>>
    BY DEF AcquireLock, Plan, Grow
<1>1. CASE AcquireLock(h)
    BY <1>0, <1>1, AcceptKeeps DEF AcquireLock, Accepts, Underlock
<1>2. CASE Plan(h) \/ Grow(h)
    <2>1. accept[h] \in {"planning", "joining"} /\ lock = h
        BY <1>2 DEF Plan, Grow, BrokerInv, Waiting, Underlock
    <2>. QED BY <1>0, <1>2, <2>1, AcceptKeeps DEF Plan, Grow, Accepts, Underlock
<1>. QED BY <1>1, <1>2

LEMMA RecordStep ==
    ASSUME BrokerInv, NEW h \in Handoffs, RecordEdge(h)
    PROVE  BrokerInv'
<1> USE DEF storeVars, logVars, tableVars, closeVars, turnVars, settleVars, driveVars, launchVars, acceptVars
<1>1. /\ accept[h] = "recording" /\ lock = h
      /\ source[h] \in Runs /\ target[h] \in Agents
      /\ UNCHANGED <<report, active, stopping, phase, agent, cause, gate, asks, source, target>>
    BY DEF RecordEdge, BrokerInv, Waiting, Underlock, Begun
<1>2. CASE Fails(source[h]) /\ Accept(h, "rejected") /\ lock' = Free /\ UNCHANGED <<edge, deferred>>
    BY <1>1, <1>2, AcceptKeeps DEF Accepts, Underlock
<1>3. ASSUME NEW p \in {"late", "accepted"}, Accept(h, p),
             p = "late" => Settled(source[h]) /\ lock' = lock,
             p = "accepted" => ~Settled(source[h]) /\ lock' = Free,
             faults' = faults, deferred' = [deferred EXCEPT ![source[h]] = h],
             edge' = [g \in Handoffs |-> IF g = h THEN "deferred"
                                         ELSE IF g = deferred[source[h]] THEN "overwritten"
                                         ELSE edge[g]]
      PROVE  BrokerInv'
    <2>1. /\ accept' \in [Handoffs -> Accepts]
          /\ \A g \in Handoffs : accept'[g] = IF g = h THEN p ELSE accept[g]
          /\ deferred' \in [Runs -> Handoffs \cup {0}]
          /\ \A s \in Runs : deferred'[s] = IF s = source[h] THEN h ELSE deferred[s]
        BY <1>1, <1>3 DEF Accept, BrokerInv, Types, Accepts, Underlock
    <2>2. \A g \in Handoffs : edge'[g] = IF g = h THEN "deferred"
                                         ELSE IF g = deferred[source[h]] THEN "overwritten"
                                         ELSE edge[g]
        BY <1>3
    <2>3. edge' \in [Handoffs -> {"none", "deferred", "overwritten", "reading", "checking",
                                  "running", "failing", "failed", "done"}]
        BY <1>3 DEF BrokerInv, Types
    <2>4. Types'
        BY <1>1, <1>3, <2>1, <2>3 DEF BrokerInv, Types
    <2>5. Begun'
        <3>1. \A s \in Runs : deferred[s] # 0 => deferred[s] \in Handoffs
            BY DEF BrokerInv, Types
        <3>2. \A g \in Handoffs : edge'[g] # "none" => accept'[g] # "none"
            <4>1. SUFFICES ASSUME NEW g \in Handoffs, g # h, edge'[g] # "none"
                           PROVE  accept[g] # "none"
                BY <1>3, <2>1
            <4>2. CASE g = deferred[source[h]]
                <5>1. g # 0
                    BY Numbers
                <5>. QED BY <1>1, <4>2, <5>1 DEF BrokerInv, Begun
            <4>3. CASE g # deferred[source[h]]
                BY <2>2, <4>1, <4>3 DEF BrokerInv, Begun
            <4>. QED BY <4>2, <4>3
        <3>3. \A s \in Runs : deferred'[s] # 0 => accept'[deferred'[s]] # "none"
            BY <1>3, <2>1, <3>1 DEF BrokerInv, Begun
        <3>4. \A g \in Handoffs : accept'[g] # "none" => source[g] \in Runs /\ target[g] \in Agents
            BY <1>1, <2>1 DEF BrokerInv, Begun
        <3>. QED BY <1>1, <3>2, <3>3, <3>4 DEF BrokerInv, Begun
    <2>6. OneRunPerAgent' /\ ApprovalsAreLive'
        BY <1>1 DEF BrokerInv, OneRunPerAgent, ApprovalsAreLive, Driven, Settled
    <2>7. Telling'
        BY <1>1, <1>3, TellsKept DEF BrokerInv, Telling
    <2>8. \A g \in Handoffs : accept'[g] \in Underlock => lock' = g
        BY <1>1, <1>3, <2>1 DEF BrokerInv, Waiting, Underlock
    <2>9. ASSUME NEW g \in Handoffs, edge'[g] = "deferred"
          PROVE  /\ deferred'[source[g]] = g /\ accept'[g] \in {"late", "accepted"}
                 /\ phase[source[g]] \in {"waiting", "over"} /\ cause[source[g]] = "completed"
                       => accept'[g] = "late"
        <3>1. CASE g = h
            BY <1>1, <1>3, <2>1, <3>1 DEF Settled
        <3>2. CASE g # h
            <4>1. edge[g] = "deferred" /\ g # deferred[source[h]] /\ source[g] \in Runs
                BY <2>2, <2>9, <3>2 DEF BrokerInv, Begun
            <4>2. deferred[source[g]] = g
                BY <4>1 DEF BrokerInv, Waiting
            <4>3. source[g] # source[h]
                BY <4>1, <4>2
            <4>. QED BY <2>1, <3>2, <4>1, <4>3 DEF BrokerInv, Waiting
        <3>. QED BY <3>1, <3>2
    <2>10. Waiting'
        BY <1>1, <2>8, <2>9 DEF Waiting
    <2>. QED BY <2>4, <2>5, <2>6, <2>7, <2>10 DEF BrokerInv
<1>4. CASE ~(Fails(source[h]) /\ Accept(h, "rejected") /\ lock' = Free /\ UNCHANGED <<edge, deferred>>)
    BY <1>3, <1>4 DEF RecordEdge
<1>. QED BY <1>2, <1>4

LEMMA LateStep ==
    ASSUME BrokerInv, NEW h \in Handoffs, Late(h)
    PROVE  BrokerInv'
<1> USE DEF storeVars, logVars, tableVars, closeVars, turnVars, settleVars, driveVars, launchVars, acceptVars
<1>1. /\ accept[h] = "late" /\ lock = h /\ lock' = Free /\ Accept(h, "accepted")
      /\ source[h] \in Runs /\ phase[source[h]] = "over"
      /\ UNCHANGED <<report, faults, active, stopping, phase, agent, cause, gate, asks, source, target>>
    BY DEF Late, BrokerInv, Waiting, Underlock, Begun
<1>2. PICK launch \in BOOLEAN :
          /\ launch <=> (deferred[source[h]] # 0 /\ cause[source[h]] = "completed")
          /\ launch => /\ edge' = [edge EXCEPT ![deferred[source[h]]] = "reading"]
                       /\ deferred' = [deferred EXCEPT ![source[h]] = 0]
          /\ ~launch => UNCHANGED <<edge, deferred>>
    BY DEF Late
<1>3. /\ accept' \in [Handoffs -> Accepts]
      /\ \A g \in Handoffs : accept'[g] = IF g = h THEN "accepted" ELSE accept[g]
    BY <1>1 DEF Accept, BrokerInv, Types, Accepts
<1>4. /\ edge' \in [Handoffs -> {"none", "deferred", "overwritten", "reading", "checking",
                                 "running", "failing", "failed", "done"}]
      /\ deferred' \in [Runs -> Handoffs \cup {0}]
      /\ \A s \in Runs : deferred'[s] = IF launch /\ s = source[h] THEN 0 ELSE deferred[s]
      /\ \A g \in Handoffs : edge'[g] = IF launch /\ g = deferred[source[h]] THEN "reading" ELSE edge[g]
    BY <1>1, <1>2 DEF BrokerInv, Types
<1>5. Types'
    BY <1>1, <1>3, <1>4 DEF BrokerInv, Types
<1>6. Begun'
    <2>1. \A s \in Runs : deferred[s] # 0 => deferred[s] \in Handoffs
        BY DEF BrokerInv, Types
    <2>. QED BY <1>1, <1>2, <1>3, <1>4, <2>1 DEF BrokerInv, Begun
<1>7. OneRunPerAgent' /\ ApprovalsAreLive'
    BY <1>1 DEF BrokerInv, OneRunPerAgent, ApprovalsAreLive, Driven, Settled
<1>8. Telling'
    BY <1>1, TellsKept DEF BrokerInv, Telling
<1>9. \A g \in Handoffs : accept'[g] \in Underlock => lock' = g
    BY <1>1, <1>3 DEF BrokerInv, Waiting, Underlock
<1>10. ASSUME NEW g \in Handoffs, edge'[g] = "deferred"
       PROVE  /\ deferred'[source[g]] = g /\ accept'[g] \in {"late", "accepted"}
              /\ phase[source[g]] \in {"waiting", "over"} /\ cause[source[g]] = "completed"
                    => accept'[g] = "late"
    <2>1. /\ edge[g] = "deferred" /\ source[g] \in Runs /\ deferred[source[g]] = g
          /\ ~(launch /\ g = deferred[source[h]])
        BY <1>4, <1>10 DEF BrokerInv, Waiting, Begun
    <2>2. CASE source[g] = source[h]
        <3>1. ~launch /\ g # 0
            BY <2>1, <2>2, Numbers
        <3>2. cause[source[h]] # "completed"
            BY <1>2, <2>1, <2>2, <3>1
        <3>. QED BY <1>3, <1>4, <2>1, <2>2, <3>1, <3>2 DEF BrokerInv, Waiting
    <2>3. CASE source[g] # source[h]
        <3>1. g # h
            BY <2>3
        <3>. QED BY <1>3, <1>4, <2>1, <2>3, <3>1 DEF BrokerInv, Waiting
    <2>. QED BY <2>2, <2>3
<1>11. Waiting'
    BY <1>1, <1>9, <1>10 DEF Waiting
<1>. QED BY <1>5, <1>6, <1>7, <1>8, <1>11 DEF BrokerInv

\* The launch of an edge only moves the edge on.
LEMMA EdgeStep ==
    ASSUME BrokerInv, NEW h \in Handoffs, ReadLaunch(h) \/ LaunchOver(h)
    PROVE  BrokerInv'
<1> USE DEF storeVars, logVars, tableVars, closeVars, turnVars, settleVars, driveVars, launchVars, acceptVars
<1>1. PICK to \in {"checking", "failing", "failed", "done"} :
          edge' = [edge EXCEPT ![h] = to] /\ edge[h] \in {"reading", "failing", "running"}
    BY DEF ReadLaunch, LaunchOver
<1>2. UNCHANGED <<lock, report, faults, active, stopping, phase, agent, cause, gate, asks, deferred,
                  accept, source, target>>
    BY DEF ReadLaunch, LaunchOver
<1>3. /\ edge' \in [Handoffs -> {"none", "deferred", "overwritten", "reading", "checking",
                                 "running", "failing", "failed", "done"}]
      /\ \A g \in Handoffs : edge'[g] = IF g = h THEN to ELSE edge[g]
    BY <1>1 DEF BrokerInv, Types
<1>4. Types' /\ Begun'
    BY <1>1, <1>2, <1>3 DEF BrokerInv, Types, Begun
<1>5. OneRunPerAgent' /\ ApprovalsAreLive'
    BY <1>2 DEF BrokerInv, OneRunPerAgent, ApprovalsAreLive, Driven, Settled
<1>6. Telling' /\ Waiting'
    BY <1>2, <1>3, TellsKept DEF BrokerInv, Telling, Waiting
<1>. QED BY <1>4, <1>5, <1>6 DEF BrokerInv

-----------------------------------------------------------------------------
(* The end of the broker, and the whole.                                    *)

LEMMA CloseStep ==
    ASSUME BrokerInv, Close \/ (\E r \in Runs : StopRun(r)) \/ ClearApprovals \/ Closed
    PROVE  BrokerInv'
<1> USE DEF storeVars, logVars, tableVars, closeVars, turnVars, settleVars, driveVars, launchVars, acceptVars
<1>1. CASE Close \/ Closed \/ ClearApprovals
    <2>1. /\ UNCHANGED <<lock, report, faults, active, phase, agent, cause, deferred, edge, accept, source, target>>
          /\ stopping' \subseteq Runs
          /\ gate' \in [Runs -> Agents \cup {NoAgent}] /\ asks' \in [Runs -> BOOLEAN]
          /\ \A r \in Runs : gate'[r] \in {gate[r], NoAgent} /\ asks'[r] \in {asks[r], FALSE}
        <3>1. /\ active \in [Agents -> Runs \cup {0}] /\ gate \in [Runs -> Agents \cup {NoAgent}]
              /\ asks \in [Runs -> BOOLEAN]
            BY DEF BrokerInv, Types
        <3>2. CASE Close \/ Closed
            BY <3>1, <3>2 DEF Close, Closed
        <3>3. CASE ClearApprovals
            BY <3>1, <3>3 DEF ClearApprovals
        <3>. QED BY <1>1, <3>2, <3>3
    <2>. QED BY <2>1, TellsKept
         DEF BrokerInv, Types, Begun, OneRunPerAgent, ApprovalsAreLive, Driven, Settled, Telling, Waiting
<1>2. ASSUME NEW r \in Runs, StopRun(r) PROVE BrokerInv'
    <2>1. /\ UNCHANGED <<lock, report, faults, active, phase, agent, deferred, edge, accept, source, target>>
          /\ Settling({r}, "cancel") /\ stopping' \subseteq Runs
        BY <1>2 DEF StopRun, BrokerInv, Types
    <2>. QED BY <2>1, SettleKeeps DEF Causes
<1>. QED BY <1>1, <1>2

LEMMA OtherStep ==
    ASSUME BrokerInv, OtherTakes \/ OtherGives
    PROVE  BrokerInv'
<1> USE DEF storeVars, logVars, tableVars, closeVars, turnVars, settleVars, driveVars, launchVars, acceptVars
<1>1. /\ UNCHANGED <<report, faults, active, stopping, phase, agent, cause, gate, asks, deferred, edge,
                     accept, source, target>>
      /\ lock \in {Free, Other} /\ lock' \in {Free, Other}
    BY DEF OtherTakes, OtherGives
<1>2. \A h \in Handoffs : accept[h] \notin Underlock
    BY <1>1, Numbers DEF BrokerInv, Waiting
<1>. QED BY <1>1, <1>2, TellsKept
     DEF BrokerInv, Types, Begun, OneRunPerAgent, ApprovalsAreLive, Driven, Settled, Telling, Waiting

LEMMA BrokerStep == BrokerInv /\ [Next]_vars => BrokerInv'
<1>. SUFFICES ASSUME BrokerInv, [Next]_vars PROVE BrokerInv'
    OBVIOUS
<1>1. ASSUME NEW q \in Requests, ReadRequest(q) \/ StartRequest(q) PROVE BrokerInv'
    BY <1>1, RequestStep
<1>2. ASSUME NEW r \in Runs, Drive(r) PROVE BrokerInv'
    BY <1>2, DriveStep, EndStep, WaitedStep DEF Drive
<1>3. ASSUME NEW r \in Runs, Turn(r) PROVE BrokerInv'
    BY <1>3, TurnStep, ResolveStep DEF Turn
<1>4. ASSUME NEW r \in Runs, Timeout(r) \/ Dies(r) \/ Abort(r) PROVE BrokerInv'
    BY <1>4, SettleStep
<1>5. ASSUME NEW h \in Handoffs, Follow(h) PROVE BrokerInv'
    BY <1>5, AcceptStep, RecordStep, LateStep, LaunchStep, EdgeStep DEF Follow
<1>6. CASE Close \/ Closes \/ OtherTakes \/ OtherGives
    BY <1>6, CloseStep, OtherStep DEF Closes
<1>7. CASE UNCHANGED vars
    BY <1>7 DEF vars, storeVars, logVars, closeVars, tableVars, settleVars, driveVars, launchVars, acceptVars,
                BrokerInv, Types, Begun, OneRunPerAgent, ApprovalsAreLive, Driven, Settled,
                Telling, Tells, Truthful, Waiting
<1>. QED BY <1>1, <1>2, <1>3, <1>4, <1>5, <1>6, <1>7 DEF Next

LEMMA BrokerInvariant == Spec => []BrokerInv
<1>. QED BY BrokerStarts, BrokerStep, PTL DEF Spec

(* One agent works on one run at a time, whichever of the three paths       *)
(* reserved it: the table names the run from its reservation to its finally *)
(* block (reserveRun, executeConversationRun).                              *)
THEOREM RunsAreExclusive == Spec => []OneRunPerAgent
<1>1. BrokerInv => OneRunPerAgent
    BY DEF BrokerInv
<1>. QED BY <1>1, BrokerInvariant, PTL

(* A request the steward can answer belongs to the unsettled run its agent  *)
(* is working on, so no answer reaches another run (settle,                 *)
(* resolveConversationApproval).                                            *)
THEOREM AnswersReachTheRun == Spec => []ApprovalsAreLive
<1>1. BrokerInv => ApprovalsAreLive
    BY DEF BrokerInv
<1>. QED BY <1>1, BrokerInvariant, PTL

(* A run that is over has told how it ended, as what settled it first, or   *)
(* an append has failed (finalizeRun).                                      *)
THEOREM EndsAreTold == Spec => []EveryEndTold
<1>1. BrokerInv => EveryEndTold
    BY DEF BrokerInv, Telling, Tells, Truthful, EveryEndTold
<1>. QED BY <1>1, BrokerInvariant, PTL

(* An edge in the log is not left behind when its source completes, however *)
(* the accept and the end of the run interleave (acceptHandoffEdge,         *)
(* maybeLaunchDeferredChild).                                               *)
THEOREM EdgesAreFollowed == Spec => []EdgeFollowed
<1>1. BrokerInv => EdgeFollowed
    BY DEF BrokerInv, Waiting, EdgeFollowed
<1>. QED BY <1>1, BrokerInvariant, PTL

-----------------------------------------------------------------------------

\* The models tried in a turn: as many as are configured, and one more only while
\* there is one.
Attempts(r) ==
    /\ turn[r] \in {"agent", "loading", "noting", "switching", "skipping"} /\ tried[r] \in Nat
    /\ tried[r] > 0 => tried[r] <= Fallbacks[agent[r]]
    /\ turn[r] \in {"noting", "switching"} => tried[r] < Fallbacks[agent[r]]
    /\ phase[r] = "none" => turn[r] = "agent" /\ tried[r] = 0

TurnTypes ==
    /\ turn = [r \in Runs |-> turn[r]] /\ tried = [r \in Runs |-> tried[r]]
    /\ \A r \in Runs : Attempts(r)

OtherTypes ==
    /\ open \in BOOLEAN /\ audience \subseteq Agents /\ others \in 0..MaxOthers /\ faults \in 0..MaxFaults
    /\ request \in [Requests -> {"new", "checked", "started", "refused"}]
    /\ closing \in {"no", "stopping", "waiting", "closed"}
    /\ role \in [Runs -> {"none", "root", "workflow", "start"}]
    /\ awaited \in [Runs -> Handoffs \cup {0}] /\ child \in [Handoffs -> Runs \cup {0}]

LEMMA MoreTypesStart == Init => TurnTypes /\ OtherTypes
BY BrokerAssumption DEF Init, TurnTypes, OtherTypes, Attempts

\* A step that leaves the turns alone.
LEMMA TurnTypesKept ==
    ASSUME TurnTypes, UNCHANGED turnVars,
           \A r \in Runs : /\ phase'[r] = "none" => phase[r] = "none"
                           /\ phase[r] # "none" => agent'[r] = agent[r]
    PROVE  TurnTypes'
<1>1. ASSUME NEW r \in Runs PROVE Attempts(r)'
  <2>1. Attempts(r) /\ turn'[r] = turn[r] /\ tried'[r] = tried[r]
    BY DEF TurnTypes, turnVars
  <2>2. CASE phase[r] = "none"
    BY <2>1, <2>2 DEF Attempts
  <2>3. CASE phase[r] # "none"
    BY <2>1, <2>3 DEF Attempts
  <2>. QED BY <2>2, <2>3
<1>. QED BY <1>1 DEF TurnTypes, turnVars

\* A step of one turn.
LEMMA TurnMoves ==
    ASSUME TurnTypes, NEW r \in Runs, NEW t \in {"agent", "loading", "noting", "switching", "skipping"}, NEW n \in Nat,
           turn' = [turn EXCEPT ![r] = t], tried' = [tried EXCEPT ![r] = n], UNCHANGED <<phase, agent>>,
           phase[r] # "none", n > 0 => n <= Fallbacks[agent[r]],
           t \in {"noting", "switching"} => n < Fallbacks[agent[r]]
    PROVE  TurnTypes'
<1>1. /\ turn'[r] = t /\ tried'[r] = n
      /\ \A s \in Runs \ {r} : turn'[s] = turn[s] /\ tried'[s] = tried[s]
      /\ turn' = [s \in Runs |-> turn'[s]] /\ tried' = [s \in Runs |-> tried'[s]]
  BY DEF TurnTypes
<1>2. Attempts(r)'
  BY <1>1 DEF Attempts
<1>3. \A s \in Runs \ {r} : Attempts(s)'
  BY <1>1 DEF Attempts, TurnTypes
<1>. QED BY <1>1, <1>2, <1>3 DEF TurnTypes

LEMMA JudgeMoves ==
    ASSUME NEW r \in Runs, NEW how, Judge(r, how), tried[r] \in Nat
    PROVE  \E t \in {"agent", "noting"} : /\ turn' = [turn EXCEPT ![r] = t]
                                          /\ t = "noting" => tried[r] < Fallbacks[agent[r]]
BY DEF Judge

LEMMA TurnsStayTyped ==
    ASSUME BrokerInv, TurnTypes, NEW r \in Runs,
           AgentSettles(r) \/ PolicyLoaded(r) \/ NoteSwitch(r) \/ SwitchModel(r) \/ NoteSkip(r)
    PROVE  TurnTypes'
<1>1. Attempts(r) /\ tried = [s \in Runs |-> tried[s]] /\ turn = [s \in Runs |-> turn[s]]
  BY DEF TurnTypes
<1>2. phase[r] # "none" /\ UNCHANGED <<phase, agent>>
  BY DEF AgentSettles, PolicyLoaded, NoteSwitch, SwitchModel, NoteSkip, Listening, driveVars
<1>3. tried[r] \in Nat /\ (tried[r] > 0 => tried[r] <= Fallbacks[agent[r]]) /\ Fallbacks[agent[r]] \in Nat
  BY <1>1, <1>2, BrokerAssumption DEF Attempts, BrokerInv, Begun
<1>4. tried' = tried => tried' = [tried EXCEPT ![r] = tried[r]]
  BY <1>1
<1>5. turn' = turn => turn' = [turn EXCEPT ![r] = turn[r]]
  BY <1>1
<1>6. ASSUME tried' = tried, NEW how, Judge(r, how) PROVE TurnTypes'
  BY <1>2, <1>3, <1>4, <1>6, JudgeMoves, TurnMoves
<1>7. CASE AgentSettles(r)
  <2>1. tried' = tried
    BY <1>7 DEF AgentSettles
  <2>2. CASE turn' = [turn EXCEPT ![r] = "loading"]
    BY <2>1, <2>2, <1>2, <1>3, <1>4, TurnMoves
  <2>3. CASE \E how \in {"ok", "provider"} : Judge(r, how)
    BY <2>1, <2>3, <1>6
  <2>. QED BY <1>7, <2>2, <2>3 DEF AgentSettles
<1>8. CASE PolicyLoaded(r)
  BY <1>6, <1>8 DEF PolicyLoaded
<1>9. CASE NoteSwitch(r)
  <2>1. tried' = tried /\ turn[r] = "noting" /\ turn' \in {turn, [turn EXCEPT ![r] = "switching"]}
    BY <1>9 DEF NoteSwitch
  <2>2. tried[r] < Fallbacks[agent[r]]
    BY <1>1, <2>1 DEF Attempts
  <2>. QED BY <2>1, <2>2, <1>2, <1>3, <1>4, <1>5, TurnMoves
<1>10. CASE SwitchModel(r)
  <2>1. PICK t \in {"agent", "skipping"} : turn' = [turn EXCEPT ![r] = t]
    BY <1>10 DEF SwitchModel
  <2>2. tried' = [tried EXCEPT ![r] = tried[r] + 1] /\ turn[r] = "switching"
    BY <1>10 DEF SwitchModel
  <2>3. tried[r] + 1 \in Nat /\ tried[r] + 1 <= Fallbacks[agent[r]]
    BY <1>1, <1>3, <2>2 DEF Attempts
  <2>. QED BY <2>1, <2>2, <2>3, <1>2, TurnMoves
<1>11. CASE NoteSkip(r)
  <2>1. tried' = tried /\ turn[r] = "skipping" /\ (Judge(r, "provider") \/ turn' = turn)
    BY <1>11 DEF NoteSkip
  <2>. QED BY <2>1, <1>2, <1>3, <1>4, <1>5, <1>6, TurnMoves
<1>. QED BY <1>7, <1>8, <1>9, <1>10, <1>11

\* A run starts with no model tried, and its end forgets them.
LEMMA EndStaysTyped ==
    ASSUME TurnTypes, NEW r \in Runs, End(r), phase = [s \in Runs |-> phase[s]]
    PROVE  TurnTypes'
<1>1. /\ turn' = [turn EXCEPT ![r] = "agent"] /\ tried' = [tried EXCEPT ![r] = 0] /\ agent' = agent
      /\ \E p \in {"waiting", "over"} : At(r, p)
  BY DEF End
<1>2. /\ turn'[r] = "agent" /\ tried'[r] = 0 /\ phase'[r] # "none"
      /\ \A s \in Runs \ {r} : turn'[s] = turn[s] /\ tried'[s] = tried[s] /\ phase'[s] = phase[s]
      /\ turn' = [s \in Runs |-> turn'[s]] /\ tried' = [s \in Runs |-> tried'[s]]
  BY <1>1 DEF TurnTypes, At
<1>3. Attempts(r)'
  BY <1>2 DEF Attempts
<1>4. \A s \in Runs \ {r} : Attempts(s)'
  BY <1>1, <1>2 DEF Attempts, TurnTypes
<1>. QED BY <1>2, <1>3, <1>4 DEF TurnTypes

\* A reservation gives a fresh run to an agent.
LEMMA ReserveStaysTyped ==
    ASSUME BrokerInv, TurnTypes, OtherTypes, NEW r \in Runs, NEW a \in Agents,
           NEW as \in {"root", "workflow", "start"}, Reserve(r, a, as), UNCHANGED turnVars
    PROVE  TurnTypes' /\ role' \in [Runs -> {"none", "root", "workflow", "start"}]
<1>1. /\ phase' = [phase EXCEPT ![r] = "starting"] /\ agent' = [agent EXCEPT ![r] = a]
      /\ phase[r] = "none" /\ role' = [role EXCEPT ![r] = as]
  BY DEF Reserve, At, Fresh
<1>2. \A s \in Runs : /\ phase'[s] = "none" => phase[s] = "none"
                      /\ phase[s] # "none" => agent'[s] = agent[s]
  BY <1>1 DEF BrokerInv, Types
<1>3. TurnTypes'
  BY <1>2, TurnTypesKept
<1>4. role \in [Runs -> {"none", "root", "workflow", "start"}]
  BY DEF OtherTypes
<1>5. role' \in [Runs -> {"none", "root", "workflow", "start"}]
  BY <1>1, <1>4
<1>. QED BY <1>3, <1>5

LEMMA MoreTypesStep == BrokerInv /\ TurnTypes /\ OtherTypes /\ [Next]_vars => TurnTypes' /\ OtherTypes'
<1>. SUFFICES ASSUME BrokerInv, TurnTypes, OtherTypes, [Next]_vars PROVE TurnTypes' /\ OtherTypes'
  OBVIOUS
<1>. USE DEF storeVars, logVars, tableVars, closeVars, turnVars, settleVars, driveVars, launchVars, acceptVars
<1>1. phase = [r \in Runs |-> phase[r]]
  BY DEF BrokerInv, Types
<1>2. \A r \in Runs : Fails(r) => faults' \in 0..MaxFaults
  BY BrokerAssumption DEF Fails, OtherTypes
<1>3. ASSUME UNCHANGED <<turn, tried, phase, agent>> PROVE TurnTypes'
  BY <1>3, TurnTypesKept
<1>4. ASSUME NEW q \in Requests, ReadRequest(q) \/ StartRequest(q) PROVE TurnTypes' /\ OtherTypes'
  <2>1. /\ UNCHANGED <<open, audience, others, faults, closing, awaited, child, turn, tried>>
        /\ \E to \in {"checked", "started", "refused"} : request' = [request EXCEPT ![q] = to]
    BY <1>4 DEF ReadRequest, StartRequest
  <2>2. request' \in [Requests -> {"new", "checked", "started", "refused"}]
    BY <2>1 DEF OtherTypes
  <2>3. TurnTypes' /\ role' \in [Runs -> {"none", "root", "workflow", "start"}]
    <3>1. CASE \E r \in Runs : Reserve(r, ForAgent[q], IF IsRoot[q] THEN "root" ELSE "start")
      <4>1. ForAgent[q] \in Agents /\ (IF IsRoot[q] THEN "root" ELSE "start") \in {"root", "workflow", "start"}
        BY Numbers
      <4>. QED BY <3>1, <4>1, <2>1, ReserveStaysTyped
    <3>2. CASE UNCHANGED <<phase, agent, role>>
      BY <3>2, <2>1, <1>3 DEF OtherTypes
    <3>. QED BY <1>4, <3>1, <3>2 DEF ReadRequest, StartRequest
  <2>. QED BY <2>1, <2>2, <2>3 DEF OtherTypes
<1>5. ASSUME NEW r \in Runs, NEW p \in Phases, At(r, p), phase[r] # "none", p # "none", UNCHANGED <<turn, tried, agent>>
      PROVE  TurnTypes'
  <2>1. phase' = [phase EXCEPT ![r] = p]
    BY <1>5 DEF At
  <2>2. \A s \in Runs : phase'[s] = "none" => phase[s] = "none"
    BY <1>1, <1>5, <2>1
  <2>. QED BY <1>5, <2>2, TurnTypesKept
<1>6. ASSUME NEW r \in Runs, GetSession(r) \/ Announce(r) \/ Wake(r) \/ Aborted(r) \/ Tell(r) \/ Report(r) \/ Waited(r)
      PROVE  TurnTypes' /\ OtherTypes'
  <2>1. /\ UNCHANGED <<open, audience, others, request, closing, role, child, turn, tried, agent>>
        /\ faults' = faults \/ Fails(r)
        /\ awaited' \in {awaited, [awaited EXCEPT ![r] = 0]}
    BY <1>6 DEF GetSession, Announce, Wake, Aborted, Tell, Report, Waited
  <2>2. \E p \in Phases \ {"none"} : At(r, p) /\ phase[r] # "none"
    BY <1>6 DEF GetSession, Announce, Wake, Aborted, Tell, Report, Waited, Phases
  <2>3. awaited' \in [Runs -> Handoffs \cup {0}]
    BY <2>1 DEF OtherTypes
  <2>4. faults' \in 0..MaxFaults
    BY <2>1, <1>2 DEF OtherTypes
  <2>. QED BY <2>1, <2>2, <2>3, <2>4, <1>5 DEF OtherTypes
<1>7. ASSUME NEW r \in Runs, End(r) PROVE TurnTypes' /\ OtherTypes'
  <2>1. /\ UNCHANGED <<open, audience, others, faults, request, closing, role, child>>
        /\ awaited' \in {awaited, [awaited EXCEPT ![r] = deferred[r]]}
    BY <1>7 DEF End
  <2>2. awaited' \in [Runs -> Handoffs \cup {0}]
    BY <2>1 DEF OtherTypes, BrokerInv, Types
  <2>. QED BY <1>1, <1>7, <2>1, <2>2, EndStaysTyped DEF OtherTypes
<1>8. ASSUME NEW r \in Runs,
             \/ AgentSettles(r) \/ PolicyLoaded(r) \/ NoteSwitch(r) \/ SwitchModel(r) \/ NoteSkip(r)
             \/ Timeout(r) \/ Dies(r) \/ Abort(r) \/ Ask(r) \/ Answer(r) \/ RequestGate(r) \/ ResolveGate(r)
             \/ RequestHandoff(r)
      PROVE  TurnTypes' /\ OtherTypes'
  <2>1. UNCHANGED <<open, audience, others, request, closing, role, awaited, child, phase, agent>>
    BY <1>8 DEF AgentSettles, PolicyLoaded, NoteSwitch, SwitchModel, NoteSkip, Timeout, Dies, Abort, Settle,
                Ask, Answer, RequestGate, ResolveGate, RequestHandoff
  <2>2. faults' = faults \/ Fails(r)
    BY <1>8 DEF AgentSettles, PolicyLoaded, NoteSwitch, SwitchModel, NoteSkip, Timeout, Dies, Abort, Settle,
                Ask, Answer, RequestGate, ResolveGate, RequestHandoff
  <2>3. OtherTypes'
    BY <2>1, <2>2, <1>2 DEF OtherTypes
  <2>4. \/ UNCHANGED <<turn, tried>>
        \/ AgentSettles(r) \/ PolicyLoaded(r) \/ NoteSwitch(r) \/ SwitchModel(r) \/ NoteSkip(r)
    BY <1>8 DEF Timeout, Dies, Abort, Settle, Ask, Answer, RequestGate, ResolveGate, RequestHandoff
  <2>. QED BY <2>1, <2>3, <2>4, <1>3, TurnsStayTyped
<1>9. ASSUME NEW h \in Handoffs,
             AcquireLock(h) \/ Plan(h) \/ Grow(h) \/ RecordEdge(h) \/ Late(h) \/ ReadLaunch(h) \/ LaunchOver(h)
      PROVE  TurnTypes' /\ OtherTypes'
  <2>1. UNCHANGED <<open, others, request, closing, role, awaited, child, phase, agent, turn, tried>>
    BY <1>9 DEF AcquireLock, Plan, Grow, RecordEdge, Late, ReadLaunch, LaunchOver
  <2>2. audience' = audience \/ (accept[h] = "joining" /\ audience' = audience \cup {target[h]})
    BY <1>9 DEF AcquireLock, Plan, Grow, RecordEdge, Late, ReadLaunch, LaunchOver
  <2>3. faults' = faults \/ (accept[h] = "recording" /\ Fails(source[h]))
    BY <1>9 DEF AcquireLock, Plan, Grow, RecordEdge, Late, ReadLaunch, LaunchOver
  <2>4. accept[h] # "none" => source[h] \in Runs /\ target[h] \in Agents
    BY DEF BrokerInv, Begun
  <2>. QED BY <2>1, <2>2, <2>3, <2>4, <1>2, <1>3 DEF OtherTypes
<1>10. ASSUME NEW h \in Handoffs, Launch(h) PROVE TurnTypes' /\ OtherTypes'
  <2>1. /\ UNCHANGED <<open, audience, others, faults, request, closing, awaited, turn, tried>>
        /\ target[h] \in Agents
    BY <1>10 DEF Launch, BrokerInv, Begun
  <2>2. CASE \E r \in Runs : Reserve(r, target[h], "workflow") /\ child' = [child EXCEPT ![h] = r]
    <3>1. PICK r \in Runs : Reserve(r, target[h], "workflow") /\ child' = [child EXCEPT ![h] = r]
      BY <2>2
    <3>2. TurnTypes' /\ role' \in [Runs -> {"none", "root", "workflow", "start"}]
      BY <2>1, <3>1, ReserveStaysTyped
    <3>3. child' \in [Handoffs -> Runs \cup {0}]
      BY <3>1 DEF OtherTypes
    <3>. QED BY <2>1, <3>2, <3>3 DEF OtherTypes
  <2>3. CASE UNCHANGED <<phase, agent, role, child>>
    BY <2>1, <2>3, <1>3 DEF OtherTypes
  <2>. QED BY <1>10, <2>2, <2>3 DEF Launch
<1>11. CASE Close \/ (\E r \in Runs : StopRun(r)) \/ ClearApprovals \/ Closed
  <2>1. UNCHANGED <<open, audience, others, faults, request, role, awaited, child, phase, agent, turn, tried>>
    BY <1>11 DEF Close, StopRun, ClearApprovals, Closed
  <2>2. closing' \in {closing, "stopping", "waiting", "closed"}
    BY <1>11 DEF Close, StopRun, ClearApprovals, Closed
  <2>. QED BY <2>1, <2>2, <1>3 DEF OtherTypes
<1>12. CASE OtherTakes \/ OtherGives
  <2>1. UNCHANGED <<audience, faults, request, closing, role, awaited, child, phase, agent, turn, tried>>
    BY <1>12 DEF OtherTakes, OtherGives
  <2>2. open' \in BOOLEAN /\ others' \in 0..MaxOthers
    BY <1>12, BrokerAssumption DEF OtherTakes, OtherGives, OtherTypes
  <2>. QED BY <2>1, <2>2, <1>3 DEF OtherTypes
<1>13. CASE UNCHANGED vars
  BY <1>13, <1>3 DEF vars, OtherTypes
<1>14. \A r \in Runs : Drive(r) \/ Turn(r) \/ Timeout(r) \/ Dies(r) \/ Abort(r) => TurnTypes' /\ OtherTypes'
  BY <1>6, <1>7, <1>8 DEF Drive, Turn
<1>15. \A h \in Handoffs : Follow(h) => TurnTypes' /\ OtherTypes'
  BY <1>9, <1>10 DEF Follow
<1>. QED BY <1>4, <1>11, <1>12, <1>13, <1>14, <1>15 DEF Next, Closes

(* Everything the broker keeps has its type, and so a run never tries more  *)
(* models than are configured for its agent, whatever settles, fails or is  *)
(* reserved meanwhile (onSettledAttempt).                                   *)
THEOREM BrokerIsTyped == Spec => []TypeOK
<1>1. BrokerInv /\ TurnTypes /\ OtherTypes => TypeOK
  <2>. SUFFICES ASSUME BrokerInv, TurnTypes, OtherTypes PROVE TypeOK
    OBVIOUS
  <2>1. /\ turn \in [Runs -> {"agent", "loading", "noting", "switching", "skipping"}]
        /\ tried \in [Runs -> Nat] /\ \A r \in Runs : tried[r] > 0 => tried[r] <= Fallbacks[agent[r]]
    BY DEF TurnTypes, Attempts
  <2>. QED BY <2>1 DEF OtherTypes, BrokerInv, Types, TypeOK, Accepts, Underlock
<1>. QED BY <1>1, MoreTypesStart, MoreTypesStep, BrokerStarts, BrokerStep, PTL DEF Spec
=============================================================================
