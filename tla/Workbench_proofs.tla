-------------------------- MODULE Workbench_proofs --------------------------
(***************************************************************************)
(* Proofs about the Workbench, for any sets of conversations, agents and   *)
(* runs.  Its selection: types, that only the newest open flow is ever     *)
(* shown, that the facts beside a conversation are its own, and that what  *)
(* this page changed is what it shows.  Its timeline: types, that every    *)
(* event is shown exactly once, and that no message the reader wrote is    *)
(* lost from sight.  The gateway's routes: that what they answer is so,    *)
(* and that a message is given to each agent once at most.                 *)
(***************************************************************************)
EXTENDS WorkbenchSelection, WorkbenchTimeline, ConversationRoutes, FiniteSetTheorems, SequenceTheorems,
        WellFoundedInduction, TLAPS

(* The types are kept by every step.                                       *)
LEMMA ShowTypeOK ==
    ASSUME TypeOK, NEW s, s \in {None, Attaching} \cup
             [phase: {"active", "read-only"}, id: Conversations, members: SUBSET Agents],
           Show(s)
    PROVE  /\ selection' = s
           /\ generation' \in Nat /\ statusSeq' \in Nat
           /\ telemetry' \subseteq Fact /\ statuses' \subseteq Fact
           /\ target' \in [id: Conversations, members: SUBSET Agents] \cup {Nowhere}
<1>1. TargetFor(s) \in [id: Conversations, members: SUBSET Agents] \cup {Nowhere}
    BY DEF TargetFor, None, Attaching
<1>. QED BY <1>1 DEF TypeOK, Show, facts

LEMMA ShownType ==
    ASSUME NEW phase \in {"active", "read-only"}, NEW c \in Conversations, NEW who \in SUBSET Agents
    PROVE  Shown(phase, c, who) \in [phase: {"active", "read-only"}, id: Conversations, members: SUBSET Agents]
BY DEF Shown

LEMMA OpenTypeOK ==
    ASSUME TypeOK, NEW c \in Conversations, Open(c)
    PROVE  /\ selection' \in {None, Attaching}
           /\ openSeq' \in Nat /\ opened' \in Conversations
           /\ opens' \subseteq [seq: Nat, id: Conversations, stage: {"reading", "attaching"}, members: SUBSET Agents]
           /\ generation' \in Nat /\ statusSeq' \in Nat
           /\ telemetry' \subseteq Fact /\ statuses' \subseteq Fact
           /\ target' \in [id: Conversations, members: SUBSET Agents] \cup {Nowhere}
<1>1. Show(Attaching) BY DEF Open
<1>2. openSeq' \in Nat BY DEF Open, TypeOK
<1>. QED BY <1>1, <1>2, ShowTypeOK DEF Open, TypeOK

THEOREM TypesCorrect == Spec => []TypeOK
<1>1. Init => TypeOK
    BY ConstantsAssumption DEF Init, TypeOK, None
<1>2. TypeOK /\ [Next]_vars => TypeOK'
    <2>. SUFFICES ASSUME TypeOK, [Next]_vars PROVE TypeOK'
        OBVIOUS
    <2>1. ASSUME NEW c \in Conversations, Navigate(c) PROVE TypeOK'
        BY <2>1, OpenTypeOK DEF TypeOK, Navigate, gateway
    <2>2. CASE GoHome
        <3>1. Show(None) BY <2>2 DEF GoHome
        <3>2. /\ selection' = None
              /\ generation' \in Nat /\ statusSeq' \in Nat
              /\ telemetry' \subseteq Fact /\ statuses' \subseteq Fact
              /\ target' \in [id: Conversations, members: SUBSET Agents] \cup {Nowhere}
            BY <3>1, ShowTypeOK
        <3>3. openSeq' \in Nat /\ opened' = Nowhere /\ route' = Nowhere
            BY <2>2 DEF GoHome, TypeOK
        <3>4. UNCHANGED <<status, members, others, opens, reads, statusReads, acts, refreshes>>
            BY <2>2 DEF GoHome, gateway
        <3>5. selection' \in {None, Attaching} \cup
                [phase: {"active", "read-only"}, id: Conversations, members: SUBSET Agents]
            BY <3>2
        <3>6. /\ status' \in [Conversations -> {"open", "archived"}]
              /\ members' \in [Conversations -> SUBSET Agents] /\ others' \in 0..MaxOthers
              /\ opens' \subseteq [seq: Nat, id: Conversations, stage: {"reading", "attaching"}, members: SUBSET Agents]
              /\ reads' \subseteq [id: Conversations, agent: Agents, generation: Nat]
              /\ statusReads' \subseteq [seq: Nat, id: Conversations, members: SUBSET Agents]
              /\ acts' \subseteq [id: Conversations, action: Action, stage: {"sent", "done", "lost"}]
              /\ refreshes' \subseteq Conversations
            BY <3>4 DEF TypeOK
        <3>7. route' \in Conversations \cup {Nowhere} /\ opened' \in Conversations \cup {Nowhere}
            BY <3>3
        <3>8. /\ openSeq' \in Nat /\ generation' \in Nat /\ statusSeq' \in Nat
              /\ telemetry' \subseteq Fact /\ statuses' \subseteq Fact
              /\ target' \in [id: Conversations, members: SUBSET Agents] \cup {Nowhere}
            BY <3>2, <3>3
        <3>. QED BY <3>5, <3>6, <3>7, <3>8 DEF TypeOK
    <2>3. ASSUME NEW flow \in opens, ReadManifest(flow) PROVE TypeOK'
        <3>1. opens' \subseteq [seq: Nat, id: Conversations, stage: {"reading", "attaching"}, members: SUBSET Agents]
            <4>1. [flow EXCEPT !.stage = "attaching", !.members = members[flow.id]] \in
                    [seq: Nat, id: Conversations, stage: {"reading", "attaching"}, members: SUBSET Agents]
                <5>1. flow \in [seq: Nat, id: Conversations, stage: {"reading", "attaching"}, members: SUBSET Agents]
                    BY DEF TypeOK
                <5>2. members[flow.id] \in SUBSET Agents
                    BY <5>1 DEF TypeOK
                <5>. QED BY <5>1, <5>2
            <4>. QED BY <2>3, <4>1 DEF TypeOK, ReadManifest
        <3>. QED BY <2>3, <3>1 DEF TypeOK, ReadManifest, gateway, facts
    <2>4. ASSUME NEW flow \in opens, Attach(flow) PROVE TypeOK'
        <3>1. CASE Stale(flow)
            BY <2>4, <3>1 DEF TypeOK, Attach, gateway, facts
        <3>2. CASE ~Stale(flow) /\ status[flow.id] = "open"
            <4>1. Shown("active", flow.id, members[flow.id]) \in
                    [phase: {"active", "read-only"}, id: Conversations, members: SUBSET Agents]
                BY ShownType DEF TypeOK
            <4>. QED BY <2>4, <3>2, <4>1, ShowTypeOK DEF TypeOK, Attach, gateway
        <3>3. CASE ~Stale(flow) /\ status[flow.id] # "open"
            <4>1. Shown("read-only", flow.id, flow.members) \in
                    [phase: {"active", "read-only"}, id: Conversations, members: SUBSET Agents]
                BY ShownType DEF TypeOK
            <4>. QED BY <2>4, <3>3, <4>1, ShowTypeOK DEF TypeOK, Attach, gateway
        <3>. QED BY <3>1, <3>2, <3>3
    <2>5. ASSUME NEW flow \in opens, OpenFails(flow) PROVE TypeOK'
        <3>1. CASE Stale(flow)
            BY <2>5, <3>1 DEF TypeOK, OpenFails, gateway, facts
        <3>2. CASE ~Stale(flow)
            BY <2>5, <3>2, ShowTypeOK DEF TypeOK, OpenFails, gateway
        <3>. QED BY <3>1, <3>2
    <2>6. ASSUME NEW action \in Action, Act(action) PROVE TypeOK'
        <3>1. selection.id \in Conversations
            BY <2>6 DEF Act, TypeOK, None, Attaching
        <3>. QED BY <2>6, <3>1 DEF TypeOK, Act, gateway, flows, facts
    <2>7. ASSUME NEW act \in acts, TakeEffect(act) PROVE TypeOK'
        <3>1. Outcome(act.action, status[act.id]) \in {"open", "archived"}
            BY DEF Outcome, TypeOK, Action
        <3>. QED BY <2>7, <3>1 DEF TypeOK, TakeEffect, flows, facts
    <2>8. ASSUME NEW act \in acts, Succeed(act) \/ ServerError(act) PROVE TypeOK'
        <3>1. act.id \in Conversations /\ Open(act.id) /\ acts' \subseteq acts
            BY <2>8 DEF TypeOK, Succeed, ServerError
        <3>. QED BY <2>8, <3>1, OpenTypeOK DEF TypeOK, Succeed, ServerError, gateway
    <2>9. ASSUME NEW act \in acts, NotFound(act) PROVE TypeOK'
        BY <2>9, ShowTypeOK DEF TypeOK, NotFound, gateway, flows
    <2>10. ASSUME NEW act \in acts, Refused(act) PROVE TypeOK'
        BY <2>10 DEF TypeOK, Refused, gateway, flows, facts
    <2>11. ASSUME NEW a \in Agents, Send(a) PROVE TypeOK'
        <3>1. selection.id \in Conversations
            BY <2>11 DEF Send, TypeOK, None, Attaching
        <3>. QED BY <2>11, <3>1 DEF TypeOK, Send, flows, facts
    <2>12. ASSUME NEW c \in refreshes, Refresh(c) PROVE TypeOK'
        <3>1. CASE selection.phase = "active" /\ selection.id = c
            <4>1. Shown("active", c, members[c]) \in
                    [phase: {"active", "read-only"}, id: Conversations, members: SUBSET Agents]
                BY ShownType DEF TypeOK
            <4>. QED BY <2>12, <3>1, <4>1, ShowTypeOK DEF TypeOK, Refresh, gateway, flows
        <3>2. CASE ~(selection.phase = "active" /\ selection.id = c)
            BY <2>12, <3>2 DEF TypeOK, Refresh, gateway, flows, facts
        <3>. QED BY <3>1, <3>2
    <2>13. ASSUME NEW a \in Agents, ReadTelemetry(a) PROVE TypeOK'
        <3>1. selection.id \in Conversations
            BY <2>13 DEF ReadTelemetry, TypeOK, None, Attaching
        <3>. QED BY <2>13, <3>1 DEF TypeOK, ReadTelemetry, gateway, flows, facts
    <2>14. ASSUME NEW read \in reads, AnswerTelemetry(read) PROVE TypeOK'
        BY <2>14 DEF TypeOK, AnswerTelemetry, gateway, flows, Fact
    <2>15. CASE ReadStatuses
        <3>1. selection.id \in Conversations /\ selection.members \subseteq Agents
            BY <2>15 DEF ReadStatuses, TypeOK, None, Attaching
        <3>. QED BY <2>15, <3>1 DEF TypeOK, ReadStatuses, gateway, flows
    <2>16. ASSUME NEW read \in statusReads, AnswerStatuses(read) PROVE TypeOK'
        BY <2>16 DEF TypeOK, AnswerStatuses, gateway, flows, Fact
    <2>17. ASSUME NEW c \in Conversations, OtherClient(c) PROVE TypeOK'
        <3>1. others' \in 0..MaxOthers
            BY <2>17, ConstantsAssumption DEF OtherClient, TypeOK
        <3>. QED BY <2>17, <3>1 DEF TypeOK, OtherClient, flows, facts
    <2>18. CASE UNCHANGED vars
        BY <2>18 DEF TypeOK, vars, gateway, flows, facts
    <2>. QED BY <2>1, <2>2, <2>3, <2>4, <2>5, <2>6, <2>7, <2>8, <2>9, <2>10, <2>11, <2>12, <2>13,
                <2>14, <2>15, <2>16, <2>17, <2>18 DEF Next, Answer
<1>. QED BY <1>1, <1>2, PTL DEF Spec

-----------------------------------------------------------------------------
(* What is shown is what the newest open asked for.  The invariant also    *)
(* says which conversation the newest flow is for, and that no flow has a  *)
(* later number than openSeq.                                              *)
NewestInv ==
    /\ selection.id \in {opened, Nowhere}
    /\ \A flow \in opens : flow.seq <= openSeq /\ (flow.seq = openSeq => flow.id = opened)

LEMMA OpenNewest ==
    ASSUME TypeOK, NewestInv, NEW c \in Conversations, Open(c)
    PROVE  NewestInv'
<1>1. selection'.id = Nowhere
    BY DEF Open, Show, Attaching, None
<1>2. ASSUME NEW flow \in opens' PROVE flow.seq <= openSeq' /\ (flow.seq = openSeq' => flow.id = opened')
    BY <1>2 DEF Open, TypeOK, NewestInv
<1>. QED BY <1>1, <1>2 DEF NewestInv

(* Only the newest open flow decides what is shown.                        *)
THEOREM NewestShown == Spec => []NewestOpenShown
<1>1. Init => NewestInv
    BY DEF Init, NewestInv, None
<1>2. TypeOK /\ NewestInv /\ [Next]_vars => NewestInv'
    <2>. SUFFICES ASSUME TypeOK, NewestInv, [Next]_vars PROVE NewestInv'
        OBVIOUS
    <2>1. ASSUME NEW c \in Conversations, Navigate(c) PROVE NewestInv'
        BY <2>1, OpenNewest DEF Navigate
    <2>2. CASE GoHome
        BY <2>2 DEF GoHome, Show, NewestInv, None, TypeOK
    <2>3. ASSUME NEW flow \in opens, ReadManifest(flow) PROVE NewestInv'
        BY <2>3 DEF ReadManifest, NewestInv, TypeOK
    <2>4. ASSUME NEW flow \in opens, Attach(flow) PROVE NewestInv'
        <3>1. selection'.id \in {opened, Nowhere}
            BY <2>4 DEF Attach, Show, Shown, Stale, NewestInv
        <3>. QED BY <2>4, <3>1 DEF Attach, NewestInv
    <2>5. ASSUME NEW flow \in opens, OpenFails(flow) PROVE NewestInv'
        BY <2>5 DEF OpenFails, Show, None, NewestInv
    <2>6. ASSUME NEW act \in acts, Succeed(act) \/ ServerError(act) PROVE NewestInv'
        BY <2>6, OpenNewest DEF TypeOK, Succeed, ServerError
    <2>7. ASSUME NEW act \in acts, NotFound(act) PROVE NewestInv'
        BY <2>7 DEF NotFound, Show, None, NewestInv, flows
    <2>8. ASSUME NEW c \in refreshes, Refresh(c) PROVE NewestInv'
        BY <2>8 DEF Refresh, Show, Shown, NewestInv, flows
    <2>9. CASE UNCHANGED <<flows, selection>>
        BY <2>9 DEF NewestInv, flows
    <2>10. ASSUME \/ \E action \in Action : Act(action)
                  \/ \E act \in acts : TakeEffect(act) \/ Refused(act)
                  \/ \E a \in Agents : Send(a) \/ ReadTelemetry(a)
                  \/ \E c \in Conversations : OtherClient(c)
                  \/ ReadStatuses
                  \/ \E read \in reads : AnswerTelemetry(read)
                  \/ \E read \in statusReads : AnswerStatuses(read)
           PROVE  UNCHANGED <<flows, selection>>
        BY <2>10 DEF Act, TakeEffect, Refused, Send, ReadTelemetry, OtherClient, ReadStatuses,
                     AnswerTelemetry, AnswerStatuses
    <2>. QED BY <2>1, <2>2, <2>3, <2>4, <2>5, <2>6, <2>7, <2>8, <2>9, <2>10 DEF Next, Answer, vars
<1>3. NewestInv => NewestOpenShown
    BY DEF NewestInv, NewestOpenShown
<1>. QED BY <1>1, <1>2, <1>3, TypesCorrect, PTL DEF Spec

-----------------------------------------------------------------------------
(* The facts beside a conversation are its own.  A telemetry read of the   *)
(* present generation is for the conversation shown, and so is the target  *)
(* of status reads.                                                        *)
FactsInv ==
    /\ FactsOfShown
    /\ \A read \in reads :
         read.generation <= generation /\ (read.generation = generation => read.id = selection.id)
    /\ target # Nowhere => target.id = selection.id

(* A commit keeps it, whether the surface changes or not.                  *)
LEMMA ShowFacts ==
    ASSUME TypeOK, FactsInv, NEW s, Show(s), reads' = reads
    PROVE  FactsInv'
<1>1. CASE s.id = selection.id
    BY <1>1 DEF Show, SurfaceKey, facts, FactsInv, FactsOfShown
<1>2. CASE s.id # selection.id
    <2>1. FactsOfShown'
        BY <1>2 DEF Show, SurfaceKey, FactsOfShown
    <2>2. ASSUME NEW read \in reads
          PROVE  read.generation <= generation' /\ read.generation # generation'
        BY <1>2 DEF Show, SurfaceKey, FactsInv, TypeOK
    <2>3. target' # Nowhere => target'.id = selection'.id
        BY <1>2 DEF Show, SurfaceKey, TargetFor
    <2>. QED BY <2>1, <2>2, <2>3 DEF FactsInv
<1>. QED BY <1>1, <1>2

(* Telemetry and workflow statuses never show beside another conversation. *)
THEOREM FactsOwn == Spec => []FactsOfShown
<1>1. Init => FactsInv
    BY DEF Init, FactsInv, FactsOfShown
<1>2. TypeOK /\ FactsInv /\ [Next]_vars => FactsInv'
    <2>. SUFFICES ASSUME TypeOK, FactsInv, [Next]_vars PROVE FactsInv'
        OBVIOUS
    <2>1. ASSUME reads' = reads, NEW s, Show(s) PROVE FactsInv'
        BY <2>1, ShowFacts
    <2>2. ASSUME UNCHANGED <<selection, facts, reads>> PROVE FactsInv'
        BY <2>2 DEF FactsInv, FactsOfShown, facts
    <2>3. ASSUME \/ \E c \in Conversations : Navigate(c)
                 \/ GoHome
                 \/ \E flow \in opens : Attach(flow) \/ OpenFails(flow)
                 \/ \E act \in acts : Succeed(act) \/ ServerError(act) \/ NotFound(act)
                 \/ \E c \in refreshes : Refresh(c)
          PROVE  reads' = reads /\ ((\E s : Show(s)) \/ UNCHANGED <<selection, facts>>)
        BY <2>3 DEF Navigate, GoHome, Attach, OpenFails, Succeed, ServerError, NotFound, Refresh, Open
    <2>4. ASSUME \/ \E flow \in opens : ReadManifest(flow)
                 \/ \E action \in Action : Act(action)
                 \/ \E act \in acts : TakeEffect(act) \/ Refused(act)
                 \/ \E a \in Agents : Send(a)
                 \/ \E c \in Conversations : OtherClient(c)
          PROVE  UNCHANGED <<selection, facts, reads>>
        BY <2>4 DEF ReadManifest, Act, TakeEffect, Refused, Send, OtherClient
    <2>5. ASSUME NEW a \in Agents, ReadTelemetry(a) PROVE FactsInv'
        BY <2>5 DEF ReadTelemetry, FactsInv, FactsOfShown, facts, TypeOK
    <2>6. ASSUME NEW read \in reads, AnswerTelemetry(read) PROVE FactsInv'
        BY <2>6 DEF AnswerTelemetry, FactsInv, FactsOfShown
    <2>7. CASE ReadStatuses
        BY <2>7 DEF ReadStatuses, FactsInv, FactsOfShown
    <2>8. ASSUME NEW read \in statusReads, AnswerStatuses(read) PROVE FactsInv'
        <3>1. \A fact \in statuses' : fact.of = selection.id
            <4>1. CASE statuses' = statuses
                BY <2>8, <4>1 DEF AnswerStatuses, FactsInv, FactsOfShown
            <4>2. CASE statuses' # statuses
                <5>1. /\ target = [id |-> read.id, members |-> read.members]
                      /\ statuses' = {[agent |-> a, of |-> read.id] : a \in read.members}
                    BY <2>8, <4>2 DEF AnswerStatuses
                <5>2. read.id \in Conversations /\ read.members \in SUBSET Agents
                    BY <2>8 DEF TypeOK
                <5>3. target # Nowhere
                    BY <5>1, <5>2, ConstantsAssumption
                <5>4. target.id = read.id /\ target.id = selection.id
                    BY <5>1, <5>3 DEF FactsInv
                <5>5. selection' = selection
                    BY <2>8 DEF AnswerStatuses
                <5>. QED BY <5>1, <5>4, <5>5
            <4>. QED BY <4>1, <4>2
        <3>. QED BY <2>8, <3>1 DEF AnswerStatuses, FactsInv, FactsOfShown
    <2>9. CASE UNCHANGED vars
        BY <2>2, <2>9 DEF vars
    <2>. QED BY <2>1, <2>2, <2>3, <2>4, <2>5, <2>6, <2>7, <2>8, <2>9 DEF Next, Answer
<1>3. FactsInv => FactsOfShown
    BY DEF FactsInv
<1>. QED BY <1>1, <1>2, <1>3, TypesCorrect, PTL DEF Spec

-----------------------------------------------------------------------------
(* A conversation shown as active that is not open has a request of this   *)
(* page behind it that took effect: still unanswered, or its answer lost.  *)
OwnInv ==
    others = 0 /\ selection.phase = "active" /\ status[selection.id] # "open"
        => \E act \in acts : act.id = selection.id /\ act.stage \in {"done", "lost"}

(* What this page changed, it shows, as long as no other client is at      *)
(* work: the re-reads after lifecycle answers are enough.                  *)
THEOREM OwnShown == Spec => []OwnChangesShown
<1>1. Init => OwnInv
    BY DEF Init, OwnInv, None
<1>2. TypeOK /\ OwnInv /\ [Next]_vars => OwnInv'
    <2>. SUFFICES ASSUME TypeOK, OwnInv, [Next]_vars PROVE OwnInv'
        OBVIOUS
    <2>1. ASSUME NEW s, Show(s), s.phase # "active" PROVE OwnInv'
        BY <2>1 DEF Show, OwnInv
    <2>2. ASSUME NEW c \in Conversations, Open(c) PROVE OwnInv'
        BY <2>1, <2>2 DEF Open, Attaching, None
    <2>3. ASSUME UNCHANGED <<others, selection, status, acts>> PROVE OwnInv'
        BY <2>3 DEF OwnInv
    <2>4. ASSUME NEW flow \in opens, Attach(flow) PROVE OwnInv'
        <3>1. CASE Stale(flow)
            BY <2>3, <2>4, <3>1 DEF Attach, gateway
        <3>2. CASE ~Stale(flow) /\ status[flow.id] = "open"
            BY <2>4, <3>2 DEF Attach, Show, Shown, OwnInv, gateway
        <3>3. CASE ~Stale(flow) /\ status[flow.id] # "open"
            BY <2>1, <2>4, <3>3 DEF Attach, Shown
        <3>. QED BY <3>1, <3>2, <3>3
    <2>5. ASSUME NEW flow \in opens, OpenFails(flow) PROVE OwnInv'
        BY <2>1, <2>3, <2>5 DEF OpenFails, None, gateway
    <2>6. ASSUME NEW action \in Action, Act(action) PROVE OwnInv'
        BY <2>6 DEF Act, OwnInv, gateway
    <2>7. ASSUME NEW act \in acts, TakeEffect(act) PROVE OwnInv'
        <3>. SUFFICES ASSUME others = 0, selection.phase = "active", status'[selection.id] # "open"
                      PROVE  \E b \in acts' : b.id = selection.id /\ b.stage \in {"done", "lost"}
            BY <2>7 DEF TakeEffect, OwnInv
        <3>1. act.id \in Conversations /\ act.stage = "sent"
            BY <2>7 DEF TypeOK, TakeEffect
        <3>2. CASE act.id = selection.id
            <4>1. [act EXCEPT !.stage = "done"] \in acts'
                BY <2>7 DEF TakeEffect
            <4>2. /\ [act EXCEPT !.stage = "done"].id = act.id
                  /\ [act EXCEPT !.stage = "done"].stage = "done"
                BY DEF TypeOK
            <4>. QED BY <3>2, <4>1, <4>2
        <3>3. CASE act.id # selection.id
            <4>1. status'[selection.id] = status[selection.id]
                BY <2>7, <3>3 DEF TakeEffect, TypeOK
            <4>2. PICK b \in acts : b.id = selection.id /\ b.stage \in {"done", "lost"}
                BY <4>1 DEF OwnInv
            <4>. QED BY <2>7, <3>1, <4>2 DEF TakeEffect
        <3>. QED BY <3>2, <3>3
    <2>8. ASSUME NEW act \in acts, Succeed(act) \/ ServerError(act) PROVE OwnInv'
        BY <2>2, <2>8 DEF TypeOK, Succeed, ServerError
    <2>9. ASSUME NEW act \in acts, Refused(act) PROVE OwnInv'
        <3>. SUFFICES ASSUME others = 0, selection.phase = "active", status[selection.id] # "open"
                      PROVE  \E b \in acts' : b.id = selection.id /\ b.stage \in {"done", "lost"}
            BY <2>9 DEF Refused, OwnInv, gateway
        <3>1. PICK b \in acts : b.id = selection.id /\ b.stage \in {"done", "lost"}
            BY DEF OwnInv
        <3>2. CASE b # act
            BY <2>9, <3>1, <3>2 DEF Refused
        <3>3. CASE b = act /\ act.stage = "done"
            <4>1. [act EXCEPT !.stage = "lost"] \in acts'
                BY <2>9, <3>3 DEF Refused
            <4>2. /\ [act EXCEPT !.stage = "lost"].id = act.id
                  /\ [act EXCEPT !.stage = "lost"].stage = "lost"
                BY DEF TypeOK
            <4>. QED BY <3>1, <3>3, <4>1, <4>2
        <3>. QED BY <2>9, <3>1, <3>2, <3>3 DEF Refused
    <2>10. ASSUME NEW c \in refreshes, Refresh(c) PROVE OwnInv'
        BY <2>10 DEF Refresh, Show, Shown, OwnInv, gateway
    <2>11. ASSUME NEW c \in Conversations, OtherClient(c) PROVE OwnInv'
        BY <2>11 DEF OtherClient, OwnInv, TypeOK
    <2>12. ASSUME NEW act \in acts, NotFound(act) PROVE OwnInv'
        BY <2>1, <2>12 DEF NotFound, None
    <2>13. ASSUME \/ \E flow \in opens : ReadManifest(flow)
                  \/ \E a \in Agents : Send(a) \/ ReadTelemetry(a)
                  \/ ReadStatuses
                  \/ \E read \in reads : AnswerTelemetry(read)
                  \/ \E read \in statusReads : AnswerStatuses(read)
                  \/ UNCHANGED vars
           PROVE  UNCHANGED <<others, selection, status, acts>>
        BY <2>13 DEF ReadManifest, Send, ReadTelemetry, ReadStatuses, AnswerTelemetry, AnswerStatuses,
                     vars, gateway
    <2>14. CASE GoHome
        BY <2>1, <2>14 DEF GoHome, None
    <2>15. ASSUME NEW c \in Conversations, Navigate(c) PROVE OwnInv'
        BY <2>2, <2>15 DEF Navigate
    <2>. QED BY <2>3, <2>4, <2>5, <2>6, <2>7, <2>8, <2>9, <2>10, <2>11, <2>12, <2>13, <2>14, <2>15
             DEF Next, Answer
<1>3. OwnInv => OwnChangesShown
    BY DEF OwnInv, OwnChangesShown
<1>. QED BY <1>1, <1>2, <1>3, TypesCorrect, PTL DEF Spec

-----------------------------------------------------------------------------
(* A run that has been started has a number.                               *)
Numbered == \A a \in Speakers : run[a].stage # "idle" => run[a].n >= 1

TypesInv == TimelineTypeOK /\ Numbered

LEMMA RunOfType ==
    ASSUME TypesInv, NEW a \in Speakers, run[a].stage # "idle"
    PROVE  RunOf(a) \in RunId
BY DEF TypesInv, TimelineTypeOK, Numbered, RunOf, RunId

LEMMA PushType ==
    ASSUME TypesInv, NEW frame \in Frame, Push(frame)
    PROVE  wire' \in Seq(Frame)
BY DEF Push, TypesInv, TimelineTypeOK

LEMMA KeepType ==
    ASSUME TypesInv, NEW event \in Event, Keep(event)
    PROVE  /\ log' \in Seq(Event) /\ unpublished' \subseteq DOMAIN log'
           /\ DOMAIN log' = DOMAIN log \cup {Len(log) + 1}
<1>1. log \in Seq(Event) /\ unpublished \subseteq DOMAIN log
    BY DEF TypesInv, TimelineTypeOK
<1>2. log' = Append(log, event) /\ unpublished' = unpublished \cup {Len(log) + 1}
    BY DEF Keep
<1>3. log' \in Seq(Event) /\ Len(log') = Len(log) + 1
    BY <1>1, <1>2
<1>4. DOMAIN log = 1..Len(log) /\ DOMAIN log' = 1..Len(log')
    BY <1>1, <1>3
<1>5. DOMAIN log' = DOMAIN log \cup {Len(log) + 1}
    BY <1>1, <1>3, <1>4
<1>. QED BY <1>1, <1>2, <1>3, <1>5

GatewayTyped ==
    /\ log \in Seq(Event) /\ unpublished \subseteq DOMAIN log
    /\ run \in [Speakers -> [n: 0..MaxRuns, stage: {"idle", "started", "working", "replied", "ended"}]]
    /\ asking \in [Speakers -> {"no", "pending", "answered"}]
    /\ Numbered

StreamTyped ==
    /\ sub \in BOOLEAN /\ wire \in Seq(Frame)
    /\ at \in {"off", "history", "connecting", "live", "disconnected"}
    /\ budget \in BOOLEAN

ViewTyped ==
    /\ items \in Seq(Nat) /\ missed \subseteq Nat
    /\ dock \subseteq RunId /\ settled \subseteq RunId /\ cards \subseteq RunId

ComposerTyped ==
    /\ posts \subseteq [m: 1..MaxTexts, stage: {"sent", "kept"}]
    /\ text \in 0..MaxTexts /\ held \in 0..MaxTexts \cup {Editable} /\ sending \in 0..MaxTexts
    /\ locked \in BOOLEAN /\ was \in BOOLEAN
    /\ written \in 0..MaxTexts /\ abandoned \subseteq 1..MaxTexts /\ dropped \subseteq 1..MaxTexts
    /\ faults \in 0..MaxFaults /\ mounts \in 0..MaxMounts

LEMMA TypesGrouped == TypesInv <=> GatewayTyped /\ StreamTyped /\ ViewTyped /\ ComposerTyped
BY DEF TypesInv, TimelineTypeOK, GatewayTyped, StreamTyped, ViewTyped, ComposerTyped

streamVars == <<stream, at, budget>>
composerVars == <<posts, composer, counts>>

LEMMA GroupsUnchanged ==
    /\ GatewayTyped /\ UNCHANGED timelineGateway => GatewayTyped'
    /\ StreamTyped /\ UNCHANGED streamVars => StreamTyped'
    /\ ViewTyped /\ UNCHANGED view => ViewTyped'
    /\ ComposerTyped /\ UNCHANGED composerVars => ComposerTyped'
<1>1. GatewayTyped /\ UNCHANGED timelineGateway => GatewayTyped'
    BY DEF GatewayTyped, timelineGateway, Numbered
<1>2. StreamTyped /\ UNCHANGED streamVars => StreamTyped'
    BY DEF StreamTyped, streamVars, stream
<1>3. ViewTyped /\ UNCHANGED view => ViewTyped'
    BY DEF ViewTyped, view
<1>4. ComposerTyped /\ UNCHANGED composerVars => ComposerTyped'
    BY DEF ComposerTyped, composerVars, composer, counts
<1>. QED BY <1>1, <1>2, <1>3, <1>4

LEMMA RunStep ==
    ASSUME GatewayTyped, NEW a \in Speakers, NEW s \in [n: 1..MaxRuns, stage: {"idle", "started", "working", "replied", "ended"}],
           run' = [run EXCEPT ![a] = s]
    PROVE  /\ run' \in [Speakers -> [n: 0..MaxRuns, stage: {"idle", "started", "working", "replied", "ended"}]]
           /\ Numbered'
BY DEF GatewayTyped, Numbered

LEMMA StageStep ==
    ASSUME GatewayTyped, NEW a \in Speakers, NEW g \in {"idle", "started", "working", "replied", "ended"},
           run[a].stage # "idle", run' = [run EXCEPT ![a].stage = g]
    PROVE  /\ run' \in [Speakers -> [n: 0..MaxRuns, stage: {"idle", "started", "working", "replied", "ended"}]]
           /\ Numbered'
<1>1. run[a] \in [n: 1..MaxRuns, stage: {"idle", "started", "working", "replied", "ended"}]
    BY DEF GatewayTyped, Numbered
<1>2. [run[a] EXCEPT !.stage = g] \in [n: 1..MaxRuns, stage: {"idle", "started", "working", "replied", "ended"}]
    BY <1>1
<1>3. run' = [run EXCEPT ![a] = [run[a] EXCEPT !.stage = g]]
    OBVIOUS
<1>. QED BY <1>2, <1>3, RunStep

LEMMA AskingStep ==
    ASSUME GatewayTyped, NEW a \in Speakers, NEW g \in {"no", "pending", "answered"},
           asking' = [asking EXCEPT ![a] = g]
    PROVE  asking' \in [Speakers -> {"no", "pending", "answered"}]
BY DEF GatewayTyped

LEMMA GatewayTypesStep ==
    ASSUME TypesInv, TimelineNext
    PROVE  GatewayTyped'
<1>. USE TypesGrouped
<1>1. ASSUME NEW i \in DOMAIN log, Publish(i) PROVE GatewayTyped'
    BY <1>1 DEF Publish, GatewayTyped, Numbered
<1>2. ASSUME NEW a \in Speakers, StartRun(a) PROVE GatewayTyped'
    <2>1. [n |-> run[a].n + 1, stage |-> "started"] \in [n: 1..MaxRuns, stage: {"idle", "started", "working", "replied", "ended"}]
        BY <1>2, TimelineAssumption DEF StartRun, GatewayTyped
    <2>2. run' = [run EXCEPT ![a] = [n |-> run[a].n + 1, stage |-> "started"]]
        BY <1>2 DEF StartRun
    <2>3. [kind |-> "started", agent |-> a] \in Event
        BY DEF Event
    <2>. QED BY <1>2, <2>1, <2>2, <2>3, RunStep, AskingStep, KeepType DEF StartRun, GatewayTyped
<1>3. ASSUME NEW a \in Speakers, Work(a) \/ Settle(a) PROVE GatewayTyped'
    BY <1>3, StageStep DEF Work, Settle, GatewayTyped
<1>4. ASSUME NEW a \in Speakers, Progress(a) PROVE GatewayTyped'
    BY <1>4, GroupsUnchanged DEF Progress
<1>5. ASSUME NEW a \in Speakers, Ask(a) PROVE GatewayTyped'
    BY <1>5, AskingStep DEF Ask, GatewayTyped, Numbered
<1>6. ASSUME NEW a \in Speakers, Reply(a) \/ Finish(a) PROVE GatewayTyped'
    <2>1. [kind |-> "reply", agent |-> a] \in Event /\ [kind |-> "end", agent |-> a] \in Event
        BY DEF Event
    <2>2. PICK e \in {"reply", "end"} : Keep([kind |-> e, agent |-> a])
        BY <1>6 DEF Reply, Finish
    <2>3. log' \in Seq(Event) /\ unpublished' \subseteq DOMAIN log'
        BY <2>1, <2>2, KeepType
    <2>. QED BY <1>6, <2>3, StageStep, AskingStep DEF Reply, Finish, GatewayTyped
<1>7. ASSUME NEW p \in posts, KeepPost(p) PROVE GatewayTyped'
    <2>1. [kind |-> "steward", m |-> p.m] \in Event
        BY DEF Event, ComposerTyped
    <2>. QED BY <1>7, <2>1, KeepType DEF KeepPost, GatewayTyped, Numbered
<1>8. ASSUME NEW r \in cards, Respond(r) PROVE GatewayTyped'
    <2>1. r.agent \in Speakers
        BY DEF ViewTyped, RunId
    <2>. QED BY <1>8, <2>1, AskingStep DEF Respond, GatewayTyped, Numbered
<1>9. ASSUME \/ \E p \in posts : Sent(p) \/ SendFails(p)
             \/ Type \/ Submit \/ Commit \/ ApplyInterlock \/ Mount \/ Unmount \/ ReadHistory \/ Connect \/ RequestFails \/ Break
             \/ StreamEnds \/ Reconnect \/ Receive
      PROVE  UNCHANGED timelineGateway
    BY <1>9 DEF Sent, SendFails, Type, Submit, Commit, ApplyInterlock, Mount, Unmount, ReadHistory, Connect,
                RequestFails, Break,
                StreamEnds, Reconnect, Receive
<1>. QED BY <1>1, <1>2, <1>3, <1>4, <1>5, <1>6, <1>7, <1>8, <1>9, GroupsUnchanged DEF TimelineNext

LEMMA EndType ==
    ASSUME TypesInv, End
    PROVE  /\ budget' \in BOOLEAN /\ at' \in {"history", "disconnected"}
           /\ ViewTyped'
<1>. USE TypesGrouped
<1>1. dock' = {} /\ settled' = {} /\ missed' = {} /\ cards' = cards
    BY DEF End
<1>2. CASE budget
    <2>1. budget' = FALSE /\ at' = "history" /\ items' = <<>>
        BY <1>2 DEF End
    <2>2. items' \in Seq(Nat)
        BY <2>1
    <2>3. ViewTyped'
        BY <1>1, <2>2 DEF ViewTyped
    <2>. QED BY <2>1, <2>3
<1>3. CASE ~budget
    <2>1. budget' = budget /\ at' = "disconnected" /\ items' = items
        BY <1>3 DEF End
    <2>. QED BY <1>1, <2>1 DEF ViewTyped, StreamTyped
<1>. QED BY <1>2, <1>3

LEMMA StreamTypesStep ==
    ASSUME TypesInv, TimelineNext
    PROVE  StreamTyped'
<1>. USE TypesGrouped
<1>1. ASSUME NEW i \in DOMAIN log, Publish(i) PROVE StreamTyped'
    <2>1. [kind |-> "event", id |-> i] \in Frame
        BY DEF Frame, GatewayTyped
    <2>. QED BY <1>1, <2>1, PushType DEF Publish, StreamTyped
<1>2. ASSUME NEW a \in Speakers, Work(a) \/ Progress(a) \/ Ask(a) \/ Settle(a) PROVE StreamTyped'
    <2>1. PICK k \in {"working", "delta", "settled", "approval"} : Push([kind |-> k, run |-> RunOf(a)])
        BY <1>2 DEF Work, Progress, Ask, Settle
    <2>2. RunOf(a) \in RunId
        BY <1>2, RunOfType DEF Work, Progress, Ask, Settle
    <2>3. [kind |-> k, run |-> RunOf(a)] \in Frame
        BY <2>2 DEF Frame
    <2>4. wire' \in Seq(Frame)
        BY <2>1, <2>3, PushType
    <2>. QED BY <1>2, <2>4 DEF Work, Progress, Ask, Settle, StreamTyped
<1>3. ASSUME Unmount \/ Connect PROVE StreamTyped'
    <2>1. /\ wire' = <<>> /\ sub' \in BOOLEAN /\ at' \in {"off", "live"} /\ budget' = budget
        BY <1>3 DEF Unmount, Connect
    <2>2. wire' \in Seq(Frame)
        BY <2>1
    <2>. QED BY <2>1, <2>2 DEF StreamTyped
<1>4. ASSUME RequestFails \/ StreamEnds PROVE StreamTyped'
    <2>1. End /\ UNCHANGED <<sub, wire>>
        BY <1>4 DEF RequestFails, StreamEnds, stream
    <2>2. budget' \in BOOLEAN /\ at' \in {"history", "disconnected"}
        BY <2>1, EndType
    <2>. QED BY <2>1, <2>2 DEF StreamTyped
<1>5. CASE Break
    <2>1. PICK k \in 0..Len(wire) : wire' = SubSeq(wire, 1, k)
        BY <1>5 DEF Break
    <2>2. wire' \in Seq(Frame)
        BY <2>1 DEF StreamTyped
    <2>. QED BY <1>5, <2>2 DEF Break, StreamTyped
<1>6. CASE Receive
    BY <1>6 DEF Receive, StreamTyped
<1>7. ASSUME Mount \/ ReadHistory \/ Reconnect PROVE StreamTyped'
    BY <1>7 DEF Mount, ReadHistory, Reconnect, StreamTyped, stream
<1>8. ASSUME \/ \E a \in Speakers : StartRun(a) \/ Reply(a) \/ Finish(a)
             \/ \E p \in posts : KeepPost(p) \/ Sent(p) \/ SendFails(p)
             \/ Type \/ Submit \/ Commit \/ ApplyInterlock
             \/ \E r \in cards : Respond(r)
      PROVE  UNCHANGED streamVars
    BY <1>8 DEF StartRun, Reply, Finish, KeepPost, Sent, SendFails, Type, Submit, Commit, ApplyInterlock, Respond,
                streamVars
<1>. QED BY <1>1, <1>2, <1>3, <1>4, <1>5, <1>6, <1>7, <1>8, GroupsUnchanged DEF TimelineNext

LEMMA HeadOfWire ==
    ASSUME TypesInv, wire # <<>>
    PROVE  Head(wire) \in Frame
BY DEF TypesInv, TimelineTypeOK

LEMMA ViewTypesStep ==
    ASSUME TypesInv, TimelineNext
    PROVE  ViewTyped'
<1>. USE TypesGrouped
<1>1. ASSUME RequestFails \/ StreamEnds PROVE ViewTyped'
    <2>1. End
        BY <1>1 DEF RequestFails, StreamEnds
    <2>. QED BY <2>1, EndType
<1>2. ASSUME Unmount \/ Reconnect PROVE ViewTyped'
    <2>1. /\ items' = <<>> /\ missed' \subseteq missed /\ dock' = {} /\ settled' = {}
          /\ cards' \subseteq cards
        BY <1>2 DEF Unmount, Reconnect
    <2>. QED BY <2>1 DEF ViewTyped
<1>3. CASE ReadHistory
    <2>1. [i \in 1..Len(log) |-> i] \in Seq(Nat)
        BY DEF GatewayTyped
    <2>. QED BY <1>3, <2>1 DEF ReadHistory, ViewTyped
<1>4. CASE Connect
    <2>1. DOMAIN log \subseteq Nat
        BY DEF GatewayTyped
    <2>. QED BY <1>4, <2>1 DEF Connect, ViewTyped
<1>5. CASE Receive
    <2>. DEFINE frame == Head(wire)
    <2>1. frame \in Frame
        BY <1>5, HeadOfWire DEF Receive
    <2>2. CASE frame.kind = "event" /\ ShowEvent(frame)
        <3>1. frame.id \in Nat
            BY <2>1, <2>2 DEF Frame
        <3>2. items' \in Seq(Nat)
            BY <2>2, <3>1 DEF ShowEvent, AppendLive, ViewTyped
        <3>3. dock' \subseteq dock /\ UNCHANGED <<settled, cards>>
            BY <2>2 DEF ShowEvent, Reconciled
        <3>. QED BY <1>5, <3>2, <3>3 DEF Receive, ViewTyped
    <2>3. ASSUME frame.kind \in {"approval", "working", "delta", "settled"} PROVE frame.run \in RunId
        BY <2>1, <2>3 DEF Frame
    <2>4. CASE frame.kind = "approval" /\ cards' = cards \cup {frame.run} /\ UNCHANGED <<items, dock, settled>>
        BY <1>5, <2>3, <2>4 DEF Receive, ViewTyped
    <2>5. CASE frame.kind \in {"working", "delta", "settled"} /\ ApplyActivity(frame) /\ UNCHANGED <<items, cards>>
        <3>1. dock' \subseteq RunId /\ settled' \subseteq RunId
            BY <2>3, <2>5 DEF ApplyActivity, ViewTyped
        <3>. QED BY <1>5, <2>5, <3>1 DEF Receive, ViewTyped
    <2>. QED BY <1>5, <2>2, <2>4, <2>5 DEF Receive
<1>6. ASSUME NEW r \in cards, Respond(r) PROVE ViewTyped'
    BY <1>6 DEF Respond, ViewTyped
<1>7. ASSUME \/ \E i \in DOMAIN log : Publish(i)
             \/ \E a \in Speakers : StartRun(a) \/ Work(a) \/ Progress(a) \/ Ask(a) \/ Reply(a) \/ Finish(a) \/ Settle(a)
             \/ \E p \in posts : KeepPost(p) \/ Sent(p) \/ SendFails(p)
             \/ Type \/ Submit \/ Commit \/ ApplyInterlock \/ Mount \/ Break
      PROVE  UNCHANGED view
    BY <1>7 DEF Publish, StartRun, Work, Progress, Ask, Reply, Finish, Settle, KeepPost, Sent, SendFails,
                Type, Submit, Commit, ApplyInterlock, Mount, Break
<1>. QED BY <1>1, <1>2, <1>3, <1>4, <1>5, <1>6, <1>7, GroupsUnchanged DEF TimelineNext

LEMMA VisibleType ==
    ASSUME TypesInv
    PROVE  Visible \in 0..MaxTexts
BY DEF TypesInv, TimelineTypeOK, Visible

LEMMA ComposerTypesStep ==
    ASSUME TypesInv, TimelineNext
    PROVE  ComposerTyped'
<1>. USE TypesGrouped, TimelineAssumption
<1>1. ASSUME NEW p \in posts, KeepPost(p) PROVE ComposerTyped'
    <2>1. [p EXCEPT !.stage = "kept"] \in [m: 1..MaxTexts, stage: {"sent", "kept"}]
        BY DEF ComposerTyped
    <2>. QED BY <1>1, <2>1 DEF KeepPost, ComposerTyped, composer, counts
<1>2. ASSUME NEW p \in posts, Sent(p) PROVE ComposerTyped'
    BY <1>2 DEF Sent, ComposerTyped, composer, counts
<1>3. ASSUME NEW p \in posts, SendFails(p) PROVE ComposerTyped'
    <2>1. p.m \in 0..MaxTexts
        BY DEF ComposerTyped
    <2>2. CASE sending = p.m
        <3>1. /\ text' \in 0..MaxTexts /\ held' \in 0..MaxTexts \cup {Editable} /\ sending' = 0
              /\ dropped' \subseteq 1..MaxTexts
            BY <1>3, <2>1, <2>2 DEF SendFails, Restore, ComposerTyped
        <3>. QED BY <1>3, <3>1 DEF SendFails, ComposerTyped
    <2>3. CASE sending # p.m
        BY <1>3, <2>3 DEF SendFails, ComposerTyped
    <2>. QED BY <2>2, <2>3
<1>4. CASE Type
    <2>1. written' \in 0..MaxTexts /\ text' \in 0..MaxTexts
        BY <1>4 DEF Type, ComposerTyped
    <2>. QED BY <1>4, <2>1 DEF Type, ComposerTyped
<1>5. CASE Submit
    <2>1. [m |-> text, stage |-> "sent"] \in [m: 1..MaxTexts, stage: {"sent", "kept"}]
        BY <1>5 DEF Submit, ComposerTyped
    <2>. QED BY <1>5, <2>1 DEF Submit, ComposerTyped, counts
<1>6. CASE Mount
    <2>1. mounts' \in 0..MaxMounts
        BY <1>6 DEF Mount, ComposerTyped
    <2>. QED BY <1>6, <2>1 DEF Mount, ComposerTyped, composer
<1>7. CASE Unmount
    <2>1. {text, sending, Visible} \ {0} \subseteq 1..MaxTexts
        BY VisibleType DEF ComposerTyped
    <2>2. locked' \in BOOLEAN /\ was' \in BOOLEAN
        BY <1>7 DEF Unmount
    <2>3. /\ text' \in 0..MaxTexts /\ held' \in 0..MaxTexts \cup {Editable} /\ sending' \in 0..MaxTexts
          /\ abandoned' \subseteq 1..MaxTexts
        BY <1>7, <2>1 DEF Unmount, ComposerTyped
    <2>. QED BY <1>7, <2>2, <2>3 DEF Unmount, ComposerTyped
<1>8. CASE Break
    <2>1. faults' \in 0..MaxFaults
        BY <1>8 DEF Break, ComposerTyped
    <2>. QED BY <1>8, <2>1 DEF Break, ComposerTyped, composer
<1>9. ASSUME Commit \/ ApplyInterlock PROVE ComposerTyped'
    <2>1. UNCHANGED <<posts, sending, counts>>
        BY <1>9 DEF Commit, ApplyInterlock
    <2>2. text' \in 0..MaxTexts /\ held' \in 0..MaxTexts \cup {Editable} /\ locked' \in BOOLEAN /\ was' \in BOOLEAN
        BY <1>9 DEF Commit, ApplyInterlock, ComposerTyped, Interlocked
    <2>. QED BY <2>1, <2>2 DEF ComposerTyped, counts
<1>10. ASSUME \/ \E i \in DOMAIN log : Publish(i)
              \/ \E a \in Speakers : StartRun(a) \/ Work(a) \/ Progress(a) \/ Ask(a) \/ Reply(a) \/ Finish(a) \/ Settle(a)
              \/ ReadHistory \/ Connect \/ RequestFails \/ StreamEnds \/ Reconnect \/ Receive
              \/ \E r \in cards : Respond(r)
       PROVE  UNCHANGED composerVars
    BY <1>10 DEF Publish, StartRun, Work, Progress, Ask, Reply, Finish, Settle, ReadHistory, Connect, RequestFails,
                 StreamEnds, Reconnect, Receive, Respond, End, composerVars
<1>. QED BY <1>1, <1>2, <1>3, <1>4, <1>5, <1>6, <1>7, <1>8, <1>9, <1>10, GroupsUnchanged DEF TimelineNext

LEMMA TimelineStarts == TimelineInit => TypesInv
<1>. SUFFICES ASSUME TimelineInit PROVE TypesInv
    OBVIOUS
<1>. USE TimelineAssumption DEF TimelineInit
<1>1. log \in Seq(Event) /\ wire \in Seq(Frame) /\ items \in Seq(Nat)
    OBVIOUS
<1>2. GatewayTyped
    BY <1>1 DEF GatewayTyped, Numbered
<1>3. StreamTyped
    BY <1>1 DEF StreamTyped
<1>4. ViewTyped
    BY <1>1 DEF ViewTyped
<1>5. locked \in BOOLEAN /\ was \in BOOLEAN
    OBVIOUS
<1>6. ComposerTyped
    BY <1>5 DEF ComposerTyped
<1>. QED BY <1>2, <1>3, <1>4, <1>6, TypesGrouped

LEMMA TimelineTypesStep == TypesInv /\ [TimelineNext]_timelineVars => TypesInv'
<1>. SUFFICES ASSUME TypesInv, [TimelineNext]_timelineVars PROVE TypesInv'
    OBVIOUS
<1>1. CASE TimelineNext
    <2>1. GatewayTyped' /\ StreamTyped' /\ ViewTyped' /\ ComposerTyped'
        BY <1>1, GatewayTypesStep, StreamTypesStep, ViewTypesStep, ComposerTypesStep
    <2>. QED BY <2>1 DEF TypesInv, TimelineTypeOK, GatewayTyped, StreamTyped, ViewTyped, ComposerTyped
<1>2. CASE UNCHANGED timelineVars
    <2>1. GatewayTyped /\ StreamTyped /\ ViewTyped /\ ComposerTyped
        BY TypesGrouped
    <2>2. GatewayTyped' /\ StreamTyped' /\ ViewTyped' /\ ComposerTyped'
        BY <1>2, <2>1, GroupsUnchanged DEF timelineVars, streamVars, composerVars
    <2>. QED BY <2>2 DEF TypesInv, TimelineTypeOK, GatewayTyped, StreamTyped, ViewTyped, ComposerTyped
<1>. QED BY <1>1, <1>2

(* Every variable of the timeline keeps its type.                          *)
THEOREM TimelineTypes == TimelineSpec => []TimelineTypeOK
<1>1. TimelineInit => TypesInv
    BY TimelineStarts
<1>2. TypesInv /\ [TimelineNext]_timelineVars => TypesInv'
    BY TimelineTypesStep
<1>3. TypesInv => TimelineTypeOK
    BY DEF TypesInv
<1>. QED BY <1>1, <1>2, <1>3, PTL DEF TimelineSpec

-----------------------------------------------------------------------------
(* Only a live timeline is subscribed, no event is shown twice, and one    *)
(* that is neither shown nor missed is on the wire or to be published.     *)
ShownInv ==
    /\ sub => at = "live"
    /\ IsInjective(items)
    /\ sub => DOMAIN log \subseteq ToSet(items) \cup OnWire \cup unpublished \cup missed

LEMMA OnWireIs ==
    \A x : x \in OnWire <=> \E i \in DOMAIN wire : wire[i].kind = "event" /\ wire[i].id = x
BY DEF OnWire

(* A frame pushed to a subscriber leaves what is on the wire there.        *)
LEMMA PushKeeps ==
    ASSUME TypesInv, NEW frame \in Frame, Push(frame), sub
    PROVE  /\ OnWire \subseteq OnWire'
           /\ frame.kind = "event" => frame.id \in OnWire'
<1>1. wire \in Seq(Frame) /\ wire' = Append(wire, frame)
    BY DEF TypesInv, TimelineTypeOK, Push
<1>2. Len(wire') = Len(wire) + 1 /\ wire'[Len(wire) + 1] = frame /\ \A i \in 1..Len(wire) : wire'[i] = wire[i]
    BY <1>1
<1>3. DOMAIN wire = 1..Len(wire) /\ DOMAIN wire' = 1..Len(wire')
    BY <1>1
<1>4. Len(wire) \in Nat
    BY <1>1
<1>5. ASSUME NEW x \in OnWire PROVE x \in OnWire'
    <2>1. PICK i \in DOMAIN wire : wire[i].kind = "event" /\ wire[i].id = x
        BY <1>5, OnWireIs
    <2>2. i \in DOMAIN wire' /\ wire'[i] = wire[i]
        BY <1>2, <1>3, <1>4
    <2>. QED BY <2>1, <2>2 DEF OnWire
<1>6. Len(wire) + 1 \in DOMAIN wire'
    BY <1>2, <1>3, <1>4
<1>7. frame.kind = "event" => frame.id \in OnWire'
    BY <1>2, <1>6 DEF OnWire
<1>. QED BY <1>5, <1>7

(* Whatever is on the wire is received first or stays there.               *)
LEMMA TailKeeps ==
    ASSUME TypesInv, wire # <<>>, wire' = Tail(wire), NEW x \in OnWire
    PROVE  x \in OnWire' \/ (Head(wire).kind = "event" /\ Head(wire).id = x)
<1>1. wire \in Seq(Frame)
    BY DEF TypesInv, TimelineTypeOK
<1>2. PICK i \in DOMAIN wire : wire[i].kind = "event" /\ wire[i].id = x
    BY OnWireIs
<1>3. CASE i = 1
    BY <1>1, <1>2, <1>3
<1>4. CASE i # 1
    <2>1. i - 1 \in DOMAIN wire' /\ wire'[i - 1] = wire[i]
        BY <1>1, <1>2, <1>4
    <2>. QED BY <1>2, <2>1 DEF OnWire
<1>. QED BY <1>3, <1>4

LEMMA AppendLiveIs ==
    ASSUME items \in Seq(Nat), IsInjective(items), NEW id \in Nat
    PROVE  /\ IsInjective(AppendLive(items, id))
           /\ ToSet(AppendLive(items, id)) = ToSet(items) \cup {id}
<1>1. Contains(items, id) <=> id \in ToSet(items)
    BY DEF Contains, ToSet
<1>2. CASE Contains(items, id)
    BY <1>1, <1>2 DEF AppendLive
<1>3. CASE ~Contains(items, id)
    <2>. DEFINE s == Append(items, id)
    <2>1. AppendLive(items, id) = s
        BY <1>3 DEF AppendLive
    <2>2. /\ Len(items) \in Nat /\ DOMAIN items = 1..Len(items) /\ DOMAIN s = 1..(Len(items) + 1)
          /\ s[Len(items) + 1] = id /\ \A i \in 1..Len(items) : s[i] = items[i]
        OBVIOUS
    <2>. HIDE DEF s
    <2>3. \A i \in DOMAIN s : i \in DOMAIN items \/ i = Len(items) + 1
        BY <2>2
    <2>4. \A i \in DOMAIN items : items[i] # id
        BY <1>1, <1>3 DEF ToSet
    <2>5. IsInjective(s)
        <3>. SUFFICES ASSUME NEW i \in DOMAIN s, NEW j \in DOMAIN s, s[i] = s[j] PROVE i = j
            BY DEF IsInjective
        <3>. QED BY <2>2, <2>3, <2>4 DEF IsInjective
    <2>6. ToSet(s) \subseteq ToSet(items) \cup {id}
        BY <2>2, <2>3 DEF ToSet
    <2>7. ToSet(items) \cup {id} \subseteq ToSet(s)
        <3>1. \A i \in DOMAIN items : i \in DOMAIN s /\ s[i] = items[i]
            BY <2>2
        <3>2. Len(items) + 1 \in DOMAIN s
            BY <2>2
        <3>. QED BY <2>2, <3>1, <3>2 DEF ToSet
    <2>. QED BY <2>1, <2>5, <2>6, <2>7
<1>. QED BY <1>2, <1>3

LEMMA HistoryIsInjective == \A n \in Nat : IsInjective([i \in 1..n |-> i])
BY DEF IsInjective

LEMMA NothingIsInjective == IsInjective(<<>>)
BY DEF IsInjective

(* What the gateway appends is first unpublished.                          *)
LEMMA KeepShown ==
    ASSUME TypesInv, ShownInv, NEW event \in Event, Keep(event), UNCHANGED <<sub, wire, at, items, missed>>
    PROVE  ShownInv'
<1>1. DOMAIN log' = DOMAIN log \cup {Len(log) + 1} /\ unpublished' = unpublished \cup {Len(log) + 1}
    BY KeepType DEF Keep
<1>2. OnWire' = OnWire
    BY DEF OnWire
<1>. QED BY <1>1, <1>2 DEF ShownInv

LEMMA PushShown ==
    ASSUME TypesInv, ShownInv, NEW frame \in Frame, Push(frame), UNCHANGED <<log, unpublished, sub, at, items, missed>>
    PROVE  ShownInv'
<1>1. sub => OnWire \subseteq OnWire'
    BY PushKeeps
<1>. QED BY <1>1 DEF ShownInv

LEMMA ShownStep ==
    ASSUME TypesInv, ShownInv, TimelineNext
    PROVE  ShownInv'
<1>. USE TypesGrouped
<1>1. ASSUME NEW i \in DOMAIN log, Publish(i) PROVE ShownInv'
    <2>. DEFINE f == [kind |-> "event", id |-> i]
    <2>1. f \in Frame
        BY DEF Frame, GatewayTyped
    <2>2. Push(f)
        BY <1>1 DEF Publish
    <2>3. f.kind = "event" /\ f.id = i
        OBVIOUS
    <2>. HIDE DEF f
    <2>4. sub => OnWire \subseteq OnWire' /\ i \in OnWire'
        BY <2>1, <2>2, <2>3, PushKeeps
    <2>5. unpublished' = unpublished \ {i}
        BY <1>1 DEF Publish
    <2>6. UNCHANGED <<log, sub, at, items, missed>>
        BY <1>1 DEF Publish, view
    <2>. QED BY <2>4, <2>5, <2>6 DEF ShownInv
<1>2. ASSUME NEW a \in Speakers, Work(a) \/ Progress(a) \/ Ask(a) \/ Settle(a) PROVE ShownInv'
    <2>1. PICK k \in {"working", "delta", "settled", "approval"} : Push([kind |-> k, run |-> RunOf(a)])
        BY <1>2 DEF Work, Progress, Ask, Settle
    <2>2. RunOf(a) \in RunId
        BY <1>2, RunOfType DEF Work, Progress, Ask, Settle
    <2>3. [kind |-> k, run |-> RunOf(a)] \in Frame
        BY <2>2 DEF Frame
    <2>4. UNCHANGED <<log, unpublished, sub, at, items, missed>>
        BY <1>2 DEF Work, Progress, Ask, Settle, view, timelineGateway
    <2>. QED BY <2>1, <2>3, <2>4, PushShown
<1>3. ASSUME NEW a \in Speakers, StartRun(a) \/ Reply(a) \/ Finish(a) PROVE ShownInv'
    <2>1. PICK k \in {"started", "reply", "end"} : Keep([kind |-> k, agent |-> a])
        BY <1>3 DEF StartRun, Reply, Finish
    <2>2. [kind |-> k, agent |-> a] \in Event
        BY DEF Event
    <2>3. UNCHANGED <<sub, wire, at, items, missed>>
        BY <1>3 DEF StartRun, Reply, Finish, stream, view
    <2>. QED BY <2>1, <2>2, <2>3, KeepShown
<1>4. ASSUME NEW p \in posts, KeepPost(p) PROVE ShownInv'
    <2>1. [kind |-> "steward", m |-> p.m] \in Event
        BY DEF Event, ComposerTyped
    <2>2. Keep([kind |-> "steward", m |-> p.m]) /\ UNCHANGED <<sub, wire, at, items, missed>>
        BY <1>4 DEF KeepPost, stream, view
    <2>. QED BY <2>1, <2>2, KeepShown
<1>5. CASE Unmount
    BY <1>5, NothingIsInjective DEF Unmount, ShownInv
<1>6. CASE ReadHistory
    <2>1. Len(log) \in Nat
        BY DEF GatewayTyped
    <2>2. IsInjective([i \in 1..Len(log) |-> i])
        BY <2>1, HistoryIsInjective
    <2>3. ~sub
        BY <1>6 DEF ReadHistory, ShownInv
    <2>. QED BY <1>6, <2>2, <2>3 DEF ReadHistory, ShownInv, stream
<1>7. CASE Connect
    BY <1>7 DEF Connect, ShownInv, timelineGateway
<1>8. ASSUME RequestFails \/ StreamEnds PROVE ShownInv'
    <2>1. End /\ ~sub /\ sub' = sub
        BY <1>8 DEF RequestFails, StreamEnds, ShownInv, stream
    <2>2. items' \in {<<>>, items}
        BY <2>1 DEF End
    <2>. QED BY <2>1, <2>2, NothingIsInjective DEF ShownInv
<1>9. CASE Reconnect
    <2>1. ~sub /\ sub' = sub /\ items' = <<>>
        BY <1>9 DEF Reconnect, ShownInv, stream
    <2>. QED BY <2>1, NothingIsInjective DEF ShownInv
<1>10. CASE Break
    BY <1>10 DEF Break, ShownInv, view
<1>11. CASE Receive
    <2>. DEFINE frame == Head(wire)
    <2>1. frame \in Frame
        BY <1>11, HeadOfWire DEF Receive
    <2>2. UNCHANGED <<log, unpublished, sub, at, missed>>
        BY <1>11 DEF Receive, timelineGateway
    <2>3. \A x \in OnWire : x \in OnWire' \/ (frame.kind = "event" /\ frame.id = x)
        BY <1>11, TailKeeps DEF Receive
    <2>4. CASE frame.kind = "event"
        <3>1. frame.id \in Nat
            BY <2>1, <2>4 DEF Frame
        <3>2. items' = AppendLive(items, frame.id)
            BY <1>11, <2>4 DEF Receive, ShowEvent
        <3>3. IsInjective(items') /\ ToSet(items') = ToSet(items) \cup {frame.id}
            BY <3>1, <3>2, AppendLiveIs DEF ShownInv, ViewTyped
        <3>. QED BY <2>2, <2>3, <3>3 DEF ShownInv
    <2>5. CASE frame.kind # "event"
        <3>1. items' = items
            BY <1>11, <2>5 DEF Receive
        <3>. QED BY <2>2, <2>3, <2>5, <3>1 DEF ShownInv
    <2>. QED BY <2>4, <2>5
<1>12. CASE Mount
    BY <1>12 DEF Mount, ShownInv, OnWire, stream, view, timelineGateway
<1>13. ASSUME \/ \E p \in posts : Sent(p) \/ SendFails(p)
              \/ Type \/ Submit \/ Commit \/ ApplyInterlock
              \/ \E r \in cards : Respond(r)
       PROVE  UNCHANGED <<log, unpublished, sub, wire, at, items, missed>>
    BY <1>13 DEF Sent, SendFails, Type, Submit, Commit, ApplyInterlock, Respond, timelineGateway, stream, view
<1>14. ASSUME UNCHANGED <<log, unpublished, sub, wire, at, items, missed>> PROVE ShownInv'
    BY <1>14 DEF ShownInv, OnWire
<1>. QED BY <1>1, <1>2, <1>3, <1>4, <1>5, <1>6, <1>7, <1>8, <1>9, <1>10, <1>11, <1>12, <1>13, <1>14 DEF TimelineNext

(* The types as an inductive invariant.                                    *)
LEMMA TypesInvariant == TimelineSpec => []TypesInv
<1>1. TimelineInit => TypesInv
    BY TimelineStarts
<1>2. TypesInv /\ [TimelineNext]_timelineVars => TypesInv'
    BY TimelineTypesStep
<1>. QED BY <1>1, <1>2, PTL DEF TimelineSpec

(* No event is shown twice, whichever way it comes, and none is missed but *)
(* what was published before the subscription.                             *)
THEOREM EventsShownOnce == TimelineSpec => []ShownExactlyOnce
<1>1. TimelineInit => ShownInv
    BY NothingIsInjective DEF TimelineInit, ShownInv
<1>2. TypesInv /\ ShownInv /\ [TimelineNext]_timelineVars => ShownInv'
    <2>1. ASSUME ShownInv, UNCHANGED timelineVars PROVE ShownInv'
        BY <2>1 DEF ShownInv, OnWire, timelineVars, timelineGateway, stream, view
    <2>. QED BY <2>1, ShownStep
<1>3. ShownInv => ShownExactlyOnce
    BY DEF ShownInv, ShownExactlyOnce
<1>. QED BY <1>1, <1>2, <1>3, TypesInvariant, PTL DEF TimelineSpec

-----------------------------------------------------------------------------
(* Where a message is.                                                     *)
InLog(m) == \E i \in DOMAIN log : log[i] = [kind |-> "steward", m |-> m]

Safe(m) == m \in dropped \/ InComposer(m) \/ (\E p \in posts : p.m = m) \/ InLog(m) \/ m \in abandoned

(* The draft is the reader's to edit until the effect has seen an          *)
(* interlock, and otherwise it is empty or the text, or the text is empty; *)
(* while the composer waits for a message neither holds any other; a       *)
(* message under way is the one it waits for, or was abandoned with its    *)
(* composer; and no two requests carry the same message.                   *)
ComposerInv ==
    /\ was <=> held # Editable
    /\ text = 0 \/ held \in {Editable, 0, text}
    /\ sending # 0 => text \in {0, sending} /\ held \in {Editable, 0, sending}
    /\ \A p \in posts : p.m \in abandoned \cup {sending}
    /\ \A p, r \in posts : p.m = r.m => p = r
    /\ \A p \in posts : p.stage = "kept" => InLog(p.m)

FreshInv ==
    /\ text <= written /\ sending <= written /\ (held # Editable => held <= written)
    /\ \A m \in abandoned : m <= written
    /\ ({text, held, sending} \ {0}) \cap abandoned = {}

TextInv == ComposerInv /\ FreshInv /\ \A m \in 1..written : Safe(m)

LEMMA LogGrows ==
    ASSUME TypesInv, NEW event \in Event, Keep(event)
    PROVE  /\ \A m : InLog(m) => InLog(m)'
           /\ \A m : event = [kind |-> "steward", m |-> m] => InLog(m)'
<1>1. log \in Seq(Event) /\ log' = Append(log, event)
    BY DEF TypesInv, TimelineTypeOK, Keep
<1>2. /\ \A i \in DOMAIN log : i \in DOMAIN log' /\ log'[i] = log[i]
      /\ Len(log) + 1 \in DOMAIN log' /\ log'[Len(log) + 1] = event
    BY <1>1
<1>. QED BY <1>2 DEF InLog

LEMMA TextBounds ==
    ASSUME TypesInv
    PROVE  /\ text \in Nat /\ sending \in Nat /\ written \in Nat /\ abandoned \subseteq Nat \ {0}
           /\ held \in Nat \cup {Editable} /\ written \in 0..MaxTexts /\ \A p \in posts : p.m \in Nat \ {0}
           /\ \A m \in 1..written : m \in Nat \ {0}
           /\ MaxTexts \in Nat
<1>1. MaxTexts \in Nat
    BY TimelineAssumption
<1>2. 0..MaxTexts \subseteq Nat /\ 1..MaxTexts \subseteq Nat \ {0}
    BY <1>1
<1>. QED BY <1>1, <1>2 DEF TypesInv, TimelineTypeOK

(* The mark of a text that is the reader's is no message.                  *)
LEMMA EditableApart ==
    ASSUME TypesInv
    PROVE  /\ Editable \notin abandoned /\ Editable # 0 /\ Editable # text /\ Editable # sending
           /\ Editable # Visible /\ \A p \in posts : p.m # Editable
<1>1. MaxTexts \in Nat /\ Editable \notin 0..MaxTexts
    BY TimelineAssumption
<1>2. /\ abandoned \subseteq 0..MaxTexts /\ \A p \in posts : p.m \in 0..MaxTexts
      /\ text \in 0..MaxTexts /\ sending \in 0..MaxTexts
    BY <1>1 DEF TypesInv, TimelineTypeOK
<1>3. Visible \in 0..MaxTexts /\ 0 \in 0..MaxTexts
    BY <1>1, VisibleType
<1>. QED BY <1>1, <1>2, <1>3

(* Steps that leave the composer and the requests alone.                   *)
LEMMA TextUntouched ==
    ASSUME TypesInv, TextInv, UNCHANGED <<posts, composer, written, abandoned, dropped>>,
           \A m : InLog(m) => InLog(m)'
    PROVE  TextInv'
<1>. USE DEF composer
<1>1. \A m : InComposer(m)' <=> InComposer(m)
    BY DEF InComposer, Visible
<1>2. ComposerInv'
    BY DEF TextInv, ComposerInv
<1>3. FreshInv'
    BY DEF TextInv, FreshInv
<1>4. \A m \in 1..written' : Safe(m)'
    BY <1>1 DEF TextInv, Safe
<1>. QED BY <1>2, <1>3, <1>4 DEF TextInv

(* A commit finds no draft that its effect has not seen.                   *)
LEMMA CommitKeepsText ==
    ASSUME TypesInv, TextInv, Commit
    PROVE  TextInv'
<1>1. /\ locked = was
      /\ UNCHANGED <<log, posts, text, held, sending, was, written, abandoned, dropped>>
    BY DEF Commit, timelineGateway, counts
<1>2. (\A m : InLog(m)' <=> InLog(m)) /\ Visible' = Visible
    BY <1>1 DEF InLog, Visible
<1>3. ComposerInv' /\ FreshInv'
    BY <1>1, <1>2 DEF TextInv, ComposerInv, FreshInv
<1>4. ASSUME NEW m \in 1..written' PROVE Safe(m)'
    <2>1. Safe(m) /\ (was <=> held # Editable)
        BY <1>1 DEF TextInv, ComposerInv
    <2>2. InComposer(m) => InComposer(m)'
        BY <1>1, <1>2, <2>1, EditableApart DEF InComposer, TypesInv, TimelineTypeOK
    <2>. QED BY <1>1, <1>2, <2>1, <2>2 DEF Safe
<1>. QED BY <1>3, <1>4 DEF TextInv

(* The effect moves the text to the draft, or the draft to the text.       *)
LEMMA EffectKeepsText ==
    ASSUME TypesInv, TextInv, ApplyInterlock
    PROVE  TextInv'
<1>1. /\ was # locked /\ was' = locked /\ locked' = locked
      /\ UNCHANGED <<log, posts, sending, written, abandoned, dropped>>
    BY DEF ApplyInterlock, timelineGateway, counts
<1>2. was \in BOOLEAN /\ locked \in BOOLEAN /\ (was <=> held # Editable)
    BY DEF TypesInv, TimelineTypeOK, TextInv, ComposerInv
<1>3. \A m : InLog(m)' <=> InLog(m)
    BY <1>1 DEF InLog
<1>4. \/ locked /\ held = Editable /\ held' = text /\ text' = text
      \/ /\ ~locked /\ held # Editable /\ held' = Editable
         /\ text' = IF held = 0 THEN text ELSE held
    BY <1>1, <1>2 DEF ApplyInterlock
<1>5. text' \in {text, held} \ {Editable} /\ held' \in {text, Editable} /\ (was' <=> held' # Editable)
    BY <1>1, <1>2, <1>4, EditableApart
<1>6. ComposerInv'
    <2>1. text' = 0 \/ held' \in {Editable, 0, text'}
        BY <1>4
    <2>2. sending' # 0 => text' \in {0, sending'} /\ held' \in {Editable, 0, sending'}
        BY <1>1, <1>5 DEF TextInv, ComposerInv
    <2>. QED BY <1>1, <1>3, <1>5, <2>1, <2>2 DEF TextInv, ComposerInv
<1>7. FreshInv'
    <2>1. text' <= written /\ (held' # Editable => held' <= written)
        BY <1>5 DEF TextInv, FreshInv
    <2>2. ({text', held', sending} \ {0}) \cap abandoned = {}
        BY <1>5, EditableApart DEF TextInv, FreshInv
    <2>. QED BY <1>1, <2>1, <2>2 DEF TextInv, FreshInv
<1>8. ASSUME NEW m \in 1..written' PROVE Safe(m)'
    <2>1. Safe(m) /\ m # 0
        BY <1>1, TextBounds DEF TextInv
    <2>2. InComposer(m) => Visible' = m
        BY <1>2, <1>4, <2>1, EditableApart DEF InComposer, Visible
    <2>. QED BY <1>1, <1>3, <2>1, <2>2 DEF Safe, InComposer
<1>. QED BY <1>6, <1>7, <1>8 DEF TextInv

LEMMA TypeKeepsText ==
    ASSUME TypesInv, TextInv, Type
    PROVE  TextInv'
<1>1. /\ ~locked /\ sending = 0 /\ text = 0 /\ Visible = 0 /\ text' = written + 1 /\ written' = written + 1
      /\ UNCHANGED <<log, posts, held, sending, locked, was, abandoned, dropped>>
    BY DEF Type, timelineGateway
<1>2. held \in {Editable, 0}
    BY <1>1 DEF Visible
<1>3. \A m : InLog(m)' <=> InLog(m)
    BY <1>1 DEF InLog
<1>4. ComposerInv'
    BY <1>1, <1>2, <1>3 DEF TextInv, ComposerInv
<1>5. FreshInv'
    BY <1>1, TextBounds, TimelineAssumption DEF TextInv, FreshInv
<1>6. ASSUME NEW m \in 1..written' PROVE Safe(m)'
    <2>1. CASE m = written + 1
        <3>1. InComposer(m)'
            BY <1>1, <1>2, <2>1 DEF InComposer, Visible
        <3>. QED BY <3>1 DEF Safe
    <2>2. CASE m # written + 1
        <3>1. m \in 1..written /\ m # 0
            BY <1>1, <2>2, TextBounds
        <3>2. Safe(m) /\ ~InComposer(m)
            BY <1>1, <3>1 DEF TextInv, InComposer
        <3>. QED BY <1>1, <1>3, <3>2 DEF Safe
    <2>. QED BY <2>1, <2>2
<1>. QED BY <1>4, <1>5, <1>6 DEF TextInv

LEMMA SubmitKeepsText ==
    ASSUME TypesInv, TextInv, Submit
    PROVE  TextInv'
<1>. DEFINE post == [m |-> text, stage |-> "sent"]
<1>1. /\ text # 0 /\ text' = 0 /\ sending = 0 /\ sending' = text
      /\ posts' = posts \cup {post}
      /\ UNCHANGED <<log, held, locked, was, written, abandoned, dropped>>
    BY DEF Submit, timelineGateway, counts
<1>2. held \in {Editable, 0, text}
    BY <1>1 DEF TextInv, ComposerInv
<1>3. post.m = text /\ post.stage = "sent"
    OBVIOUS
<1>. HIDE DEF post
<1>4. \A m : InLog(m)' <=> InLog(m)
    BY <1>1 DEF InLog
<1>5. \A p \in posts : p.m # text
    <2>1. text \notin abandoned
        BY <1>1 DEF TextInv, FreshInv
    <2>. QED BY <1>1, <2>1, TextBounds DEF TextInv, ComposerInv
<1>6. ComposerInv'
    <2>1. \A p \in posts' : p.m \in abandoned' \cup {sending'}
        BY <1>1, <1>3, TextBounds DEF TextInv, ComposerInv
    <2>2. \A p, r \in posts' : p.m = r.m => p = r
        BY <1>1, <1>3, <1>5 DEF TextInv, ComposerInv
    <2>3. \A p \in posts' : p.stage = "kept" => InLog(p.m)'
        BY <1>1, <1>4, <1>3 DEF TextInv, ComposerInv
    <2>. QED BY <1>1, <1>2, <2>1, <2>2, <2>3 DEF TextInv, ComposerInv
<1>7. FreshInv'
    BY <1>1, TextBounds DEF TextInv, FreshInv
<1>8. ASSUME NEW m \in 1..written' PROVE Safe(m)'
    <2>1. Safe(m) /\ m # 0
        BY <1>1, TextBounds DEF TextInv
    <2>2. InComposer(m) => m = text \/ InComposer(m)'
        BY <1>1, <1>2, <2>1 DEF InComposer, Visible
    <2>. QED BY <1>1, <1>3, <1>4, <2>1, <2>2 DEF Safe
<1>. QED BY <1>6, <1>7, <1>8 DEF TextInv

LEMMA SentKeepsText ==
    ASSUME TypesInv, TextInv, NEW p \in posts, Sent(p)
    PROVE  TextInv'
<1>1. /\ posts' = posts \ {p} /\ p.stage = "kept"
      /\ sending' = IF sending = p.m THEN 0 ELSE sending
      /\ UNCHANGED <<log, text, held, locked, was, written, abandoned, dropped>>
    BY DEF Sent, timelineGateway, counts
<1>2. (\A m : InLog(m)' <=> InLog(m)) /\ (\A m : InComposer(m)' <=> InComposer(m))
    BY <1>1 DEF InLog, InComposer, Visible
<1>3. InLog(p.m)
    BY <1>1 DEF TextInv, ComposerInv
<1>4. ComposerInv'
    <2>1. \A r \in posts' : r.m \in abandoned' \cup {sending'}
        <3>. SUFFICES ASSUME NEW r \in posts' PROVE r.m \in abandoned' \cup {sending'}
            OBVIOUS
        <3>1. r \in posts /\ r # p
            BY <1>1
        <3>2. r.m # p.m /\ r.m \in abandoned \cup {sending}
            BY <3>1 DEF TextInv, ComposerInv
        <3>. QED BY <1>1, <3>2
    <2>. QED BY <1>1, <1>2, <2>1 DEF TextInv, ComposerInv
<1>5. FreshInv'
    BY <1>1, TextBounds DEF TextInv, FreshInv
<1>6. ASSUME NEW m \in 1..written' PROVE Safe(m)'
    <2>1. Safe(m)
        BY <1>1 DEF TextInv
    <2>. QED BY <1>1, <1>2, <1>3, <2>1 DEF Safe
<1>. QED BY <1>4, <1>5, <1>6 DEF TextInv

(* A message whose send failed is where Restore puts it.                   *)
LEMMA RestoreIs ==
    ASSUME TypesInv, TextInv, NEW p \in posts, sending = p.m, Restore(p.m), locked' = locked, was' = was
    PROVE  /\ text' \in {0, p.m} /\ held' \in {Editable, 0, p.m} /\ dropped \subseteq dropped'
           /\ was' <=> held' # Editable
           /\ InComposer(p.m)' \/ p.m \in dropped'
           /\ \A m : m # 0 /\ InComposer(m) => m = p.m
<1>1. /\ p.m # 0 /\ p.m # Editable
      /\ text \in {0, p.m} /\ held \in {Editable, 0, p.m} /\ (was <=> held # Editable)
      /\ was \in BOOLEAN /\ locked \in BOOLEAN
    BY TextBounds, EditableApart DEF TextInv, ComposerInv, TypesInv, TimelineTypeOK
<1>2. \A m : m # 0 /\ InComposer(m) => m = p.m
    BY <1>1 DEF InComposer, Visible
<1>3. CASE ~was /\ text' = p.m /\ UNCHANGED <<held, dropped>>
    BY <1>1, <1>2, <1>3 DEF InComposer, Visible
<1>4. CASE was /\ locked /\ held' = p.m /\ UNCHANGED <<text, dropped>>
    BY <1>1, <1>2, <1>4 DEF InComposer, Visible
<1>5. CASE was /\ ~locked /\ dropped' = dropped \cup {p.m} /\ UNCHANGED <<text, held>>
    BY <1>1, <1>2, <1>5
<1>. QED BY <1>3, <1>4, <1>5 DEF Restore

LEMMA FailKeepsText ==
    ASSUME TypesInv, TextInv, NEW p \in posts, SendFails(p)
    PROVE  TextInv'
<1>1. /\ posts' = posts \ {p}
      /\ UNCHANGED <<log, locked, was, written, abandoned>>
    BY DEF SendFails, timelineGateway
<1>2. \A m : InLog(m)' <=> InLog(m)
    BY <1>1 DEF InLog
<1>3. \A r \in posts' : r.m # p.m /\ r \in posts
    BY <1>1 DEF TextInv, ComposerInv
<1>4. CASE sending = p.m
    <2>1. sending # 0 /\ sending' = 0 /\ Restore(p.m)
        BY <1>4, TextBounds DEF SendFails
    <2>2. /\ text' \in {0, p.m} /\ held' \in {Editable, 0, p.m} /\ dropped \subseteq dropped'
          /\ was' <=> held' # Editable
          /\ InComposer(p.m)' \/ p.m \in dropped'
          /\ \A m : m # 0 /\ InComposer(m) => m = p.m
        BY <1>1, <1>4, <2>1, RestoreIs
    <2>3. \A r \in posts' : r.m \in abandoned' \cup {sending'}
        BY <1>1, <1>3, <1>4 DEF TextInv, ComposerInv
    <2>4. ComposerInv'
        BY <1>1, <1>2, <1>3, <2>1, <2>2, <2>3 DEF TextInv, ComposerInv
    <2>5. p.m <= written /\ p.m \notin abandoned /\ 0 <= written
        BY <1>4, <2>1, TextBounds DEF TextInv, FreshInv
    <2>6. FreshInv'
        <3>1. \A m \in abandoned' : m <= written'
            BY <1>1 DEF TextInv, FreshInv
        <3>2. text' <= written' /\ sending' <= written' /\ (held' # Editable => held' <= written')
            BY <1>1, <2>1, <2>2, <2>5
        <3>3. ({text', held', sending'} \ {0}) \cap abandoned' = {}
            BY <1>1, <2>1, <2>2, <2>5, EditableApart
        <3>. QED BY <3>1, <3>2, <3>3 DEF FreshInv
    <2>7. ASSUME NEW m \in 1..written' PROVE Safe(m)'
        <3>1. Safe(m) /\ m # 0
            BY <1>1, TextBounds DEF TextInv
        <3>. QED BY <1>1, <1>2, <2>2, <3>1 DEF Safe
    <2>. QED BY <2>4, <2>6, <2>7 DEF TextInv
<1>5. CASE sending # p.m
    <2>1. p.m \in abandoned
        BY <1>5 DEF TextInv, ComposerInv
    <2>2. UNCHANGED <<text, held, sending, dropped>>
        BY <1>5 DEF SendFails
    <2>3. ComposerInv'
        BY <1>1, <1>2, <1>3, <2>2 DEF TextInv, ComposerInv
    <2>4. FreshInv'
        BY <1>1, <2>2 DEF TextInv, FreshInv
    <2>5. \A m : InComposer(m)' <=> InComposer(m)
        BY <1>1, <2>2 DEF InComposer, Visible
    <2>6. ASSUME NEW m \in 1..written' PROVE Safe(m)'
        <3>1. Safe(m)
            BY <1>1 DEF TextInv
        <3>. QED BY <1>1, <1>2, <2>1, <2>2, <2>5, <3>1 DEF Safe
    <2>. QED BY <2>3, <2>4, <2>6 DEF TextInv
<1>. QED BY <1>4, <1>5

LEMMA UnmountKeepsText ==
    ASSUME TypesInv, TextInv, Unmount
    PROVE  TextInv'
<1>1. /\ text' = 0 /\ held' = Editable /\ sending' = 0 /\ was' = FALSE
      /\ abandoned' = abandoned \cup ({text, sending, Visible} \ {0})
      /\ UNCHANGED <<log, posts, written, dropped>>
    BY DEF Unmount, timelineGateway
<1>2. \A m : InLog(m)' <=> InLog(m)
    BY <1>1 DEF InLog
<1>3. ComposerInv'
    <2>1. \A p \in posts' : p.m \in abandoned' \cup {sending'}
        BY <1>1, TextBounds DEF TextInv, ComposerInv
    <2>. QED BY <1>1, <1>2, <2>1 DEF TextInv, ComposerInv
<1>4. FreshInv'
    <2>1. Visible <= written
        BY DEF TextInv, FreshInv, Visible
    <2>2. \A m \in abandoned' : m <= written'
        BY <1>1, <2>1 DEF TextInv, FreshInv
    <2>3. Editable \notin abandoned'
        BY <1>1, EditableApart
    <2>. QED BY <1>1, <2>2, <2>3, TextBounds DEF FreshInv
<1>5. ASSUME NEW m \in 1..written' PROVE Safe(m)'
    <2>1. Safe(m) /\ m # 0
        BY <1>1, TextBounds DEF TextInv
    <2>. QED BY <1>1, <1>2, <2>1 DEF Safe, InComposer
<1>. QED BY <1>3, <1>4, <1>5 DEF TextInv

LEMMA PostKeepsText ==
    ASSUME TypesInv, TextInv, NEW p \in posts, KeepPost(p)
    PROVE  TextInv'
<1>. DEFINE kept == [p EXCEPT !.stage = "kept"]
<1>1. /\ posts' = (posts \ {p}) \cup {kept}
      /\ Keep([kind |-> "steward", m |-> p.m])
      /\ UNCHANGED <<text, held, sending, locked, was, written, abandoned, dropped>>
    BY DEF KeepPost, composer, counts
<1>2. [kind |-> "steward", m |-> p.m] \in Event
    BY DEF Event, TypesInv, TimelineTypeOK
<1>3. (\A m : InLog(m) => InLog(m)') /\ InLog(p.m)'
    BY <1>1, <1>2, LogGrows
<1>4. kept.m = p.m /\ kept.stage = "kept"
    BY DEF TypesInv, TimelineTypeOK
<1>. HIDE DEF kept
<1>5. \A m : InComposer(m)' <=> InComposer(m)
    BY <1>1 DEF InComposer, Visible
<1>6. ComposerInv'
    <2>1. \A r \in posts' : r.m \in abandoned' \cup {sending'}
        BY <1>1, <1>4 DEF TextInv, ComposerInv
    <2>2. \A r, s \in posts' : r.m = s.m => r = s
        <3>1. \A r \in posts \ {p} : r.m # p.m
            BY DEF TextInv, ComposerInv
        <3>. QED BY <1>1, <1>4, <3>1 DEF TextInv, ComposerInv
    <2>3. \A r \in posts' : r.stage = "kept" => InLog(r.m)'
        BY <1>1, <1>3, <1>4 DEF TextInv, ComposerInv
    <2>. QED BY <1>1, <1>5, <2>1, <2>2, <2>3 DEF TextInv, ComposerInv
<1>7. FreshInv'
    BY <1>1 DEF TextInv, FreshInv
<1>8. ASSUME NEW m \in 1..written' PROVE Safe(m)'
    <2>1. Safe(m)
        BY <1>1 DEF TextInv
    <2>2. (\E r \in posts : r.m = m) => \E r \in posts' : r.m = m
        BY <1>1, <1>4
    <2>. QED BY <1>1, <1>3, <1>5, <2>1, <2>2 DEF Safe
<1>. QED BY <1>6, <1>7, <1>8 DEF TextInv

LEMMA TextStep ==
    ASSUME TypesInv, TextInv, TimelineNext
    PROVE  TextInv'
<1>1. ASSUME NEW a \in Speakers, StartRun(a) \/ Reply(a) \/ Finish(a) PROVE TextInv'
    <2>1. PICK k \in {"started", "reply", "end"} : Keep([kind |-> k, agent |-> a])
        BY <1>1 DEF StartRun, Reply, Finish
    <2>2. [kind |-> k, agent |-> a] \in Event
        BY DEF Event
    <2>3. UNCHANGED <<posts, composer, written, abandoned, dropped>>
        BY <1>1 DEF StartRun, Reply, Finish, counts
    <2>4. \A m : InLog(m) => InLog(m)'
        BY <2>1, <2>2, LogGrows
    <2>. QED BY <2>3, <2>4, TextUntouched
<1>2. ASSUME \/ \E i \in DOMAIN log : Publish(i)
             \/ \E a \in Speakers : Work(a) \/ Progress(a) \/ Ask(a) \/ Settle(a)
             \/ Mount \/ ReadHistory \/ Connect \/ Break
             \/ RequestFails \/ StreamEnds \/ Reconnect \/ Receive
             \/ \E r \in cards : Respond(r)
      PROVE  TextInv'
    <2>1. UNCHANGED <<log, posts, composer, written, abandoned, dropped>>
        BY <1>2 DEF Publish, Work, Progress, Ask, Settle, Mount, ReadHistory, Connect, Break, RequestFails, StreamEnds,
                    Reconnect, Receive, Respond, End, timelineGateway, counts
    <2>2. \A m : InLog(m) => InLog(m)'
        BY <2>1 DEF InLog
    <2>. QED BY <2>1, <2>2, TextUntouched
<1>. QED BY <1>1, <1>2, CommitKeepsText, EffectKeepsText, TypeKeepsText, SubmitKeepsText, SentKeepsText, FailKeepsText,
            UnmountKeepsText, PostKeepsText DEF TimelineNext

(* But for a send that fails between the commit that clears an interlock   *)
(* and the effect of that commit, a message the reader wrote can be read   *)
(* in the composer, is on its way, is in the log, or was given up with its *)
(* composer.                                                               *)
THEOREM TextIsKept == TimelineSpec => []TextKept
<1>1. TimelineInit => TextInv
    BY TimelineAssumption DEF TimelineInit, TextInv, ComposerInv, FreshInv, Safe
<1>2. TypesInv /\ TextInv /\ [TimelineNext]_timelineVars => TextInv'
    <2>1. ASSUME TypesInv, TextInv, UNCHANGED timelineVars PROVE TextInv'
        <3>1. UNCHANGED <<log, posts, composer, written, abandoned, dropped>>
            BY <2>1 DEF timelineVars, timelineGateway, counts
        <3>2. \A m : InLog(m) => InLog(m)'
            BY <3>1 DEF InLog
        <3>. QED BY <2>1, <3>1, <3>2, TextUntouched
    <2>. QED BY <2>1, TextStep
<1>3. TextInv => TextKept
    BY DEF TextInv, Safe, InLog, TextKept
<1>. QED BY <1>1, <1>2, <1>3, TypesInvariant, PTL DEF TimelineSpec

-----------------------------------------------------------------------------
(* Whom a text addresses, what a run is shown, and how often a request stands in *)
(* a record.                                                                 *)

TokenFold == INSTANCE FoldInduction WITH Op <- ScanToken

LineFold == INSTANCE FoldInduction WITH Op <- ScanLine

NameFold == INSTANCE FoldInduction WITH Op <- AddName

Scans == [fence: Fences, span: Nat, names: Seq(Names)]

LEMMA AsTokenFold == \A scan, line : ScanTokens(scan, line) = TokenFold!Folded(scan, line.tokens)
BY DEF ScanTokens, TokenFold!Folded, TokenFold!FoldLeft, TokenFold!MapThenFoldSet, TokenFold!Max, FoldLeft,
       MapThenFoldSet, Max

LEMMA AsNameFold == \A names : Resolve(names) = NameFold!Folded(<<>>, names)
BY DEF Resolve, NameFold!Folded, NameFold!FoldLeft, NameFold!MapThenFoldSet, NameFold!Max, FoldLeft, MapThenFoldSet, Max

NoScan == [fence |-> NoFence, span |-> 0, names |-> <<>>]

LEMMA AsLineFold == \A words : Mentions(words) = LineFold!Folded(NoScan, words).names
BY DEF Mentions, NoScan, LineFold!Folded, LineFold!FoldLeft, LineFold!MapThenFoldSet, LineFold!Max, FoldLeft,
       MapThenFoldSet, Max

LEMMA TokenScanned == ASSUME NEW scan \in Scans, NEW token \in Tokens PROVE ScanToken(scan, token) \in Scans
<1>1. ASSUME NEW n \in Nat PROVE [scan EXCEPT !.span = n] \in Scans
  BY DEF Scans
<1>2. ASSUME NEW who \in Names PROVE [scan EXCEPT !.names = Append(@, who)] \in Scans
  BY DEF Scans
<1>3. token.is = "ticks" => token.n \in Nat
  BY DEF Tokens
<1>4. token.is = "mention" => token.who \in Names
  BY DEF Tokens
<1>. QED BY <1>1, <1>2, <1>3, <1>4 DEF ScanToken

LEMMA LineScanned == ASSUME NEW scan \in Scans, NEW line \in Lines PROVE ScanLine(scan, line) \in Scans
<1>1. ScanTokens(scan, line) \in Scans
  <2>1. line.tokens \in Seq(Tokens)
    BY DEF Lines
  <2>2. TokenFold!Folded(scan, line.tokens) \in Scans
    BY <2>1, TokenScanned, TokenFold!FoldedKeeps
  <2>. QED BY <2>2, AsTokenFold
<1>2. ASSUME NEW f \in Fences PROVE [scan EXCEPT !.fence = f] \in Scans
  BY DEF Scans
<1>3. line.fence \in Fences /\ NoFence \in Fences
  BY DEF Lines, Fences
<1>. QED BY <1>1, <1>2, <1>3 DEF ScanLine

LEMMA MentionsAre == \A words \in Texts : Mentions(words) \in Seq(Names)
<1>. SUFFICES ASSUME NEW words \in Texts PROVE Mentions(words) \in Seq(Names)
  OBVIOUS
<1>1. words \in Seq(Lines)
  BY RoutesAssumption
<1>2. NoScan \in Scans
  BY DEF NoScan, Scans, Fences
<1>3. LineFold!Folded(NoScan, words) \in Scans
  BY <1>1, <1>2, LineScanned, LineFold!FoldedKeeps
<1>. QED BY <1>3, AsLineFold DEF Scans

OnceEach == {s \in Seq(Names) : \A i, j \in 1..Len(s) : s[i] = s[j] => i = j}

LEMMA NameAdded == ASSUME NEW s \in OnceEach, NEW name \in Names PROVE AddName(s, name) \in OnceEach
<1>1. s \in Seq(Names) /\ \A i, j \in 1..Len(s) : s[i] = s[j] => i = j
  BY DEF OnceEach
<1>2. ASSUME name \notin ToSet(s) PROVE Append(s, name) \in OnceEach
  <2>1. \A i \in 1..Len(s) : s[i] # name
    BY <1>1, <1>2 DEF ToSet
  <2>2. /\ Append(s, name) \in Seq(Names) /\ Len(Append(s, name)) = Len(s) + 1
        /\ \A i \in 1..Len(s) : Append(s, name)[i] = s[i]
        /\ Append(s, name)[Len(s) + 1] = name
    BY <1>1
  <2>3. ASSUME NEW i \in 1..(Len(s) + 1), NEW j \in 1..(Len(s) + 1), Append(s, name)[i] = Append(s, name)[j]
        PROVE  i = j
    <3>1. (i \in 1..Len(s) \/ i = Len(s) + 1) /\ (j \in 1..Len(s) \/ j = Len(s) + 1)
      BY <1>1
    <3>. QED BY <3>1, <2>1, <2>2, <2>3, <1>1
  <2>. QED BY <2>2, <2>3 DEF OnceEach
<1>. QED BY <1>2 DEF AddName

LEMMA RecipientsAre == \A words \in Texts : Recipients[words] \in OnceEach
<1>. SUFFICES ASSUME NEW words \in Texts PROVE Recipients[words] \in OnceEach
  OBVIOUS
<1>1. Mentions(words) \in Seq(Names)
  BY MentionsAre
<1>2. <<>> \in OnceEach
  BY DEF OnceEach
<1>3. NameFold!Folded(<<>>, Mentions(words)) \in OnceEach
  BY <1>1, <1>2, NameAdded, NameFold!FoldedKeeps
<1>. QED BY <1>3, AsNameFold DEF Recipients

\* What a run is shown is among the events it was selected from.
LEMMA SelectedAreEvents ==
    ASSUME NEW V, NEW events \in Seq(V)
    PROVE  ToSet(SelectDurableTranscript(events)) \subseteq ToSet(events)
<1>. DEFINE K == {0} \cup {k \in 1..Len(events) : Fits(events, k)}
            n == Len(events)
            m == Max(K)
<1>1. n \in Nat /\ \A i \in 1..n : events[i] \in V
  OBVIOUS
<1>2. K \in SUBSET Nat /\ K # {} /\ \A k \in K : k <= n
  BY <1>1
<1>3. m \in K
  <2>1. NameFold!Max(K) \in K
    <3>. HIDE DEF K, n
    <3>. QED BY <1>1, <1>2, NameFold!HasMax
  <2>2. NameFold!Max(K) = Max(K)
    BY DEF NameFold!Max, Max
  <2>. QED BY <2>1, <2>2
<1>4. m \in 0..n
  BY <1>1, <1>2, <1>3
<1>5. SelectDurableTranscript(events) = SubSeq(events, n - m + 1, n)
  BY DEF SelectDurableTranscript, Newest
<1>. HIDE DEF m, K
<1>6. ASSUME NEW x \in ToSet(SubSeq(events, n - m + 1, n)) PROVE x \in ToSet(events)
  <2>1. \A i \in (n - m + 1)..n : i \in 1..n
    BY <1>1, <1>4
  <2>2. DOMAIN SubSeq(events, n - m + 1, n) = 1..m /\ \A i \in 1..m : SubSeq(events, n - m + 1, n)[i] = events[n - m + i]
    BY <1>1, <1>4
  <2>3. PICK i \in 1..m : x = events[n - m + i]
    BY <1>6, <2>2 DEF ToSet
  <2>4. n - m + i \in 1..n /\ DOMAIN events = 1..n
    BY <1>1, <1>4
  <2>. QED BY <2>3, <2>4 DEF ToSet
<1>. QED BY <1>5, <1>6

LEMMA BeginningIs ==
    ASSUME NEW V, NEW events \in Seq(V), NEW n \in 0..Len(events)
    PROVE  SubSeq(events, 1, n) \in Seq(V) /\ ToSet(SubSeq(events, 1, n)) = {events[i] : i \in 1..n}
<1>1. n \in Nat /\ Len(events) \in Nat /\ \A i \in 1..n : i \in 1..Len(events)
  OBVIOUS
<1>2. Len(SubSeq(events, 1, n)) = n /\ DOMAIN SubSeq(events, 1, n) = 1..n /\ \A i \in 1..n : SubSeq(events, 1, n)[i] = events[i]
  BY <1>1
<1>3. SubSeq(events, 1, n) \in Seq(V)
  BY <1>1
<1>. QED BY <1>2, <1>3 DEF ToSet

Counted(s, P) == Cardinality({i \in DOMAIN s : s[i] \in P})

LEMMA CountedIs ==
    ASSUME NEW V, NEW s \in Seq(V), NEW P
    PROVE  /\ IsFiniteSet({i \in DOMAIN s : s[i] \in P}) /\ Counted(s, P) \in Nat
           /\ Counted(s, P) = 0 <=> \A i \in 1..Len(s) : s[i] \notin P
<1>. DEFINE S == {i \in DOMAIN s : s[i] \in P}
<1>1. Len(s) \in Nat /\ DOMAIN s = 1..Len(s)
  OBVIOUS
<1>2. IsFiniteSet(S)
  <2>1. IsFiniteSet(1..Len(s))
    BY <1>1, FS_Interval
  <2>2. S \subseteq 1..Len(s)
    BY <1>1
  <2>. QED BY <2>1, <2>2, FS_Subset
<1>3. Cardinality(S) \in Nat /\ (Cardinality(S) = 0 <=> S = {})
  <2>. HIDE DEF S
  <2>. QED BY <1>2, FS_CardinalityType, FS_EmptySet
<1>. QED BY <1>1, <1>2, <1>3 DEF Counted

LEMMA CountedAppended ==
    ASSUME NEW V, NEW s \in Seq(V), NEW P, NEW x \in V
    PROVE  Counted(Append(s, x), P) = Counted(s, P) + IF x \in P THEN 1 ELSE 0
<1>. DEFINE S == {i \in DOMAIN s : s[i] \in P}
            T == {i \in DOMAIN Append(s, x) : Append(s, x)[i] \in P}
            n == Len(s) + 1
<1>0. Counted(s, P) = Cardinality(S) /\ Counted(Append(s, x), P) = Cardinality(T)
  BY DEF Counted
<1>1. IsFiniteSet(S) /\ Cardinality(S) \in Nat
  <2>1. IsFiniteSet(S) /\ Counted(s, P) \in Nat
    BY CountedIs
  <2>. QED BY <1>0, <2>1
<1>2. /\ Len(s) \in Nat /\ DOMAIN s = 1..Len(s) /\ DOMAIN Append(s, x) = 1..n
      /\ \A i \in 1..Len(s) : Append(s, x)[i] = s[i] /\ i \in 1..n /\ i # n
      /\ Append(s, x)[n] = x /\ n \in 1..n /\ n \notin 1..Len(s)
      /\ \A i \in 1..n : i \in 1..Len(s) \/ i = n
  <2>1. Len(s) \in Nat /\ DOMAIN s = 1..Len(s) /\ Append(s, x) \in Seq(V) /\ Len(Append(s, x)) = n
    OBVIOUS
  <2>2. DOMAIN Append(s, x) = 1..n
    BY <2>1
  <2>3. \A i \in 1..Len(s) : Append(s, x)[i] = s[i] /\ i \in 1..n /\ i # n
    BY <2>1
  <2>4. Append(s, x)[n] = x /\ n \in 1..n /\ n \notin 1..Len(s)
    BY <2>1
  <2>5. \A i \in 1..n : i \in 1..Len(s) \/ i = n
    BY <2>1
  <2>. QED BY <2>1, <2>2, <2>3, <2>4, <2>5
<1>3. CASE x \in P
  <2>1. T = S \cup {n} /\ n \notin S
    BY <1>2, <1>3
  <2>2. Cardinality(S \cup {n}) = Cardinality(S) + 1
    <3>. HIDE DEF S, n
    <3>. QED BY <1>1, <2>1, FS_AddElement
  <2>. HIDE DEF S, T
  <2>. QED BY <1>0, <1>3, <2>1, <2>2
<1>4. CASE x \notin P
  <2>1. T = S
    BY <1>2, <1>4
  <2>. HIDE DEF S, T
  <2>. QED BY <1>0, <1>1, <1>4, <2>1
<1>. QED BY <1>3, <1>4

LEMMA AppendedOnce ==
    ASSUME NEW V, NEW s \in Seq(V), NEW x \in V
    PROVE  /\ Append(s, x) \in Seq(V) /\ Len(Append(s, x)) = Len(s) + 1 /\ Len(s) \in Nat
           /\ \A i \in 1..Len(s) : Append(s, x)[i] = s[i]
           /\ Append(s, x)[Len(s) + 1] = x
OBVIOUS

LEMMA OneOf == ASSUME NEW S, IsFiniteSet(S), Cardinality(S) = 1 PROVE \E x : S = {x}
BY FS_Singleton

LEMMA SingleSequence == ASSUME NEW x PROVE SetToSeq({x}) = <<x>>
<1>1. Cardinality({x}) = 1
  BY FS_Singleton
<1>2. ASSUME NEW f \in [1..1 -> {x}] PROVE f = <<x>>
  <2>1. f[1] = x /\ f = [i \in 1..1 |-> f[i]] /\ <<x>> \in [1..1 -> {x}]
    OBVIOUS
  <2>2. <<x>> = [i \in 1..1 |-> x]
    OBVIOUS
  <2>. QED BY <2>1, <2>2
<1>3. <<x>> \in [1..1 -> {x}] /\ IsInjective(<<x>>)
  BY DEF IsInjective
<1>4. \E f \in [1..1 -> {x}] : IsInjective(f)
  BY <1>3
<1>5. SetToSeq({x}) \in [1..1 -> {x}]
  <2>. HIDE DEF IsInjective
  <2>. QED BY <1>1, <1>4, Zenon DEF SetToSeq
<1>. QED BY <1>2, <1>5

(* The routes.  What each request may still do follows from where it is:     *)
(* before its event is recorded no agent has been given it, afterwards it is *)
(* recorded exactly once and nobody left on its list has been given it.      *)

Before == {"creating", "reading", "looking_back", "joining", "recording", "locked", "noting"}

After == {"steering", "steered", "dispatching", "reserving", "running"}

Calls == [at: Before \cup After \cup {"answered"}, want: Wants, room: Rooms \cup {NoRoom}, tries: Nat,
          seen: SUBSET Names, prior: Nat, left: Seq(Names),
          told: SUBSET (Names \X {"steered", "completed", "failed", "steer-failed", "conflict"}),
          crossed: BOOLEAN, changed: BOOLEAN, code: Nat]

LostCalls == [at: {"lost"}, want: Wants]

RoutesTypeOK ==
    /\ room \in [Rooms -> Manifests \cup {NoRoom}]
    /\ record \in [Rooms -> Seq(Posts)]
    /\ holder \in [Rooms -> Posts \cup {NoOne, Others}]
    /\ call \in [Posts -> {Unasked} \cup LostCalls \cup Calls]
    /\ turn \in [Rooms -> [RunnableAgents -> Turns \cup {NoTurn}]]
    /\ passed \in [Posts -> [RunnableAgents -> Nat]]
    /\ \A c \in Rooms : holder[c] # NoOne => room[c] # NoRoom

Full(q) == call[q] \in Calls

HasRoom(q) == call[q].room \in Rooms /\ room[call[q].room] # NoRoom

RecordedOnce(q, c) == \A d \in Rooms : Times(q, d) = IF d = c THEN 1 ELSE 0

Silent(c) == c.want.op = "attach" \/ (c.want.op \in Managing /\ ~c.changed)

Succeeded(q) == At(q, "answered") /\ call[q].code \in {200, 201}

\* Where a request can be with what it asked for.
Placed(q) ==
    /\ At(q, "creating") => Creates(call[q].want) /\ call[q].prior = 0
    /\ At(q, "reading") => call[q].room \in Rooms /\ call[q].want.op \in {"message", "attach"} \cup Managing
    /\ call[q].at \in {"looking_back", "joining"} => HasRoom(q) /\ call[q].want.op = "message"
    /\ At(q, "recording") => HasRoom(q) /\ (Creates(call[q].want) \/ call[q].want.op = "message")
    /\ call[q].at \in {"locked", "noting"} =>
          HasRoom(q) /\ call[q].want.op \in Managing /\ holder[call[q].room] = q
    /\ call[q].at \in After => HasRoom(q) /\ call[q].want.op \in {"create", "start", "message"}
    /\ call[q].at \in {"steering", "steered"} => call[q].want.op = "message"
    /\ Succeeded(q) => HasRoom(q)
    /\ call[q].at \in Before \ {"noting"} => ~call[q].changed
    /\ At(q, "noting") => call[q].changed
    /\ call[q].at \in Before => call[q].left = <<>> /\ call[q].told = {} /\ ~call[q].crossed

\* How often its event is recorded.
Recorded(q) ==
    /\ call[q].at \in Before \cup {"idle"} => Unrecorded(q)
    /\ call[q].at \in After => RecordedOnce(q, call[q].room)
    /\ Succeeded(q) => IF Silent(call[q]) THEN Unrecorded(q) ELSE RecordedOnce(q, call[q].room)
    /\ Answered(q, {404}) => Unrecorded(q)
    /\ Answered(q, {400}) /\ call[q].want.op # "budget" => Unrecorded(q)
    /\ Answered(q, {409}) /\ call[q].left = <<>> /\ ~call[q].crossed => Unrecorded(q)

\* Which conversation is its own, and who belongs to the one it is for.
Made(q) ==
    /\ \A d \in Rooms : room[d] # NoRoom /\ room[d].maker = q =>
          call[q].at \notin {"idle", "creating"} /\ Creates(call[q].want)
    /\ (call[q].at \in After \cup {"recording"} \/ Succeeded(q)) /\ Creates(call[q].want) =>
          room[call[q].room].maker = q /\ Audience(call[q].want) \subseteq room[call[q].room].members
    /\ At(q, "joining") => call[q].seen \subseteq room[call[q].room].members
    /\ At(q, "looking_back") => call[q].seen \subseteq room[call[q].room].members
    /\ (call[q].at \in After \cup {"recording"} \/ Succeeded(q)) /\ call[q].want.op = "message" =>
          ToSet(Recipients[call[q].want.text]) \cup call[q].seen \subseteq room[call[q].room].members

Named(c, a) ==
    c.want.op = "message" =>
        LET names == ToSet(Recipients[c.want.text]) IN IF names = {} THEN c.seen = {a} ELSE a \in names

\* Whom it is still to be given to.
Leftover(q) ==
    /\ call[q].at \in After => call[q].left # <<>>
    /\ \A i, j \in 1..Len(call[q].left) : call[q].left[i] = call[q].left[j] => i = j
    /\ call[q].at \in After =>
          \A i \in 1..Len(call[q].left) :
              /\ Named(call[q], call[q].left[i])
              /\ call[q].left[i] \in RunnableAgents
                 /\ ~(i = 1 /\ At(q, "running") /\ turn[call[q].room][call[q].left[1]].at = "prompted")
                 => passed[q][call[q].left[i]] = 0
    /\ call[q].at \in {"steered", "reserving", "running"} =>
          Head(call[q].left) \in RunnableAgents /\ Head(call[q].left) \in room[call[q].room].members
    /\ At(q, "running") =>
          /\ turn[call[q].room][Head(call[q].left)] \in Turns
          /\ turn[call[q].room][Head(call[q].left)].by = q
          /\ turn[call[q].room][Head(call[q].left)].at = "prompted" => passed[q][Head(call[q].left)] > 0

\* To whom it was given.
Passed(q) ==
    /\ call[q].at \in Before \cup {"idle"} => \A a \in RunnableAgents : passed[q][a] = 0
    /\ \A a \in RunnableAgents : passed[q][a] <= 1
    /\ \A a \in RunnableAgents : passed[q][a] > 0 =>
          /\ \E c \in Rooms : room[c] # NoRoom /\ a \in room[c].members /\ Times(q, c) = 1
          /\ ~At(q, "lost") => call[q].room \in Rooms /\ Named(call[q], a)

\* What it has read and what it says.
Knows(q) ==
    /\ \A i \in 1..call[q].prior : call[q].room \in Rooms /\ i <= Len(record[call[q].room]) /\ record[call[q].room][i] # q
    /\ \A t \in call[q].told : t[2] \in {"steered", "completed"} => t[1] \in RunnableAgents /\ passed[q][t[1]] > 0

\* A raise and the number of raises before it.
RaiseFits(q) ==
    call[q].want.op = "budget" =>
       /\ At(q, "noting") => call[q].want.expected = Raised(call[q].room)
       /\ Answered(q, {200}) => call[q].want.expected < Raised(call[q].room)

Post(q) ==
    /\ Recorded(q) /\ Made(q) /\ Passed(q)
    /\ Full(q) => Placed(q) /\ Leftover(q) /\ Knows(q)

RaisesFit == \A q \in Posts : Full(q) => RaiseFits(q)

RaisesDiffer ==
    \A q, p \in Posts :
          /\ q # p /\ Answered(q, {200}) /\ Answered(p, {200})
          /\ call[q].want.op = "budget" /\ call[p].want.op = "budget"
          => call[q].room # call[p].room \/ call[q].want.expected # call[p].want.expected

RoutesInv == RoutesTypeOK /\ (\A q \in Posts : Post(q)) /\ RaisesFit /\ RaisesDiffer

LEMMA FullIs ==
    ASSUME RoutesTypeOK, NEW q \in Posts
    PROVE  /\ call[q].at \notin {"idle", "lost"} <=> Full(q)
           /\ At(q, "idle") => call[q] = Unasked
           /\ At(q, "lost") => call[q] \in LostCalls
           /\ ~At(q, "idle") => call[q].want \in Wants
<1>1. call[q] \in {Unasked} \cup LostCalls \cup Calls
  BY DEF RoutesTypeOK
<1>2. Unasked.at = "idle" /\ \A c \in LostCalls : c.at = "lost" /\ c.want \in Wants
  BY DEF Unasked, LostCalls
<1>3. \A c \in Calls : c.at \notin {"idle", "lost"} /\ c.want \in Wants
  BY DEF Calls, Before, After
<1>. QED BY <1>1, <1>2, <1>3 DEF Full, At

LEMMA TimesIs ==
    ASSUME RoutesTypeOK, NEW q \in Posts, NEW c \in Rooms
    PROVE  /\ Times(q, c) \in Nat /\ Len(record[c]) \in Nat /\ record[c] \in Seq(Posts)
           /\ Times(q, c) = 0 <=> \A i \in 1..Len(record[c]) : record[c][i] # q
<1>1. record[c] \in Seq(Posts)
  BY DEF RoutesTypeOK
<1>2. Times(q, c) = Counted(record[c], {q})
  BY DEF Times, Counted
<1>3. /\ Counted(record[c], {q}) \in Nat
      /\ Counted(record[c], {q}) = 0 <=> \A i \in 1..Len(record[c]) : record[c][i] \notin {q}
  BY <1>1, CountedIs
<1>4. Len(record[c]) \in Nat
  BY <1>1
<1>. QED BY <1>1, <1>2, <1>3, <1>4

RecordsGrow ==
    \A d \in Rooms : /\ Len(record[d]) <= Len(record'[d])
                     /\ \A i \in 1..Len(record[d]) : record'[d][i] = record[d][i]

Appends(q, c) == record' = [record EXCEPT ![c] = Append(@, q)]

LEMMA TimesAppended ==
    ASSUME RoutesTypeOK, NEW q \in Posts, NEW c \in Rooms, Appends(q, c)
    PROVE  /\ \A p \in Posts, d \in Rooms : Times(p, d)' = Times(p, d) + IF p = q /\ d = c THEN 1 ELSE 0
           /\ RecordsGrow /\ record' \in [Rooms -> Seq(Posts)]
           /\ Len(record'[c]) = Len(record[c]) + 1 /\ record'[c][Len(record[c]) + 1] = q
<1>1. record \in [Rooms -> Seq(Posts)]
  BY DEF RoutesTypeOK
<1>2. /\ record' \in [Rooms -> Seq(Posts)]
      /\ \A d \in Rooms : record'[d] = IF d = c THEN Append(record[c], q) ELSE record[d]
  BY <1>1 DEF Appends
<1>3. ASSUME NEW p \in Posts, NEW d \in Rooms
      PROVE  Times(p, d)' = Times(p, d) + IF p = q /\ d = c THEN 1 ELSE 0
  <2>1. Times(p, d) = Counted(record[d], {p}) /\ Times(p, d)' = Counted(record'[d], {p})
    BY DEF Times, Counted
  <2>2. Times(p, d) \in Nat
    BY TimesIs
  <2>3. CASE d = c
    <3>1. Counted(Append(record[c], q), {p}) = Counted(record[c], {p}) + IF q \in {p} THEN 1 ELSE 0
      BY <1>1, CountedAppended
    <3>. QED BY <1>2, <2>1, <2>2, <2>3, <3>1
  <2>4. CASE d # c
    BY <1>2, <2>1, <2>2, <2>4
  <2>. QED BY <2>3, <2>4
<1>4. ASSUME NEW d \in Rooms
      PROVE  /\ Len(record[d]) <= Len(record'[d])
             /\ \A i \in 1..Len(record[d]) : record'[d][i] = record[d][i]
             /\ d = c => Len(record'[d]) = Len(record[d]) + 1 /\ record'[d][Len(record[d]) + 1] = q
  <2>1. CASE d = c
    <3>1. record[c] \in Seq(Posts) /\ record'[c] = Append(record[c], q)
      BY <1>1, <1>2
    <3>. QED BY <2>1, <3>1, AppendedOnce
  <2>2. CASE d # c
    <3>1. record[d] \in Seq(Posts) /\ record'[d] = record[d]
      BY <1>1, <1>2, <2>2
    <3>. QED BY <2>2, <3>1
  <2>. QED BY <2>1, <2>2
<1>. QED BY <1>2, <1>3, <1>4 DEF RecordsGrow

LEMMA TimesKept ==
    ASSUME RoutesTypeOK, record' = record
    PROVE  RecordsGrow /\ \A p \in Posts, d \in Rooms : Times(p, d)' = Times(p, d)
<1>1. \A d \in Rooms : Len(record[d]) \in Nat
  BY DEF RoutesTypeOK
<1>. QED BY <1>1 DEF RecordsGrow, Times

RoomsGrow ==
    \A d \in Rooms : room[d] # NoRoom =>
        room'[d] # NoRoom /\ room[d].members \subseteq room'[d].members /\ room'[d].maker = room[d].maker

NoneMadeBy(q) == \A d \in Rooms : room[d] = NoRoom /\ room'[d] # NoRoom => room'[d].maker # q

SameTimes(q) == \A d \in Rooms : Times(q, d)' = Times(q, d)

Undisturbed(q) ==
    /\ call'[q] = call[q] /\ passed'[q] = passed[q] /\ SameTimes(q) /\ NoneMadeBy(q)
    /\ call[q].at \in {"locked", "noting"} => holder'[call[q].room] = holder[call[q].room]
    /\ At(q, "running") => turn'[call[q].room][Head(call[q].left)] = turn[call[q].room][Head(call[q].left)]

LEMMA UndisturbedKeeps ==
    ASSUME RoutesTypeOK, NEW q \in Posts, Post(q), RoomsGrow, RecordsGrow, Undisturbed(q)
    PROVE  Post(q)'
<1>1. call'[q] = call[q] /\ passed'[q] = passed[q] /\ \A d \in Rooms : Times(q, d)' = Times(q, d)
  BY DEF Undisturbed, SameTimes
<1>2. Recorded(q)'
  BY <1>1 DEF Post, Recorded, Unrecorded, RecordedOnce, Answered, At, Silent, Succeeded
<1>3. Passed(q)'
  BY <1>1, <1>2 DEF Post, Passed, At, Named, RoomsGrow
<1>4. ASSUME Full(q), Full(q)' PROVE Placed(q)'
  BY <1>1, <1>4 DEF Post, Placed, At, Succeeded, HasRoom, RoomsGrow, Undisturbed
<1>5. call[q].at \in After \cup {"recording"} \/ Succeeded(q) \/ call[q].at \in {"joining", "looking_back"} => HasRoom(q)
  <2>1. call[q].at \in After \cup {"recording"} \/ Succeeded(q) \/ call[q].at \in {"joining", "looking_back"} => Full(q)
    BY FullIs DEF After, Succeeded, At
  <2>. QED BY <2>1 DEF Post, Placed, At
<1>6. Made(q)'
  BY <1>1, <1>5 DEF Post, Made, At, Succeeded, HasRoom, RoomsGrow, Undisturbed, NoneMadeBy
<1>7. ASSUME Full(q), Full(q)' PROVE Leftover(q)'
  <2>1. Leftover(q)
    BY <1>7 DEF Post
  <2>2. At(q, "running") => turn'[call[q].room][Head(call[q].left)] = turn[call[q].room][Head(call[q].left)]
    BY DEF Undisturbed
  <2>3. call[q].at \in After => HasRoom(q)
    BY <1>7 DEF Post, Placed
  <2>4. call[q].at \in After => room[call[q].room].members \subseteq room'[call[q].room].members
    BY <2>3 DEF HasRoom, RoomsGrow
  <2>5. call[q].left \in Seq(Names)
    BY <1>7 DEF Full, Calls
  <2>6. At(q, "running") => turn'[call[q].room][call[q].left[1]] = turn[call[q].room][call[q].left[1]]
    BY <2>2, <2>5
  <2>. QED BY <1>1, <2>1, <2>2, <2>4, <2>6 DEF Leftover, At, After, Named
<1>8. ASSUME Full(q), Full(q)' PROVE Knows(q)'
  BY <1>1, <1>8 DEF Post, Knows, RecordsGrow
<1>. QED BY <1>1, <1>2, <1>3, <1>4, <1>6, <1>7, <1>8 DEF Post, Full

Like(c, d) == d.want = c.want /\ d.room = c.room /\ d.seen = c.seen /\ d.prior = c.prior

LEMMA MovedIs ==
    ASSUME NEW c \in Calls, NEW x \in Before \cup After \cup {"answered"}
    PROVE  LET d == [c EXCEPT !.at = x]
           IN  /\ d \in Calls /\ d.at = x /\ Like(c, d)
               /\ d.left = c.left /\ d.told = c.told /\ d.crossed = c.crossed /\ d.changed = c.changed
BY DEF Calls, Like

LEMMA SaysIs ==
    ASSUME NEW c \in Calls, NEW code \in Nat
    PROVE  LET d == Says(c, code)
           IN  /\ d \in Calls /\ d.at = "answered" /\ d.code = code /\ Like(c, d)
               /\ d.left = c.left /\ d.told = c.told /\ d.crossed = c.crossed /\ d.changed = c.changed
BY DEF Calls, Like, Says

Tellings == {"steered", "completed", "failed", "steer-failed", "conflict"}

LEMMA TailIs ==
    ASSUME NEW s \in Seq(Names), s # <<>>
    PROVE  /\ Head(s) = s[1] /\ Head(s) \in Names /\ Tail(s) \in Seq(Names) /\ Len(s) \in Nat \ {0}
           /\ Len(Tail(s)) = Len(s) - 1 /\ \A i \in 1..(Len(s) - 1) : Tail(s)[i] = s[i + 1] /\ i + 1 \in 1..Len(s)
           /\ \A i \in 1..Len(Tail(s)) : Tail(s)[i] = s[i + 1] /\ i + 1 \in 1..Len(s) /\ i + 1 # 1
OBVIOUS

LEMMA TellsIs ==
    ASSUME NEW c \in Calls, c.left # <<>>, NEW what \in Tellings
    PROVE  LET d == Tells(c, what)
           IN  /\ d \in Calls /\ Like(c, d) /\ d.left = Tail(c.left) /\ d.told = c.told \cup {<<Head(c.left), what>>}
               /\ d.crossed = c.crossed /\ d.changed = c.changed
               /\ IF Tail(c.left) # <<>> THEN d.at = "dispatching"
                  ELSE d.at = "answered" /\ d.code = IF c.crossed THEN 409 ELSE Success(c.want)
<1>. DEFINE e == [c EXCEPT !.told = @ \cup {<<Head(c.left), what>>}, !.left = Tail(@), !.at = "dispatching"]
<1>1. Head(c.left) \in Names /\ Tail(c.left) \in Seq(Names)
  BY TailIs DEF Calls
<1>2. /\ e \in Calls /\ Like(c, e) /\ e.left = Tail(c.left) /\ e.told = c.told \cup {<<Head(c.left), what>>}
      /\ e.crossed = c.crossed /\ e.changed = c.changed /\ e.at = "dispatching"
  <2>1. e.told \in SUBSET (Names \X {"steered", "completed", "failed", "steer-failed", "conflict"})
    BY <1>1 DEF Calls, Tellings
  <2>2. "dispatching" \in Before \cup After \cup {"answered"}
    BY DEF After
  <2>. QED BY <1>1, <2>1, <2>2 DEF Calls, Like
<1>3. Tells(c, what) = IF e.left # <<>> THEN e ELSE Says(e, IF e.crossed THEN 409 ELSE Success(e.want))
  BY DEF Tells
<1>. DEFINE code == IF e.crossed THEN 409 ELSE Success(e.want)
<1>4. code \in Nat
  BY DEF Success
<1>. HIDE DEF e
<1>5. CASE Tail(c.left) # <<>>
  BY <1>2, <1>3, <1>5
<1>6. CASE Tail(c.left) = <<>>
  <2>1. Tells(c, what) = Says(e, code)
    BY <1>2, <1>3, <1>6
  <2>2. /\ Says(e, code) \in Calls /\ Says(e, code).at = "answered" /\ Says(e, code).code = code /\ Like(e, Says(e, code))
        /\ Says(e, code).left = e.left /\ Says(e, code).told = e.told /\ Says(e, code).crossed = e.crossed
        /\ Says(e, code).changed = e.changed
    <3>. HIDE DEF code
    <3>. QED BY <1>2, <1>4, SaysIs
  <2>3. code = IF c.crossed THEN 409 ELSE Success(c.want)
    BY <1>2 DEF Like
  <2>. HIDE DEF code
  <2>. QED BY <1>2, <1>6, <2>1, <2>2, <2>3 DEF Like
<1>. QED BY <1>5, <1>6

LEMMA CrossedIs ==
    ASSUME NEW c \in Calls, c.left # <<>>
    PROVE  LET d == [c EXCEPT !.crossed = TRUE, !.left = Tail(@), !.at = "dispatching"]
           IN  /\ d \in Calls /\ Like(c, d) /\ d.left = Tail(c.left) /\ d.told = c.told
               /\ d.crossed = TRUE /\ d.changed = c.changed /\ d.at = "dispatching"
<1>1. Tail(c.left) \in Seq(Names)
  BY TailIs DEF Calls
<1>2. "dispatching" \in Before \cup After \cup {"answered"}
  BY DEF After
<1>. QED BY <1>1, <1>2 DEF Calls, Like

RefusedFits(c, d) ==
    /\ d \in Calls /\ Like(c, d) /\ d.changed = c.changed
    /\ \/ d.at = "answered" /\ d.code = 409 /\ d.left = c.left /\ d.told = c.told
       \/ /\ d.left = Tail(c.left) /\ \A t \in d.told : t \in c.told \/ t = <<Head(c.left), "conflict">>
          /\ \/ d.at = "dispatching" /\ d.left # <<>>
             \/ d.at = "answered" /\ (d.code = Success(c.want) \/ (d.code = 409 /\ d.crossed))

LEMMA RefusedIs ==
    ASSUME NEW c \in Calls, c.left # <<>>, NEW busy \in BOOLEAN
    PROVE  RefusedFits(c, RefusedBy(c, busy))
<1>1. CASE c.want.op = "start"
  <2>1. RefusedBy(c, busy) = Says(c, 409)
    BY <1>1 DEF RefusedBy
  <2>. QED BY <2>1, SaysIs DEF RefusedFits
<1>2. CASE c.want.op # "start" /\ busy
  <2>. DEFINE d == [c EXCEPT !.crossed = TRUE, !.left = Tail(@), !.at = "dispatching"]
  <2>1. RefusedBy(c, busy) = IF d.left = <<>> THEN Says(d, 409) ELSE d
    BY <1>2 DEF RefusedBy
  <2>2. /\ d \in Calls /\ Like(c, d) /\ d.left = Tail(c.left) /\ d.told = c.told
        /\ d.crossed = TRUE /\ d.changed = c.changed /\ d.at = "dispatching"
    BY CrossedIs
  <2>. HIDE DEF d
  <2>3. CASE d.left = <<>>
    <3>1. /\ Says(d, 409) \in Calls /\ Says(d, 409).at = "answered" /\ Says(d, 409).code = 409 /\ Like(d, Says(d, 409))
          /\ Says(d, 409).left = d.left /\ Says(d, 409).told = d.told /\ Says(d, 409).crossed = d.crossed
          /\ Says(d, 409).changed = d.changed
      BY <2>2, SaysIs
    <3>2. RefusedFits(c, Says(d, 409))
      BY <2>2, <3>1 DEF Like, RefusedFits
    <3>. QED BY <2>1, <2>3, <3>2
  <2>4. CASE d.left # <<>>
    <3>1. RefusedFits(c, d)
      BY <2>2, <2>4 DEF RefusedFits
    <3>. QED BY <2>1, <2>4, <3>1
  <2>. QED BY <2>3, <2>4
<1>3. CASE c.want.op # "start" /\ ~busy
  <2>. DEFINE d == Tells(c, "conflict")
  <2>1. RefusedBy(c, busy) = d
    BY <1>3 DEF RefusedBy
  <2>2. /\ d \in Calls /\ Like(c, d) /\ d.left = Tail(c.left) /\ d.told = c.told \cup {<<Head(c.left), "conflict">>}
        /\ d.crossed = c.crossed /\ d.changed = c.changed
        /\ IF Tail(c.left) # <<>> THEN d.at = "dispatching"
           ELSE d.at = "answered" /\ d.code = IF c.crossed THEN 409 ELSE Success(c.want)
    BY TellsIs DEF Tellings
  <2>3. c.crossed \in BOOLEAN
    BY DEF Calls
  <2>. HIDE DEF d
  <2>4. RefusedFits(c, d)
    BY <2>2, <2>3 DEF RefusedFits
  <2>. QED BY <2>1, <2>4
<1>. QED BY <1>1, <1>2, <1>3

LEMMA SuccessIs == \A want : Success(want) \in {200, 201}
BY DEF Success

\* A request whose event is recorded.
LEMMA WorkGoesOn ==
    ASSUME RoutesTypeOK, NEW q \in Posts, Post(q), Full(q), Full(q)', call[q].at \in After,
           call'[q].at \in After \cup {"answered"}, Like(call[q], call'[q]),
           RoomsGrow, RecordsGrow, SameTimes(q), NoneMadeBy(q),
           call'[q].at \in {"steering", "steered"} => call[q].want.op = "message",
           call'[q].at = "answered" =>
               call'[q].code \in {200, 201, 500} \/ (call'[q].code = 409 /\ (call'[q].left # <<>> \/ call'[q].crossed)),
           \A t \in call'[q].told :
               t \in call[q].told \/ (t[2] \in {"steered", "completed"} => t[1] \in RunnableAgents /\ passed'[q][t[1]] > 0),
           \A a \in RunnableAgents :
               /\ passed'[q][a] <= 1 /\ (passed[q][a] > 0 => passed'[q][a] > 0)
               /\ passed'[q][a] > 0 => passed[q][a] > 0 \/ (a = Head(call[q].left) /\ a \in room[call[q].room].members),
           Leftover(q)'
    PROVE  Post(q)'
<1>1. /\ call[q].room \in Rooms /\ room[call[q].room] # NoRoom /\ call[q].want.op \in {"create", "start", "message"}
      /\ Recorded(q) /\ Made(q) /\ Passed(q) /\ Placed(q) /\ Leftover(q) /\ Knows(q)
  BY DEF Post, Placed, HasRoom
<1>2. /\ call'[q].want = call[q].want /\ call'[q].room = call[q].room /\ call'[q].seen = call[q].seen
      /\ call'[q].prior = call[q].prior
  BY DEF Like
<1>3. \A d \in Rooms : Times(q, d)' = IF d = call[q].room THEN 1 ELSE 0
  BY <1>1 DEF RecordedOnce, Recorded, SameTimes
<1>4. Recorded(q)'
  <2>1. ~Silent(call[q])' /\ call'[q].at \notin Before \cup {"idle"}
    BY <1>1, <1>2 DEF Silent, Managing, Before, After
  <2>2. ~(Answered(q, {404}) \/ Answered(q, {400}))' /\ (Answered(q, {409}) /\ call[q].left = <<>> => call[q].crossed)'
    BY DEF Answered
  <2>3. RecordedOnce(q, call[q].room)'
    BY <1>2, <1>3 DEF RecordedOnce
  <2>. QED BY <2>1, <2>2, <2>3 DEF Recorded
<1>5. Made(q)'
  <2>1. call'[q].at \notin {"idle", "creating", "joining", "looking_back"}
    BY DEF After
  <2>. QED BY <1>1, <1>2, <2>1 DEF Made, RoomsGrow, NoneMadeBy, At
<1>6. Passed(q)'
  <2>1. call'[q].at \notin Before \cup {"idle", "lost"}
    BY DEF After, Before
  <2>2. ASSUME NEW a \in RunnableAgents, passed'[q][a] > 0
        PROVE  /\ \E c \in Rooms : room'[c] # NoRoom /\ a \in room'[c].members /\ Times(q, c)' = 1
               /\ Named(call'[q], a)
    <3>1. CASE passed[q][a] > 0
      <4>1. Named(call[q], a) /\ \E c \in Rooms : room[c] # NoRoom /\ a \in room[c].members /\ Times(q, c) = 1
        BY <1>1, <3>1 DEF Passed, At, After
      <4>2. Named(call'[q], a)
        BY <1>2, <4>1 DEF Named
      <4>. QED BY <4>1, <4>2 DEF RoomsGrow, SameTimes
    <3>2. CASE ~(passed[q][a] > 0)
      <4>1. a = Head(call[q].left) /\ a \in room[call[q].room].members
        BY <2>2, <3>2
      <4>2. call[q].left \in Seq(Names) /\ call[q].left # <<>>
        BY <1>1 DEF Full, Calls, Leftover
      <4>3. a = call[q].left[1] /\ 1 \in 1..Len(call[q].left)
        BY <4>1, <4>2, TailIs
      <4>4. Named(call[q], a)
        BY <1>1, <4>3 DEF Leftover
      <4>5. Named(call'[q], a)
        BY <1>2, <4>4 DEF Named
      <4>6. PICK d \in Rooms : d = call[q].room
        BY <1>1
      <4>7. room'[d] # NoRoom /\ a \in room'[d].members
        BY <1>1, <4>1, <4>6 DEF RoomsGrow
      <4>8. Times(q, d)' = 1
        BY <1>3, <4>6
      <4>. QED BY <4>5, <4>7, <4>8
    <3>. QED BY <3>1, <3>2
  <2>. QED BY <1>1, <1>2, <2>1, <2>2 DEF Passed, At
<1>7. Placed(q)'
  <2>1. call'[q].at \notin Before
    BY DEF After, Before
  <2>2. HasRoom(q)'
    BY <1>1, <1>2 DEF HasRoom, RoomsGrow
  <2>. QED BY <1>1, <1>2, <2>1, <2>2 DEF Placed, At, Before
<1>8. Knows(q)'
  BY <1>1, <1>2 DEF Knows, RecordsGrow
<1>. QED BY <1>4, <1>5, <1>6, <1>7, <1>8 DEF Post

MadeForWant(q) == \A d \in Rooms : room[d] = NoRoom /\ room'[d] # NoRoom /\ room'[d].maker = q => Creates(call[q].want)

LEMMA NothingYet ==
    ASSUME NEW q \in Posts, Post(q), Full(q), call[q].at \in Before
    PROVE  /\ call[q].left = <<>> /\ call[q].told = {} /\ ~call[q].crossed
           /\ \A a \in RunnableAgents : passed[q][a] = 0
           /\ \A d \in Rooms : Times(q, d) = 0
           /\ Made(q) /\ Knows(q) /\ Placed(q)
BY DEF Post, Placed, Passed, Recorded, Unrecorded

\* A request that is turned away, or fails, before its event is recorded.
LEMMA TurnedAway ==
    ASSUME NEW q \in Posts, Post(q), Full(q), call[q].at \in Before,
           NEW code \in {400, 404, 409, 500}, call'[q] = Says(call[q], code),
           RoomsGrow, RecordsGrow, MadeForWant(q), passed'[q] = passed[q],
           SameTimes(q) \/ code = 500 \/ (code = 400 /\ call[q].want.op = "budget")
    PROVE  Full(q)' /\ Post(q)'
<1>1. /\ call'[q] \in Calls /\ call'[q].at = "answered" /\ call'[q].code = code /\ Like(call[q], call'[q])
      /\ call'[q].left = call[q].left /\ call'[q].told = call[q].told /\ call'[q].crossed = call[q].crossed
      /\ call'[q].changed = call[q].changed
  <2>1. call[q] \in Calls /\ code \in Nat
    BY DEF Full
  <2>. QED BY <2>1, SaysIs
<1>2. /\ call'[q].want = call[q].want /\ call'[q].room = call[q].room /\ call'[q].seen = call[q].seen
      /\ call'[q].prior = call[q].prior
  BY <1>1 DEF Like
<1>3. /\ call[q].left = <<>> /\ call[q].told = {} /\ ~call[q].crossed
      /\ \A a \in RunnableAgents : passed[q][a] = 0
      /\ \A d \in Rooms : Times(q, d) = 0
      /\ Made(q) /\ Knows(q) /\ Placed(q)
  BY NothingYet
<1>4. ~At(q, "lost")' /\ ~Succeeded(q)' /\ call'[q].at \notin Before \cup After \cup {"idle"}
  BY <1>1 DEF At, Before, After, Succeeded
<1>5. Recorded(q)'
  <2>1. CASE SameTimes(q)
    <3>1. Unrecorded(q)'
      BY <1>3, <2>1 DEF SameTimes, Unrecorded
    <3>. QED BY <1>4, <3>1 DEF Recorded
  <2>2. CASE code = 500 \/ (code = 400 /\ call[q].want.op = "budget")
    BY <1>1, <1>2, <1>4, <2>2 DEF Recorded, Answered
  <2>. QED BY <2>1, <2>2
<1>6. Passed(q)'
  BY <1>3, <1>4 DEF Passed
<1>7. Made(q)'
  <2>1. call'[q].at \notin {"joining", "looking_back", "recording", "creating"}
    BY <1>1
  <2>. QED BY <1>2, <1>3, <1>4, <2>1 DEF Made, RoomsGrow, MadeForWant, At
<1>8. Placed(q)' /\ Leftover(q)'
  BY <1>1, <1>3, <1>4 DEF Placed, Leftover, At, Before, After
<1>9. Knows(q)'
  BY <1>1, <1>2, <1>3 DEF Knows, RecordsGrow
<1>. QED BY <1>1, <1>5, <1>6, <1>7, <1>8, <1>9 DEF Post, Full

\* What the steward manages is granted.
LEMMA Granted ==
    ASSUME NEW q \in Posts, Post(q), Full(q), call[q].at \in Before,
           call[q].want.op \in Managing \cup {"attach"}, HasRoom(q), call'[q] = Says(call[q], 200),
           RoomsGrow, RecordsGrow, NoneMadeBy(q), passed'[q] = passed[q],
           \A d \in Rooms : Times(q, d)' = IF d = call[q].room /\ ~Silent(call[q]) THEN 1 ELSE 0
    PROVE  Full(q)' /\ Post(q)'
<1>1. /\ call'[q] \in Calls /\ call'[q].at = "answered" /\ call'[q].code = 200 /\ Like(call[q], call'[q])
      /\ call'[q].left = call[q].left /\ call'[q].told = call[q].told /\ call'[q].crossed = call[q].crossed
      /\ call'[q].changed = call[q].changed
  BY SaysIs DEF Full
<1>2. /\ call'[q].want = call[q].want /\ call'[q].room = call[q].room /\ call'[q].seen = call[q].seen
      /\ call'[q].prior = call[q].prior
  BY <1>1 DEF Like
<1>3. /\ call[q].left = <<>> /\ call[q].told = {} /\ ~call[q].crossed
      /\ \A a \in RunnableAgents : passed[q][a] = 0
      /\ Made(q) /\ Knows(q) /\ Placed(q)
  BY NothingYet
<1>4. ~At(q, "lost")' /\ call'[q].at \notin Before \cup After \cup {"idle"}
  BY <1>1 DEF At, Before, After
<1>5. Recorded(q)'
  <2>1. Silent(call[q])' <=> Silent(call[q])
    BY <1>1, <1>2 DEF Silent
  <2>2. IF Silent(call[q]) THEN Unrecorded(q)' ELSE RecordedOnce(q, call[q].room)'
    BY <1>2 DEF Unrecorded, RecordedOnce
  <2>3. ~Answered(q, {404})' /\ ~Answered(q, {400})' /\ ~Answered(q, {409})'
    BY <1>1 DEF Answered
  <2>. QED BY <1>4, <2>1, <2>2, <2>3 DEF Recorded
<1>6. Passed(q)'
  BY <1>3, <1>4 DEF Passed
<1>7. Made(q)'
  <2>1. ~Creates(call'[q].want) /\ call'[q].want.op # "message" /\ call'[q].at \notin {"joining", "looking_back"}
    BY <1>1, <1>2 DEF Creates, Managing
  <2>2. \A d \in Rooms : room[d] # NoRoom => room[d].maker # q
    BY <1>2, <1>3, <2>1 DEF Made
  <2>. QED BY <2>1, <2>2 DEF Made, RoomsGrow, NoneMadeBy, At
<1>8. Placed(q)' /\ Leftover(q)'
  <2>1. HasRoom(q)'
    BY <1>2 DEF HasRoom, RoomsGrow
  <2>. QED BY <1>1, <1>3, <1>4, <2>1 DEF Placed, Leftover, At, Before, After
<1>9. Knows(q)'
  BY <1>1, <1>2, <1>3 DEF Knows, RecordsGrow
<1>. QED BY <1>1, <1>5, <1>6, <1>7, <1>8, <1>9 DEF Post, Full

\* The next one on the list.
LEMMA OneTold ==
    ASSUME NEW q \in Posts, Full(q), Full(q)', Leftover(q), call[q].at \in After, Like(call[q], call'[q]),
           call'[q].at \in {"dispatching", "answered"}, call'[q].left = Tail(call[q].left),
           call'[q].at = "dispatching" => call'[q].left # <<>>,
           \A a \in RunnableAgents : a # Head(call[q].left) => passed'[q][a] = passed[q][a]
    PROVE  Leftover(q)'
<1>1. call[q].left \in Seq(Names) /\ call[q].left # <<>>
  BY DEF Full, Calls, Leftover
<1>. DEFINE l == call[q].left
            m == call'[q].left
<1>2. /\ Head(l) = l[1] /\ Len(l) \in Nat \ {0} /\ 1 \in 1..Len(l)
      /\ \A i \in 1..Len(m) : m[i] = l[i + 1] /\ i + 1 \in 1..Len(l) /\ i + 1 # 1
  BY <1>1, TailIs
<1>3. \A i, j \in 1..Len(m) : m[i] = m[j] => i = j
  <2>1. SUFFICES ASSUME NEW i \in 1..Len(m), NEW j \in 1..Len(m), m[i] = m[j] PROVE i = j
    OBVIOUS
  <2>2. i + 1 = j + 1
    BY <1>2, <2>1 DEF Leftover
  <2>. QED BY <2>2
<1>4. ASSUME NEW i \in 1..Len(m)
      PROVE  Named(call'[q], m[i]) /\ (m[i] \in RunnableAgents => passed'[q][m[i]] = 0)
  <2>1. m[i] = l[i + 1] /\ i + 1 \in 1..Len(l) /\ i + 1 # 1
    BY <1>2
  <2>2. Named(call[q], m[i]) /\ (m[i] \in RunnableAgents => passed[q][m[i]] = 0)
    BY <2>1 DEF Leftover
  <2>3. m[i] # Head(l)
    BY <1>2, <2>1 DEF Leftover
  <2>4. Named(call'[q], m[i])
    BY <2>2 DEF Named, Like
  <2>. QED BY <2>2, <2>3, <2>4
<1>5. ~At(q, "running")' /\ call'[q].at \notin {"steered", "reserving", "running"}
  BY DEF At
<1>6. call'[q].at \in After => m # <<>>
  BY DEF After
<1>. QED BY <1>3, <1>4, <1>5, <1>6 DEF Leftover

\* The same one again, or the answer before the list is through.
LEMMA SameLeft ==
    ASSUME NEW q \in Posts, Full(q), Leftover(q), ~At(q, "running"), call[q].at \in After, Like(call[q], call'[q]),
           call'[q].left = call[q].left, passed'[q] = passed[q],
           call'[q].at \in {"dispatching", "steered", "reserving", "running"},
           ~At(q, "dispatching")' =>
              Head(call[q].left) \in RunnableAgents /\ Head(call[q].left) \in room'[call[q].room].members,
           At(q, "running")' =>
              /\ turn'[call[q].room][Head(call[q].left)] \in Turns
              /\ turn'[call[q].room][Head(call[q].left)].by = q
              /\ turn'[call[q].room][Head(call[q].left)].at # "prompted"
    PROVE  Leftover(q)'
<1>1. call[q].left # <<>> /\ call'[q].room = call[q].room
  BY DEF Leftover, Like
<1>2. \A i, j \in 1..Len(call[q].left) : call[q].left[i] = call[q].left[j] => i = j
  BY DEF Leftover
<1>3. \A i \in 1..Len(call[q].left) :
         /\ Named(call'[q], call[q].left[i])
         /\ call[q].left[i] \in RunnableAgents => passed'[q][call[q].left[i]] = 0
  BY DEF Leftover, Named, Like
<1>4. Leftover(q)' <=>
         /\ At(q, "running")' =>
              /\ turn'[call[q].room][Head(call[q].left)] \in Turns
              /\ turn'[call[q].room][Head(call[q].left)].by = q
              /\ (turn'[call[q].room][Head(call[q].left)].at = "prompted" => passed'[q][Head(call[q].left)] > 0)
         /\ ~At(q, "dispatching")' =>
              Head(call[q].left) \in RunnableAgents /\ Head(call[q].left) \in room'[call[q].room].members
  BY <1>1, <1>2, <1>3 DEF Leftover, At
<1>. QED BY <1>4

LEMMA NoLeft ==
    ASSUME NEW q \in Posts, call'[q].at \in Before \cup {"answered"}, Leftover(q), call'[q].left = call[q].left
    PROVE  Leftover(q)'
BY DEF Leftover, Before, After, At

LEMMA BecomesIs ==
    ASSUME RoutesTypeOK, NEW q \in Posts, NEW c \in Calls, Becomes(q, c)
    PROVE  /\ call' \in [Posts -> {Unasked} \cup LostCalls \cup Calls] /\ call'[q] = c /\ Full(q)'
           /\ \A p \in Posts \ {q} : call'[p] = call[p]
BY DEF RoutesTypeOK, Becomes, Full

LEMMA GivenIs ==
    ASSUME RoutesTypeOK, NEW q \in Posts, NEW a \in RunnableAgents, Given(q, a)
    PROVE  /\ passed' \in [Posts -> [RunnableAgents -> Nat]]
           /\ \A p \in Posts \ {q} : passed'[p] = passed[p]
           /\ \A b \in RunnableAgents : passed'[q][b] = IF b = a THEN passed[q][a] + 1 ELSE passed[q][b]
BY DEF RoutesTypeOK, Given

\* What a step of a request leaves to the others.
Steady(q) == RoutesTypeOK' /\ RoomsGrow /\ RecordsGrow /\ \A p \in Posts \ {q} : Undisturbed(p)

LEMMA QuietStep ==
    ASSUME RoutesTypeOK, NEW q \in Posts, NEW c \in Calls, Becomes(q, c), UNCHANGED <<room, record, holder, turn>>,
           passed' = passed \/ \E a \in RunnableAgents : Given(q, a)
    PROVE  Steady(q) /\ Full(q)' /\ call'[q] = c /\ SameTimes(q) /\ NoneMadeBy(q) /\ MadeForWant(q)
<1>1. /\ call' \in [Posts -> {Unasked} \cup LostCalls \cup Calls] /\ call'[q] = c /\ Full(q)'
      /\ \A p \in Posts \ {q} : call'[p] = call[p]
  BY BecomesIs
<1>2. passed' \in [Posts -> [RunnableAgents -> Nat]] /\ \A p \in Posts \ {q} : passed'[p] = passed[p]
  <2>1. CASE passed' = passed
    BY <2>1 DEF RoutesTypeOK
  <2>2. CASE \E a \in RunnableAgents : Given(q, a)
    BY <2>2, GivenIs
  <2>. QED BY <2>1, <2>2
<1>3. RecordsGrow /\ \A p \in Posts, d \in Rooms : Times(p, d)' = Times(p, d)
  BY TimesKept
<1>4. RoutesTypeOK'
  BY <1>1, <1>2 DEF RoutesTypeOK
<1>5. RoomsGrow /\ \A p \in Posts : NoneMadeBy(p) /\ MadeForWant(p)
  BY DEF RoomsGrow, NoneMadeBy, MadeForWant
<1>6. \A p \in Posts \ {q} : Undisturbed(p)
  BY <1>1, <1>2, <1>3, <1>5 DEF Undisturbed, SameTimes
<1>. QED BY <1>1, <1>3, <1>4, <1>5, <1>6 DEF Steady, SameTimes

LEMMA InvIs == ASSUME RoutesInv, NEW q \in Posts PROVE RoutesTypeOK /\ Post(q)
BY DEF RoutesInv

LEMMA WantIs ==
    ASSUME NEW w \in Wants
    PROVE  /\ w.op \in {"message", "create", "start", "start_peer", "attach"} \cup Managing
           /\ w.op \in {"message", "create"} => w.text \in Texts
           /\ w.op = "start" => w.who \in Names
           /\ w.op = "start_peer" => w.peers \in Seq(Names)
           /\ w.op = "budget" => w.expected \in Nat
           /\ w.op = "rename" => w.title \in {"old", "new"}
BY RoutesAssumption DEF Managing

\* A request that is turned away while nothing else happens.
LEMMA RefusedQuietly ==
    ASSUME RoutesInv, NEW q \in Posts, call[q].at \in Before, NEW code \in {400, 404, 409, 500}, Answers(q, code),
           UNCHANGED <<room, record, holder, turn, passed>>
    PROVE  Steady(q) /\ Full(q)' /\ Post(q)'
<1>1. RoutesTypeOK /\ Post(q) /\ Full(q)
  BY InvIs, FullIs DEF Before
<1>2. Says(call[q], code) \in Calls
  BY <1>1, SaysIs DEF Full
<1>3. Becomes(q, Says(call[q], code))
  BY DEF Answers
<1>4. Steady(q) /\ Full(q)' /\ call'[q] = Says(call[q], code) /\ SameTimes(q) /\ MadeForWant(q)
  BY <1>1, <1>2, <1>3, QuietStep
<1>5. RoomsGrow /\ RecordsGrow /\ passed'[q] = passed[q]
  BY <1>4 DEF Steady
<1>. QED BY <1>1, <1>4, <1>5, TurnedAway

Asked(w) == [at |-> "creating", want |-> w, room |-> NoRoom, tries |-> 0, seen |-> {}, prior |-> 0,
             left |-> <<>>, told |-> {}, crossed |-> FALSE, changed |-> FALSE, code |-> 0]

Fresh(c, w) ==
    /\ c \in Calls /\ c.want = w /\ c.seen = {} /\ c.prior = 0 /\ c.left = <<>> /\ c.told = {} /\ ~c.crossed /\ ~c.changed
    /\ \/ Creates(w) /\ c.at = "creating"
       \/ Creates(w) /\ c.at = "answered" /\ c.code = 400
       \/ ~Creates(w) /\ c.at = "reading" /\ c.room \in Rooms

LEMMA AskedIs ==
    ASSUME NEW w \in Wants
    PROVE  /\ Creates(w) => Fresh(Asked(w), w)
           /\ Creates(w) => Fresh(Says(Asked(w), 400), w)
           /\ ~Creates(w) => \A d \in Rooms : Fresh([Asked(w) EXCEPT !.at = "reading", !.room = d], w)
<1>1. /\ Asked(w) \in Calls /\ Asked(w).want = w /\ Asked(w).seen = {} /\ Asked(w).prior = 0 /\ Asked(w).left = <<>>
      /\ Asked(w).told = {} /\ Asked(w).crossed = FALSE /\ Asked(w).changed = FALSE /\ Asked(w).at = "creating"
  BY DEF Asked, Calls, Before
<1>. DEFINE s == Says(Asked(w), 400)
<1>2. s \in Calls /\ s.at = "answered" /\ s.code = 400 /\ Like(Asked(w), s) /\ s.left = Asked(w).left
      /\ s.told = Asked(w).told /\ s.crossed = Asked(w).crossed /\ s.changed = Asked(w).changed
  BY <1>1, SaysIs
<1>. HIDE DEF s
<1>3. ASSUME NEW d \in Rooms, ~Creates(w) PROVE Fresh([Asked(w) EXCEPT !.at = "reading", !.room = d], w)
  <2>. DEFINE r == [Asked(w) EXCEPT !.at = "reading", !.room = d]
  <2>1. r \in Calls /\ r.at = "reading" /\ r.room = d /\ r.want = Asked(w).want /\ r.seen = Asked(w).seen
        /\ r.prior = Asked(w).prior /\ r.left = Asked(w).left /\ r.told = Asked(w).told
        /\ r.crossed = Asked(w).crossed /\ r.changed = Asked(w).changed
    BY <1>1 DEF Calls, Before
  <2>2. Fresh(r, w)
    <3>. HIDE DEF r
    <3>. QED BY <1>1, <1>3, <2>1 DEF Fresh
  <2>. QED BY <2>2
<1>4. Creates(w) => Fresh(Asked(w), w)
  BY <1>1 DEF Fresh
<1>5. Creates(w) => Fresh(s, w)
  BY <1>1, <1>2 DEF Fresh, Like
<1>. QED BY <1>3, <1>4, <1>5 DEF s

LEMMA AsksKeeps == ASSUME RoutesInv, NEW q \in Posts, Asks(q) PROVE Steady(q) /\ Full(q)' /\ Post(q)'
<1>1. RoutesTypeOK /\ Post(q) /\ At(q, "idle") /\ UNCHANGED <<room, record, holder, turn, passed>>
  BY InvIs DEF Asks
<1>2. PICK w \in Wants :
         IF Creates(w) THEN Becomes(q, IF Accepted(w) THEN Asked(w) ELSE Says(Asked(w), 400))
         ELSE \E c \in Rooms : Becomes(q, [Asked(w) EXCEPT !.at = "reading", !.room = c])
  BY DEF Asks, Asked
<1>3. PICK c : Becomes(q, c) /\ Fresh(c, w)
  <2>1. CASE Creates(w)
    <3>1. CASE Accepted(w)
      BY <1>2, <2>1, <3>1, AskedIs
    <3>2. CASE ~Accepted(w)
      BY <1>2, <2>1, <3>2, AskedIs
    <3>. QED BY <3>1, <3>2
  <2>2. CASE ~Creates(w)
    BY <1>2, <2>2, AskedIs
  <2>. QED BY <2>1, <2>2
<1>4. Steady(q) /\ Full(q)' /\ call'[q] = c /\ SameTimes(q)
  BY <1>1, <1>3, QuietStep DEF Fresh
<1>5. /\ \A a \in RunnableAgents : passed'[q][a] = 0
      /\ \A d \in Rooms : Times(q, d)' = 0
      /\ \A d \in Rooms : room'[d] # NoRoom => room'[d].maker # q
  BY <1>1, <1>4 DEF Post, Passed, Recorded, Unrecorded, SameTimes, Made, At
<1>6. Unrecorded(q)' /\ ~Succeeded(q)' /\ call'[q].at \notin After \cup {"idle", "lost", "recording", "joining", "looking_back"}
  BY <1>3, <1>4, <1>5 DEF Unrecorded, Succeeded, At, After, Fresh
<1>7. Recorded(q)' /\ Passed(q)' /\ Made(q)'
  BY <1>5, <1>6 DEF Recorded, Passed, Made, At
<1>8. Leftover(q)' /\ Knows(q)'
  BY <1>3, <1>4, <1>6 DEF Leftover, Knows, At, After, Fresh
<1>9. Placed(q)'
  <2>1. w.op \in {"message", "attach"} \cup Managing \/ Creates(w)
    BY WantIs DEF Creates
  <2>. QED BY <1>3, <1>4, <1>6, <2>1 DEF Placed, At, Fresh
<1>. QED BY <1>4, <1>7, <1>8, <1>9 DEF Post

LEMMA ReadsManifestKeeps == ASSUME RoutesInv, NEW q \in Posts, ReadsManifest(q) PROVE Steady(q) /\ Full(q)' /\ Post(q)'
<1>1. /\ RoutesTypeOK /\ Post(q) /\ At(q, "reading") /\ call[q].want.op = "message"
      /\ UNCHANGED <<room, record, holder, turn, passed>>
  BY InvIs DEF ReadsManifest
<1>2. Full(q) /\ call[q].at \in Before
  BY <1>1, FullIs DEF At, Before
<1>3. /\ call[q].left = <<>> /\ call[q].told = {} /\ ~call[q].crossed
      /\ \A a \in RunnableAgents : passed[q][a] = 0
      /\ \A d \in Rooms : Times(q, d) = 0
      /\ Made(q) /\ Knows(q) /\ Placed(q) /\ call[q].room \in Rooms /\ ~call[q].changed
  BY <1>1, <1>2, NothingYet DEF Placed, At
<1>. DEFINE r == room[call[q].room]
            d == [call[q] EXCEPT !.at = "looking_back", !.seen = r.members]
<1>4. CASE Answers(q, 404) \/ Answers(q, 409) \/ Answers(q, 400)
  BY <1>1, <1>2, <1>4, RefusedQuietly
<1>5. CASE r # NoRoom /\ Becomes(q, d)
  <2>1. r.members \in SUBSET Names
    BY <1>1, <1>3, <1>5 DEF RoutesTypeOK, Manifests
  <2>2. /\ d \in Calls /\ d.at = "looking_back" /\ d.want = call[q].want /\ d.room = call[q].room /\ d.seen = r.members
        /\ d.prior = call[q].prior /\ d.left = <<>> /\ d.told = {} /\ ~d.crossed /\ ~d.changed
    BY <1>2, <1>3, <2>1 DEF Full, Calls, Before
  <2>. HIDE DEF d
  <2>3. Steady(q) /\ Full(q)' /\ call'[q] = d /\ SameTimes(q)
    BY <1>1, <1>5, <2>2, QuietStep
  <2>4. Unrecorded(q)' /\ ~Succeeded(q)' /\ call'[q].at \notin After \cup {"idle", "lost", "recording", "joining", "creating"}
    BY <1>3, <2>2, <2>3 DEF Unrecorded, SameTimes, Succeeded, At, After
  <2>5. Recorded(q)' /\ Passed(q)' /\ Made(q)'
    BY <1>1, <1>3, <2>2, <2>3, <2>4 DEF Recorded, Passed, Made, At
  <2>6. Leftover(q)' /\ Knows(q)'
    BY <1>1, <1>3, <2>2, <2>3, <2>4 DEF Leftover, Knows, At, After
  <2>7. Placed(q)'
    BY <1>1, <1>3, <1>5, <2>2, <2>3, <2>4 DEF Placed, At, HasRoom, Before, After
  <2>. QED BY <2>3, <2>5, <2>6, <2>7 DEF Post
<1>. QED
  <2>1. \/ Answers(q, 404) \/ Answers(q, 409) \/ Answers(q, 400)
        \/ r # NoRoom /\ Becomes(q, d)
    BY DEF ReadsManifest, Answers
  <2>. QED BY <1>4, <1>5, <2>1

LEMMA AttachesKeeps == ASSUME RoutesInv, NEW q \in Posts, Attaches(q) PROVE Steady(q) /\ Full(q)' /\ Post(q)'
<1>1. /\ RoutesTypeOK /\ Post(q) /\ At(q, "reading") /\ call[q].want.op = "attach"
      /\ UNCHANGED <<room, record, holder, turn, passed>>
  BY InvIs DEF Attaches
<1>2. Full(q) /\ call[q].at \in Before
  BY <1>1, FullIs DEF At, Before
<1>3. \A d \in Rooms : Times(q, d) = 0
  BY <1>1, <1>2, NothingYet
<1>4. CASE Answers(q, 404) \/ Answers(q, 409)
  BY <1>1, <1>2, <1>4, RefusedQuietly
<1>5. CASE room[call[q].room] # NoRoom /\ Answers(q, 200)
  <2>1. Says(call[q], 200) \in Calls /\ Becomes(q, Says(call[q], 200))
    BY <1>2, <1>5, SaysIs DEF Full, Answers
  <2>2. Steady(q) /\ Full(q)' /\ call'[q] = Says(call[q], 200) /\ SameTimes(q) /\ NoneMadeBy(q)
    BY <1>1, <2>1, QuietStep
  <2>3. RoomsGrow /\ RecordsGrow /\ passed'[q] = passed[q]
    BY <1>1, <2>2 DEF Steady
  <2>4. HasRoom(q)
    BY <1>1, <1>2, <1>5 DEF HasRoom, Post, Placed
  <2>5. \A d \in Rooms : Times(q, d)' = IF d = call[q].room /\ ~Silent(call[q]) THEN 1 ELSE 0
    BY <1>1, <1>3, <2>2 DEF Silent, SameTimes
  <2>. QED BY <1>1, <1>2, <2>2, <2>3, <2>4, <2>5, Granted
<1>. QED BY <1>4, <1>5 DEF Attaches

\* A step of a request with all that it may change for the others.
LEMMA WorldStep ==
    ASSUME RoutesInv, NEW q \in Posts, NEW c \in Calls, Becomes(q, c),
           room' \in [Rooms -> Manifests \cup {NoRoom}], RoomsGrow, \A p \in Posts \ {q} : NoneMadeBy(p),
           record' = record \/ \E d \in Rooms : Appends(q, d),
           holder' \in [Rooms -> Posts \cup {NoOne, Others}],
           \A d \in Rooms : /\ holder'[d] # NoOne => room'[d] # NoRoom
                            /\ \A p \in Posts \ {q} : holder[d] = p => holder'[d] = p,
           turn' \in [Rooms -> [RunnableAgents -> Turns \cup {NoTurn}]],
           \A d \in Rooms, a \in RunnableAgents, p \in Posts \ {q} :
               turn[d][a] \in Turns /\ turn[d][a].by = p => turn'[d][a] = turn[d][a],
           passed' \in [Posts -> [RunnableAgents -> Nat]], \A p \in Posts \ {q} : passed'[p] = passed[p]
    PROVE  Steady(q) /\ Full(q)' /\ call'[q] = c /\ (record' = record => SameTimes(q))
<1>1. RoutesTypeOK /\ \A p \in Posts : Post(p)
  BY InvIs
<1>2. /\ call' \in [Posts -> {Unasked} \cup LostCalls \cup Calls] /\ call'[q] = c /\ Full(q)'
      /\ \A p \in Posts \ {q} : call'[p] = call[p]
  BY <1>1, BecomesIs
<1>3. /\ RecordsGrow /\ record' \in [Rooms -> Seq(Posts)] /\ \A p \in Posts \ {q} : SameTimes(p)
      /\ record' = record => SameTimes(q)
  <2>1. CASE record' = record
    <3>1. RecordsGrow /\ \A p \in Posts, d \in Rooms : Times(p, d)' = Times(p, d)
      BY <1>1, <2>1, TimesKept
    <3>. QED BY <1>1, <2>1, <3>1 DEF RoutesTypeOK, SameTimes
  <2>2. ASSUME NEW e \in Rooms, Appends(q, e), record' # record
        PROVE  RecordsGrow /\ record' \in [Rooms -> Seq(Posts)] /\ \A p \in Posts \ {q} : SameTimes(p)
    <3>1. /\ \A p \in Posts, d \in Rooms : Times(p, d)' = Times(p, d) + IF p = q /\ d = e THEN 1 ELSE 0
          /\ RecordsGrow /\ record' \in [Rooms -> Seq(Posts)]
      BY <1>1, <2>2, TimesAppended
    <3>2. \A p \in Posts, d \in Rooms : Times(p, d) \in Nat
      BY <1>1, TimesIs
    <3>. QED BY <3>1, <3>2 DEF SameTimes
  <2>. QED BY <2>1, <2>2
<1>4. RoutesTypeOK'
  BY <1>2, <1>3 DEF RoutesTypeOK
<1>5. ASSUME NEW p \in Posts \ {q} PROVE Undisturbed(p)
  <2>1. Post(p) /\ (call[p].at \notin {"idle", "lost"} <=> Full(p))
    BY <1>1, FullIs
  <2>2. call[p].at \in {"locked", "noting"} => holder'[call[p].room] = holder[call[p].room]
    BY <2>1 DEF Post, Placed, HasRoom
  <2>3. At(p, "running") => turn'[call[p].room][Head(call[p].left)] = turn[call[p].room][Head(call[p].left)]
    <3>1. SUFFICES ASSUME At(p, "running")
                   PROVE  turn'[call[p].room][Head(call[p].left)] = turn[call[p].room][Head(call[p].left)]
      OBVIOUS
    <3>2. Full(p) /\ Placed(p) /\ Leftover(p)
      BY <2>1, <3>1 DEF Post, At
    <3>3. /\ call[p].room \in Rooms /\ Head(call[p].left) \in RunnableAgents
          /\ turn[call[p].room][Head(call[p].left)] \in Turns /\ turn[call[p].room][Head(call[p].left)].by = p
      BY <3>1, <3>2 DEF Placed, Leftover, HasRoom, At, After
    <3>4. ASSUME NEW d \in Rooms, NEW a \in RunnableAgents, turn[d][a] \in Turns, turn[d][a].by = p
          PROVE  turn'[d][a] = turn[d][a]
      BY <3>4
    <3>. QED BY ONLY <3>3, <3>4
  <2>. QED BY <1>2, <1>3, <2>2, <2>3 DEF Undisturbed
<1>. QED BY <1>2, <1>3, <1>4, <1>5 DEF Steady

LEMMA AudienceIs == ASSUME NEW w \in Wants, Creates(w) PROVE Audience(w) \subseteq Names
<1>1. CASE w.op = "create"
  <2>1. Recipients[w.text] \in Seq(Names)
    BY <1>1, WantIs, RecipientsAre DEF OnceEach
  <2>2. ToSet(Recipients[w.text]) \subseteq Names
    BY <2>1 DEF ToSet
  <2>. QED BY <1>1, <2>2 DEF Audience
<1>2. CASE w.op = "start"
  BY <1>2, WantIs DEF Audience
<1>3. CASE w.op = "start_peer"
  <2>1. w.peers \in Seq(Names)
    BY <1>3, WantIs
  <2>2. ToSet(w.peers) \subseteq Names
    BY <2>1 DEF ToSet
  <2>. QED BY <1>3, <2>2 DEF Audience
<1>. QED BY <1>1, <1>2, <1>3 DEF Creates

\* What a room is when it is new.
Founded(q) == [members |-> Audience(call[q].want), open |-> TRUE, title |-> "old", maker |-> q]

LEMMA FoundingIs ==
    ASSUME RoutesTypeOK, NEW q \in Posts, call[q].want \in Wants, Creates(call[q].want), NEW c \in Rooms, room[c] = NoRoom,
           room' = [room EXCEPT ![c] = Founded(q)]
    PROVE  /\ room' \in [Rooms -> Manifests \cup {NoRoom}] /\ RoomsGrow /\ \A p \in Posts \ {q} : NoneMadeBy(p)
           /\ room'[c] # NoRoom /\ room'[c].members = Audience(call[q].want) /\ room'[c].maker = q
           /\ \A d \in Rooms \ {c} : room'[d] = room[d]
<1>1. Founded(q) \in Manifests
  BY AudienceIs DEF Founded, Manifests
<1>2. Founded(q) # NoRoom
  BY <1>1, RoutesAssumption
<1>3. \A d \in Rooms : room'[d] = IF d = c THEN Founded(q) ELSE room[d]
  BY DEF RoutesTypeOK
<1>4. Founded(q).members = Audience(call[q].want) /\ Founded(q).maker = q
  BY DEF Founded
<1>5. room' \in [Rooms -> Manifests \cup {NoRoom}]
  BY <1>1 DEF RoutesTypeOK
<1>6. RoomsGrow /\ \A p \in Posts \ {q} : NoneMadeBy(p)
  BY <1>3, <1>4 DEF RoomsGrow, NoneMadeBy
<1>. QED BY <1>2, <1>3, <1>4, <1>5, <1>6

LEMMA HoldersKept ==
    ASSUME RoutesTypeOK, RoomsGrow, holder' = holder, turn' = turn, passed' = passed
    PROVE  /\ holder' \in [Rooms -> Posts \cup {NoOne, Others}]
           /\ \A d \in Rooms : /\ holder'[d] # NoOne => room'[d] # NoRoom
                               /\ \A p \in Posts : holder[d] = p => holder'[d] = p
           /\ turn' \in [Rooms -> [RunnableAgents -> Turns \cup {NoTurn}]]
           /\ passed' \in [Posts -> [RunnableAgents -> Nat]]
BY DEF RoutesTypeOK, RoomsGrow

\* A step that changes rooms and records only.
LEMMA RoomStep ==
    ASSUME RoutesInv, NEW q \in Posts, NEW c \in Calls, Becomes(q, c),
           room' \in [Rooms -> Manifests \cup {NoRoom}], RoomsGrow, \A p \in Posts \ {q} : NoneMadeBy(p),
           record' = record \/ \E d \in Rooms : Appends(q, d),
           UNCHANGED <<holder, turn, passed>>
    PROVE  Steady(q) /\ Full(q)' /\ call'[q] = c /\ (record' = record => SameTimes(q))
<1>1. RoutesTypeOK
  BY DEF RoutesInv
<1>2. /\ holder' \in [Rooms -> Posts \cup {NoOne, Others}]
      /\ \A d \in Rooms : /\ holder'[d] # NoOne => room'[d] # NoRoom
                          /\ \A p \in Posts \ {q} : holder[d] = p => holder'[d] = p
      /\ turn' \in [Rooms -> [RunnableAgents -> Turns \cup {NoTurn}]]
      /\ passed' \in [Posts -> [RunnableAgents -> Nat]]
  BY <1>1, HoldersKept
<1>3. /\ \A d \in Rooms, a \in RunnableAgents, p \in Posts \ {q} :
             turn[d][a] \in Turns /\ turn[d][a].by = p => turn'[d][a] = turn[d][a]
      /\ \A p \in Posts \ {q} : passed'[p] = passed[p]
  OBVIOUS
<1>. QED BY <1>2, <1>3, WorldStep

LEMMA OpensKeeps == ASSUME RoutesInv, NEW q \in Posts, Opens(q) PROVE Steady(q) /\ Full(q)' /\ Post(q)'
<1>1. RoutesTypeOK /\ Post(q) /\ At(q, "creating") /\ UNCHANGED <<record, holder, turn, passed>>
  BY InvIs DEF Opens
<1>2. Full(q) /\ call[q].at \in Before /\ call[q].want \in Wants
  BY <1>1, FullIs DEF At, Before
<1>3. /\ call[q].left = <<>> /\ call[q].told = {} /\ ~call[q].crossed
      /\ \A a \in RunnableAgents : passed[q][a] = 0
      /\ \A d \in Rooms : Times(q, d) = 0
      /\ Made(q) /\ Knows(q) /\ Placed(q)
  BY <1>2, <1>1, NothingYet
<1>4. Creates(call[q].want) /\ ~call[q].changed /\ call[q].prior = 0
  BY <1>1, <1>2, <1>3 DEF Placed, At
<1>5. \A d \in Rooms : room[d] # NoRoom => room[d].maker # q
  BY <1>1, <1>3 DEF Made, At
<1>6. ASSUME NEW c \in Rooms, room[c] = NoRoom, room' = [room EXCEPT ![c] = Founded(q)],
             Becomes(q, [call[q] EXCEPT !.at = "recording", !.room = c])
      PROVE  Steady(q) /\ Full(q)' /\ Post(q)'
  <2>. DEFINE d == [call[q] EXCEPT !.at = "recording", !.room = c]
  <2>1. /\ d \in Calls /\ d.at = "recording" /\ d.want = call[q].want /\ d.room = c
        /\ d.prior = call[q].prior /\ d.left = <<>> /\ d.told = {} /\ ~d.crossed /\ ~d.changed
    BY <1>2, <1>3, <1>4 DEF Full, Calls, Before
  <2>. HIDE DEF d
  <2>2. /\ room' \in [Rooms -> Manifests \cup {NoRoom}] /\ RoomsGrow /\ \A p \in Posts \ {q} : NoneMadeBy(p)
        /\ room'[c] # NoRoom /\ room'[c].members = Audience(call[q].want) /\ room'[c].maker = q
        /\ \A e \in Rooms \ {c} : room'[e] = room[e]
    BY <1>1, <1>2, <1>4, <1>6, FoundingIs
  <2>3. Becomes(q, d)
    BY <1>6 DEF d
  <2>4. Steady(q) /\ Full(q)' /\ call'[q] = d /\ SameTimes(q)
    BY <1>1, <2>1, <2>2, <2>3, RoomStep
  <2>5. Unrecorded(q)' /\ ~Succeeded(q)' /\ call'[q].at \notin After \cup {"idle", "lost", "looking_back", "joining", "creating"}
    BY <1>3, <2>1, <2>4 DEF Unrecorded, SameTimes, Succeeded, At, After
  <2>6. Recorded(q)' /\ Passed(q)'
    BY <1>1, <1>3, <2>1, <2>4, <2>5 DEF Recorded, Passed, At
  <2>7. Made(q)'
    <3>1. call'[q].want.op # "message"
      BY <1>4, <2>1, <2>4 DEF Creates
    <3>. QED BY <1>4, <1>5, <2>1, <2>2, <2>4, <2>5, <3>1 DEF Made, At
  <2>8. Leftover(q)'
    BY <2>1, <2>4, <2>5 DEF Leftover, At
  <2>9. Knows(q)'
    <3>1. call'[q].prior = 0 /\ call'[q].told = {}
      BY <1>4, <2>1, <2>4
    <3>. QED BY <3>1 DEF Knows
  <2>10. Placed(q)'
    BY <1>4, <2>1, <2>2, <2>4, <2>5 DEF Placed, At, HasRoom, Before
  <2>. QED BY <2>4, <2>6, <2>7, <2>8, <2>9, <2>10 DEF Post
<1>7. ASSUME UNCHANGED room, Answers(q, 409)
      PROVE  Steady(q) /\ Full(q)' /\ Post(q)'
  BY <1>1, <1>2, <1>7, RefusedQuietly
<1>8. ASSUME UNCHANGED room, Becomes(q, [call[q] EXCEPT !.tries = @ + 1])
      PROVE  Steady(q) /\ Full(q)' /\ Post(q)'
  <2>. DEFINE d == [call[q] EXCEPT !.tries = @ + 1]
  <2>1. /\ d \in Calls /\ d.at = "creating" /\ d.want = call[q].want /\ d.room = call[q].room
        /\ d.prior = call[q].prior /\ d.left = <<>> /\ d.told = {} /\ ~d.crossed /\ ~d.changed
    BY <1>1, <1>2, <1>3, <1>4 DEF Full, Calls, At
  <2>. HIDE DEF d
  <2>3. Becomes(q, d)
    BY <1>8 DEF d
  <2>4. Steady(q) /\ Full(q)' /\ call'[q] = d /\ SameTimes(q)
    BY <1>1, <1>8, <2>1, <2>3, QuietStep
  <2>5. Unrecorded(q)' /\ ~Succeeded(q)' /\ call'[q].at \notin After \cup {"idle", "lost", "looking_back", "joining", "recording"}
    BY <1>3, <2>1, <2>4 DEF Unrecorded, SameTimes, Succeeded, At, After
  <2>6. Recorded(q)' /\ Passed(q)'
    BY <1>1, <1>3, <2>1, <2>4, <2>5 DEF Recorded, Passed, At
  <2>7. Made(q)'
    BY <1>5, <1>8, <2>1, <2>4, <2>5 DEF Made, At
  <2>8. Leftover(q)'
    BY <2>1, <2>4, <2>5 DEF Leftover, At
  <2>9. Knows(q)'
    BY <1>1, <1>3, <2>1, <2>4 DEF Knows
  <2>10. Placed(q)'
    BY <1>4, <2>1, <2>4, <2>5 DEF Placed, At, HasRoom, Before
  <2>. QED BY <2>4, <2>6, <2>7, <2>8, <2>9, <2>10 DEF Post
<1>9. PICK c \in Rooms :
        IF room[c] = NoRoom
        THEN room' = [room EXCEPT ![c] = Founded(q)] /\ Becomes(q, [call[q] EXCEPT !.at = "recording", !.room = c])
        ELSE /\ Becomes(q, IF call[q].tries + 1 = Candidates THEN Says(call[q], 409)
                           ELSE [call[q] EXCEPT !.tries = @ + 1])
             /\ UNCHANGED room
  BY DEF Opens, Founded
<1>. QED
  <2>1. CASE room[c] = NoRoom
    BY <1>6, <1>9, <2>1
  <2>2. CASE room[c] # NoRoom /\ call[q].tries + 1 = Candidates
    BY <1>7, <1>9, <2>2 DEF Answers
  <2>3. CASE room[c] # NoRoom /\ call[q].tries + 1 # Candidates
    BY <1>8, <1>9, <2>3
  <2>. QED BY <2>1, <2>2, <2>3

LEMMA OpeningFailsKeeps == ASSUME RoutesInv, NEW q \in Posts, OpeningFails(q) PROVE Steady(q) /\ Full(q)' /\ Post(q)'
<1>1. RoutesTypeOK /\ Post(q) /\ At(q, "creating") /\ UNCHANGED <<record, holder, turn, passed>> /\ Answers(q, 500)
  BY InvIs DEF OpeningFails
<1>2. Full(q) /\ call[q].at \in Before /\ call[q].want \in Wants
  BY <1>1, FullIs DEF At, Before
<1>3. Creates(call[q].want)
  BY <1>1, <1>2 DEF Post, Placed, At
<1>4. CASE UNCHANGED room
  BY <1>1, <1>2, <1>4, RefusedQuietly
<1>5. ASSUME NEW c \in Rooms, room[c] = NoRoom, room' = [room EXCEPT ![c] = Founded(q)]
      PROVE  Steady(q) /\ Full(q)' /\ Post(q)'
  <2>1. /\ room' \in [Rooms -> Manifests \cup {NoRoom}] /\ RoomsGrow /\ \A p \in Posts \ {q} : NoneMadeBy(p)
    BY <1>1, <1>2, <1>3, <1>5, FoundingIs
  <2>2. Says(call[q], 500) \in Calls /\ Becomes(q, Says(call[q], 500))
    BY <1>1, <1>2, SaysIs DEF Full, Answers
  <2>3. Steady(q) /\ Full(q)' /\ call'[q] = Says(call[q], 500) /\ SameTimes(q)
    BY <1>1, <2>1, <2>2, RoomStep
  <2>4. RecordsGrow /\ MadeForWant(q) /\ passed'[q] = passed[q]
    BY <1>1, <1>3, <2>3 DEF Steady, MadeForWant
  <2>. QED BY <1>1, <1>2, <2>1, <2>3, <2>4, TurnedAway
<1>. QED BY <1>4, <1>5 DEF OpeningFails, Founded

LEMMA ReadsPriorKeeps == ASSUME RoutesInv, NEW q \in Posts, ReadsPrior(q) PROVE Steady(q) /\ Full(q)' /\ Post(q)'
<1>1. RoutesTypeOK /\ Post(q) /\ At(q, "looking_back") /\ UNCHANGED <<room, record, holder, turn, passed>>
  BY InvIs DEF ReadsPrior
<1>2. Full(q) /\ call[q].at \in Before
  BY <1>1, FullIs DEF At, Before
<1>3. /\ call[q].left = <<>> /\ call[q].told = {} /\ ~call[q].crossed
      /\ \A a \in RunnableAgents : passed[q][a] = 0
      /\ \A d \in Rooms : Times(q, d) = 0
      /\ Made(q) /\ Knows(q) /\ Placed(q)
  BY <1>2, <1>1, NothingYet
<1>4. HasRoom(q) /\ call[q].want.op = "message" /\ ~call[q].changed /\ call[q].seen \subseteq room[call[q].room].members
  BY <1>1, <1>2, <1>3 DEF Placed, Made, At
<1>5. /\ Len(record[call[q].room]) \in Nat
      /\ \A i \in 1..Len(record[call[q].room]) : record[call[q].room][i] # q
  BY <1>1, <1>3, <1>4, TimesIs DEF HasRoom
<1>. DEFINE to == IF Recipients[call[q].want.text] = <<>> THEN "recording" ELSE "joining"
            d == [call[q] EXCEPT !.prior = Len(record[call[q].room]), !.at = to]
<1>6. to \in {"recording", "joining"} /\ (to = "recording" => ToSet(Recipients[call[q].want.text]) = {})
  <2>1. ToSet(<<>>) = {}
    BY DEF ToSet
  <2>. QED BY <2>1
<1>7. Becomes(q, d)
  BY DEF ReadsPrior
<1>. HIDE DEF to
<1>8. /\ d \in Calls /\ d.at = to /\ d.want = call[q].want /\ d.room = call[q].room /\ d.seen = call[q].seen
      /\ d.prior = Len(record[call[q].room]) /\ d.left = <<>> /\ d.told = {} /\ ~d.crossed /\ ~d.changed
  BY <1>2, <1>3, <1>4, <1>5, <1>6 DEF Full, Calls, Before
<1>. HIDE DEF d
<1>9. Steady(q) /\ Full(q)' /\ call'[q] = d /\ SameTimes(q)
  BY <1>1, <1>7, <1>8, QuietStep
<1>10. Unrecorded(q)' /\ ~Succeeded(q)' /\ call'[q].at \notin After \cup {"idle", "lost", "looking_back", "creating"}
  BY <1>3, <1>6, <1>8, <1>9 DEF Unrecorded, SameTimes, Succeeded, At, After
<1>11. Recorded(q)' /\ Passed(q)'
  <2>1. call'[q].at \in Before
    BY <1>6, <1>8, <1>9 DEF Before
  <2>. QED BY <1>1, <1>3, <1>8, <1>9, <1>10, <2>1 DEF Recorded, Passed, At, Answered, Before
<1>12. Made(q)'
  BY <1>1, <1>3, <1>4, <1>6, <1>8, <1>9, <1>10 DEF Made, At, Creates
<1>13. Leftover(q)'
  BY <1>8, <1>9, <1>10 DEF Leftover, At, After
<1>14. Knows(q)'
  BY <1>1, <1>4, <1>5, <1>8, <1>9 DEF Knows, HasRoom
<1>15. Placed(q)'
  BY <1>1, <1>4, <1>6, <1>8, <1>9, <1>10 DEF Placed, At, HasRoom, Before
<1>. QED BY <1>9, <1>11, <1>12, <1>13, <1>14, <1>15 DEF Post

LEMMA GrowingIs ==
    ASSUME RoutesTypeOK, NEW q \in Posts, HasRoom(q), call[q].want.text \in Texts, room' = GrownBy(q)
    PROVE  /\ room' \in [Rooms -> Manifests \cup {NoRoom}] /\ RoomsGrow /\ \A p \in Posts : NoneMadeBy(p)
           /\ ToSet(Recipients[call[q].want.text]) \subseteq room'[call[q].room].members
<1>. DEFINE names == ToSet(Recipients[call[q].want.text])
            c == call[q].room
            r == [room[c] EXCEPT !.members = @ \cup names]
<1>1. names \subseteq Names
  <2>1. Recipients[call[q].want.text] \in Seq(Names)
    BY RecipientsAre DEF OnceEach
  <2>. QED BY <2>1 DEF ToSet
<1>2. c \in Rooms /\ room[c] \in Manifests
  BY DEF RoutesTypeOK, HasRoom
<1>3. room' = [room EXCEPT ![c] = r]
  BY DEF GrownBy
<1>. HIDE DEF names, c
<1>4. r \in Manifests /\ r.members = room[c].members \cup names /\ r.maker = room[c].maker
  BY <1>1, <1>2 DEF Manifests
<1>5. r # NoRoom
  BY <1>4, RoutesAssumption
<1>. HIDE DEF r
<1>6. \A d \in Rooms : room'[d] = IF d = c THEN r ELSE room[d]
  BY <1>2, <1>3 DEF RoutesTypeOK
<1>7. room' \in [Rooms -> Manifests \cup {NoRoom}]
  BY <1>3, <1>4 DEF RoutesTypeOK
<1>8. RoomsGrow /\ \A p \in Posts : NoneMadeBy(p)
  <2>1. room[c] # NoRoom
    BY <1>2, RoutesAssumption
  <2>. QED BY <1>4, <1>5, <1>6, <2>1 DEF RoomsGrow, NoneMadeBy
<1>9. names \subseteq room'[c].members
  BY <1>2, <1>4, <1>6
<1>. QED BY <1>7, <1>8, <1>9 DEF names, c

LEMMA JoinsKeeps == ASSUME RoutesInv, NEW q \in Posts, Joins(q) PROVE Steady(q) /\ Full(q)' /\ Post(q)'
<1>1. RoutesTypeOK /\ Post(q) /\ At(q, "joining") /\ UNCHANGED <<record, holder, turn, passed>>
  BY InvIs DEF Joins
<1>2. Full(q) /\ call[q].at \in Before /\ call[q].want \in Wants
  BY <1>1, FullIs DEF At, Before
<1>3. /\ call[q].left = <<>> /\ call[q].told = {} /\ ~call[q].crossed
      /\ \A a \in RunnableAgents : passed[q][a] = 0
      /\ \A d \in Rooms : Times(q, d) = 0
      /\ Made(q) /\ Knows(q) /\ Placed(q)
  BY <1>2, <1>1, NothingYet
<1>4. /\ HasRoom(q) /\ call[q].want.op = "message" /\ ~call[q].changed /\ call[q].seen \subseteq room[call[q].room].members
      /\ call[q].want.text \in Texts
  BY <1>1, <1>2, <1>3, WantIs DEF Placed, Made, At
<1>5. CASE Answers(q, 409) /\ UNCHANGED room
  BY <1>1, <1>2, <1>5, RefusedQuietly
<1>6. CASE Goes(q, "recording") /\ room' = GrownBy(q)
  <2>1. /\ room' \in [Rooms -> Manifests \cup {NoRoom}] /\ RoomsGrow /\ \A p \in Posts : NoneMadeBy(p)
        /\ ToSet(Recipients[call[q].want.text]) \subseteq room'[call[q].room].members
    BY <1>1, <1>4, <1>6, GrowingIs
  <2>. DEFINE d == [call[q] EXCEPT !.at = "recording"]
  <2>2. /\ d \in Calls /\ d.at = "recording" /\ d.want = call[q].want /\ d.room = call[q].room /\ d.seen = call[q].seen
        /\ d.prior = call[q].prior /\ d.left = <<>> /\ d.told = {} /\ ~d.crossed /\ ~d.changed
    BY <1>2, <1>3, <1>4 DEF Full, Calls, Before
  <2>3. Becomes(q, d)
    BY <1>6 DEF Goes
  <2>. HIDE DEF d
  <2>4. Steady(q) /\ Full(q)' /\ call'[q] = d /\ SameTimes(q)
    BY <1>1, <2>1, <2>2, <2>3, RoomStep
  <2>5. Unrecorded(q)' /\ ~Succeeded(q)' /\ call'[q].at \notin After \cup {"idle", "lost", "looking_back", "joining", "creating"}
    BY <1>3, <2>2, <2>4 DEF Unrecorded, SameTimes, Succeeded, At, After
  <2>6. Recorded(q)' /\ Passed(q)'
    BY <1>1, <1>3, <2>2, <2>4, <2>5 DEF Recorded, Passed, At
  <2>7. call[q].seen \subseteq room'[call[q].room].members /\ HasRoom(q)'
    BY <1>4, <2>1, <2>2, <2>4 DEF HasRoom, RoomsGrow
  <2>8. Made(q)'
    <3>1. ~Creates(call[q].want)
      BY <1>4 DEF Creates
    <3>2. \A e \in Rooms : room[e] # NoRoom => room[e].maker # q
      BY <1>3, <3>1 DEF Made
    <3>3. \A e \in Rooms : room'[e] # NoRoom => room'[e].maker # q
      BY <2>1, <3>2 DEF NoneMadeBy, RoomsGrow
    <3>. QED BY <2>1, <2>2, <2>4, <2>5, <2>7, <3>1, <3>3 DEF Made, At
  <2>9. Leftover(q)'
    BY <2>2, <2>4, <2>5 DEF Leftover, At
  <2>10. Knows(q)'
    BY <1>1, <1>3, <2>2, <2>4 DEF Knows
  <2>11. Placed(q)'
    BY <1>4, <2>2, <2>4, <2>5, <2>7 DEF Placed, At, Before
  <2>. QED BY <2>4, <2>6, <2>8, <2>9, <2>10, <2>11 DEF Post
<1>. QED BY <1>5, <1>6 DEF Joins

LEMMA JoinFailsKeeps == ASSUME RoutesInv, NEW q \in Posts, JoinFails(q) PROVE Steady(q) /\ Full(q)' /\ Post(q)'
<1>1. RoutesTypeOK /\ Post(q) /\ At(q, "joining") /\ UNCHANGED <<record, holder, turn, passed>> /\ Answers(q, 500)
  BY InvIs DEF JoinFails
<1>2. Full(q) /\ call[q].at \in Before /\ call[q].want \in Wants
  BY <1>1, FullIs DEF At, Before
<1>3. HasRoom(q) /\ call[q].want.text \in Texts
  BY <1>1, <1>2, WantIs DEF Post, Placed, At
<1>4. CASE room' = room
  BY <1>1, <1>2, <1>4, RefusedQuietly
<1>5. CASE room' = GrownBy(q)
  <2>1. /\ room' \in [Rooms -> Manifests \cup {NoRoom}] /\ RoomsGrow /\ \A p \in Posts : NoneMadeBy(p)
    BY <1>1, <1>3, <1>5, GrowingIs
  <2>2. Says(call[q], 500) \in Calls /\ Becomes(q, Says(call[q], 500))
    BY <1>1, <1>2, SaysIs DEF Full, Answers
  <2>3. Steady(q) /\ Full(q)' /\ call'[q] = Says(call[q], 500) /\ SameTimes(q)
    BY <1>1, <2>1, <2>2, RoomStep
  <2>4. RecordsGrow /\ MadeForWant(q) /\ passed'[q] = passed[q]
    BY <1>1, <2>1, <2>3 DEF Steady, MadeForWant, NoneMadeBy
  <2>. QED BY <1>1, <1>2, <2>1, <2>3, <2>4, TurnedAway
<1>. QED BY <1>4, <1>5 DEF JoinFails

LEMMA TargetsAre ==
    ASSUME NEW c \in Calls, c.want.op = "message"
    PROVE  MessageTargets(c) \in OnceEach /\ \A i \in 1..Len(MessageTargets(c)) : Named(c, MessageTargets(c)[i])
<1>. DEFINE names == Recipients[c.want.text]
<1>1. names \in OnceEach
  <2>1. c.want \in Wants
    BY DEF Calls
  <2>. QED BY <2>1, WantIs, RecipientsAre
<1>2. CASE names = <<>> /\ Cardinality(c.seen) = 1
  <2>1. MessageTargets(c) = SetToSeq(c.seen)
    BY <1>2 DEF MessageTargets
  <2>2. IsFiniteSet(c.seen) /\ c.seen \subseteq Names
    <3>1. IsFiniteSet(Names)
      BY RoutesAssumption, FS_AddElement, FS_Union, FS_Singleton DEF Names
    <3>. QED BY <3>1, FS_Subset DEF Calls
  <2>3. PICK x : c.seen = {x}
    BY <1>2, <2>2, OneOf
  <2>4. MessageTargets(c) = <<x>> /\ x \in Names
    BY <2>1, <2>2, <2>3, SingleSequence
  <2>5. <<x>> \in OnceEach
    BY <2>4 DEF OnceEach
  <2>6. Named(c, x)
    <3>1. ToSet(<<>>) = {}
      BY DEF ToSet
    <3>. QED BY <1>2, <2>3, <3>1 DEF Named
  <2>. QED BY <2>4, <2>5, <2>6
<1>3. CASE ~(names = <<>> /\ Cardinality(c.seen) = 1)
  <2>1. MessageTargets(c) = names
    BY <1>3 DEF MessageTargets
  <2>2. ASSUME NEW i \in 1..Len(names) PROVE Named(c, names[i])
    <3>1. names \in Seq(Names)
      BY <1>1 DEF OnceEach
    <3>2. names[i] \in ToSet(names)
      BY <3>1 DEF ToSet
    <3>. QED BY <3>2 DEF Named
  <2>. QED BY <1>1, <2>1, <2>2
<1>. QED BY <1>2, <1>3

LEMMA RecordsThenKeeps ==
    ASSUME RoutesInv, NEW q \in Posts, NEW op \in {"create", "start", "start_peer", "message"},
           NEW targets \in OnceEach, NEW place \in {"dispatching", "steering"}, RecordsThen(q, op, targets, place),
           \A i \in 1..Len(targets) : Named(call[q], targets[i]),
           op = "start_peer" => targets = <<>>, place = "steering" => op = "message"
    PROVE  Steady(q) /\ Full(q)' /\ Post(q)'
<1>1. /\ RoutesTypeOK /\ Post(q) /\ At(q, "recording") /\ call[q].want.op = op /\ UNCHANGED <<room, holder, turn, passed>>
      /\ Appends(q, call[q].room)
  BY InvIs DEF RecordsThen, Appends
<1>2. Full(q) /\ call[q].at \in Before
  BY <1>1, FullIs DEF At, Before
<1>3. /\ call[q].left = <<>> /\ call[q].told = {} /\ ~call[q].crossed
      /\ \A a \in RunnableAgents : passed[q][a] = 0
      /\ \A d \in Rooms : Times(q, d) = 0
      /\ Made(q) /\ Knows(q) /\ Placed(q)
  BY <1>2, <1>1, NothingYet
<1>4. HasRoom(q) /\ call[q].room \in Rooms /\ ~call[q].changed
  BY <1>1, <1>2, <1>3 DEF Placed, At, HasRoom
<1>. DEFINE c == [call[q] EXCEPT !.left = targets]
            d == IF targets = <<>> THEN Says(c, Success(c.want)) ELSE [c EXCEPT !.at = place]
<1>5. targets \in Seq(Names) /\ \A i, j \in 1..Len(targets) : targets[i] = targets[j] => i = j
  BY DEF OnceEach
<1>6. /\ c \in Calls /\ Like(call[q], c) /\ c.left = targets /\ c.told = {} /\ ~c.crossed /\ ~c.changed
  BY <1>2, <1>3, <1>4, <1>5 DEF Full, Calls, Like
<1>7. Becomes(q, d)
  BY DEF RecordsThen
<1>. HIDE DEF c
<1>8. /\ d \in Calls /\ Like(call[q], d) /\ d.left = targets /\ d.told = {} /\ ~d.crossed /\ ~d.changed
      /\ \/ targets = <<>> /\ d.at = "answered" /\ d.code \in {200, 201}
         \/ targets # <<>> /\ d.at = place
  <2>1. CASE targets = <<>>
    <3>. DEFINE s == Says(c, Success(c.want))
    <3>1. d = s /\ Success(c.want) \in Nat /\ Success(c.want) \in {200, 201}
      BY <2>1 DEF Success
    <3>2. s \in Calls /\ s.at = "answered" /\ s.code = Success(c.want) /\ Like(c, s)
          /\ s.left = c.left /\ s.told = c.told /\ s.crossed = c.crossed /\ s.changed = c.changed
      BY <1>6, <3>1, SaysIs
    <3>. HIDE DEF s, d
    <3>. QED BY <1>6, <2>1, <3>1, <3>2 DEF Like
  <2>2. CASE targets # <<>>
    <3>. DEFINE s == [c EXCEPT !.at = place]
    <3>1. d = s /\ place \in Before \cup After \cup {"answered"}
      BY <2>2 DEF After
    <3>2. s \in Calls /\ s.at = place /\ Like(c, s)
          /\ s.left = c.left /\ s.told = c.told /\ s.crossed = c.crossed /\ s.changed = c.changed
      BY <1>6, <3>1, MovedIs
    <3>. HIDE DEF s, d
    <3>. QED BY <1>6, <2>2, <3>1, <3>2 DEF Like
  <2>. QED BY <2>1, <2>2
<1>. HIDE DEF d
<1>9. Steady(q) /\ Full(q)' /\ call'[q] = d
  <2>1. room' \in [Rooms -> Manifests \cup {NoRoom}] /\ RoomsGrow /\ \A p \in Posts \ {q} : NoneMadeBy(p)
    BY <1>1 DEF RoutesTypeOK, RoomsGrow, NoneMadeBy
  <2>. QED BY <1>1, <1>4, <1>7, <1>8, <2>1, RoomStep
<1>10. /\ \A e \in Rooms : Times(q, e)' = IF e = call[q].room THEN 1 ELSE 0
       /\ RecordsGrow
  <2>1. \A e \in Rooms : Times(q, e)' = Times(q, e) + IF e = call[q].room THEN 1 ELSE 0
    BY <1>1, <1>4, TimesAppended
  <2>. QED BY <1>3, <1>9, <2>1 DEF Steady
<1>11. /\ call'[q].want = call[q].want /\ call'[q].room = call[q].room /\ call'[q].seen = call[q].seen
       /\ call'[q].prior = call[q].prior
  BY <1>8, <1>9 DEF Like
<1>12. /\ call'[q].at \notin Before \cup {"idle", "lost"} /\ (call'[q].at \in After <=> targets # <<>>)
       /\ call'[q].at \notin {"joining", "looking_back", "recording", "creating", "steered", "reserving", "running"}
  BY <1>8, <1>9 DEF Before, After
<1>13. Recorded(q)'
  <2>1. ~Silent(call[q])'
    BY <1>1, <1>11 DEF Silent, Managing
  <2>2. ~Answered(q, {404})' /\ ~Answered(q, {400})' /\ ~Answered(q, {409})'
    BY <1>8, <1>9 DEF Answered
  <2>3. RecordedOnce(q, call[q].room)'
    BY <1>10, <1>11 DEF RecordedOnce
  <2>. QED BY <1>12, <2>1, <2>2, <2>3 DEF Recorded
<1>14. Passed(q)'
  BY <1>1, <1>3, <1>12 DEF Passed
<1>15. Made(q)'
  BY <1>1, <1>3, <1>11, <1>12 DEF Made, At
<1>16. Leftover(q)'
  <2>1. \A i \in 1..Len(targets) : Named(call'[q], targets[i])
    BY <1>11 DEF Named
  <2>. QED BY <1>1, <1>3, <1>5, <1>8, <1>9, <1>12, <2>1 DEF Leftover, At
<1>17. Knows(q)'
  BY <1>3, <1>8, <1>9, <1>10, <1>11 DEF Knows, RecordsGrow
<1>18. Placed(q)'
  <2>1. HasRoom(q)'
    BY <1>1, <1>4, <1>11 DEF HasRoom
  <2>2. call'[q].at \in After => op \in {"create", "start", "message"}
    BY <1>12
  <2>3. call'[q].at = "steering" => op = "message"
    BY <1>8, <1>9
  <2>. QED BY <1>1, <1>11, <1>12, <2>1, <2>2, <2>3 DEF Placed, At, Before
<1>. QED BY <1>9, <1>13, <1>14, <1>15, <1>16, <1>17, <1>18 DEF Post

RecordsAny(q) == RecordsStart(q) \/ RecordsStartPeer(q) \/ RecordsCreate(q) \/ RecordsMessage(q)

LEMMA RecordsKeep == ASSUME RoutesInv, NEW q \in Posts, RecordsAny(q) PROVE Steady(q) /\ Full(q)' /\ Post(q)'
<1>1. call[q].at = "recording" /\ Full(q) /\ call[q].want \in Wants
  <2>1. At(q, "recording")
    BY DEF RecordsAny, RecordsStart, RecordsStartPeer, RecordsCreate, RecordsMessage, RecordsThen
  <2>. QED BY <2>1, InvIs, FullIs DEF At
<1>2. CASE RecordsStart(q)
  <2>. DEFINE s == <<call[q].want.who>>
  <2>1. call[q].want.op = "start" /\ RecordsThen(q, "start", s, "dispatching")
    BY <1>2 DEF RecordsStart, RecordsThen
  <2>2. call[q].want.who \in Names
    BY <1>1, <2>1, WantIs
  <2>3. s \in OnceEach /\ \A i \in 1..Len(s) : Named(call[q], s[i])
    BY <2>1, <2>2 DEF OnceEach, Named
  <2>. HIDE DEF s
  <2>. QED BY <2>1, <2>3, RecordsThenKeeps
<1>3. CASE RecordsStartPeer(q)
  <2>1. RecordsThen(q, "start_peer", <<>>, "dispatching")
    BY <1>3 DEF RecordsStartPeer
  <2>2. <<>> \in OnceEach /\ \A i \in 1..Len(<<>>) : Named(call[q], <<>>[i])
    BY DEF OnceEach
  <2>. QED BY <2>1, <2>2, RecordsThenKeeps
<1>4. CASE RecordsCreate(q)
  <2>. DEFINE s == Recipients[call[q].want.text]
  <2>1. call[q].want.op = "create" /\ RecordsThen(q, "create", s, "dispatching")
    BY <1>4 DEF RecordsCreate, RecordsThen
  <2>2. s \in OnceEach
    BY <1>1, <2>1, WantIs, RecipientsAre
  <2>3. \A i \in 1..Len(s) : Named(call[q], s[i])
    BY <2>1 DEF Named
  <2>. HIDE DEF s
  <2>. QED BY <2>1, <2>2, <2>3, RecordsThenKeeps
<1>5. CASE RecordsMessage(q)
  <2>. DEFINE s == MessageTargets(call[q])
              place == IF Len(s) = 1 THEN "steering" ELSE "dispatching"
  <2>1. call[q].want.op = "message" /\ RecordsThen(q, "message", s, place)
    BY <1>5 DEF RecordsMessage, RecordsThen
  <2>2. s \in OnceEach /\ \A i \in 1..Len(s) : Named(call[q], s[i])
    BY <1>1, <2>1, TargetsAre DEF Full
  <2>3. place \in {"dispatching", "steering"}
    OBVIOUS
  <2>. HIDE DEF s, place
  <2>. QED BY <2>1, <2>2, <2>3, RecordsThenKeeps
<1>. QED BY <1>2, <1>3, <1>4, <1>5 DEF RecordsAny

LEMMA AfterIs ==
    ASSUME RoutesInv, NEW q \in Posts, call[q].at \in After
    PROVE  /\ RoutesTypeOK /\ Post(q) /\ Full(q) /\ Recorded(q) /\ Made(q) /\ Passed(q) /\ Placed(q) /\ Leftover(q) /\ Knows(q)
           /\ HasRoom(q) /\ call[q].room \in Rooms /\ call[q].want.op \in {"create", "start", "message"}
           /\ call[q].left \in Seq(Names) /\ call[q].left # <<>>
           /\ Head(call[q].left) = call[q].left[1] /\ Head(call[q].left) \in Names /\ 1 \in 1..Len(call[q].left)
           /\ \A a \in RunnableAgents : passed[q][a] \in Nat /\ passed[q][a] <= 1
           /\ (Head(call[q].left) \in RunnableAgents /\ ~At(q, "running")) => passed[q][Head(call[q].left)] = 0
<1>1. RoutesTypeOK /\ Post(q) /\ Full(q)
  BY InvIs, FullIs DEF After
<1>2. Recorded(q) /\ Made(q) /\ Passed(q) /\ Placed(q) /\ Leftover(q) /\ Knows(q)
  BY <1>1 DEF Post
<1>3. HasRoom(q) /\ call[q].room \in Rooms /\ call[q].want.op \in {"create", "start", "message"}
  BY <1>2 DEF Placed, HasRoom
<1>4. call[q].left \in Seq(Names) /\ call[q].left # <<>>
  BY <1>1, <1>2 DEF Full, Calls, Leftover
<1>5. Head(call[q].left) = call[q].left[1] /\ Head(call[q].left) \in Names /\ 1 \in 1..Len(call[q].left)
  BY <1>4, TailIs
<1>6. \A a \in RunnableAgents : passed[q][a] \in Nat /\ passed[q][a] <= 1
  BY <1>1, <1>2 DEF RoutesTypeOK, Passed
<1>7. (Head(call[q].left) \in RunnableAgents /\ ~At(q, "running")) => passed[q][Head(call[q].left)] = 0
  BY <1>2, <1>5 DEF Leftover
<1>. QED BY <1>1, <1>2, <1>3, <1>4, <1>5, <1>6, <1>7

LEMMA TellsKeeps ==
    ASSUME RoutesInv, NEW q \in Posts, call[q].at \in After, NEW what \in Tellings, call'[q] = Tells(call[q], what),
           Steady(q), UNCHANGED <<room, record>>,
           \A a \in RunnableAgents : a # Head(call[q].left) => passed'[q][a] = passed[q][a],
           Head(call[q].left) \in RunnableAgents =>
               \/ passed'[q][Head(call[q].left)] = passed[q][Head(call[q].left)]
               \/ passed'[q][Head(call[q].left)] = 1 /\ Head(call[q].left) \in room[call[q].room].members,
           what \in {"steered", "completed"} =>
               Head(call[q].left) \in RunnableAgents /\ passed'[q][Head(call[q].left)] > 0
    PROVE  Full(q)' /\ Post(q)'
<1>1. /\ RoutesTypeOK /\ Post(q) /\ Full(q) /\ Leftover(q) /\ call[q].left \in Seq(Names) /\ call[q].left # <<>>
      /\ call[q].want.op \in {"create", "start", "message"}
      /\ \A a \in RunnableAgents : passed[q][a] \in Nat /\ passed[q][a] <= 1
  BY AfterIs
<1>. DEFINE d == call'[q]
            h == Head(call[q].left)
<1>2. /\ d \in Calls /\ Like(call[q], d) /\ d.left = Tail(call[q].left)
      /\ d.told = call[q].told \cup {<<h, what>>}
      /\ IF Tail(call[q].left) # <<>> THEN d.at = "dispatching"
         ELSE d.at = "answered" /\ d.code = IF d.crossed THEN 409 ELSE Success(call[q].want)
  BY <1>1, TellsIs DEF Full
<1>. HIDE DEF d, h
<1>3. /\ Full(q)' /\ Like(call[q], call'[q]) /\ call'[q].left = Tail(call[q].left)
      /\ call'[q].at \in {"dispatching", "answered"} /\ (call'[q].at = "dispatching" => call'[q].left # <<>>)
  BY <1>2 DEF Full, d
<1>4. call'[q].at \in After \cup {"answered"} /\ call'[q].at \notin {"steering", "steered"}
  BY <1>3 DEF After
<1>5. call'[q].at = "answered" =>
          call'[q].code \in {200, 201, 500} \/ (call'[q].code = 409 /\ (call'[q].left # <<>> \/ call'[q].crossed))
  <2>1. Success(call[q].want) \in {200, 201}
    BY SuccessIs
  <2>. QED BY <1>2, <2>1 DEF d
<1>6. Leftover(q)'
  BY <1>1, <1>3, OneTold
<1>7. RoomsGrow /\ RecordsGrow /\ SameTimes(q) /\ NoneMadeBy(q)
  <2>1. \A p \in Posts, e \in Rooms : Times(p, e)' = Times(p, e)
    BY <1>1, TimesKept
  <2>. QED BY <2>1 DEF Steady, SameTimes, NoneMadeBy
<1>8. \A t \in call'[q].told :
        t \in call[q].told \/ (t[2] \in {"steered", "completed"} => t[1] \in RunnableAgents /\ passed'[q][t[1]] > 0)
  BY <1>2 DEF d, h
<1>9. \A a \in RunnableAgents :
         /\ passed'[q][a] <= 1 /\ (passed[q][a] > 0 => passed'[q][a] > 0)
         /\ passed'[q][a] > 0 => passed[q][a] > 0 \/ (a = Head(call[q].left) /\ a \in room[call[q].room].members)
  BY <1>1
<1>10. Post(q)'
  BY <1>1, <1>3, <1>4, <1>5, <1>6, <1>7, <1>8, <1>9, WorkGoesOn
<1>. QED BY <1>3, <1>10

\* The agent is not given it, and the answer says so or comes at once.
LEMMA PassedOver ==
    ASSUME RoutesInv, NEW q \in Posts, call[q].at \in After, Steady(q), UNCHANGED <<room, record>>, passed'[q] = passed[q],
           \/ \E busy \in BOOLEAN : call'[q] = RefusedBy(call[q], busy)
           \/ call'[q] = Says(call[q], 500)
    PROVE  Full(q)' /\ Post(q)'
<1>1. /\ RoutesTypeOK /\ Post(q) /\ Full(q) /\ Leftover(q) /\ call[q].left \in Seq(Names) /\ call[q].left # <<>>
      /\ call[q].want.op \in {"create", "start", "message"}
      /\ \A a \in RunnableAgents : passed[q][a] \in Nat /\ passed[q][a] <= 1
  BY AfterIs
<1>. DEFINE d == call'[q]
<1>2. /\ d \in Calls /\ Like(call[q], d)
      /\ \/ d.at = "answered" /\ (d.code = 409 \/ d.code = 500) /\ d.left = call[q].left /\ d.told = call[q].told
         \/ /\ d.left = Tail(call[q].left) /\ \A t \in d.told : t \in call[q].told \/ t = <<Head(call[q].left), "conflict">>
            /\ \/ d.at = "dispatching" /\ d.left # <<>>
               \/ d.at = "answered" /\ (d.code \in {200, 201} \/ (d.code = 409 /\ d.crossed))
  <2>1. ASSUME NEW busy \in BOOLEAN, d = RefusedBy(call[q], busy) PROVE RefusedFits(call[q], d)
    <3>1. RefusedFits(call[q], RefusedBy(call[q], busy))
      BY <1>1, RefusedIs DEF Full
    <3>. QED BY <2>1, <3>1
  <2>2. Success(call[q].want) \in {200, 201}
    BY SuccessIs
  <2>. HIDE DEF d
  <2>3. CASE d = Says(call[q], 500)
    <3>1. /\ Says(call[q], 500) \in Calls /\ Says(call[q], 500).at = "answered" /\ Says(call[q], 500).code = 500
          /\ Like(call[q], Says(call[q], 500))
          /\ Says(call[q], 500).left = call[q].left /\ Says(call[q], 500).told = call[q].told
      BY <1>1, SaysIs DEF Full
    <3>. QED BY <2>3, <3>1
  <2>4. RefusedFits(call[q], d) \/ d = Says(call[q], 500)
    BY <2>1 DEF d
  <2>. QED BY <2>2, <2>3, <2>4 DEF RefusedFits
<1>. HIDE DEF d
<1>3. Full(q)' /\ Like(call[q], call'[q]) /\ call'[q].at \in {"dispatching", "answered"}
  BY <1>2 DEF Full, d
<1>4. call'[q].at \in After \cup {"answered"} /\ call'[q].at \notin {"steering", "steered"}
  BY <1>3 DEF After
<1>5. call'[q].at = "answered" =>
          call'[q].code \in {200, 201, 500} \/ (call'[q].code = 409 /\ (call'[q].left # <<>> \/ call'[q].crossed))
  BY <1>1, <1>2 DEF d
<1>6. Leftover(q)'
  <2>1. CASE call'[q].at = "answered" /\ call'[q].left = call[q].left
    BY <1>1, <2>1, NoLeft
  <2>2. CASE call'[q].left = Tail(call[q].left) /\ (call'[q].at = "dispatching" => call'[q].left # <<>>)
    BY <1>1, <1>3, <2>2, OneTold
  <2>. QED BY <1>2, <2>1, <2>2 DEF d
<1>7. RoomsGrow /\ RecordsGrow /\ SameTimes(q) /\ NoneMadeBy(q)
  <2>1. \A p \in Posts, e \in Rooms : Times(p, e)' = Times(p, e)
    BY <1>1, TimesKept
  <2>. QED BY <2>1 DEF Steady, SameTimes, NoneMadeBy
<1>8. \A t \in call'[q].told :
        t \in call[q].told \/ (t[2] \in {"steered", "completed"} => t[1] \in RunnableAgents /\ passed'[q][t[1]] > 0)
  BY <1>2 DEF d
<1>9. \A a \in RunnableAgents :
         /\ passed'[q][a] <= 1 /\ (passed[q][a] > 0 => passed'[q][a] > 0)
         /\ passed'[q][a] > 0 => passed[q][a] > 0 \/ (a = Head(call[q].left) /\ a \in room[call[q].room].members)
  BY <1>1
<1>10. Post(q)'
  BY <1>1, <1>3, <1>4, <1>5, <1>6, <1>7, <1>8, <1>9, WorkGoesOn
<1>. QED BY <1>3, <1>10

\* The request goes on with the same agent.
LEMMA SameAgent ==
    ASSUME RoutesInv, NEW q \in Posts, call[q].at \in After, ~At(q, "running"),
           NEW place \in {"dispatching", "steered", "reserving", "running"},
           call'[q] = [call[q] EXCEPT !.at = place], Steady(q), UNCHANGED <<room, record>>, passed'[q] = passed[q],
           place = "steered" => call[q].want.op = "message",
           place # "dispatching" =>
              Head(call[q].left) \in RunnableAgents /\ Head(call[q].left) \in room[call[q].room].members,
           place = "running" =>
              /\ turn'[call[q].room][Head(call[q].left)] \in Turns
              /\ turn'[call[q].room][Head(call[q].left)].by = q
              /\ turn'[call[q].room][Head(call[q].left)].at # "prompted"
    PROVE  Full(q)' /\ Post(q)'
<1>1. /\ RoutesTypeOK /\ Post(q) /\ Full(q) /\ Leftover(q) /\ Knows(q)
      /\ \A a \in RunnableAgents : passed[q][a] \in Nat /\ passed[q][a] <= 1
  BY AfterIs
<1>2. place \in After /\ place \in Before \cup After \cup {"answered"}
  BY DEF After
<1>3. /\ call'[q] \in Calls /\ call'[q].at = place /\ Like(call[q], call'[q]) /\ call'[q].left = call[q].left
      /\ call'[q].told = call[q].told
  BY <1>1, <1>2, MovedIs DEF Full
<1>4. Full(q)'
  BY <1>3 DEF Full
<1>5. RoomsGrow /\ RecordsGrow /\ SameTimes(q) /\ NoneMadeBy(q)
  <2>1. \A p \in Posts, e \in Rooms : Times(p, e)' = Times(p, e)
    BY <1>1, TimesKept
  <2>. QED BY <2>1 DEF Steady, SameTimes, NoneMadeBy
<1>6. Leftover(q)'
  <2>1. At(q, "running")' <=> place = "running"
    BY <1>3 DEF At
  <2>2. At(q, "dispatching")' <=> place = "dispatching"
    BY <1>3 DEF At
  <2>. QED BY <1>1, <1>3, <2>1, <2>2, SameLeft
<1>7. call'[q].at \in After \cup {"answered"} /\ call'[q].at # "answered" /\ call'[q].at # "steering"
  BY <1>2, <1>3 DEF After
<1>8. \A a \in RunnableAgents :
         /\ passed'[q][a] <= 1 /\ (passed[q][a] > 0 => passed'[q][a] > 0)
         /\ passed'[q][a] > 0 => passed[q][a] > 0 \/ (a = Head(call[q].left) /\ a \in room[call[q].room].members)
  BY <1>1
<1>9. Post(q)'
  BY <1>1, <1>3, <1>4, <1>5, <1>6, <1>7, <1>8, WorkGoesOn
<1>. QED BY <1>4, <1>9

LEMMA NewsIs ==
    ASSUME NEW c \in Calls, c.left # <<>>
    PROVE  /\ \A what \in Tellings : Tells(c, what) \in Calls
           /\ \A busy \in BOOLEAN : RefusedBy(c, busy) \in Calls
           /\ \A place \in After : [c EXCEPT !.at = place] \in Calls
           /\ Says(c, 500) \in Calls
<1>1. ASSUME NEW what \in Tellings PROVE Tells(c, what) \in Calls
  BY TellsIs
<1>2. ASSUME NEW busy \in BOOLEAN PROVE RefusedBy(c, busy) \in Calls
  BY RefusedIs DEF RefusedFits
<1>3. ASSUME NEW place \in After PROVE [c EXCEPT !.at = place] \in Calls
  BY MovedIs
<1>4. Says(c, 500) \in Calls
  BY SaysIs
<1>. QED BY <1>1, <1>2, <1>3, <1>4

LEMMA SteersKeeps == ASSUME RoutesInv, NEW q \in Posts, Steers(q) PROVE Steady(q) /\ Full(q)' /\ Post(q)'
<1>1. At(q, "steering") /\ UNCHANGED <<room, record, holder, turn, passed>>
  BY DEF Steers
<1>2. call[q].at \in After /\ ~At(q, "running")
  BY <1>1 DEF At, After
<1>3. /\ RoutesTypeOK /\ Full(q) /\ Placed(q) /\ Passed(q) /\ Leftover(q) /\ call[q].left # <<>> /\ Head(call[q].left) \in Names
      /\ call[q].room \in Rooms
  BY <1>2, AfterIs
<1>. DEFINE c == call[q]
            a == Head(c.left)
            t == IF a \in RunnableAgents THEN turn[c.room][a] ELSE NoTurn
<1>4. call[q].want.op = "message"
  BY <1>1, <1>3 DEF Placed, At
<1>5. CASE t = NoTurn
  <2>1. Becomes(q, [c EXCEPT !.at = "dispatching"])
    BY <1>5 DEF Steers
  <2>2. [c EXCEPT !.at = "dispatching"] \in Calls
    BY <1>3, NewsIs DEF Full, After
  <2>3. Steady(q) /\ call'[q] = [c EXCEPT !.at = "dispatching"]
    <3>. HIDE DEF c
    <3>. QED BY <1>1, <1>3, <2>1, <2>2, QuietStep
  <2>. QED BY <1>1, <1>2, <2>3, SameAgent
<1>6. CASE t # NoTurn /\ t.at = "starting"
  <2>1. Becomes(q, Tells(c, "steer-failed"))
    BY <1>6 DEF Steers
  <2>2. "steer-failed" \in Tellings /\ "steer-failed" \notin {"steered", "completed"}
    BY DEF Tellings
  <2>3. Tells(c, "steer-failed") \in Calls
    BY <1>3, <2>2, NewsIs DEF Full
  <2>4. Steady(q) /\ call'[q] = Tells(c, "steer-failed")
    <3>. HIDE DEF c
    <3>. QED BY <1>1, <1>3, <2>1, <2>3, QuietStep
  <2>. QED BY <1>1, <1>2, <2>2, <2>4, TellsKeeps
<1>7. CASE t # NoTurn /\ t.at # "starting"
  <2>1. Becomes(q, [c EXCEPT !.at = "steered"])
    BY <1>7 DEF Steers
  <2>2. [c EXCEPT !.at = "steered"] \in Calls
    BY <1>3, NewsIs DEF Full, After
  <2>3. Steady(q) /\ call'[q] = [c EXCEPT !.at = "steered"]
    <3>. HIDE DEF c
    <3>. QED BY <1>1, <1>3, <2>1, <2>2, QuietStep
  <2>4. a \in RunnableAgents
    BY <1>7
  <2>5. a \in room[c.room].members
    <3>1. Named(call[q], a) /\ Made(q)
      BY <1>2, AfterIs DEF Leftover
    <3>2. ToSet(Recipients[c.want.text]) \cup c.seen \subseteq room[c.room].members
      BY <1>2, <1>4, <3>1 DEF Made
    <3>. HIDE DEF a
    <3>. QED BY <1>4, <3>1, <3>2 DEF Named
  <2>. QED BY <1>1, <1>2, <1>4, <2>3, <2>4, <2>5, SameAgent
<1>. HIDE DEF t
<1>. QED BY <1>5, <1>6, <1>7, Zenon

LEMMA SteerAcknowledgedKeeps ==
    ASSUME RoutesInv, NEW q \in Posts, SteerAcknowledged(q) PROVE Steady(q) /\ Full(q)' /\ Post(q)'
<1>1. At(q, "steered") /\ UNCHANGED <<room, record, holder, turn>> /\ Given(q, Head(call[q].left))
      /\ Becomes(q, Tells(call[q], "steered"))
  BY DEF SteerAcknowledged
<1>2. call[q].at \in After /\ ~At(q, "running")
  BY <1>1 DEF At, After
<1>3. /\ RoutesTypeOK /\ Full(q) /\ Leftover(q) /\ call[q].left # <<>>
      /\ \A a \in RunnableAgents : passed[q][a] \in Nat
      /\ Head(call[q].left) \in RunnableAgents /\ Head(call[q].left) \in room[call[q].room].members
      /\ passed[q][Head(call[q].left)] = 0
  BY <1>1, <1>2, AfterIs DEF Leftover, At
<1>4. "steered" \in Tellings
  BY DEF Tellings
<1>5. Tells(call[q], "steered") \in Calls
  BY <1>3, <1>4, NewsIs DEF Full
<1>6. Steady(q) /\ call'[q] = Tells(call[q], "steered")
  BY <1>1, <1>3, <1>5, QuietStep
<1>7. \A b \in RunnableAgents : passed'[q][b] = IF b = Head(call[q].left) THEN passed[q][Head(call[q].left)] + 1 ELSE passed[q][b]
  BY <1>1, <1>3, GivenIs
<1>8. passed'[q][Head(call[q].left)] = 1
  BY <1>3, <1>7
<1>9. passed'[q][Head(call[q].left)] > 0
  BY <1>8
<1>. QED BY <1>1, <1>2, <1>3, <1>4, <1>6, <1>7, <1>8, <1>9, TellsKeeps

LEMMA SteerFailsKeeps ==
    ASSUME RoutesInv, NEW q \in Posts, SteerFails(q) PROVE Steady(q) /\ Full(q)' /\ Post(q)'
<1>1. At(q, "steered") /\ UNCHANGED <<room, record, holder, turn>> /\ (Given(q, Head(call[q].left)) \/ UNCHANGED passed)
      /\ Becomes(q, Tells(call[q], "steer-failed"))
  BY DEF SteerFails
<1>2. call[q].at \in After /\ ~At(q, "running")
  BY <1>1 DEF At, After
<1>3. /\ RoutesTypeOK /\ Full(q) /\ Leftover(q) /\ call[q].left # <<>>
      /\ \A a \in RunnableAgents : passed[q][a] \in Nat
      /\ Head(call[q].left) \in RunnableAgents /\ Head(call[q].left) \in room[call[q].room].members
      /\ passed[q][Head(call[q].left)] = 0
  BY <1>1, <1>2, AfterIs DEF Leftover, At
<1>4. "steer-failed" \in Tellings /\ "steer-failed" \notin {"steered", "completed"}
  BY DEF Tellings
<1>5. Tells(call[q], "steer-failed") \in Calls
  BY <1>3, <1>4, NewsIs DEF Full
<1>6. Steady(q) /\ call'[q] = Tells(call[q], "steer-failed")
  BY <1>1, <1>3, <1>5, QuietStep
<1>7. CASE UNCHANGED passed
  BY <1>1, <1>2, <1>3, <1>4, <1>6, <1>7, TellsKeeps
<1>8. CASE Given(q, Head(call[q].left))
  <2>1. \A b \in RunnableAgents : passed'[q][b] = IF b = Head(call[q].left) THEN passed[q][Head(call[q].left)] + 1 ELSE passed[q][b]
    BY <1>3, <1>8, GivenIs
  <2>2. passed'[q][Head(call[q].left)] = 1
    BY <1>3, <2>1
  <2>. QED BY <1>1, <1>2, <1>3, <1>4, <1>6, <2>1, <2>2, TellsKeeps
<1>. QED BY <1>1, <1>7, <1>8

LEMMA DispatchesKeeps ==
    ASSUME RoutesInv, NEW q \in Posts, Dispatches(q) PROVE Steady(q) /\ Full(q)' /\ Post(q)'
<1>1. At(q, "dispatching") /\ UNCHANGED <<room, record, holder, turn, passed>>
  BY DEF Dispatches
<1>2. call[q].at \in After /\ ~At(q, "running")
  BY <1>1 DEF At, After
<1>3. RoutesTypeOK /\ Full(q) /\ call[q].left # <<>>
  BY <1>2, AfterIs
<1>4. CASE /\ Goes(q, "reserving") /\ Head(call[q].left) \in room[call[q].room].members
           /\ Head(call[q].left) \in RunnableAgents
  <2>. DEFINE d == [call[q] EXCEPT !.at = "reserving"]
  <2>1. Becomes(q, d)
    BY <1>4 DEF Goes
  <2>2. d \in Calls
    BY <1>3, NewsIs DEF Full, After
  <2>3. Steady(q) /\ call'[q] = d
    <3>. HIDE DEF d
    <3>. QED BY <1>1, <1>3, <2>1, <2>2, QuietStep
  <2>. QED BY <1>1, <1>2, <1>4, <2>3, SameAgent
<1>5. CASE Becomes(q, RefusedBy(call[q], FALSE))
  <2>1. RefusedBy(call[q], FALSE) \in Calls
    BY <1>3, NewsIs DEF Full
  <2>2. Steady(q) /\ call'[q] = RefusedBy(call[q], FALSE)
    BY <1>1, <1>3, <1>5, <2>1, QuietStep
  <2>. QED BY <1>1, <1>2, <2>2, PassedOver
<1>. QED BY <1>4, <1>5 DEF Dispatches

LEMMA TurnsKept ==
    ASSUME RoutesTypeOK, NEW q \in Posts, NEW c \in Rooms, NEW a \in RunnableAgents,
           turn[c][a] \in Turns => turn[c][a].by = q, NEW t \in Turns \cup {NoTurn},
           turn' = [turn EXCEPT ![c][a] = t]
    PROVE  /\ turn' \in [Rooms -> [RunnableAgents -> Turns \cup {NoTurn}]] /\ turn'[c][a] = t
           /\ \A d \in Rooms, b \in RunnableAgents, p \in Posts \ {q} :
                 turn[d][b] \in Turns /\ turn[d][b].by = p => turn'[d][b] = turn[d][b]
<1>1. turn \in [Rooms -> [RunnableAgents -> Turns \cup {NoTurn}]]
  BY DEF RoutesTypeOK
<1>2. turn' \in [Rooms -> [RunnableAgents -> Turns \cup {NoTurn}]] /\ turn'[c][a] = t
  BY <1>1
<1>3. ASSUME NEW d \in Rooms, NEW b \in RunnableAgents, NEW p \in Posts \ {q}, turn[d][b] \in Turns /\ turn[d][b].by = p
      PROVE  turn'[d][b] = turn[d][b]
  <2>1. ~(d = c /\ b = a)
    BY <1>3
  <2>. QED BY <1>1, <2>1
<1>. QED BY <1>2, <1>3

\* A step of a run.
LEMMA TurnStep ==
    ASSUME RoutesInv, NEW q \in Posts, NEW d \in Calls, Becomes(q, d), UNCHANGED <<room, record, holder>>,
           NEW c \in Rooms, NEW a \in RunnableAgents, turn[c][a] \in Turns => turn[c][a].by = q,
           NEW t \in Turns \cup {NoTurn}, turn' = [turn EXCEPT ![c][a] = t],
           passed' = passed \/ Given(q, a)
    PROVE  Steady(q) /\ Full(q)' /\ call'[q] = d /\ SameTimes(q) /\ turn'[c][a] = t
<1>1. RoutesTypeOK
  BY DEF RoutesInv
<1>2. /\ turn' \in [Rooms -> [RunnableAgents -> Turns \cup {NoTurn}]] /\ turn'[c][a] = t
      /\ \A e \in Rooms, b \in RunnableAgents, p \in Posts \ {q} :
            turn[e][b] \in Turns /\ turn[e][b].by = p => turn'[e][b] = turn[e][b]
  BY <1>1, TurnsKept
<1>3. passed' \in [Posts -> [RunnableAgents -> Nat]] /\ \A p \in Posts \ {q} : passed'[p] = passed[p]
  <2>1. CASE passed' = passed
    BY <1>1, <2>1 DEF RoutesTypeOK
  <2>2. CASE Given(q, a)
    BY <1>1, <2>2, GivenIs
  <2>. QED BY <2>1, <2>2
<1>4. /\ room' \in [Rooms -> Manifests \cup {NoRoom}] /\ holder' \in [Rooms -> Posts \cup {NoOne, Others}]
      /\ \A e \in Rooms : /\ holder'[e] # NoOne => room'[e] # NoRoom
                          /\ \A p \in Posts \ {q} : holder[e] = p => holder'[e] = p
  BY <1>1 DEF RoutesTypeOK
<1>5. RoomsGrow /\ \A p \in Posts \ {q} : NoneMadeBy(p)
  BY DEF RoomsGrow, NoneMadeBy
<1>6. record' = record
  OBVIOUS
<1>7. Steady(q) /\ Full(q)' /\ call'[q] = d /\ (record' = record => SameTimes(q))
  BY <1>2, <1>3, <1>4, <1>5, <1>6, WorldStep
<1>. QED BY <1>2, <1>6, <1>7

LEMMA RunIs ==
    ASSUME RoutesInv, NEW q \in Posts, At(q, "running")
    PROVE  /\ RoutesTypeOK /\ Post(q) /\ Full(q) /\ Leftover(q) /\ Like(call[q], call[q]) /\ call[q].at \in After
           /\ call[q].room \in Rooms /\ call[q].left # <<>> /\ call[q].left \in Seq(Names)
           /\ Head(call[q].left) \in RunnableAgents /\ Head(call[q].left) \in room[call[q].room].members
           /\ Head(call[q].left) = call[q].left[1] /\ 1 \in 1..Len(call[q].left)
           /\ turn[call[q].room][Head(call[q].left)] \in Turns /\ turn[call[q].room][Head(call[q].left)].by = q
           /\ \A a \in RunnableAgents : passed[q][a] \in Nat /\ passed[q][a] <= 1
           /\ turn[call[q].room][Head(call[q].left)].at # "prompted" => passed[q][Head(call[q].left)] = 0
           /\ turn[call[q].room][Head(call[q].left)].at = "prompted" => passed[q][Head(call[q].left)] > 0
<1>1. call[q].at \in After
  BY DEF At, After
<1>2. /\ RoutesTypeOK /\ Post(q) /\ Full(q) /\ Leftover(q) /\ call[q].room \in Rooms /\ call[q].left # <<>>
      /\ Head(call[q].left) = call[q].left[1] /\ 1 \in 1..Len(call[q].left) /\ call[q].left \in Seq(Names)
      /\ \A a \in RunnableAgents : passed[q][a] \in Nat /\ passed[q][a] <= 1
  BY <1>1, AfterIs
<1>3. /\ Head(call[q].left) \in RunnableAgents /\ Head(call[q].left) \in room[call[q].room].members
      /\ turn[call[q].room][Head(call[q].left)] \in Turns /\ turn[call[q].room][Head(call[q].left)].by = q
      /\ turn[call[q].room][Head(call[q].left)].at = "prompted" => passed[q][Head(call[q].left)] > 0
  BY <1>2 DEF Leftover, At
<1>4. turn[call[q].room][Head(call[q].left)].at # "prompted" => passed[q][Head(call[q].left)] = 0
  BY <1>1, <1>2, <1>3 DEF Leftover
<1>5. Like(call[q], call[q])
  BY DEF Like
<1>. QED BY <1>1, <1>2, <1>3, <1>4, <1>5

LEMMA ReservesKeeps == ASSUME RoutesInv, NEW q \in Posts, Reserves(q) PROVE Steady(q) /\ Full(q)' /\ Post(q)'
<1>1. At(q, "reserving") /\ UNCHANGED <<room, record, holder, passed>>
  BY DEF Reserves
<1>2. call[q].at \in After /\ ~At(q, "running")
  BY <1>1 DEF At, After
<1>. DEFINE c == call[q].room
            a == Head(call[q].left)
<1>3. /\ RoutesTypeOK /\ Full(q) /\ call[q].left # <<>> /\ c \in Rooms /\ a \in RunnableAgents /\ a \in room[c].members
  BY <1>1, <1>2, AfterIs DEF Leftover, At
<1>4. CASE Becomes(q, RefusedBy(call[q], TRUE)) /\ UNCHANGED turn
  <2>1. RefusedBy(call[q], TRUE) \in Calls
    BY <1>3, NewsIs DEF Full
  <2>2. Steady(q) /\ call'[q] = RefusedBy(call[q], TRUE)
    BY <1>1, <1>3, <1>4, <2>1, QuietStep
  <2>. QED BY <1>1, <1>2, <2>2, PassedOver
<1>5. CASE turn[c][a] = NoTurn /\ turn' = [turn EXCEPT ![c][a] = [by |-> q, at |-> "starting"]] /\ Goes(q, "running")
  <2>. DEFINE d == [call[q] EXCEPT !.at = "running"]
              t == [by |-> q, at |-> "starting"]
  <2>1. Becomes(q, d) /\ d \in Calls
    BY <1>3, <1>5, NewsIs DEF Full, After, Goes
  <2>2. t \in Turns /\ t.by = q /\ t.at # "prompted"
    BY DEF Turns
  <2>3. turn[c][a] \notin Turns
    BY <1>5, RoutesAssumption
  <2>4. turn' = [turn EXCEPT ![c][a] = t]
    BY <1>5
  <2>5. Steady(q) /\ call'[q] = d /\ turn'[c][a] = t
    <3>. HIDE DEF d, t, c, a
    <3>. QED BY <1>1, <1>3, <2>1, <2>2, <2>3, <2>4, TurnStep
  <2>6. turn'[c][a] \in Turns /\ turn'[c][a].by = q /\ turn'[c][a].at # "prompted"
    <3>. HIDE DEF t
    <3>. QED BY <2>2, <2>5
  <2>. HIDE DEF t
  <2>. QED BY <1>1, <1>2, <1>3, <2>5, <2>6, SameAgent
<1>. QED BY <1>4, <1>5 DEF Reserves

\* The request waits for its run.
LEMMA TurnGoesKeeps ==
    ASSUME RoutesInv, NEW q \in Posts, At(q, "running"), UNCHANGED <<room, record, holder, call>>,
           NEW place \in {"bound", "prompted"}, TurnGoes(q, place),
           turn[call[q].room][Head(call[q].left)].at # "prompted",
           (place = "prompted" /\ Given(q, Head(call[q].left))) \/ (place = "bound" /\ passed' = passed)
    PROVE  Steady(q) /\ Full(q)' /\ Post(q)'
<1>. DEFINE c == call[q].room
            a == Head(call[q].left)
            t == [by |-> q, at |-> place]
<1>1. /\ RoutesTypeOK /\ Post(q) /\ Full(q) /\ Leftover(q) /\ Like(call[q], call[q]) /\ call[q].at \in After
      /\ c \in Rooms /\ call[q].left # <<>> /\ a \in RunnableAgents /\ a \in room[c].members
      /\ a = call[q].left[1] /\ turn[c][a] \in Turns /\ turn[c][a].by = q
      /\ \A b \in RunnableAgents : passed[q][b] \in Nat /\ passed[q][b] <= 1
      /\ passed[q][a] = 0
  BY RunIs
<1>2. t \in Turns /\ t.by = q /\ t.at = place
  BY DEF Turns
<1>3. Becomes(q, call[q]) /\ call[q] \in Calls /\ call'[q] = call[q]
  BY <1>1 DEF Becomes, RoutesTypeOK, Full
<1>4. turn' = [turn EXCEPT ![c][a] = t]
  BY DEF TurnGoes
<1>5. passed' = passed \/ Given(q, a)
  OBVIOUS
<1>6. Steady(q) /\ Full(q)' /\ SameTimes(q) /\ turn'[c][a] = t
  <2>. DEFINE d == call[q]
  <2>1. Becomes(q, d) /\ d \in Calls
    BY <1>3
  <2>2. UNCHANGED <<room, record, holder>> /\ (turn[c][a] \in Turns => turn[c][a].by = q) /\ t \in Turns \cup {NoTurn}
    BY <1>1, <1>2
  <2>3. c \in Rooms /\ a \in RunnableAgents
    BY <1>1
  <2>. HIDE DEF t, c, a, d
  <2>4. turn[c][a] \in Turns => turn[c][a].by = q
    BY <2>2
  <2>5. t \in Turns \cup {NoTurn}
    BY <2>2
  <2>6. UNCHANGED <<room, record, holder>>
    OBVIOUS
  <2>7. Steady(q)
    BY <1>4, <1>5, <2>1, <2>3, <2>4, <2>5, <2>6, TurnStep, Zenon
  <2>8. Full(q)'
    BY <1>4, <1>5, <2>1, <2>3, <2>4, <2>5, <2>6, TurnStep
  <2>9. turn'[c][a] = t
    BY <1>1, <1>4, <2>3 DEF RoutesTypeOK
  <2>10. SameTimes(q)
    BY <1>4, <1>5, <2>1, <2>3, <2>4, <2>5, <2>6, TurnStep
  <2>. QED BY <2>7, <2>8, <2>9, <2>10
<1>7. \A b \in RunnableAgents :
         passed'[q][b] = IF b = a /\ place = "prompted" THEN 1 ELSE passed[q][b]
  <2>1. CASE place = "prompted"
    <3>1. Given(q, a)
      BY <2>1
    <3>2. \A b \in RunnableAgents : passed'[q][b] = IF b = a THEN passed[q][a] + 1 ELSE passed[q][b]
      <4>. HIDE DEF a
      <4>. QED BY <1>1, <3>1, GivenIs
    <3>. QED BY <1>1, <2>1, <3>2
  <2>2. CASE place # "prompted"
    BY <2>2
  <2>. QED BY <2>1, <2>2
<1>. HIDE DEF t
<1>8. turn'[c][a] \in Turns /\ turn'[c][a].by = q /\ turn'[c][a].at = place
  BY <1>2, <1>6
<1>9. Leftover(q)'
  <2>1. \A i, j \in 1..Len(call[q].left) : call[q].left[i] = call[q].left[j] => i = j
    BY <1>1 DEF Leftover
  <2>2. ASSUME NEW i \in 1..Len(call[q].left), call[q].left[i] \in RunnableAgents,
               ~(i = 1 /\ turn'[c][call[q].left[1]].at = "prompted")
        PROVE  passed'[q][call[q].left[i]] = 0
    <3>1. CASE i = 1
      BY <1>1, <1>7, <1>8, <2>2, <3>1
    <3>2. CASE i # 1
      <4>1. passed[q][call[q].left[i]] = 0
        BY <1>1, <2>2, <3>2 DEF Leftover
      <4>2. call[q].left[i] # a
        <5>1. 1 \in 1..Len(call[q].left)
          BY RunIs
        <5>. QED BY <1>1, <2>1, <3>2, <5>1
      <4>. QED BY <1>7, <2>2, <4>1, <4>2
    <3>. QED BY <3>1, <3>2
  <2>3. \A i \in 1..Len(call[q].left) : Named(call[q], call[q].left[i])
    BY <1>1 DEF Leftover
  <2>4. At(q, "running")' /\ call'[q].left = call[q].left /\ call'[q].room = c
    BY <1>3 DEF At
  <2>5. turn'[c][a].at = "prompted" => passed'[q][a] > 0
    BY <1>1, <1>7, <1>8
  <2>6. Leftover(q)' <=>
           /\ call[q].left # <<>>
           /\ \A i, j \in 1..Len(call[q].left) : call[q].left[i] = call[q].left[j] => i = j
           /\ \A i \in 1..Len(call[q].left) :
                  /\ Named(call[q], call[q].left[i])
                  /\ call[q].left[i] \in RunnableAgents /\ ~(i = 1 /\ turn'[c][call[q].left[1]].at = "prompted")
                     => passed'[q][call[q].left[i]] = 0
           /\ a \in RunnableAgents /\ a \in room[c].members
           /\ turn'[c][a] \in Turns /\ turn'[c][a].by = q
           /\ turn'[c][a].at = "prompted" => passed'[q][a] > 0
    BY <2>4 DEF Leftover, At, After
  <2>. HIDE DEF c, a
  <2>. QED BY <1>1, <1>8, <2>1, <2>2, <2>3, <2>5, <2>6
<1>10. RoomsGrow /\ RecordsGrow /\ NoneMadeBy(q)
  BY <1>6 DEF Steady, NoneMadeBy
<1>11. \A b \in RunnableAgents :
         /\ passed'[q][b] <= 1 /\ (passed[q][b] > 0 => passed'[q][b] > 0)
         /\ passed'[q][b] > 0 => passed[q][b] > 0 \/ (b = a /\ b \in room[c].members)
  BY <1>1, <1>7
<1>12. Like(call[q], call'[q]) /\ call'[q].at = "running" /\ call'[q].told = call[q].told
  BY <1>1, <1>3 DEF At
<1>13. call'[q].at \in After \cup {"answered"} /\ call'[q].at \notin {"steering", "steered", "answered"}
  BY <1>12 DEF After
<1>14. Post(q)'
  BY <1>1, <1>6, <1>9, <1>10, <1>11, <1>12, <1>13, WorkGoesOn
<1>. QED BY <1>6, <1>14

LEMMA TurnBindsKeeps == ASSUME RoutesInv, NEW q \in Posts, TurnBinds(q) PROVE Steady(q) /\ Full(q)' /\ Post(q)'
<1>1. /\ At(q, "running") /\ turn[call[q].room][Head(call[q].left)].at = "starting" /\ TurnGoes(q, "bound")
      /\ UNCHANGED <<room, record, holder, call, passed>>
  BY DEF TurnBinds, TurnIs
<1>2. "bound" \in {"bound", "prompted"} /\ "bound" # "prompted" /\ turn[call[q].room][Head(call[q].left)].at # "prompted"
  BY <1>1
<1>. QED BY <1>1, <1>2, TurnGoesKeeps

LEMMA TurnPromptsKeeps == ASSUME RoutesInv, NEW q \in Posts, TurnPrompts(q) PROVE Steady(q) /\ Full(q)' /\ Post(q)'
<1>1. /\ At(q, "running") /\ turn[call[q].room][Head(call[q].left)].at = "bound" /\ TurnGoes(q, "prompted")
      /\ Given(q, Head(call[q].left)) /\ UNCHANGED <<room, record, holder, call>>
  BY DEF TurnPrompts, TurnIs
<1>2. turn[call[q].room][Head(call[q].left)].at # "prompted"
  BY <1>1
<1>. QED BY <1>1, <1>2, TurnGoesKeeps

LEMMA TurnEndsKeeps == ASSUME RoutesInv, NEW q \in Posts, TurnEnds(q) PROVE Steady(q) /\ Full(q)' /\ Post(q)'
<1>1. At(q, "running") /\ UNCHANGED <<room, record, holder, passed>> /\ TurnOver(q)
  BY DEF TurnEnds, TurnIs
<1>2. PICK outcome \in {"completed", "failed"} :
         (outcome = "completed" => TurnIs(q, "prompted")) /\ Becomes(q, Tells(call[q], outcome))
  BY DEF TurnEnds
<1>. DEFINE c == call[q].room
            a == Head(call[q].left)
<1>3. /\ RoutesTypeOK /\ Full(q) /\ call[q].at \in After /\ c \in Rooms /\ call[q].left # <<>> /\ a \in RunnableAgents
      /\ turn[c][a] \in Turns /\ turn[c][a].by = q
      /\ \A b \in RunnableAgents : passed[q][b] \in Nat
      /\ turn[c][a].at = "prompted" => passed[q][a] > 0
  BY <1>1, RunIs
<1>4. outcome \in Tellings /\ outcome # "steered"
  BY DEF Tellings
<1>5. Tells(call[q], outcome) \in Calls
  BY <1>3, <1>4, NewsIs DEF Full
<1>6. turn' = [turn EXCEPT ![c][a] = NoTurn]
  BY <1>1 DEF TurnOver
<1>7. Steady(q) /\ call'[q] = Tells(call[q], outcome)
  <2>. HIDE DEF c, a
  <2>. QED BY <1>1, <1>2, <1>3, <1>5, <1>6, TurnStep
<1>8. outcome = "completed" => passed[q][a] > 0
  BY <1>2, <1>3 DEF TurnIs
<1>9. outcome \in {"steered", "completed"} => Head(call[q].left) \in RunnableAgents /\ passed'[q][Head(call[q].left)] > 0
  BY <1>1, <1>3, <1>4, <1>8
<1>. QED BY <1>1, <1>3, <1>4, <1>7, <1>9, TellsKeeps

LEMMA TurnBreaksKeeps == ASSUME RoutesInv, NEW q \in Posts, TurnBreaks(q) PROVE Steady(q) /\ Full(q)' /\ Post(q)'
<1>1. At(q, "running") /\ UNCHANGED <<room, record, holder, passed>> /\ TurnOver(q)
  BY DEF TurnBreaks, TurnIs
<1>. DEFINE c == call[q].room
            a == Head(call[q].left)
            d == IF call[q].want.op = "start" THEN Says(call[q], 500) ELSE RefusedBy(call[q], FALSE)
<1>2. Becomes(q, d)
  BY DEF TurnBreaks
<1>3. /\ RoutesTypeOK /\ Full(q) /\ call[q].at \in After /\ c \in Rooms /\ call[q].left # <<>> /\ a \in RunnableAgents
      /\ turn[c][a] \in Turns /\ turn[c][a].by = q
  BY <1>1, RunIs
<1>4. d \in Calls
  BY <1>3, NewsIs DEF Full
<1>5. turn' = [turn EXCEPT ![c][a] = NoTurn]
  BY <1>1 DEF TurnOver
<1>6. Steady(q) /\ call'[q] = d
  <2>. HIDE DEF c, a, d
  <2>. QED BY <1>1, <1>2, <1>3, <1>4, <1>5, TurnStep
<1>7. (\E busy \in BOOLEAN : call'[q] = RefusedBy(call[q], busy)) \/ call'[q] = Says(call[q], 500)
  BY <1>6
<1>. QED BY <1>1, <1>3, <1>6, <1>7, PassedOver

\* A request that has the lock.
LEMMA LockedKeeps ==
    ASSUME RoutesTypeOK, NEW q \in Posts, Post(q), Full(q), call[q].at \in Before, call[q].want.op \in Managing,
           HasRoom(q), NEW d \in Calls, call'[q] = d, Like(call[q], d), d.left = <<>>, d.told = {}, ~d.crossed,
           (d.at = "locked" /\ ~d.changed) \/ (d.at = "noting" /\ d.changed),
           holder'[call[q].room] = q, RoomsGrow, RecordsGrow, NoneMadeBy(q), SameTimes(q), passed'[q] = passed[q]
    PROVE  Full(q)' /\ Post(q)'
<1>1. /\ \A a \in RunnableAgents : passed[q][a] = 0
      /\ \A e \in Rooms : Times(q, e) = 0
      /\ Made(q) /\ Knows(q) /\ Placed(q)
  BY NothingYet
<1>2. /\ call'[q].want = call[q].want /\ call'[q].room = call[q].room /\ call'[q].prior = call[q].prior
      /\ call'[q].left = <<>> /\ call'[q].told = {} /\ ~call'[q].crossed /\ call'[q].at \in {"locked", "noting"}
      /\ Full(q)'
  BY DEF Like, Full
<1>3. /\ call'[q].at \in Before /\ ~At(q, "lost")' /\ ~Succeeded(q)'
      /\ call'[q].at \notin After \cup {"idle", "creating", "reading", "looking_back", "joining", "recording", "answered"}
  BY <1>2 DEF Before, After, At, Succeeded
<1>4. Recorded(q)'
  <2>1. Unrecorded(q)'
    BY <1>1 DEF Unrecorded, SameTimes
  <2>. QED BY <1>3, <2>1 DEF Recorded, Answered
<1>5. Passed(q)'
  BY <1>1, <1>3 DEF Passed
<1>6. Made(q)'
  <2>1. ~Creates(call[q].want) /\ call[q].want.op # "message"
    BY DEF Creates, Managing
  <2>2. \A e \in Rooms : room[e] # NoRoom => room[e].maker # q
    BY <1>1, <2>1 DEF Made
  <2>3. \A e \in Rooms : room'[e] # NoRoom => room'[e].maker # q
    BY <2>2 DEF NoneMadeBy, RoomsGrow
  <2>. QED BY <1>2, <1>3, <2>1, <2>3 DEF Made, At
<1>7. Leftover(q)'
  BY <1>2, <1>3 DEF Leftover, At
<1>8. Knows(q)'
  BY <1>1, <1>2 DEF Knows, RecordsGrow
<1>9. Placed(q)'
  <2>1. HasRoom(q)'
    BY <1>2 DEF HasRoom, RoomsGrow
  <2>2. call'[q].at \in {"locked"} \/ call'[q].changed
    OBVIOUS
  <2>3. call'[q].at = "noting" \/ ~call'[q].changed
    OBVIOUS
  <2>. QED BY <1>2, <1>3, <2>1, <2>2, <2>3 DEF Placed, At
<1>. QED BY <1>2, <1>4, <1>5, <1>6, <1>7, <1>8, <1>9 DEF Post

LEMMA FreesIs ==
    ASSUME RoutesTypeOK, NEW q \in Posts, call[q].room \in Rooms, holder[call[q].room] = q, Frees(q)
    PROVE  /\ holder' \in [Rooms -> Posts \cup {NoOne, Others}]
           /\ \A d \in Rooms : /\ holder'[d] # NoOne => room[d] # NoRoom
                               /\ \A p \in Posts \ {q} : holder[d] = p => holder'[d] = p
<1>1. holder \in [Rooms -> Posts \cup {NoOne, Others}] /\ \A d \in Rooms : holder[d] # NoOne => room[d] # NoRoom
  BY DEF RoutesTypeOK
<1>2. holder' \in [Rooms -> Posts \cup {NoOne, Others}] /\ \A d \in Rooms : holder'[d] = IF d = call[q].room THEN NoOne ELSE holder[d]
  BY <1>1 DEF Frees
<1>. QED BY <1>1, <1>2

LEMMA HolderIs ==
    ASSUME RoutesInv, NEW q \in Posts, call[q].at \in {"locked", "noting"}
    PROVE  /\ RoutesTypeOK /\ Post(q) /\ Full(q) /\ call[q].at \in Before /\ call[q].want \in Wants
           /\ HasRoom(q) /\ call[q].room \in Rooms /\ room[call[q].room] \in Manifests
           /\ holder[call[q].room] = q /\ call[q].want.op \in Managing
           /\ call[q].left = <<>> /\ call[q].told = {} /\ ~call[q].crossed
           /\ call[q].changed <=> At(q, "noting")
           /\ \A d \in Rooms : Times(q, d) = 0
<1>1. RoutesTypeOK /\ Post(q) /\ Full(q) /\ call[q].at \in Before
  BY InvIs, FullIs DEF Before
<1>2. /\ call[q].left = <<>> /\ call[q].told = {} /\ ~call[q].crossed
      /\ \A d \in Rooms : Times(q, d) = 0
      /\ Placed(q)
  BY <1>1, NothingYet
<1>3. HasRoom(q) /\ holder[call[q].room] = q /\ call[q].want.op \in Managing
  BY <1>2 DEF Placed
<1>4. call[q].room \in Rooms /\ room[call[q].room] \in Manifests
  BY <1>1, <1>3 DEF HasRoom, RoutesTypeOK
<1>5. call[q].changed <=> At(q, "noting")
  <2>1. CASE call[q].at = "locked"
    BY <1>1, <1>2, <2>1 DEF Placed, At
  <2>2. CASE call[q].at = "noting"
    BY <1>2, <2>2 DEF Placed, At
  <2>. QED BY <2>1, <2>2
<1>6. call[q].want \in Wants
  BY <1>1 DEF Full, Calls
<1>. QED BY <1>1, <1>2, <1>3, <1>4, <1>5, <1>6

\* A step that gives the lock back.
LEMMA FreeingStep ==
    ASSUME RoutesInv, NEW q \in Posts, call[q].at \in {"locked", "noting"}, NEW c \in Calls, Becomes(q, c), Frees(q),
           UNCHANGED <<room, turn, passed>>, record' = record \/ Appends(q, call[q].room)
    PROVE  /\ Steady(q) /\ Full(q)' /\ call'[q] = c /\ (record' = record => SameTimes(q))
           /\ RoomsGrow /\ RecordsGrow /\ NoneMadeBy(q) /\ MadeForWant(q) /\ passed'[q] = passed[q]
<1>1. RoutesTypeOK /\ call[q].room \in Rooms /\ holder[call[q].room] = q
  BY HolderIs
<1>2. /\ holder' \in [Rooms -> Posts \cup {NoOne, Others}]
      /\ \A d \in Rooms : /\ holder'[d] # NoOne => room'[d] # NoRoom
                          /\ \A p \in Posts \ {q} : holder[d] = p => holder'[d] = p
  BY <1>1, FreesIs
<1>3. RoomsGrow /\ \A p \in Posts : NoneMadeBy(p) /\ MadeForWant(p)
  BY DEF RoomsGrow, NoneMadeBy, MadeForWant
<1>4. /\ room' \in [Rooms -> Manifests \cup {NoRoom}]
      /\ turn' \in [Rooms -> [RunnableAgents -> Turns \cup {NoTurn}]]
      /\ \A d \in Rooms, a \in RunnableAgents, p \in Posts \ {q} :
             turn[d][a] \in Turns /\ turn[d][a].by = p => turn'[d][a] = turn[d][a]
      /\ passed' \in [Posts -> [RunnableAgents -> Nat]] /\ \A p \in Posts : passed'[p] = passed[p]
  BY <1>1 DEF RoutesTypeOK
<1>5. record' = record \/ \E d \in Rooms : Appends(q, d)
  BY <1>1
<1>6. Steady(q) /\ Full(q)' /\ call'[q] = c /\ (record' = record => SameTimes(q))
  BY <1>2, <1>3, <1>4, <1>5, WorldStep
<1>. QED BY <1>3, <1>4, <1>6 DEF Steady

LEMMA TakesKeeps == ASSUME RoutesInv, NEW q \in Posts, Takes(q) PROVE Steady(q) /\ Full(q)' /\ Post(q)'
<1>1. At(q, "reading") /\ call[q].want.op \in Managing /\ UNCHANGED <<room, record, turn, passed>>
  BY DEF Takes
<1>2. RoutesTypeOK /\ Post(q) /\ Full(q) /\ call[q].at \in Before
  BY <1>1, InvIs, FullIs DEF Before, At
<1>3. /\ call[q].left = <<>> /\ call[q].told = {} /\ ~call[q].crossed /\ Placed(q)
  BY <1>2, NothingYet
<1>. DEFINE r == call[q].room
<1>4. r \in Rooms /\ ~call[q].changed
  BY <1>1, <1>2, <1>3 DEF Placed, At, Before
<1>5. CASE ~(room[r] # NoRoom /\ holder[r] = NoOne)
  <2>1. PICK code \in {404, 409} : Answers(q, code)
    BY <1>5 DEF Takes
  <2>2. holder' = holder /\ code \in {400, 404, 409, 500}
    BY <1>5 DEF Takes
  <2>. QED BY <1>1, <1>2, <2>1, <2>2, RefusedQuietly
<1>6. CASE room[r] # NoRoom /\ holder[r] = NoOne
  <2>. DEFINE d == [call[q] EXCEPT !.at = "locked"]
  <2>1. Becomes(q, d) /\ holder' = [holder EXCEPT ![r] = q]
    BY <1>6 DEF Takes, Goes
  <2>2. /\ d \in Calls /\ d.at = "locked" /\ Like(call[q], d) /\ d.left = <<>> /\ d.told = {} /\ ~d.crossed /\ ~d.changed
    BY <1>2, <1>3, <1>4 DEF Full, Calls, Before, Like
  <2>3. /\ holder' \in [Rooms -> Posts \cup {NoOne, Others}] /\ holder'[r] = q
        /\ \A e \in Rooms : holder'[e] = IF e = r THEN q ELSE holder[e]
    BY <1>2, <1>4, <2>1 DEF RoutesTypeOK
  <2>4. /\ \A e \in Rooms : /\ holder'[e] # NoOne => room'[e] # NoRoom
                            /\ \A p \in Posts \ {q} : holder[e] = p => holder'[e] = p
    <3>1. NoOne \notin Posts
      BY RoutesAssumption
    <3>2. \A e \in Rooms : holder[e] # NoOne => room[e] # NoRoom
      BY <1>2 DEF RoutesTypeOK
    <3>. QED BY <1>1, <1>6, <2>3, <3>1, <3>2
  <2>5. /\ room' \in [Rooms -> Manifests \cup {NoRoom}]
        /\ turn' \in [Rooms -> [RunnableAgents -> Turns \cup {NoTurn}]]
        /\ \A e \in Rooms, a \in RunnableAgents, p \in Posts \ {q} :
               turn[e][a] \in Turns /\ turn[e][a].by = p => turn'[e][a] = turn[e][a]
        /\ passed' \in [Posts -> [RunnableAgents -> Nat]] /\ \A p \in Posts : passed'[p] = passed[p]
    BY <1>1, <1>2 DEF RoutesTypeOK
  <2>6. RoomsGrow /\ \A p \in Posts : NoneMadeBy(p)
    BY <1>1 DEF RoomsGrow, NoneMadeBy
  <2>. HIDE DEF d
  <2>7. record' = record
    BY <1>1
  <2>8. Steady(q) /\ Full(q)' /\ call'[q] = d /\ (record' = record => SameTimes(q))
    BY <2>1, <2>2, <2>3, <2>4, <2>5, <2>6, <2>7, WorldStep
  <2>9. RecordsGrow /\ SameTimes(q) /\ passed'[q] = passed[q] /\ HasRoom(q) /\ call'[q] = d
    BY <1>4, <1>6, <2>5, <2>7, <2>8 DEF Steady, HasRoom
  <2>10. (d.at = "locked" /\ ~d.changed) \/ (d.at = "noting" /\ d.changed)
    BY <2>2
  <2>11. Full(q)' /\ Post(q)'
    BY <1>1, <1>2, <2>2, <2>3, <2>6, <2>9, <2>10, LockedKeeps
  <2>. QED BY <2>8, <2>11
<1>. QED BY <1>5, <1>6

LEMMA RewritesKeeps ==
    ASSUME RoutesInv, NEW q \in Posts, NEW r \in Manifests, Rewrites(q, r), call[q].want.op \in Managing,
           r.members = room[call[q].room].members, r.maker = room[call[q].room].maker
    PROVE  Steady(q) /\ Full(q)' /\ Post(q)'
<1>1. At(q, "locked") /\ UNCHANGED <<record, turn, passed>>
  BY DEF Rewrites
<1>. DEFINE c == call[q].room
<1>2. /\ RoutesTypeOK /\ Post(q) /\ Full(q) /\ call[q].at \in Before /\ HasRoom(q) /\ c \in Rooms
      /\ holder[c] = q /\ call[q].left = <<>> /\ call[q].told = {} /\ ~call[q].crossed /\ ~call[q].changed
      /\ call[q].at \in {"locked", "noting"}
      /\ \A d \in Rooms : Times(q, d) = 0
  BY <1>1, HolderIs DEF At
<1>3. CASE r = room[c]
  <2>1. Answers(q, 200) /\ Frees(q) /\ UNCHANGED room
    BY <1>3 DEF Rewrites
  <2>2. Says(call[q], 200) \in Calls /\ Becomes(q, Says(call[q], 200))
    BY <1>2, <2>1, SaysIs DEF Full, Answers
  <2>3. record' = record \/ Appends(q, call[q].room)
    BY <1>1
  <2>4. /\ Steady(q) /\ Full(q)' /\ call'[q] = Says(call[q], 200) /\ (record' = record => SameTimes(q))
        /\ RoomsGrow /\ RecordsGrow /\ NoneMadeBy(q) /\ passed'[q] = passed[q]
    BY <1>1, <1>2, <2>1, <2>2, <2>3, FreeingStep
  <2>5. Silent(call[q]) /\ \A d \in Rooms : Times(q, d)' = 0
    BY <1>1, <1>2, <2>4 DEF Silent, SameTimes
  <2>6. \A d \in Rooms : Times(q, d)' = IF d = call[q].room /\ ~Silent(call[q]) THEN 1 ELSE 0
    BY <2>5
  <2>7. call[q].want.op \in Managing \cup {"attach"}
    OBVIOUS
  <2>8. Full(q)' /\ Post(q)'
    BY <1>2, <2>4, <2>6, <2>7, Granted
  <2>. QED BY <2>4, <2>8
<1>4. CASE r # room[c]
  <2>. DEFINE d == [call[q] EXCEPT !.at = "noting", !.changed = TRUE]
  <2>1. room' = [room EXCEPT ![c] = r] /\ Becomes(q, d) /\ UNCHANGED holder
    BY <1>4 DEF Rewrites
  <2>2. /\ d \in Calls /\ d.at = "noting" /\ Like(call[q], d) /\ d.left = <<>> /\ d.told = {} /\ ~d.crossed /\ d.changed
    BY <1>2 DEF Full, Calls, Before, Like
  <2>3. room' \in [Rooms -> Manifests \cup {NoRoom}] /\ \A e \in Rooms : room'[e] = IF e = c THEN r ELSE room[e]
    BY <1>2, <2>1 DEF RoutesTypeOK
  <2>4. r # NoRoom /\ room[c] # NoRoom
    BY <1>2, RoutesAssumption DEF HasRoom
  <2>5. RoomsGrow /\ \A p \in Posts : NoneMadeBy(p)
    BY <1>2, <2>3, <2>4 DEF RoomsGrow, NoneMadeBy
  <2>. HIDE DEF d
  <2>6. record' = record /\ UNCHANGED <<holder, turn, passed>>
    BY <1>1, <2>1
  <2>7. Steady(q) /\ Full(q)' /\ call'[q] = d /\ (record' = record => SameTimes(q))
    BY <2>1, <2>2, <2>3, <2>5, <2>6, RoomStep
  <2>8. RecordsGrow /\ SameTimes(q) /\ passed'[q] = passed[q] /\ holder'[c] = q
    BY <1>2, <2>6, <2>7 DEF Steady
  <2>9. (d.at = "locked" /\ ~d.changed) \/ (d.at = "noting" /\ d.changed)
    BY <2>2
  <2>10. Full(q)' /\ Post(q)'
    BY <1>2, <2>2, <2>5, <2>7, <2>8, <2>9, LockedKeeps
  <2>. QED BY <2>7, <2>10
<1>. QED BY <1>3, <1>4

LEMMA TransitionsKeeps ==
    ASSUME RoutesInv, NEW q \in Posts, TransitionsLifecycle(q) PROVE Steady(q) /\ Full(q)' /\ Post(q)'
<1>. DEFINE r == [room[call[q].room] EXCEPT !.open = (call[q].want.op = "reopen")]
<1>1. call[q].at \in {"locked", "noting"} /\ call[q].want.op \in Managing /\ Rewrites(q, r)
  BY DEF TransitionsLifecycle, Managing
<1>2. room[call[q].room] \in Manifests
  BY <1>1, HolderIs
<1>3. /\ r \in Manifests /\ r.members = room[call[q].room].members /\ r.maker = room[call[q].room].maker
  BY <1>2 DEF Manifests
<1>. HIDE DEF r
<1>. QED BY <1>1, <1>3, RewritesKeeps

LEMMA RenamesKeeps == ASSUME RoutesInv, NEW q \in Posts, Renames(q) PROVE Steady(q) /\ Full(q)' /\ Post(q)'
<1>. DEFINE r == [room[call[q].room] EXCEPT !.title = call[q].want.title]
<1>1. call[q].at \in {"locked", "noting"} /\ call[q].want.op = "rename" /\ call[q].want.op \in Managing /\ Rewrites(q, r)
  BY DEF Renames, Managing
<1>2. room[call[q].room] \in Manifests /\ call[q].want \in Wants
  BY <1>1, HolderIs
<1>3. call[q].want.title \in {"old", "new"}
  BY <1>1, <1>2, WantIs
<1>4. /\ r \in Manifests /\ r.members = room[call[q].room].members /\ r.maker = room[call[q].room].maker
  BY <1>2, <1>3 DEF Manifests
<1>. HIDE DEF r
<1>. QED BY <1>1, <1>4, RewritesKeeps

\* The lock is given back and nothing has come of it.
LEMMA GivenUp ==
    ASSUME RoutesInv, NEW q \in Posts, call[q].at \in {"locked", "noting"}, NEW code \in {400, 404, 409, 500},
           Answers(q, code), Frees(q), UNCHANGED <<room, turn, passed>>,
           record' = record \/ (Appends(q, call[q].room) /\ (code = 500 \/ (code = 400 /\ call[q].want.op = "budget")))
    PROVE  Steady(q) /\ Full(q)' /\ Post(q)'
<1>1. RoutesTypeOK /\ Post(q) /\ Full(q) /\ call[q].at \in Before
  BY HolderIs
<1>2. Says(call[q], code) \in Calls /\ Becomes(q, Says(call[q], code))
  BY <1>1, SaysIs DEF Full, Answers
<1>3. record' = record \/ Appends(q, call[q].room)
  OBVIOUS
<1>4. /\ Steady(q) /\ Full(q)' /\ call'[q] = Says(call[q], code) /\ (record' = record => SameTimes(q))
      /\ RoomsGrow /\ RecordsGrow /\ MadeForWant(q) /\ passed'[q] = passed[q]
  BY <1>2, <1>3, FreeingStep
<1>5. SameTimes(q) \/ code = 500 \/ (code = 400 /\ call[q].want.op = "budget")
  BY <1>4
<1>. QED BY <1>1, <1>4, <1>5, TurnedAway

LEMMA RewriteFailsKeeps ==
    ASSUME RoutesInv, NEW q \in Posts, RewriteFails(q) PROVE Steady(q) /\ Full(q)' /\ Post(q)'
<1>1. /\ call[q].at \in {"locked", "noting"} /\ Answers(q, 500) /\ Frees(q) /\ UNCHANGED <<room, turn, passed>>
      /\ record' = record
  BY DEF RewriteFails, At
<1>2. 500 \in {400, 404, 409, 500}
  OBVIOUS
<1>. QED BY <1>1, <1>2, GivenUp

LEMMA ChecksBudgetKeeps ==
    ASSUME RoutesInv, NEW q \in Posts, ChecksBudget(q) PROVE Steady(q) /\ Full(q)' /\ Post(q)'
<1>1. /\ call[q].at \in {"locked", "noting"} /\ At(q, "locked") /\ UNCHANGED <<room, record, turn, passed>>
      /\ call[q].want.op = "budget"
  BY DEF ChecksBudget, At
<1>2. /\ RoutesTypeOK /\ Post(q) /\ Full(q) /\ call[q].at \in Before /\ HasRoom(q) /\ call[q].want.op \in Managing
      /\ holder[call[q].room] = q /\ call[q].left = <<>> /\ call[q].told = {} /\ ~call[q].crossed
  BY <1>1, HolderIs
<1>3. ASSUME NEW code \in {404, 409}, Answers(q, code), Frees(q) PROVE Steady(q) /\ Full(q)' /\ Post(q)'
  <2>1. code \in {400, 404, 409, 500} /\ record' = record
    BY <1>1
  <2>. QED BY <1>1, <1>3, <2>1, GivenUp
<1>. DEFINE d == [call[q] EXCEPT !.at = "noting", !.changed = TRUE]
<1>4. CASE Becomes(q, d) /\ UNCHANGED holder
  <2>1. /\ d \in Calls /\ d.at = "noting" /\ Like(call[q], d) /\ d.left = <<>> /\ d.told = {} /\ ~d.crossed /\ d.changed
    BY <1>2 DEF Full, Calls, Before, Like
  <2>2. (d.at = "locked" /\ ~d.changed) \/ (d.at = "noting" /\ d.changed)
    BY <2>1
  <2>. HIDE DEF d
  <2>3. Steady(q) /\ call'[q] = d /\ SameTimes(q) /\ NoneMadeBy(q)
    BY <1>1, <1>2, <1>4, <2>1, QuietStep
  <2>4. RoomsGrow /\ RecordsGrow /\ passed'[q] = passed[q] /\ holder'[call[q].room] = q
    BY <1>1, <1>2, <1>4, <2>3 DEF Steady
  <2>. QED BY <1>2, <2>1, <2>2, <2>3, <2>4, LockedKeeps
<1>5. (Becomes(q, d) /\ UNCHANGED holder) \/ \E code \in {404, 409} : Answers(q, code) /\ Frees(q)
  BY DEF ChecksBudget
<1>. HIDE DEF d
<1>. QED BY <1>3, <1>4, <1>5

LEMMA NotesKeeps == ASSUME RoutesInv, NEW q \in Posts, Notes(q) PROVE Steady(q) /\ Full(q)' /\ Post(q)'
<1>1. /\ call[q].at \in {"locked", "noting"} /\ At(q, "noting") /\ Appends(q, call[q].room) /\ Answers(q, 200) /\ Frees(q)
      /\ UNCHANGED <<room, turn, passed>>
  BY DEF Notes, At, Appends
<1>2. /\ RoutesTypeOK /\ Post(q) /\ Full(q) /\ call[q].at \in Before /\ HasRoom(q) /\ call[q].room \in Rooms
      /\ call[q].want.op \in Managing /\ call[q].changed /\ \A d \in Rooms : Times(q, d) = 0
  BY <1>1, HolderIs
<1>3. Says(call[q], 200) \in Calls /\ Becomes(q, Says(call[q], 200))
  BY <1>1, <1>2, SaysIs DEF Full, Answers
<1>4. /\ Steady(q) /\ Full(q)' /\ call'[q] = Says(call[q], 200) /\ RoomsGrow /\ RecordsGrow /\ NoneMadeBy(q)
      /\ passed'[q] = passed[q]
  BY <1>1, <1>3, FreeingStep
<1>5. ~Silent(call[q])
  BY <1>2 DEF Silent, Managing
<1>6. \A d \in Rooms : Times(q, d)' = IF d = call[q].room /\ ~Silent(call[q]) THEN 1 ELSE 0
  <2>1. \A p \in Posts, d \in Rooms : Times(p, d)' = Times(p, d) + IF p = q /\ d = call[q].room THEN 1 ELSE 0
    BY <1>1, <1>2, TimesAppended
  <2>. QED BY <1>2, <1>5, <2>1
<1>7. call[q].want.op \in Managing \cup {"attach"}
  BY <1>2
<1>8. Full(q)' /\ Post(q)'
  BY <1>2, <1>4, <1>6, <1>7, Granted
<1>. QED BY <1>4, <1>8

LEMMA NoteFailsKeeps == ASSUME RoutesInv, NEW q \in Posts, NoteFails(q) PROVE Steady(q) /\ Full(q)' /\ Post(q)'
<1>. DEFINE code == IF call[q].want.op = "budget" THEN 400 ELSE 500
<1>1. /\ call[q].at \in {"locked", "noting"} /\ Answers(q, code) /\ Frees(q) /\ UNCHANGED <<room, turn, passed>>
      /\ record' = record \/ Appends(q, call[q].room)
  BY DEF NoteFails, At, Appends
<1>2. code \in {400, 404, 409, 500} /\ (code = 500 \/ (code = 400 /\ call[q].want.op = "budget"))
  OBVIOUS
<1>. HIDE DEF code
<1>. QED BY <1>1, <1>2, GivenUp

\* Every step of a request but the one that ends the process.
LEMMA RouteKeeps ==
    ASSUME RoutesInv, NEW q \in Posts, RouteStep(q), ~RecordFails(q)
    PROVE  Steady(q) /\ Full(q)' /\ Post(q)'
<1>1. CASE Asks(q)
  BY <1>1, AsksKeeps
<1>2. CASE Opens(q)
  BY <1>2, OpensKeeps
<1>3. CASE OpeningFails(q)
  BY <1>3, OpeningFailsKeeps
<1>4. CASE ReadsManifest(q)
  BY <1>4, ReadsManifestKeeps
<1>5. CASE Attaches(q)
  BY <1>5, AttachesKeeps
<1>6. CASE ReadsPrior(q)
  BY <1>6, ReadsPriorKeeps
<1>7. CASE Joins(q)
  BY <1>7, JoinsKeeps
<1>8. CASE JoinFails(q)
  BY <1>8, JoinFailsKeeps
<1>9. CASE RecordsAny(q)
  BY <1>9, RecordsKeep
<1>10. CASE Steers(q)
  BY <1>10, SteersKeeps
<1>11. CASE SteerAcknowledged(q)
  BY <1>11, SteerAcknowledgedKeeps
<1>12. CASE SteerFails(q)
  BY <1>12, SteerFailsKeeps
<1>13. CASE Dispatches(q)
  BY <1>13, DispatchesKeeps
<1>14. CASE Reserves(q)
  BY <1>14, ReservesKeeps
<1>15. CASE Takes(q)
  BY <1>15, TakesKeeps
<1>16. CASE TransitionsLifecycle(q)
  BY <1>16, TransitionsKeeps
<1>17. CASE Renames(q)
  BY <1>17, RenamesKeeps
<1>18. CASE RewriteFails(q)
  BY <1>18, RewriteFailsKeeps
<1>19. CASE ChecksBudget(q)
  BY <1>19, ChecksBudgetKeeps
<1>20. CASE Notes(q)
  BY <1>20, NotesKeeps
<1>21. CASE NoteFails(q)
  BY <1>21, NoteFailsKeeps
<1>22. CASE TurnBinds(q)
  BY <1>22, TurnBindsKeeps
<1>23. CASE TurnPrompts(q)
  BY <1>23, TurnPromptsKeeps
<1>24. CASE TurnEnds(q)
  BY <1>24, TurnEndsKeeps
<1>25. CASE TurnBreaks(q)
  BY <1>25, TurnBreaksKeeps
<1>. QED
  BY <1>1, <1>2, <1>3, <1>4, <1>5, <1>6, <1>7, <1>8, <1>9, <1>10, <1>11, <1>12, <1>13, <1>14, <1>15, <1>16, <1>17, <1>18,
     <1>19, <1>20, <1>21, <1>22, <1>23, <1>24, <1>25 DEF RouteStep, RecordsAny

\* The process goes, and every request under way with it.
LEMMA ProcessGoes ==
    ASSUME RoutesInv, NEW q \in Posts, RecordFails(q)
    PROVE  /\ RoutesTypeOK' /\ \A p \in Posts : Post(p)'
           /\ record' = record \/ (Appends(q, call[q].room) /\ call[q].want.op # "budget" /\ call[q].room \in Rooms)
           /\ \A p \in Posts : call'[p] = call[p] \/ (call'[p].at = "lost" /\ call'[p].want = call[p].want)
<1>1. /\ At(q, "looking_back") \/ At(q, "recording")
      /\ record' = record \/ (At(q, "recording") /\ Appends(q, call[q].room))
      /\ call' = [p \in Posts |-> IF call[p].at \in {"idle", "answered"} THEN call[p] ELSE [at |-> "lost", want |-> call[p].want]]
      /\ turn' = [c \in Rooms |-> [a \in RunnableAgents |-> NoTurn]]
      /\ UNCHANGED <<room, holder, passed>>
  BY DEF RecordFails, Appends
<1>2. RoutesTypeOK /\ \A p \in Posts : Post(p)
  BY InvIs
<1>3. /\ Full(q) /\ call[q].at \in Before /\ call[q].room \in Rooms
      /\ At(q, "recording") => call[q].want.op # "budget"
  <2>1. Full(q) /\ Placed(q) /\ call[q].at \in Before
    BY <1>1, <1>2, FullIs DEF At, Before, Post
  <2>. QED BY <1>1, <2>1 DEF Placed, HasRoom, At, Creates
<1>4. \A p \in Posts : /\ call[p].at \in {"idle", "answered"} => call'[p] = call[p]
                       /\ call[p].at \notin {"idle", "answered"} => call'[p] = [at |-> "lost", want |-> call[p].want]
  BY <1>1
<1>5. RoutesTypeOK'
  <2>1. \A p \in Posts : call[p].at \notin {"idle", "answered"} => [at |-> "lost", want |-> call[p].want] \in LostCalls
    <3>1. \A p \in Posts : call[p].at # "idle" => call[p].want \in Wants
      BY <1>2, FullIs DEF At
    <3>. QED BY <3>1 DEF LostCalls
  <2>2. call' \in [Posts -> {Unasked} \cup LostCalls \cup Calls]
    BY <1>1, <1>2, <2>1 DEF RoutesTypeOK
  <2>3. record' \in [Rooms -> Seq(Posts)]
    BY <1>1, <1>2, <1>3, TimesAppended DEF RoutesTypeOK
  <2>. QED BY <1>1, <1>2, <2>2, <2>3 DEF RoutesTypeOK
<1>6. /\ RecordsGrow /\ \A p \in Posts \ {q} : SameTimes(p)
      /\ \A d \in Rooms : Times(q, d)' # Times(q, d) => At(q, "recording")
  <2>1. CASE record' = record
    BY <1>2, <2>1, TimesKept DEF SameTimes
  <2>2. CASE At(q, "recording") /\ Appends(q, call[q].room)
    <3>1. /\ \A p \in Posts, d \in Rooms : Times(p, d)' = Times(p, d) + IF p = q /\ d = call[q].room THEN 1 ELSE 0
          /\ RecordsGrow
      BY <1>2, <1>3, <2>2, TimesAppended
    <3>2. \A p \in Posts, d \in Rooms : Times(p, d) \in Nat
      BY <1>2, TimesIs
    <3>. QED BY <2>2, <3>1, <3>2 DEF SameTimes
  <2>. QED BY <1>1, <2>1, <2>2
<1>7. RoomsGrow /\ \A p \in Posts : NoneMadeBy(p)
  BY <1>1 DEF RoomsGrow, NoneMadeBy
<1>11. \A p \in Posts : /\ call'[p] = call[p] \/ (call'[p].at = "lost" /\ call'[p].want = call[p].want)
                        /\ call[p].at \notin {"idle", "answered"} => call'[p].at = "lost" /\ call'[p].want = call[p].want
  <2>. SUFFICES ASSUME NEW p \in Posts
                PROVE  /\ call'[p] = call[p] \/ (call'[p].at = "lost" /\ call'[p].want = call[p].want)
                       /\ call[p].at \notin {"idle", "answered"} => call'[p].at = "lost" /\ call'[p].want = call[p].want
    OBVIOUS
  <2>. DEFINE w == call[p].want
              d == [at |-> "lost", want |-> w]
  <2>1. d.at = "lost" /\ d.want = w
    <3>. HIDE DEF w
    <3>. QED OBVIOUS
  <2>2. call[p].at \notin {"idle", "answered"} => call'[p] = d
    BY <1>4
  <2>3. call[p].at \in {"idle", "answered"} => call'[p] = call[p]
    BY <1>4
  <2>. HIDE DEF d
  <2>. QED BY <2>1, <2>2, <2>3
<1>8. ASSUME NEW p \in Posts, call[p].at \in {"idle", "answered"} PROVE Post(p)'
  <2>1. p # q
    BY <1>3, <1>8 DEF Before
  <2>2. Undisturbed(p)
    BY <1>1, <1>4, <1>6, <1>7, <1>8, <2>1 DEF Undisturbed, At
  <2>. QED BY <1>2, <1>6, <1>7, <2>2, UndisturbedKeeps
<1>9. ASSUME NEW p \in Posts, call[p].at \notin {"idle", "answered"} PROVE Post(p)'
  <2>1. call'[p].at = "lost" /\ call'[p].want = call[p].want
    BY <1>9, <1>11
  <2>2. ~Full(p)' /\ ~Succeeded(p)' /\ At(p, "lost")' /\ call'[p].at \notin Before \cup After \cup {"idle", "answered"}
    BY <2>1 DEF Full, Calls, Before, After, Succeeded, At
  <2>3. Recorded(p)'
    BY <2>2 DEF Recorded, Answered
  <2>4. Made(p)'
    BY <1>1, <1>2, <2>1, <2>2 DEF Post, Made, At
  <2>5. Passed(p)'
    <3>1. Passed(p)
      BY <1>2 DEF Post
    <3>2. (\A d \in Rooms : Times(p, d)' = Times(p, d)) \/ \A a \in RunnableAgents : passed[p][a] = 0
      <4>1. CASE p = q
        BY <1>3, <3>1, <4>1 DEF Passed
      <4>2. CASE p # q
        BY <1>6, <4>2 DEF SameTimes
      <4>. QED BY <4>1, <4>2
    <3>. QED BY <1>1, <2>2, <3>1, <3>2 DEF Passed
  <2>. QED BY <2>2, <2>3, <2>4, <2>5 DEF Post
<1>10. record' = record \/ (Appends(q, call[q].room) /\ call[q].want.op # "budget" /\ call[q].room \in Rooms)
  BY <1>1, <1>3
<1>. QED BY <1>5, <1>8, <1>9, <1>10, <1>11

\* Nothing of a request changes while others lock a conversation and let it go.
LEMMA OthersKeep ==
    ASSUME RoutesInv, UNCHANGED <<record, call, turn, passed>>, NEW c \in Rooms,
           OthersLock(c) \/ OthersChange(c) \/ Triage(c)
    PROVE  RoutesTypeOK' /\ \A p \in Posts : Post(p)'
<1>1. RoutesTypeOK /\ \A p \in Posts : Post(p)
  BY DEF RoutesInv
<1>2. NoOne \notin Posts /\ Others \notin Posts
  BY RoutesAssumption
<1>3. holder \in [Rooms -> Posts \cup {NoOne, Others}] /\ \A d \in Rooms : holder[d] # NoOne => room[d] # NoRoom
  BY <1>1 DEF RoutesTypeOK
<1>4. /\ holder' \in [Rooms -> Posts \cup {NoOne, Others}]
      /\ \A d \in Rooms : d # c => holder'[d] = holder[d]
      /\ holder'[c] # NoOne => room[c] # NoRoom
      /\ \A p \in Posts : holder[c] = p => At(p, "lost")
  <2>1. CASE OthersLock(c)
    BY <1>2, <1>3, <2>1 DEF OthersLock
  <2>2. CASE OthersChange(c)
    BY <1>2, <1>3, <2>2 DEF OthersChange
  <2>3. CASE Triage(c)
    BY <1>2, <1>3, <2>3 DEF Triage
  <2>. QED BY <2>1, <2>2, <2>3
<1>5. /\ room' \in [Rooms -> Manifests \cup {NoRoom}]
      /\ \A d \in Rooms : /\ room[d] = NoRoom => room'[d] = NoRoom
                          /\ room[d] # NoRoom => room'[d] # NoRoom /\ room'[d].members = room[d].members
                                                 /\ room'[d].maker = room[d].maker
  <2>1. CASE room' = room
    BY <1>1, <2>1 DEF RoutesTypeOK
  <2>2. CASE holder[c] = Others /\ room' = [room EXCEPT ![c].open = ~@]
    <3>. DEFINE r == [room[c] EXCEPT !.open = ~@]
    <3>1. room[c] \in Manifests
      BY <1>1, <1>3, <2>2, RoutesAssumption DEF RoutesTypeOK
    <3>2. r \in Manifests /\ r.members = room[c].members /\ r.maker = room[c].maker
      BY <3>1 DEF Manifests
    <3>3. room' = [room EXCEPT ![c] = r] /\ r # NoRoom /\ room[c] # NoRoom
      BY <2>2, <3>1, <3>2, RoutesAssumption
    <3>. HIDE DEF r
    <3>. QED BY <1>1, <3>2, <3>3 DEF RoutesTypeOK
  <2>. QED BY <2>1, <2>2 DEF OthersLock, OthersChange, Triage
<1>6. RoutesTypeOK'
  BY <1>1, <1>3, <1>4, <1>5 DEF RoutesTypeOK
<1>7. RoomsGrow /\ \A p \in Posts : NoneMadeBy(p)
  BY <1>5 DEF RoomsGrow, NoneMadeBy
<1>8. RecordsGrow /\ \A p \in Posts : SameTimes(p)
  BY <1>1, TimesKept DEF SameTimes
<1>9. ASSUME NEW p \in Posts PROVE Post(p)'
  <2>1. call[p].at \in {"locked", "noting"} => holder'[call[p].room] = holder[call[p].room]
    <3>1. SUFFICES ASSUME call[p].at \in {"locked", "noting"} PROVE holder'[call[p].room] = holder[call[p].room]
      OBVIOUS
    <3>2. holder[call[p].room] = p /\ call[p].room \in Rooms /\ ~At(p, "lost")
      BY <3>1, HolderIs DEF At
    <3>. QED BY <1>4, <3>2
  <2>2. Undisturbed(p)
    BY <1>7, <1>8, <2>1 DEF Undisturbed
  <2>. QED BY <1>1, <1>7, <1>8, <2>2, UndisturbedKeeps
<1>. QED BY <1>6, <1>9

(* Raises.  What was asked is kept, so the raises in a record are counted by *)
(* those who stand in it.                                                    *)

Raisers == {p \in Posts : call[p].want.op = "budget"}

WantsKept == \A p \in Posts : call'[p].want = call[p].want \/ Unrecorded(p)

LEMMA RaisedIs ==
    ASSUME RoutesTypeOK, NEW c \in Rooms
    PROVE  Raised(c) = Counted(record[c], Raisers) /\ Raised(c) \in Nat
<1>1. record[c] \in Seq(Posts)
  BY DEF RoutesTypeOK
<1>2. \A i \in DOMAIN record[c] : record[c][i] \in Posts
  BY <1>1
<1>3. {i \in DOMAIN record[c] : record[c][i] \in Raisers} = {i \in DOMAIN record[c] : call[record[c][i]].want.op = "budget"}
  BY <1>2 DEF Raisers
<1>4. Counted(record[c], Raisers) \in Nat
  BY <1>1, CountedIs
<1>. QED BY <1>3, <1>4 DEF Raised, Counted

LEMMA RaisersKept ==
    ASSUME RoutesTypeOK, WantsKept, NEW c \in Rooms
    PROVE  Counted(record[c], Raisers') = Counted(record[c], Raisers)
<1>1. record[c] \in Seq(Posts) /\ \A i \in DOMAIN record[c] : record[c][i] \in Posts /\ i \in 1..Len(record[c])
  BY DEF RoutesTypeOK
<1>2. ASSUME NEW i \in DOMAIN record[c] PROVE record[c][i] \in Raisers' <=> record[c][i] \in Raisers
  <2>. DEFINE p == record[c][i]
  <2>1. p \in Posts
    BY <1>1
  <2>2. ~Unrecorded(p)
    <3>1. Times(p, c) # 0
      BY <1>1, <2>1, TimesIs
    <3>. QED BY <3>1 DEF Unrecorded
  <2>3. call'[p].want = call[p].want
    BY <2>1, <2>2 DEF WantsKept
  <2>. HIDE DEF p
  <2>. QED BY <2>1, <2>3 DEF p, Raisers
<1>3. {i \in DOMAIN record[c] : record[c][i] \in Raisers'} = {i \in DOMAIN record[c] : record[c][i] \in Raisers}
  BY <1>2
<1>. QED BY <1>3 DEF Counted

LEMMA RaisedNext ==
    ASSUME RoutesTypeOK, RoutesTypeOK', WantsKept, NEW c \in Rooms
    PROVE  /\ record'[c] = record[c] => Raised(c)' = Raised(c)
           /\ \A q \in Posts : record'[c] = Append(record[c], q) =>
                 Raised(c)' = Raised(c) + IF call'[q].want.op = "budget" THEN 1 ELSE 0
<1>1. Raised(c) = Counted(record[c], Raisers) /\ Raised(c) \in Nat
  BY RaisedIs
<1>2. Raised(c)' = Counted(record'[c], Raisers')
  <2>1. \A i \in DOMAIN record'[c] : record'[c][i] \in Posts
    BY DEF RoutesTypeOK
  <2>2. {i \in DOMAIN record'[c] : record'[c][i] \in Raisers'} = {i \in DOMAIN record'[c] : call'[record'[c][i]].want.op = "budget"}
    BY <2>1 DEF Raisers
  <2>. QED BY <2>2 DEF Raised, Counted
<1>3. Counted(record[c], Raisers') = Counted(record[c], Raisers)
  BY RaisersKept
<1>4. ASSUME NEW q \in Posts, record'[c] = Append(record[c], q)
      PROVE  Raised(c)' = Raised(c) + IF call'[q].want.op = "budget" THEN 1 ELSE 0
  <2>. DEFINE R == Raisers'
  <2>1. q \in R <=> call'[q].want.op = "budget"
    BY DEF Raisers
  <2>. HIDE DEF R
  <2>2. Counted(Append(record[c], q), R) = Counted(record[c], R) + IF q \in R THEN 1 ELSE 0
    BY CountedAppended DEF RoutesTypeOK
  <2>3. Raised(c)' = Counted(record'[c], R) /\ Counted(record[c], R) = Raised(c)
    BY <1>1, <1>2, <1>3 DEF R
  <2>. QED BY <1>4, <2>1, <2>2, <2>3
<1>. QED BY <1>1, <1>2, <1>3, <1>4

\* What a step has to leave of the raises.
LEMMA RaisesKept ==
    ASSUME RoutesInv, NEW q \in Posts, \A p \in Posts \ {q} : call'[p] = call[p],
           \A d \in Rooms : Raised(d)' \in Nat /\ Raised(d)' >= Raised(d),
           \A p \in Posts \ {q} : Full(p) /\ At(p, "noting") => Raised(call[p].room)' = Raised(call[p].room),
           RaiseFits(q)',
           \A p \in Posts \ {q} :
               /\ Answered(q, {200})' /\ call'[q].want.op = "budget" /\ Answered(p, {200}) /\ call[p].want.op = "budget"
               => call'[q].room # call[p].room \/ call'[q].want.expected # call[p].want.expected
    PROVE  RaisesFit' /\ RaisesDiffer'
<1>1. /\ RoutesTypeOK /\ RaisesDiffer
      /\ \A p \in Posts : Post(p) /\ (Full(p) => RaiseFits(p))
  BY DEF RoutesInv, RaisesFit
<1>2. ASSUME NEW p \in Posts \ {q}, Full(p)' PROVE RaiseFits(p)'
  <2>1. call'[p] = call[p] /\ Full(p) /\ RaiseFits(p) /\ Placed(p)
    BY <1>1, <1>2 DEF Full, Post
  <2>2. SUFFICES ASSUME call[p].want.op = "budget"
                 PROVE  /\ At(p, "noting") => call[p].want.expected = Raised(call[p].room)'
                        /\ Answered(p, {200}) => call[p].want.expected < Raised(call[p].room)'
    BY <2>1 DEF RaiseFits, At, Answered
  <2>3. At(p, "noting") => call[p].want.expected = Raised(call[p].room)'
    BY <2>1, <2>2 DEF RaiseFits
  <2>4. ASSUME Answered(p, {200}) PROVE call[p].want.expected < Raised(call[p].room)'
    <3>1. call[p].room \in Rooms
      BY <2>1, <2>4 DEF Placed, Succeeded, Answered, HasRoom, At
    <3>2. call[p].want.expected \in Nat
      BY <2>1, <2>2, WantIs DEF Full, Calls
    <3>3. call[p].want.expected < Raised(call[p].room) /\ Raised(call[p].room) \in Nat
      BY <1>1, <2>1, <2>2, <2>4, <3>1, RaisedIs DEF RaiseFits
    <3>4. Raised(call[p].room)' \in Nat /\ Raised(call[p].room)' >= Raised(call[p].room)
      <4>1. PICK d \in Rooms : d = call[p].room
        BY <3>1
      <4>2. Raised(d)' \in Nat /\ Raised(d)' >= Raised(d)
        OBVIOUS
      <4>3. call'[p].room = d
        BY <2>1, <4>1
      <4>. QED BY <4>1, <4>2, <4>3 DEF Raised
    <3>. QED BY <3>2, <3>3, <3>4
  <2>. QED BY <2>3, <2>4
<1>3. RaisesFit'
  BY <1>2 DEF RaisesFit
<1>4. RaisesDiffer'
  BY <1>1 DEF RaisesDiffer, Answered
<1>. QED BY <1>3, <1>4

LEMMA SameWants ==
    ASSUME NEW c \in Calls
    PROVE  /\ \A code : Says(c, code).want = c.want
           /\ \A what : Tells(c, what).want = c.want
           /\ \A busy : RefusedBy(c, busy).want = c.want
<1>1. ASSUME NEW d, DOMAIN d = DOMAIN c, NEW code PROVE Says(d, code).want = d.want /\ DOMAIN Says(d, code) = DOMAIN c
  BY <1>1 DEF Calls, Says
<1>2. ASSUME NEW what PROVE Tells(c, what).want = c.want
  <2>. DEFINE told == [c EXCEPT !.told = @ \cup {<<Head(c.left), what>>}, !.left = Tail(@), !.at = "dispatching"]
  <2>1. DOMAIN told = DOMAIN c /\ told.want = c.want
    BY DEF Calls
  <2>2. \A code : Says(told, code).want = told.want
    <3>. HIDE DEF told
    <3>. QED BY <1>1, <2>1
  <2>3. Tells(c, what) = told \/ \E code : Tells(c, what) = Says(told, code)
    BY DEF Tells
  <2>. HIDE DEF told
  <2>. QED BY <2>1, <2>2, <2>3
<1>3. ASSUME NEW busy PROVE RefusedBy(c, busy).want = c.want
  <2>. DEFINE crossed == [c EXCEPT !.crossed = TRUE, !.left = Tail(@), !.at = "dispatching"]
  <2>1. DOMAIN crossed = DOMAIN c /\ crossed.want = c.want
    BY DEF Calls
  <2>2. Says(crossed, 409).want = crossed.want /\ Says(c, 409).want = c.want
    <3>. HIDE DEF crossed
    <3>. QED BY <1>1, <2>1
  <2>3. RefusedBy(c, busy) \in {Says(c, 409), Says(crossed, 409), crossed, Tells(c, "conflict")}
    BY DEF RefusedBy
  <2>. HIDE DEF crossed
  <2>. QED BY <1>2, <2>1, <2>2, <2>3
<1>. QED BY <1>1, <1>2, <1>3

\* What was asked stays, and the record grows by the request at most.
LEMMA WantStays ==
    ASSUME RoutesInv, NEW q \in Posts, RouteStep(q), ~RecordFails(q), ~Asks(q)
    PROVE  /\ Full(q) /\ call'[q].want = call[q].want
           /\ record' = record \/ Appends(q, call[q].room)
<1>1. RoutesTypeOK /\ \A d : Becomes(q, d) => call'[q] = d
  BY DEF RoutesInv, RoutesTypeOK, Becomes
<1>2. call[q].at \in Before \cup After
  BY DEF RouteStep, At, Before, After, Opens, OpeningFails, ReadsManifest, Attaches, ReadsPrior, Joins, JoinFails,
         RecordsThen, RecordsStart, RecordsStartPeer, RecordsCreate, RecordsMessage, Steers, SteerAcknowledged, SteerFails,
         Dispatches, Reserves, Takes, Rewrites, TransitionsLifecycle, Renames, RewriteFails, ChecksBudget, Notes, NoteFails,
         TurnIs, TurnBinds, TurnPrompts, TurnEnds, TurnBreaks
<1>3. Full(q)
  BY <1>1, <1>2, FullIs DEF Before, After
<1>. DEFINE c == call[q]
<1>4. c \in Calls
  BY <1>3 DEF Full
<1>5. ASSUME NEW d, Becomes(q, d), d.want = c.want PROVE call'[q].want = call[q].want
  BY <1>1, <1>5
<1>6. /\ \A code : Says(c, code).want = c.want
      /\ \A what : Tells(c, what).want = c.want
      /\ \A busy : RefusedBy(c, busy).want = c.want
  <2>. HIDE DEF c
  <2>. QED BY <1>4, SameWants
<1>7. \A x : /\ [c EXCEPT !.at = x].want = c.want
             /\ [c EXCEPT !.at = "noting", !.changed = x].want = c.want
             /\ [c EXCEPT !.tries = x].want = c.want
             /\ [c EXCEPT !.at = "recording", !.room = x].want = c.want
             /\ [c EXCEPT !.at = "looking_back", !.seen = x].want = c.want
             /\ \A y : [c EXCEPT !.prior = y, !.at = x].want = c.want
  BY <1>4 DEF Calls
<1>8. CASE Opens(q) \/ OpeningFails(q)
  <2>1. CASE OpeningFails(q)
    BY <1>3, <1>5, <1>6, <2>1 DEF OpeningFails, Answers
  <2>2. CASE Opens(q)
    <3>1. \/ \E e \in Rooms : Becomes(q, [c EXCEPT !.at = "recording", !.room = e])
          \/ Becomes(q, Says(c, 409))
          \/ Becomes(q, [c EXCEPT !.tries = @ + 1])
      BY <2>2 DEF Opens
    <3>. QED BY <1>3, <1>5, <1>6, <1>7, <2>2, <3>1, ZenonT(60) DEF Opens
  <2>. QED BY <1>8, <2>1, <2>2
<1>9. CASE ReadsManifest(q) \/ Attaches(q) \/ ReadsPrior(q)
  <2>1. CASE ReadsManifest(q)
    <3>1. \/ \E code : Becomes(q, Says(c, code))
          \/ Becomes(q, [c EXCEPT !.at = "looking_back", !.seen = room[c.room].members])
      BY <2>1 DEF ReadsManifest, Answers
    <3>. QED BY <1>3, <1>5, <1>6, <1>7, <2>1, <3>1 DEF ReadsManifest
  <2>2. CASE Attaches(q)
    <3>1. \E code : Becomes(q, Says(c, code))
      BY <2>2 DEF Attaches, Answers
    <3>. QED BY <1>3, <1>5, <1>6, <2>2, <3>1 DEF Attaches
  <2>3. CASE ReadsPrior(q)
    <3>1. \E x : Becomes(q, [c EXCEPT !.prior = Len(record[c.room]), !.at = x])
      BY <2>3 DEF ReadsPrior
    <3>. QED BY <1>3, <1>5, <1>7, <2>3, <3>1 DEF ReadsPrior
  <2>. QED BY <1>9, <2>1, <2>2, <2>3
<1>10. CASE Joins(q) \/ JoinFails(q)
  <2>1. (\E code : Becomes(q, Says(c, code))) \/ Becomes(q, [c EXCEPT !.at = "recording"])
    BY <1>10 DEF Joins, JoinFails, Answers, Goes
  <2>2. call'[q].want = call[q].want
    BY <1>5, <1>6, <1>7, <2>1
  <2>. QED BY <1>3, <1>10, <2>2 DEF Joins, JoinFails
<1>11. ASSUME NEW op, NEW targets, NEW place, RecordsThen(q, op, targets, place)
       PROVE  call'[q].want = call[q].want /\ Appends(q, call[q].room)
  <2>. DEFINE d == [c EXCEPT !.left = targets]
  <2>1. d.want = c.want /\ [d EXCEPT !.at = place].want = c.want /\ \A code : Says(d, code).want = c.want
    BY <1>4 DEF Calls, Says
  <2>2. \E e : Becomes(q, e) /\ e.want = c.want
    <3>1. Becomes(q, IF targets = <<>> THEN Says(d, Success(d.want)) ELSE [d EXCEPT !.at = place])
      BY <1>11 DEF RecordsThen
    <3>. HIDE DEF d
    <3>. QED BY <2>1, <3>1
  <2>. QED BY <1>5, <1>11, <2>2 DEF RecordsThen, Appends
<1>12. CASE RecordsAny(q)
  BY <1>3, <1>11, <1>12 DEF RecordsAny, RecordsStart, RecordsStartPeer, RecordsCreate, RecordsMessage
<1>13. CASE Steers(q)
  <2>1. \E d : Becomes(q, d) /\ d.want = c.want
    BY <1>6, <1>7, <1>13 DEF Steers
  <2>. QED BY <1>3, <1>5, <1>13, <2>1 DEF Steers
<1>14. CASE SteerAcknowledged(q) \/ SteerFails(q)
  <2>1. \E d : Becomes(q, d) /\ d.want = c.want
    BY <1>6, <1>14 DEF SteerAcknowledged, SteerFails
  <2>. QED BY <1>3, <1>5, <1>14, <2>1 DEF SteerAcknowledged, SteerFails
<1>15. CASE Dispatches(q) \/ Reserves(q)
  <2>1. \E d : Becomes(q, d) /\ d.want = c.want
    BY <1>6, <1>7, <1>15 DEF Dispatches, Reserves, Goes
  <2>. QED BY <1>3, <1>5, <1>15, <2>1 DEF Dispatches, Reserves
<1>16. CASE Takes(q)
  <2>1. \E d : Becomes(q, d) /\ d.want = c.want
    BY <1>6, <1>7, <1>16, ZenonT(60) DEF Takes, Goes, Answers
  <2>. QED BY <1>3, <1>5, <1>16, <2>1 DEF Takes
<1>17. ASSUME NEW r, Rewrites(q, r) PROVE call'[q].want = call[q].want /\ record' = record
  <2>1. \E d : Becomes(q, d) /\ d.want = c.want
    BY <1>6, <1>7, <1>17 DEF Rewrites, Answers
  <2>. QED BY <1>5, <1>17, <2>1 DEF Rewrites
<1>18. CASE TransitionsLifecycle(q) \/ Renames(q)
  BY <1>3, <1>17, <1>18 DEF TransitionsLifecycle, Renames
<1>19. CASE RewriteFails(q) \/ Notes(q) \/ NoteFails(q)
  <2>1. \E d : Becomes(q, d) /\ d.want = c.want
    BY <1>6, <1>19 DEF RewriteFails, Notes, NoteFails, Answers
  <2>. QED BY <1>3, <1>5, <1>19, <2>1 DEF RewriteFails, Notes, NoteFails, Appends
<1>20. CASE ChecksBudget(q)
  <2>1. \E d : Becomes(q, d) /\ d.want = c.want
    BY <1>6, <1>7, <1>20 DEF ChecksBudget, Answers
  <2>. QED BY <1>3, <1>5, <1>20, <2>1 DEF ChecksBudget
<1>21. CASE TurnBinds(q) \/ TurnPrompts(q)
  BY <1>3, <1>21 DEF TurnBinds, TurnPrompts
<1>22. CASE TurnEnds(q) \/ TurnBreaks(q)
  <2>1. \E d : Becomes(q, d) /\ d.want = c.want
    BY <1>6, <1>22, ZenonT(60) DEF TurnEnds, TurnBreaks
  <2>. QED BY <1>3, <1>5, <1>22, <2>1 DEF TurnEnds, TurnBreaks
<1>. HIDE DEF c
<1>. QED
  BY <1>8, <1>9, <1>10, <1>12, <1>13, <1>14, <1>15, <1>16, <1>18, <1>19, <1>20, <1>21, <1>22, Zenon DEF RouteStep, RecordsAny

LEMMA RaisesQuietly ==
    ASSUME RoutesInv, RoutesTypeOK', NEW q \in Posts, \A p \in Posts \ {q} : call'[p] = call[p], WantsKept,
           record' = record \/ (Appends(q, call[q].room) /\ call[q].room \in Rooms /\ call'[q].want.op # "budget"),
           RaiseFits(q)', ~(Answered(q, {200})' /\ call'[q].want.op = "budget")
    PROVE  RaisesFit' /\ RaisesDiffer'
<1>1. RoutesTypeOK /\ record \in [Rooms -> Seq(Posts)]
  BY DEF RoutesInv, RoutesTypeOK
<1>2. ASSUME NEW d \in Rooms PROVE Raised(d)' = Raised(d) /\ Raised(d) \in Nat
  <2>1. Raised(d) \in Nat
    BY <1>1, RaisedIs
  <2>2. /\ record'[d] = record[d] => Raised(d)' = Raised(d)
        /\ \A p \in Posts : record'[d] = Append(record[d], p) =>
              Raised(d)' = Raised(d) + IF call'[p].want.op = "budget" THEN 1 ELSE 0
    BY <1>1, RaisedNext
  <2>3. record'[d] = record[d] \/ (record'[d] = Append(record[d], q) /\ call'[q].want.op # "budget")
    BY <1>1 DEF Appends
  <2>. QED BY <2>1, <2>2, <2>3
<1>3. \A d \in Rooms : Raised(d)' \in Nat /\ Raised(d)' >= Raised(d)
  BY <1>2
<1>4. ASSUME NEW p \in Posts \ {q}, Full(p) /\ At(p, "noting") PROVE Raised(call[p].room)' = Raised(call[p].room)
  <2>1. call[p].room \in Rooms /\ call'[p] = call[p]
    BY <1>4, HolderIs DEF At
  <2>2. PICK d \in Rooms : d = call[p].room
    BY <2>1
  <2>3. Raised(d)' = Raised(d) /\ call'[p].room = d
    BY <1>2, <2>1, <2>2
  <2>. QED BY <2>2, <2>3 DEF Raised
<1>. QED BY <1>3, <1>4, RaisesKept

LEMMA WantsStay ==
    ASSUME RoutesInv, NEW q \in Posts, RouteStep(q), ~RecordFails(q)
    PROVE  /\ WantsKept /\ \A p \in Posts \ {q} : call'[p] = call[p]
           /\ RoutesTypeOK' /\ Full(q)' /\ Post(q)'
<1>1. Steady(q) /\ Full(q)' /\ Post(q)'
  BY RouteKeeps
<1>2. \A p \in Posts \ {q} : call'[p] = call[p]
  BY <1>1 DEF Steady, Undisturbed
<1>3. call'[q].want = call[q].want \/ Unrecorded(q)
  <2>1. CASE Asks(q)
    <3>1. At(q, "idle") /\ Recorded(q)
      BY <2>1 DEF Asks, RoutesInv, Post
    <3>. QED BY <3>1 DEF Recorded, At
  <2>2. CASE ~Asks(q)
    BY <2>2, WantStays
  <2>. QED BY <2>1, <2>2
<1>. QED BY <1>1, <1>2, <1>3 DEF WantsKept, Steady

\* One that raises nothing, or is refused, or waits for the lock.
LEMMA RaisesElsewhere ==
    ASSUME RoutesInv, NEW q \in Posts, RouteStep(q), ~RecordFails(q),
           \/ Asks(q) \/ call[q].want.op # "budget"
           \/ record' = record /\ (call'[q].at = "locked" \/ (call'[q].at = "answered" /\ call'[q].code # 200))
    PROVE  RaisesFit' /\ RaisesDiffer'
<1>1. /\ WantsKept /\ \A p \in Posts \ {q} : call'[p] = call[p]
      /\ RoutesTypeOK' /\ Full(q)' /\ Post(q)'
  BY WantsStay
<1>2. CASE Asks(q)
  <2>1. RoutesTypeOK /\ record' = record /\ At(q, "idle")
    BY <1>2 DEF Asks, RoutesInv
  <2>2. \E w \in Wants, c \in Rooms \cup {NoRoom} :
           \/ Becomes(q, [Asked(w) EXCEPT !.at = "reading", !.room = c]) \/ Becomes(q, Asked(w)) \/ Becomes(q, Says(Asked(w), 400))
    BY <1>2 DEF Asks, Asked
  <2>3. call'[q].at \in {"creating", "reading"} \/ (call'[q].at = "answered" /\ call'[q].code = 400)
    <3>1. \A d : Becomes(q, d) => call'[q] = d
      BY <2>1 DEF RoutesTypeOK, Becomes
    <3>2. PICK w \in Wants, c \in Rooms \cup {NoRoom} :
             \/ call'[q] = [Asked(w) EXCEPT !.at = "reading", !.room = c] \/ call'[q] = Asked(w)
             \/ call'[q] = Says(Asked(w), 400)
      BY <2>2, <3>1, ZenonT(60)
    <3>. DEFINE d == Asked(w)
                r == [d EXCEPT !.at = "reading", !.room = c]
    <3>3. d.at = "creating" /\ DOMAIN d = {"at", "want", "room", "tries", "seen", "prior", "left", "told", "crossed", "changed", "code"}
      BY DEF Asked
    <3>4. r.at = "reading" /\ Says(d, 400).at = "answered" /\ Says(d, 400).code = 400
      <4>. HIDE DEF d
      <4>. QED BY <3>3 DEF Says
    <3>5. call'[q] = r \/ call'[q] = d \/ call'[q] = Says(d, 400)
      BY <3>2
    <3>. HIDE DEF d, r
    <3>. QED BY <3>3, <3>4, <3>5
  <2>4. RaiseFits(q)' /\ ~Answered(q, {200})'
    BY <2>3 DEF RaiseFits, Answered, At
  <2>. QED BY <1>1, <2>1, <2>4, RaisesQuietly
<1>3. CASE ~Asks(q) /\ call[q].want.op # "budget"
  <2>1. call'[q].want = call[q].want /\ (record' = record \/ Appends(q, call[q].room))
    BY <1>3, WantStays
  <2>2. RaiseFits(q)' /\ ~(Answered(q, {200})' /\ call'[q].want.op = "budget")
    BY <1>3, <2>1 DEF RaiseFits
  <2>3. record' = record \/ (Appends(q, call[q].room) /\ call[q].room \in Rooms /\ call'[q].want.op # "budget")
    <3>1. SUFFICES ASSUME record' # record PROVE call[q].room \in Rooms
      BY <1>3, <2>1
    <3>2. RecordsAny(q) \/ Notes(q) \/ NoteFails(q)
      BY <1>3, <3>1 DEF RouteStep, RecordsAny, Opens, OpeningFails, ReadsManifest, Attaches, ReadsPrior, Joins, JoinFails, Steers,
         SteerAcknowledged, SteerFails, Dispatches, Reserves, Takes, Rewrites, TransitionsLifecycle, Renames, RewriteFails,
         ChecksBudget, TurnBinds, TurnPrompts, TurnEnds, TurnBreaks
    <3>3. call[q].at \in {"recording", "noting"}
      BY <3>2 DEF RecordsAny, RecordsThen, RecordsStart, RecordsStartPeer, RecordsCreate, RecordsMessage, Notes, NoteFails, At
    <3>4. Full(q) /\ Placed(q)
      BY <1>3, WantStays DEF RoutesInv, Post
    <3>. QED BY <3>3, <3>4 DEF Placed, HasRoom, At
  <2>. QED BY <1>1, <2>2, <2>3, RaisesQuietly
<1>4. CASE record' = record /\ (call'[q].at = "locked" \/ (call'[q].at = "answered" /\ call'[q].code # 200))
  <2>1. RaiseFits(q)' /\ ~Answered(q, {200})'
    BY <1>4 DEF RaiseFits, Answered, At
  <2>. QED BY <1>1, <1>4, <2>1, RaisesQuietly
<1>. QED BY <1>2, <1>3, <1>4

\* A raise.
LEMMA RaisesBudget ==
    ASSUME RoutesInv, NEW q \in Posts, RouteStep(q), ~RecordFails(q), ~Asks(q), call[q].want.op = "budget"
    PROVE  RaisesFit' /\ RaisesDiffer'
<1>1. /\ WantsKept /\ \A p \in Posts \ {q} : call'[p] = call[p]
      /\ RoutesTypeOK' /\ Full(q)' /\ Post(q)' /\ RoutesTypeOK
      /\ \A d : Becomes(q, d) => call'[q] = d
  BY WantsStay DEF RoutesInv, RoutesTypeOK, Becomes
<1>2. Full(q) /\ call'[q].want = call[q].want /\ Placed(q) /\ call[q] \in Calls /\ call[q].want.expected \in Nat
  <2>1. Full(q) /\ call'[q].want = call[q].want
    BY WantStays
  <2>2. call[q] \in Calls /\ call[q].want \in Wants
    BY <2>1 DEF Full, Calls
  <2>. QED BY <2>1, <2>2, WantIs DEF RoutesInv, Post
<1>3. Takes(q) \/ ChecksBudget(q) \/ Notes(q) \/ NoteFails(q)
  <2>1. call[q].at \notin {"creating", "looking_back", "joining", "recording"} \cup After
    BY <1>2 DEF Placed, At, Creates
  <2>2. ~(Opens(q) \/ OpeningFails(q) \/ ReadsPrior(q) \/ Joins(q) \/ JoinFails(q))
    BY <2>1 DEF Opens, OpeningFails, ReadsPrior, Joins, JoinFails, At
  <2>3. ~(RecordsStart(q) \/ RecordsStartPeer(q) \/ RecordsCreate(q) \/ RecordsMessage(q))
    BY <2>1 DEF RecordsThen, RecordsStart, RecordsStartPeer, RecordsCreate, RecordsMessage, At
  <2>4. ~(Steers(q) \/ SteerAcknowledged(q) \/ SteerFails(q) \/ Dispatches(q) \/ Reserves(q))
    BY <2>1 DEF Steers, SteerAcknowledged, SteerFails, Dispatches, Reserves, At, After
  <2>5. ~(TurnBinds(q) \/ TurnPrompts(q) \/ TurnEnds(q) \/ TurnBreaks(q))
    BY <2>1 DEF TurnIs, TurnBinds, TurnPrompts, TurnEnds, TurnBreaks, At, After
  <2>6. ~(ReadsManifest(q) \/ Attaches(q) \/ TransitionsLifecycle(q) \/ Renames(q) \/ RewriteFails(q))
    BY DEF ReadsManifest, Attaches, TransitionsLifecycle, Renames, RewriteFails
  <2>. QED BY <2>2, <2>3, <2>4, <2>5, <2>6 DEF RouteStep
<1>4. \A code \in Nat : Says(call[q], code).at = "answered" /\ Says(call[q], code).code = code /\ Says(call[q], code).room = call[q].room
  BY <1>2, SaysIs DEF Like
<1>5. CASE Takes(q)
  <2>1. record' = record /\ (call'[q].at = "locked" \/ (call'[q].at = "answered" /\ call'[q].code # 200))
    <3>1. Becomes(q, [call[q] EXCEPT !.at = "locked"]) \/ Becomes(q, Says(call[q], 404)) \/ Becomes(q, Says(call[q], 409))
      BY <1>5 DEF Takes, Goes, Answers
    <3>2. [call[q] EXCEPT !.at = "locked"].at = "locked"
      BY <1>2 DEF Calls
    <3>3. /\ Says(call[q], 404).at = "answered" /\ Says(call[q], 404).code # 200
          /\ Says(call[q], 409).at = "answered" /\ Says(call[q], 409).code # 200
      BY <1>4
    <3>4. call'[q].at = "locked" \/ (call'[q].at = "answered" /\ call'[q].code # 200)
      <4>. DEFINE d == [call[q] EXCEPT !.at = "locked"]
                  e == Says(call[q], 404)
                  f == Says(call[q], 409)
      <4>1. call'[q] = d \/ call'[q] = e \/ call'[q] = f
        BY <1>1, <3>1
      <4>2. d.at = "locked" /\ e.at = "answered" /\ e.code # 200 /\ f.at = "answered" /\ f.code # 200
        BY <3>2, <3>3
      <4>. HIDE DEF d, e, f
      <4>. QED BY <4>1, <4>2
    <3>5. record' = record
      BY <1>5 DEF Takes
    <3>. QED BY <3>4, <3>5
  <2>. QED BY <2>1, RaisesElsewhere
<1>6. CASE ChecksBudget(q)
  <2>. DEFINE d == [call[q] EXCEPT !.at = "noting", !.changed = TRUE]
  <2>1. record' = record
    BY <1>6 DEF ChecksBudget
  <2>2. \/ Becomes(q, Says(call[q], 404)) \/ Becomes(q, Says(call[q], 409))
        \/ Becomes(q, d) /\ call[q].want.expected = Raised(call[q].room)
    BY <1>6 DEF ChecksBudget, Answers
  <2>3. d.at = "noting" /\ d.room = call[q].room
    BY <1>2 DEF Calls
  <2>. HIDE DEF d
  <2>4. CASE Becomes(q, Says(call[q], 404)) \/ Becomes(q, Says(call[q], 409))
    <3>1. call'[q].at = "answered" /\ call'[q].code # 200
      BY <1>1, <1>4, <2>4
    <3>. QED BY <2>1, <3>1, RaisesElsewhere
  <2>5. CASE Becomes(q, d) /\ call[q].want.expected = Raised(call[q].room)
    <3>1. call'[q].at = "noting" /\ call'[q].room = call[q].room
      BY <1>1, <2>3, <2>5
    <3>2. PICK c \in Rooms : c = call[q].room
      BY <1>6, HolderIs DEF ChecksBudget, At
    <3>3. Raised(c)' = Raised(c)
      BY <1>1, <2>1, RaisedNext
    <3>4. call'[q].want.expected = Raised(c)' /\ call'[q].room = c
      BY <1>2, <2>5, <3>1, <3>2, <3>3
    <3>5. RaiseFits(q)' /\ ~Answered(q, {200})'
      BY <3>1, <3>4 DEF RaiseFits, Answered, At, Raised
    <3>. QED BY <1>1, <2>1, <3>5, RaisesQuietly
  <2>. QED BY <2>2, <2>4, <2>5
<1>7. CASE Notes(q) \/ NoteFails(q)
  <2>1. call[q].at \in {"locked", "noting"} /\ At(q, "noting")
    BY <1>7 DEF Notes, NoteFails, At
  <2>2. call[q].room \in Rooms /\ holder[call[q].room] = q
    BY <2>1, HolderIs
  <2>3. PICK c \in Rooms : c = call[q].room
    BY <2>2
  <2>4. record' = record \/ Appends(q, c)
    BY <1>7, <2>3 DEF Notes, NoteFails, Appends
  <2>5. record \in [Rooms -> Seq(Posts)]
    BY <1>1 DEF RoutesTypeOK
  <2>6. ASSUME NEW d \in Rooms
        PROVE  /\ Raised(d) \in Nat /\ Raised(d)' \in Nat /\ Raised(d)' >= Raised(d) /\ (d # c => Raised(d)' = Raised(d))
               /\ Appends(q, c) => Raised(c)' = Raised(c) + 1
    <3>1. Raised(d) \in Nat
      BY <1>1, RaisedIs
    <3>2. /\ record'[d] = record[d] => Raised(d)' = Raised(d)
          /\ record'[d] = Append(record[d], q) => Raised(d)' = Raised(d) + IF call'[q].want.op = "budget" THEN 1 ELSE 0
      BY <1>1, RaisedNext
    <3>3. record'[d] = record[d] \/ (d = c /\ record'[d] = Append(record[d], q))
      BY <2>4, <2>5 DEF Appends
    <3>4. Appends(q, c) => record'[c] = Append(record[c], q)
      BY <2>5 DEF Appends
    <3>5. record'[c] = Append(record[c], q) => Raised(c)' = Raised(c) + IF call'[q].want.op = "budget" THEN 1 ELSE 0
      BY <1>1, RaisedNext
    <3>. QED BY <1>2, <3>1, <3>2, <3>3, <3>4, <3>5
  <2>7. ASSUME NEW p \in Posts \ {q}, Full(p) /\ At(p, "noting") PROVE Raised(call[p].room)' = Raised(call[p].room)
    <3>1. call[p].room \in Rooms /\ holder[call[p].room] = p /\ call'[p] = call[p]
      BY <1>1, <2>7, HolderIs DEF At
    <3>2. PICK d \in Rooms : d = call[p].room
      BY <3>1
    <3>3. d # c
      BY <2>2, <2>3, <3>1, <3>2
    <3>4. Raised(d)' = Raised(d) /\ call'[p].room = d
      BY <2>6, <3>1, <3>2, <3>3
    <3>. QED BY <3>2, <3>4 DEF Raised
  <2>8. call[q].want.expected = Raised(c)
    <3>1. RaiseFits(q)
      BY <1>2 DEF RoutesInv, RaisesFit
    <3>. QED BY <2>1, <2>3, <3>1 DEF RaiseFits
  <2>9. CASE NoteFails(q)
    <3>1. call'[q].at = "answered" /\ call'[q].code = 400
      <4>1. Becomes(q, Says(call[q], 400))
        BY <2>9 DEF NoteFails, Answers
      <4>. QED BY <1>1, <1>4, <4>1
    <3>2. RaiseFits(q)' /\ ~Answered(q, {200})'
      BY <3>1 DEF RaiseFits, Answered, At
    <3>. QED BY <1>1, <2>6, <2>7, <3>2, RaisesKept
  <2>10. CASE Notes(q)
    <3>1. call'[q].at = "answered" /\ call'[q].code = 200 /\ call'[q].room = c
      <4>1. Becomes(q, Says(call[q], 200))
        BY <2>10 DEF Notes, Answers
      <4>. QED BY <1>1, <1>4, <2>3, <4>1
    <3>2. Appends(q, c)
      BY <2>3, <2>10 DEF Notes, Appends
    <3>3. Raised(c)' = Raised(c) + 1 /\ Raised(c) \in Nat
      BY <2>6, <3>2
    <3>4. call'[q].want.expected < Raised(c)'
      BY <1>2, <2>8, <3>3
    <3>5. RaiseFits(q)'
      BY <3>1, <3>4 DEF RaiseFits, Answered, At, Raised
    <3>6. ASSUME NEW p \in Posts \ {q}, Answered(p, {200}), call[p].want.op = "budget"
          PROVE  call'[q].room # call[p].room \/ call'[q].want.expected # call[p].want.expected
      <4>1. Full(p)
        BY <1>1, <3>6, FullIs DEF Answered
      <4>2. call[p].want.expected < Raised(call[p].room)
        BY <3>6, <4>1 DEF RoutesInv, RaisesFit, RaiseFits
      <4>3. call[p].want.expected \in Nat
        BY <3>6, <4>1, WantIs DEF Full, Calls
      <4>. QED BY <1>2, <2>8, <3>1, <3>3, <4>2, <4>3
    <3>. QED BY <1>1, <2>6, <2>7, <3>5, <3>6, RaisesKept
  <2>. QED BY <1>7, <2>9, <2>10
<1>. QED BY <1>3, <1>5, <1>6, <1>7

LEMMA ProcessKeeps ==
    ASSUME RoutesInv, NEW q \in Posts, RecordFails(q) PROVE RoutesInv'
<1>1. /\ RoutesTypeOK' /\ \A p \in Posts : Post(p)'
      /\ record' = record \/ (Appends(q, call[q].room) /\ call[q].want.op # "budget" /\ call[q].room \in Rooms)
      /\ \A p \in Posts : call'[p] = call[p] \/ (call'[p].at = "lost" /\ call'[p].want = call[p].want)
  BY ProcessGoes
<1>2. /\ RoutesTypeOK /\ RaisesDiffer /\ record \in [Rooms -> Seq(Posts)]
      /\ \A p \in Posts : Full(p) => RaiseFits(p)
  BY DEF RoutesInv, RaisesFit, RoutesTypeOK
<1>3. WantsKept
  BY <1>1 DEF WantsKept
<1>4. ASSUME NEW d \in Rooms PROVE Raised(d)' = Raised(d)
  <2>1. /\ record'[d] = record[d] => Raised(d)' = Raised(d)
        /\ record'[d] = Append(record[d], q) => Raised(d)' = Raised(d) + IF call'[q].want.op = "budget" THEN 1 ELSE 0
    BY <1>1, <1>2, <1>3, RaisedNext
  <2>2. Raised(d) \in Nat
    BY <1>2, RaisedIs
  <2>3. record'[d] = record[d] \/ (record'[d] = Append(record[d], q) /\ call[q].want.op # "budget")
    BY <1>1, <1>2 DEF Appends
  <2>4. call'[q].want = call[q].want
    BY <1>1
  <2>. QED BY <2>1, <2>2, <2>3, <2>4
<1>5. ASSUME NEW p \in Posts, Full(p)' PROVE RaiseFits(p)'
  <2>1. call'[p] = call[p]
    BY <1>1, <1>5 DEF Full, Calls, Before, After
  <2>2. Full(p) /\ RaiseFits(p) /\ Placed(p)
    BY <1>2, <1>5, <2>1 DEF Full, RoutesInv, Post
  <2>3. SUFFICES ASSUME At(p, "noting") \/ Answered(p, {200}) PROVE RaiseFits(p)'
    BY <2>1 DEF RaiseFits, At, Answered
  <2>4. call[p].room \in Rooms
    BY <2>2, <2>3 DEF Placed, Succeeded, Answered, HasRoom, At
  <2>5. PICK d \in Rooms : d = call[p].room
    BY <2>4
  <2>6. call'[p].room = d /\ Raised(d)' = Raised(d)
    BY <1>4, <2>1, <2>5
  <2>7. Raised(call[p].room)' = Raised(call[p].room)
    BY <2>5, <2>6 DEF Raised
  <2>. QED BY <2>1, <2>2, <2>7 DEF RaiseFits, At, Answered
<1>6. RaisesFit'
  BY <1>5 DEF RaisesFit
<1>7. RaisesDiffer'
  <2>1. \A p \in Posts : Answered(p, {200})' => call'[p] = call[p]
    BY <1>1 DEF Answered
  <2>2. \A p \in Posts : Answered(p, {200})' => Answered(p, {200})
    BY <2>1 DEF Answered
  <2>. QED BY <1>2, <2>1, <2>2 DEF RaisesDiffer
<1>. QED BY <1>1, <1>6, <1>7 DEF RoutesInv

LEMMA RequestKeeps ==
    ASSUME RoutesInv, NEW q \in Posts, RouteStep(q), ~RecordFails(q) PROVE RoutesInv'
<1>1. Steady(q) /\ Full(q)' /\ Post(q)'
  BY RouteKeeps
<1>2. ASSUME NEW p \in Posts PROVE Post(p)'
  <2>1. CASE p = q
    BY <1>1, <2>1
  <2>2. CASE p # q
    <3>1. RoutesTypeOK /\ Post(p) /\ RoomsGrow /\ RecordsGrow /\ Undisturbed(p)
      BY <1>1, <2>2, InvIs DEF Steady
    <3>. QED BY <3>1, UndisturbedKeeps
  <2>. QED BY <2>1, <2>2
<1>3. RaisesFit' /\ RaisesDiffer'
  <2>1. CASE Asks(q) \/ call[q].want.op # "budget"
    BY <2>1, RaisesElsewhere
  <2>2. CASE ~Asks(q) /\ call[q].want.op = "budget"
    BY <2>2, RaisesBudget
  <2>. QED BY <2>1, <2>2
<1>. QED BY <1>1, <1>2, <1>3 DEF Steady, RoutesInv

LEMMA StillKeeps ==
    ASSUME RoutesInv, RoutesTypeOK', \A p \in Posts : Post(p)', UNCHANGED <<record, call>>
    PROVE  RoutesInv'
<1>1. \A d : Raised(d)' = Raised(d)
  BY DEF Raised
<1>2. RaisesFit' /\ RaisesDiffer'
  <2>1. ASSUME NEW p \in Posts, Full(p)' PROVE RaiseFits(p)'
    <3>1. Full(p) /\ RaiseFits(p)
      BY <2>1 DEF RoutesInv, RaisesFit, Full
    <3>2. Raised(call[p].room)' = Raised(call[p].room)
      BY DEF Raised
    <3>. QED BY <3>1, <3>2 DEF RaiseFits, At, Answered
  <2>. QED BY <2>1 DEF RoutesInv, RaisesFit, RaisesDiffer, Answered
<1>. QED BY <1>2 DEF RoutesInv

LEMMA RoutesInvInit == RoutesInit => RoutesInv
<1>. SUFFICES ASSUME RoutesInit PROVE RoutesInv
  OBVIOUS
<1>1. PICK guests \in SUBSET {Foreign}, a \in RunnableAgents :
         room = [c \in Rooms |->
                   IF c = Earlier THEN [members |-> guests \cup {a}, open |-> TRUE, title |-> "old", maker |-> NoOne] ELSE NoRoom]
  BY DEF RoutesInit
<1>. DEFINE r == [members |-> guests \cup {a}, open |-> TRUE, title |-> "old", maker |-> NoOne]
<1>2. /\ record = [c \in Rooms |-> <<>>] /\ holder = [c \in Rooms |-> NoOne] /\ call = [q \in Posts |-> Unasked]
      /\ turn = [c \in Rooms |-> [b \in RunnableAgents |-> NoTurn]]
      /\ passed = [q \in Posts |-> [b \in RunnableAgents |-> 0]]
  BY DEF RoutesInit
<1>3. r \in Manifests /\ r.maker = NoOne
  BY DEF Manifests, Names
<1>4. \A c \in Rooms : room[c] = IF c = Earlier THEN r ELSE NoRoom
  BY <1>1
<1>. HIDE DEF r
<1>5. RoutesTypeOK
  <2>1. room \in [Rooms -> Manifests \cup {NoRoom}]
    BY <1>1, <1>3 DEF r
  <2>. QED BY <1>2, <2>1 DEF RoutesTypeOK
<1>6. ASSUME NEW q \in Posts PROVE Post(q) /\ ~Full(q) /\ ~Answered(q, {200})
  <2>1. call[q].at = "idle"
    BY <1>2 DEF Unasked
  <2>2. ~Full(q) /\ ~Answered(q, {200}) /\ ~Succeeded(q) /\ call[q].at \notin After \cup {"recording", "joining", "looking_back"}
    BY <2>1 DEF Full, Calls, Before, After, Answered, Succeeded, At
  <2>3. Unrecorded(q)
    <3>1. ASSUME NEW c \in Rooms PROVE Times(q, c) = 0
      <4>1. Len(record[c]) = 0
        BY <1>2
      <4>2. \A i \in 1..Len(record[c]) : record[c][i] # q
        BY <4>1
      <4>. QED BY <1>5, <4>2, TimesIs
    <3>. QED BY <3>1 DEF Unrecorded
  <2>4. Recorded(q)
    BY <2>1, <2>2, <2>3 DEF Recorded, Answered
  <2>5. Made(q)
    <3>1. \A d \in Rooms : room[d] # NoRoom => room[d].maker # q
      BY <1>3, <1>4, RoutesAssumption
    <3>. QED BY <2>2, <3>1 DEF Made, At
  <2>6. Passed(q)
    BY <1>2 DEF Passed
  <2>. QED BY <2>2, <2>4, <2>5, <2>6 DEF Post
<1>. QED BY <1>5, <1>6 DEF RoutesInv, RaisesFit, RaisesDiffer

LEMMA RoutesInvStep == RoutesInv /\ [RoutesNext]_routeVars => RoutesInv'
<1>. SUFFICES ASSUME RoutesInv, [RoutesNext]_routeVars PROVE RoutesInv'
  OBVIOUS
<1>1. ASSUME NEW q \in Posts, RouteStep(q) PROVE RoutesInv'
  <2>1. CASE RecordFails(q)
    BY <2>1, ProcessKeeps
  <2>2. CASE ~RecordFails(q)
    BY <1>1, <2>2, RequestKeeps
  <2>. QED BY <2>1, <2>2
<1>2. ASSUME NEW c \in Rooms, OthersLock(c) \/ OthersChange(c) \/ Triage(c) PROVE RoutesInv'
  <2>1. UNCHANGED <<record, call, turn, passed>>
    BY <1>2 DEF OthersLock, OthersChange, Triage
  <2>2. RoutesTypeOK' /\ \A p \in Posts : Post(p)'
    BY <1>2, <2>1, OthersKeep
  <2>. QED BY <2>1, <2>2, StillKeeps
<1>3. CASE UNCHANGED routeVars
  <2>1. UNCHANGED <<room, record, holder, call, turn, passed>>
    BY <1>3 DEF routeVars
  <2>2. RoutesTypeOK' /\ RoutesTypeOK /\ \A p \in Posts : Post(p)
    BY <2>1 DEF RoutesInv, RoutesTypeOK
  <2>3. RecordsGrow /\ RoomsGrow /\ \A p \in Posts : Undisturbed(p)
    <3>1. RecordsGrow /\ \A p \in Posts : SameTimes(p)
      BY <2>1, <2>2, TimesKept DEF SameTimes
    <3>. QED BY <2>1, <3>1 DEF RoomsGrow, Undisturbed, NoneMadeBy
  <2>4. \A p \in Posts : Post(p)'
    BY <2>2, <2>3, UndisturbedKeeps
  <2>. QED BY <2>1, <2>2, <2>4, StillKeeps
<1>. QED BY <1>1, <1>2, <1>3 DEF RoutesNext

LEMMA AnswersFit == RoutesInv => AnsweredIsSo
<1>. SUFFICES ASSUME RoutesInv PROVE AnsweredIsSo
  OBVIOUS
<1>1. RoutesTypeOK /\ RaisesDiffer /\ \A q \in Posts : Post(q) /\ Recorded(q)
  BY DEF RoutesInv, Post
<1>2. ASSUME NEW q \in Posts, Answered(q, {200, 201})
      PROVE  LET c == call[q]
                 silent == c.want.op = "attach" \/ (c.want.op \in Managing /\ ~c.changed)
             IN  /\ \A d \in Rooms : Times(q, d) = (IF d = c.room /\ ~silent THEN 1 ELSE 0)
                 /\ Creates(c.want) <=> room[c.room].maker = q
                 /\ Creates(c.want) => Audience(c.want) \subseteq room[c.room].members
                 /\ c.want.op = "message" => ToSet(Recipients[c.want.text]) \subseteq room[c.room].members
                 /\ \A t \in c.told : t[2] \in {"steered", "completed"} => passed[q][t[1]] > 0
  <2>1. Succeeded(q) /\ Full(q)
    BY <1>1, <1>2, FullIs DEF Answered, Succeeded, At
  <2>2. HasRoom(q) /\ Made(q) /\ Knows(q)
    BY <1>1, <2>1 DEF Post, Placed
  <2>3. \A d \in Rooms : Times(q, d) = IF d = call[q].room /\ ~Silent(call[q]) THEN 1 ELSE 0
    BY <1>1, <2>1 DEF Recorded, Unrecorded, RecordedOnce
  <2>4. \A d \in Rooms : Times(q, d) = (IF d = call[q].room /\ ~(call[q].want.op = "attach" \/ (call[q].want.op \in Managing /\ ~call[q].changed)) THEN 1 ELSE 0)
    BY <2>3 DEF Silent
  <2>5. /\ Creates(call[q].want) <=> room[call[q].room].maker = q
        /\ Creates(call[q].want) => Audience(call[q].want) \subseteq room[call[q].room].members
    BY <2>1, <2>2 DEF Made, HasRoom
  <2>6. call[q].want.op = "message" => ToSet(Recipients[call[q].want.text]) \subseteq room[call[q].room].members
    BY <2>1, <2>2 DEF Made
  <2>7. \A t \in call[q].told : t[2] \in {"steered", "completed"} => passed[q][t[1]] > 0
    BY <2>2 DEF Knows
  <2>. QED BY <2>4, <2>5, <2>6, <2>7
<1>3. \A q \in Posts :
          /\ Answered(q, {404}) => Unrecorded(q)
          /\ Answered(q, {400}) /\ call[q].want.op # "budget" => Unrecorded(q)
          /\ Answered(q, {409}) /\ call[q].left = <<>> /\ ~call[q].crossed => Unrecorded(q)
  BY <1>1 DEF Recorded
<1>. QED BY <1>1, <1>2, <1>3 DEF AnsweredIsSo, RaisesDiffer

LEMMA GivenFit == RoutesInv => GivenOnceToMembers
<1>. SUFFICES ASSUME RoutesInv, NEW q \in Posts, NEW a \in RunnableAgents, passed[q][a] > 0
              PROVE  /\ passed[q][a] = 1
                     /\ \E c \in Rooms : room[c] # NoRoom /\ a \in room[c].members /\ Times(q, c) = 1
                     /\ call[q].at # "lost" => q \notin ToSet(Context(q))
                     /\ call[q].at # "lost" /\ call[q].want.op = "message" =>
                           LET names == ToSet(Recipients[call[q].want.text])
                           IN  IF names = {} THEN call[q].seen = {a} ELSE a \in names
  BY DEF GivenOnceToMembers
<1>1. RoutesTypeOK /\ Post(q) /\ Passed(q)
  BY DEF RoutesInv, Post
<1>2. passed[q][a] = 1
  <2>1. passed[q][a] \in Nat /\ passed[q][a] <= 1
    BY <1>1 DEF RoutesTypeOK, Passed
  <2>. QED BY <2>1
<1>3. \E c \in Rooms : room[c] # NoRoom /\ a \in room[c].members /\ Times(q, c) = 1
  BY <1>1 DEF Passed
<1>4. ASSUME call[q].at # "lost" PROVE call[q].room \in Rooms /\ Named(call[q], a) /\ Full(q)
  <2>1. call[q].at # "idle"
    BY <1>1, <1>2 DEF Passed
  <2>. QED BY <1>1, <1>4, <2>1, FullIs DEF Passed, At
<1>5. ASSUME call[q].at # "lost" PROVE q \notin ToSet(Context(q))
  <2>. DEFINE events == record[call[q].room]
              n == call[q].prior
  <2>1. events \in Seq(Posts) /\ n \in Nat /\ Knows(q)
    BY <1>1, <1>4, <1>5 DEF RoutesTypeOK, Full, Calls, Post
  <2>2. Len(events) \in Nat /\ \A i \in 1..n : i <= Len(events) /\ events[i] # q
    BY <2>1 DEF Knows
  <2>3. n \in 0..Len(events)
    <3>1. n = 0 \/ n \in 1..n
      BY <2>1
    <3>. QED BY <2>1, <2>2, <3>1
  <2>4. /\ SubSeq(events, 1, n) \in Seq(Posts)
        /\ ToSet(SubSeq(events, 1, n)) = {events[i] : i \in 1..n}
    <3>. HIDE DEF events, n
    <3>. QED BY <2>1, <2>3, BeginningIs
  <2>5. ToSet(SelectDurableTranscript(SubSeq(events, 1, n))) \subseteq ToSet(SubSeq(events, 1, n))
    <3>. HIDE DEF events, n
    <3>. QED BY <2>4, SelectedAreEvents
  <2>6. Context(q) = SelectDurableTranscript(SubSeq(events, 1, n))
    BY DEF Context
  <2>. HIDE DEF events, n
  <2>. QED BY <2>2, <2>4, <2>5, <2>6
<1>6. call[q].at # "lost" /\ call[q].want.op = "message" =>
         LET names == ToSet(Recipients[call[q].want.text]) IN IF names = {} THEN call[q].seen = {a} ELSE a \in names
  BY <1>4 DEF Named
<1>. QED BY <1>2, <1>3, <1>5, <1>6

LEMMA RoutesInvHolds == RoutesSpec => []RoutesInv
<1>. QED BY RoutesInvInit, RoutesInvStep, PTL DEF RoutesSpec

\* What a route answers is so, whatever other requests, other devices and failing
\* runs do between its steps: a success is recorded once and where it says, a
\* refusal has left nothing, and no two raises were granted on the same budget.
THEOREM AnswersAreSo == RoutesSpec => []AnsweredIsSo
<1>. QED BY RoutesInvHolds, AnswersFit, PTL

\* A message reaches each agent once at most, only members it names, and is never
\* part of the context it is given with, though it may be steered, dispatched, or
\* fail after it was handed over.
THEOREM EachIsGivenOnce == RoutesSpec => []GivenOnceToMembers
<1>. QED BY RoutesInvHolds, GivenFit, PTL
=============================================================================
