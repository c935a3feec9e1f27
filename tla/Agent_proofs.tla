----------------------------- MODULE Agent_proofs -----------------------------
(***************************************************************************)
(* What agents leave behind.  The files of one conversation: the lock is   *)
(* held by one caller at a time, nobody else changes the manifest          *)
(* meanwhile, event files fill the numbers from the first on, and so the   *)
(* files keep what ConversationRecord promises; every handoff they record  *)
(* was within the budget in front of it.  What the tools write into the    *)
(* vault and send on to the steward's other channels (VaultRecords).  And  *)
(* what another model may be asked to do again, in an interactive session  *)
(* and for a program's request (AgentSession and BoundedRun, put together  *)
(* by MCAgent).                                                            *)
(***************************************************************************)
EXTENDS ConversationStore, MCAgent, FiniteSetTheorems, SequenceTheorems, WellFoundedInduction, TLAPS

\* Between taking the lock and giving it back.
LockedStages == {"locked", "planning", "joining", "replacing", "listing", "linking", "releasing"}

\* What an append may write.
Drafts == Messages \cup Edges \cup LifecycleEvents \cup RenameEvents \cup BudgetUpdates

Types ==
    /\ manifest \in Manifest
    /\ events \in [Slots -> Drafts \cup {Nothing}]
    /\ stage \in [Callers -> Stages]
    /\ seen \in [Callers -> Manifest \cup {Nothing}]
    /\ draft \in [Callers -> Drafts \cup {Nothing}]
    /\ number \in [Callers -> Slots \cup {0}]

\* A caller that works under the lock has it.
LockHeld == \A c \in Callers : Locks(c) /\ stage[c] \in LockedStages => lock = c

\* Each stage belongs to some operations only.
StagesFit ==
    \A c \in Callers :
        /\ stage[c] \in {"locked", "planning", "joining", "replacing", "releasing"} => Locks(c)
        /\ stage[c] = "planning" => Task[c].op \in {"handoff", "budget"}
        /\ stage[c] = "joining" => Task[c].op = "handoff"
        /\ stage[c] = "replacing" => Task[c].op \in {"join", "handoff", "archive", "reopen", "rename"}

\* What a caller is about to write over the manifest was read from it as it is.
SeenIsCurrent == \A c \in Callers : stage[c] = "replacing" => seen[c] = manifest

\* A handoff or budget call that goes on does so in an open conversation.
WorkIsOpen ==
    \A c \in Callers :
        /\ Task[c].op \in {"handoff", "budget"}
        /\ stage[c] \in {"planning", "joining", "replacing", "listing", "linking"}
        => manifest.status = "open"

\* What a caller appends is an event, and work only from a call that is work.
DraftsFit ==
    \A c \in Callers : stage[c] \in {"listing", "linking"} =>
        /\ draft[c] \in Drafts
        /\ ContinuesWork(draft[c]) => Task[c].op \in {"handoff", "budget"}

\* The first n slots are taken.
Filled(n) == \A s \in Slots : (events[s] = Nothing) <=> (s > n)

\* A number an append tries is at most the first blank one.
NumbersFit(n) == \A c \in Callers : stage[c] = "linking" => number[c] \in Slots /\ number[c] <= n + 1

NoGaps == \E n \in Slots : Filled(n) /\ NumbersFit(n)

StoreInv ==
    /\ Types /\ LockHeld /\ StagesFit /\ SeenIsCurrent /\ WorkIsOpen /\ DraftsFit /\ NoGaps

-----------------------------------------------------------------------------

LEMMA SlotFacts == \E k \in Nat \ {0} : Slots = 1..k
BY StoreAssumption

LEMMA TaskFacts ==
    ASSUME NEW c \in Callers
    PROVE  /\ Task[c] \in Calls
           /\ Task[c].op \in {"join", "archive", "reopen", "rename", "budget", "handoff", "post"}
           /\ Task[c].op = "join" => Task[c].who \in SUBSET Agents
           /\ Task[c].op = "rename" => Task[c].title \in Titles
           /\ Task[c].op = "handoff" => Task[c].from \in Agents /\ Task[c].to \in Agents
           /\ Task[c].op = "budget" => /\ Task[c].expected \in Limits
                                       /\ Task[c].raise \in Limits
<1>1. Task[c] \in Calls
    BY StoreAssumption
<1>. QED BY <1>1 DEF Calls, Limits

LEMMA NothingElse == Nothing \notin Drafts /\ Nothing \notin Manifest
BY StoreAssumption DEF Drafts, Event

LEMMA MovesTypes ==
    ASSUME NEW c \in Callers, NEW s \in Stages, Types, Moves(c, s)
    PROVE  /\ stage' \in [Callers -> Stages]
           /\ stage'[c] = s
           /\ \A b \in Callers \ {c} : stage'[b] = stage[b]
BY DEF Types, Moves

(* What an operation makes of a manifest changes one field of it.          *)
LEMMA ChangedFacts ==
    ASSUME NEW c \in Callers, NEW m \in Manifest,
           Task[c].op \in {"join", "handoff", "archive", "reopen", "rename"}
    PROVE  LET new == Changed(c, m)
           IN  /\ new \in Manifest
               /\ \/ /\ m.audience \subseteq new.audience
                     /\ new.status = m.status /\ new.title = m.title
                  \/ /\ Task[c].op \in {"archive", "reopen"}
                     /\ new.audience = m.audience /\ new.title = m.title
                  \/ new.audience = m.audience /\ new.status = m.status
<1>1. CASE Task[c].op = "join"
    BY <1>1, TaskFacts DEF Changed, Manifest
<1>2. CASE Task[c].op = "handoff"
    BY <1>2, TaskFacts DEF Changed, Manifest
<1>3. CASE Task[c].op = "archive"
    BY <1>3 DEF Changed, Manifest, ConversationStatuses
<1>4. CASE Task[c].op = "reopen"
    BY <1>4 DEF Changed, Manifest, ConversationStatuses
<1>5. CASE Task[c].op = "rename"
    BY <1>5, TaskFacts DEF Changed, Manifest
<1>. QED BY <1>1, <1>2, <1>3, <1>4, <1>5

(* The slots stay filled, and the numbers tried stay within reach, when     *)
(* nothing is written and nobody takes a number.                            *)
LEMMA NoGapsKept ==
    ASSUME StoreInv, NEW c \in Callers, NEW s \in Stages \ {"linking"},
           Moves(c, s), UNCHANGED <<events, number>>
    PROVE  NoGaps'
<1>1. PICK n \in Slots : Filled(n) /\ NumbersFit(n)
    BY DEF StoreInv, NoGaps
<1>2. Filled(n)'
    BY <1>1 DEF Filled
<1>3. NumbersFit(n)'
    BY <1>1, MovesTypes DEF NumbersFit, StoreInv
<1>. QED BY <1>2, <1>3 DEF NoGaps

LEMMA StoreStarts == StoreInit => StoreInv
<1>. SUFFICES ASSUME StoreInit PROVE StoreInv
    OBVIOUS
<1>1. Types
    <2>1. [kind |-> "message", by |-> Author] \in Drafts
        BY DEF Drafts, Messages
    <2>. QED BY <2>1, StoreAssumption DEF StoreInit, Types, Stages
<1>2. LockHeld /\ StagesFit /\ SeenIsCurrent /\ WorkIsOpen /\ DraftsFit
    BY DEF StoreInit, LockHeld, StagesFit, SeenIsCurrent, WorkIsOpen, DraftsFit, LockedStages
<1>3. NoGaps
    <2>1. 1 \in Slots /\ Slots \subseteq Nat \ {0}
        BY SlotFacts
    <2>2. [kind |-> "message", by |-> Author] # Nothing
        BY NothingElse DEF Drafts, Messages
    <2>3. Filled(1)
        BY <2>1, <2>2 DEF StoreInit, Filled
    <2>4. NumbersFit(1)
        BY DEF StoreInit, NumbersFit
    <2>. QED BY <2>1, <2>3, <2>4 DEF NoGaps
<1>. QED BY <1>1, <1>2, <1>3 DEF StoreInv

(* Steps that move one call on and change nothing but the lock, what it     *)
(* read, or what it will append.                                            *)
LEMMA QuietStep ==
    ASSUME StoreInv, NEW c \in Callers,
           \/ Acquire(c) \/ Busy(c) \/ Release(c) \/ ReadToChange(c) \/ ReadUnderLock(c)
           \/ ReadOpen(c) \/ PlanHandoff(c) \/ PlanBudget(c) \/ Post(c) \/ Die(c)
    PROVE  StoreInv'
<1>1. CASE Acquire(c)
    <2>1. Moves(c, "locked") /\ "locked" \in Stages \ {"linking"}
        BY <1>1 DEF Acquire, Stages
    <2>2. Types'
        BY <1>1, <2>1, MovesTypes DEF Acquire, StoreInv, Types
    <2>3. LockHeld'
        BY <1>1, <2>1, MovesTypes, StoreAssumption DEF Acquire, StoreInv, LockHeld, Locks
    <2>4. StagesFit' /\ SeenIsCurrent' /\ WorkIsOpen' /\ DraftsFit'
        BY <1>1, <2>1, MovesTypes
        DEF Acquire, StoreInv, StagesFit, SeenIsCurrent, WorkIsOpen, DraftsFit, Locks
    <2>5. NoGaps'
        BY <1>1, <2>1, NoGapsKept DEF Acquire
    <2>. QED BY <2>2, <2>3, <2>4, <2>5 DEF StoreInv
<1>2. CASE Busy(c)
    <2>1. Moves(c, "refused") /\ "refused" \in Stages \ {"linking"}
        BY <1>2 DEF Busy, Stages
    <2>2. Types'
        BY <1>2, <2>1, MovesTypes DEF Busy, StoreInv, Types
    <2>3. LockHeld' /\ StagesFit' /\ SeenIsCurrent' /\ WorkIsOpen' /\ DraftsFit'
        BY <1>2, <2>1, MovesTypes
        DEF Busy, StoreInv, LockHeld, LockedStages, StagesFit, SeenIsCurrent, WorkIsOpen, DraftsFit, Locks
    <2>5. NoGaps'
        BY <1>2, <2>1, NoGapsKept DEF Busy
    <2>. QED BY <2>2, <2>3, <2>5 DEF StoreInv
<1>3. CASE Release(c)
    <2>1. Moves(c, "done") /\ "done" \in Stages \ {"linking"}
        BY <1>3 DEF Release, Stages
    <2>2. Types'
        BY <1>3, <2>1, MovesTypes DEF Release, StoreInv, Types
    <2>3. LockHeld'
        BY <1>3, <2>1, MovesTypes, StoreAssumption
        DEF Release, StoreInv, LockHeld, LockedStages, Locks, StagesFit
    <2>4. StagesFit' /\ SeenIsCurrent' /\ WorkIsOpen' /\ DraftsFit'
        BY <1>3, <2>1, MovesTypes
        DEF Release, StoreInv, StagesFit, SeenIsCurrent, WorkIsOpen, DraftsFit, Locks
    <2>5. NoGaps'
        BY <1>3, <2>1, NoGapsKept DEF Release
    <2>. QED BY <2>2, <2>3, <2>4, <2>5 DEF StoreInv
<1>4. CASE ReadToChange(c)
    <2>1. PICK s \in {"releasing", "replacing"} : Moves(c, s)
        BY <1>4 DEF ReadToChange
    <2>2. s \in Stages \ {"linking"}
        BY <2>1 DEF Stages
    <2>3. Types'
        BY <1>4, <2>1, <2>2, MovesTypes DEF ReadToChange, StoreInv, Types
    <2>4. LockHeld' /\ StagesFit'
        BY <1>4, <2>1, <2>2, MovesTypes
        DEF ReadToChange, StoreInv, LockHeld, LockedStages, StagesFit, Locks
    <2>5. SeenIsCurrent' /\ WorkIsOpen' /\ DraftsFit'
        BY <1>4, <2>1, <2>2, MovesTypes
        DEF ReadToChange, StoreInv, Types, SeenIsCurrent, WorkIsOpen, DraftsFit
    <2>6. NoGaps'
        BY <1>4, <2>1, <2>2, NoGapsKept DEF ReadToChange
    <2>. QED BY <2>3, <2>4, <2>5, <2>6 DEF StoreInv
<1>5. CASE ReadUnderLock(c)
    <2>1. PICK s \in {"releasing", "replacing"} :
              Moves(c, s) /\ (s = "replacing" => seen' = [seen EXCEPT ![c] = manifest])
                          /\ (s = "releasing" => seen' = seen)
        BY <1>5 DEF ReadUnderLock
    <2>2. s \in Stages \ {"linking"}
        BY <2>1 DEF Stages
    <2>3. Types'
        BY <1>5, <2>1, <2>2, MovesTypes DEF ReadUnderLock, StoreInv, Types
    <2>4. LockHeld' /\ StagesFit'
        BY <1>5, <2>1, <2>2, MovesTypes
        DEF ReadUnderLock, StoreInv, LockHeld, LockedStages, StagesFit, Locks
    <2>5. SeenIsCurrent' /\ WorkIsOpen' /\ DraftsFit'
        BY <1>5, <2>1, <2>2, MovesTypes
        DEF ReadUnderLock, StoreInv, Types, SeenIsCurrent, WorkIsOpen, DraftsFit, StagesFit
    <2>6. NoGaps'
        BY <1>5, <2>1, <2>2, NoGapsKept DEF ReadUnderLock
    <2>. QED BY <2>3, <2>4, <2>5, <2>6 DEF StoreInv
<1>6. CASE ReadOpen(c)
    <2>1. PICK s \in {"planning", "releasing"} :
              Moves(c, s) /\ (s = "planning" => manifest.status = "open")
        BY <1>6 DEF ReadOpen
    <2>2. s \in Stages \ {"linking"}
        BY <2>1 DEF Stages
    <2>3. Types'
        BY <1>6, <2>1, <2>2, MovesTypes DEF ReadOpen, StoreInv, Types
    <2>4. LockHeld' /\ StagesFit'
        BY <1>6, <2>1, <2>2, MovesTypes
        DEF ReadOpen, StoreInv, LockHeld, LockedStages, StagesFit, Locks
    <2>5. SeenIsCurrent' /\ WorkIsOpen' /\ DraftsFit'
        BY <1>6, <2>1, <2>2, MovesTypes
        DEF ReadOpen, StoreInv, Types, SeenIsCurrent, WorkIsOpen, DraftsFit
    <2>6. NoGaps'
        BY <1>6, <2>1, <2>2, NoGapsKept DEF ReadOpen
    <2>. QED BY <2>3, <2>4, <2>5, <2>6 DEF StoreInv
<1>7. CASE PlanHandoff(c)
    <2>1. PICK s \in {"joining", "releasing"} : Moves(c, s)
        BY <1>7 DEF PlanHandoff
    <2>2. s \in Stages \ {"linking"}
        BY <2>1 DEF Stages
    <2>3. Types'
        BY <1>7, <2>1, <2>2, MovesTypes DEF PlanHandoff, StoreInv, Types
    <2>4. LockHeld' /\ StagesFit'
        BY <1>7, <2>1, <2>2, MovesTypes
        DEF PlanHandoff, StoreInv, LockHeld, LockedStages, StagesFit, Locks
    <2>5. SeenIsCurrent' /\ WorkIsOpen' /\ DraftsFit'
        BY <1>7, <2>1, <2>2, MovesTypes
        DEF PlanHandoff, StoreInv, Types, SeenIsCurrent, WorkIsOpen, DraftsFit
    <2>6. NoGaps'
        BY <1>7, <2>1, <2>2, NoGapsKept DEF PlanHandoff
    <2>. QED BY <2>3, <2>4, <2>5, <2>6 DEF StoreInv
<1>8. CASE PlanBudget(c)
    <2>1. CASE draft' = draft /\ Moves(c, "releasing")
        <3>1. "releasing" \in Stages \ {"linking"}
            BY DEF Stages
        <3>2. Types'
            BY <1>8, <2>1, <3>1, MovesTypes DEF PlanBudget, StoreInv, Types
        <3>3. LockHeld' /\ StagesFit' /\ SeenIsCurrent' /\ WorkIsOpen' /\ DraftsFit'
            BY <1>8, <2>1, <3>1, MovesTypes
            DEF PlanBudget, StoreInv, LockHeld, LockedStages, StagesFit, SeenIsCurrent,
                WorkIsOpen, DraftsFit, Locks
        <3>4. NoGaps'
            BY <1>8, <2>1, <3>1, NoGapsKept DEF PlanBudget
        <3>. QED BY <3>2, <3>3, <3>4 DEF StoreInv
    <2>2. CASE ~(draft' = draft /\ Moves(c, "releasing"))
        <3> DEFINE limits == EffectiveLimits(events)
                   raise  == Task[c].raise
                   update == [kind   |-> "handoff_budget_updated",
                              change |-> [d \in Dimensions |->
                                            [from |-> IF raise[d] = 0 THEN 0 ELSE limits[d],
                                             to   |-> raise[d]]]]
        <3> HIDE DEF limits
        <3>1. /\ Task[c].expected = limits
              /\ draft' = [draft EXCEPT ![c] = update]
              /\ Moves(c, "listing")
              /\ Task[c].op = "budget" /\ stage[c] = "planning"
              /\ UNCHANGED <<manifest, events, lock, seen, number>>
            BY <1>8, <2>2 DEF PlanBudget, limits
        <3>2. limits \in Limits /\ raise \in Limits
            BY <3>1, TaskFacts
        <3>3. update \in Drafts
            BY <3>2 DEF Drafts, BudgetUpdates, Limits
        <3> HIDE DEF update
        <3>4. "listing" \in Stages \ {"linking"}
            BY DEF Stages
        <3>5. Types'
            BY <3>1, <3>3, <3>4, MovesTypes DEF StoreInv, Types
        <3>6. LockHeld' /\ StagesFit' /\ SeenIsCurrent' /\ WorkIsOpen'
            BY <3>1, <3>4, MovesTypes
            DEF StoreInv, LockHeld, LockedStages, StagesFit, SeenIsCurrent, WorkIsOpen, Locks
        <3>7. DraftsFit'
            BY <3>1, <3>3, <3>4, MovesTypes DEF StoreInv, Types, DraftsFit
        <3>8. NoGaps'
            BY <3>1, <3>4, NoGapsKept
        <3>. QED BY <3>5, <3>6, <3>7, <3>8 DEF StoreInv
    <2>. QED BY <2>1, <2>2
<1>9. CASE Post(c)
    <2> DEFINE message == [kind |-> "message", by |-> c]
    <2>1. message \in Drafts /\ ~ContinuesWork(message)
        BY DEF Drafts, Messages, ContinuesWork
    <2>2. /\ draft' = [draft EXCEPT ![c] = message]
          /\ Moves(c, "listing") /\ stage[c] = "new" /\ Task[c].op = "post"
          /\ UNCHANGED <<manifest, events, lock, seen, number>>
        BY <1>9 DEF Post, Locks
    <2> HIDE DEF message
    <2>3. "listing" \in Stages \ {"linking"}
        BY DEF Stages
    <2>4. Types'
        BY <2>1, <2>2, <2>3, MovesTypes DEF StoreInv, Types
    <2>5. LockHeld' /\ StagesFit' /\ SeenIsCurrent' /\ WorkIsOpen'
        BY <2>2, <2>3, MovesTypes
        DEF StoreInv, LockHeld, StagesFit, SeenIsCurrent, WorkIsOpen, Locks
    <2>6. DraftsFit'
        BY <2>1, <2>2, <2>3, MovesTypes DEF StoreInv, Types, DraftsFit
    <2>7. NoGaps'
        BY <2>2, <2>3, NoGapsKept
    <2>. QED BY <2>4, <2>5, <2>6, <2>7 DEF StoreInv
<1>10. CASE Die(c)
    <2>1. Moves(c, "dead") /\ "dead" \in Stages \ {"linking"}
        BY <1>10 DEF Die, Stages
    <2>2. Types'
        BY <1>10, <2>1, MovesTypes DEF Die, StoreInv, Types
    <2>3. LockHeld' /\ StagesFit' /\ SeenIsCurrent' /\ WorkIsOpen' /\ DraftsFit'
        BY <1>10, <2>1, MovesTypes
        DEF Die, StoreInv, LockHeld, LockedStages, StagesFit, SeenIsCurrent, WorkIsOpen, DraftsFit, Locks
    <2>4. NoGaps'
        BY <1>10, <2>1, NoGapsKept DEF Die
    <2>. QED BY <2>2, <2>3, <2>4 DEF StoreInv
<1>. QED BY <1>1, <1>2, <1>3, <1>4, <1>5, <1>6, <1>7, <1>8, <1>9, <1>10

(* A rename over the manifest changes it from what it is now.               *)
LEMMA ReplaceStep ==
    ASSUME StoreInv, NEW c \in Callers, Replace(c)
    PROVE  /\ StoreInv'
           /\ manifest' = Changed(c, manifest)
           /\ Task[c].op \in {"join", "handoff", "archive", "reopen", "rename"}
<1>1. /\ Task[c].op \in {"join", "handoff", "archive", "reopen", "rename"}
      /\ manifest' = Changed(c, manifest)
      /\ manifest \in Manifest /\ stage[c] = "replacing" /\ Locks(c) /\ lock = c
    BY DEF Replace, StoreInv, Types, StagesFit, SeenIsCurrent, LockHeld, LockedStages
<1>2. manifest' \in Manifest
    BY <1>1, ChangedFacts
<1>3. manifest'.status = manifest.status \/ Task[c].op \in {"archive", "reopen"}
    BY <1>1, ChangedFacts
<1>4. PICK s \in {"releasing", "listing"} :
          /\ Moves(c, s)
          /\ s = "releasing" => draft' = draft
          /\ s = "listing" => draft' = [draft EXCEPT ![c] = Told(c)] /\ Task[c].op # "join"
    BY DEF Replace
<1>5. s \in Stages \ {"linking"}
    BY <1>4 DEF Stages
<1>6. Task[c].op # "join" =>
          /\ Told(c) \in Drafts
          /\ ContinuesWork(Told(c)) => Task[c].op = "handoff"
    <2>1. CASE Task[c].op = "archive"
        BY <2>1 DEF Told, Drafts, LifecycleEvents, ConversationStatuses, ContinuesWork
    <2>2. CASE Task[c].op = "reopen"
        BY <2>2 DEF Told, Drafts, LifecycleEvents, ConversationStatuses, ContinuesWork
    <2>3. CASE Task[c].op = "rename"
        BY <2>3, TaskFacts DEF Told, Drafts, RenameEvents, ContinuesWork
    <2>4. CASE Task[c].op = "handoff"
        BY <2>4, TaskFacts DEF Told, Drafts, Edges, ContinuesWork
    <2>. QED BY <1>1, <2>1, <2>2, <2>3, <2>4
<1>7. Types'
    BY <1>2, <1>4, <1>5, <1>6, MovesTypes DEF Replace, StoreInv, Types
<1>8. LockHeld' /\ StagesFit'
    BY <1>4, <1>5, MovesTypes DEF Replace, StoreInv, LockHeld, LockedStages, StagesFit, Locks
<1>9. SeenIsCurrent'
    <2>. SUFFICES ASSUME NEW b \in Callers, stage'[b] = "replacing" PROVE FALSE
        BY DEF SeenIsCurrent
    <2>1. b # c /\ stage[b] = "replacing"
        BY <1>4, <1>5, MovesTypes DEF StoreInv
    <2>2. lock = b
        BY <2>1 DEF StoreInv, LockHeld, LockedStages, StagesFit
    <2>. QED BY <1>1, <2>1, <2>2
<1>10. WorkIsOpen'
    <2>. SUFFICES ASSUME NEW b \in Callers, Task[b].op \in {"handoff", "budget"},
                         stage'[b] \in {"planning", "joining", "replacing", "listing", "linking"}
                  PROVE  manifest'.status = "open"
        BY DEF WorkIsOpen
    <2>1. CASE b = c
        <3>1. manifest'.status = manifest.status
            BY <1>3, <2>1
        <3>2. manifest.status = "open"
            BY <1>1, <2>1 DEF StoreInv, WorkIsOpen
        <3>. QED BY <3>1, <3>2
    <2>2. CASE b # c
        <3>1. stage[b] = stage'[b]
            BY <1>4, <1>5, <2>2, MovesTypes DEF StoreInv
        <3>2. lock = b
            BY <3>1 DEF StoreInv, LockHeld, LockedStages, Locks
        <3>. QED BY <1>1, <2>2, <3>2
    <2>. QED BY <2>1, <2>2
<1>11. DraftsFit'
    BY <1>4, <1>5, <1>6, MovesTypes DEF Replace, StoreInv, Types, DraftsFit
<1>12. NoGaps'
    BY <1>4, <1>5, NoGapsKept DEF Replace
<1>. QED BY <1>1, <1>7, <1>8, <1>9, <1>10, <1>11, <1>12 DEF StoreInv

(* A listing yields the number after the last one that is taken.            *)
LEMMA ListStep ==
    ASSUME StoreInv, NEW c \in Callers, ListEvents(c)
    PROVE  StoreInv'
<1>1. Moves(c, "linking") /\ "linking" \in Stages
    BY DEF ListEvents, Stages
<1>2. Types'
    BY <1>1, MovesTypes DEF ListEvents, StoreInv, Types
<1>3. LockHeld' /\ StagesFit' /\ SeenIsCurrent' /\ WorkIsOpen' /\ DraftsFit'
    BY <1>1, MovesTypes
    DEF ListEvents, StoreInv, LockHeld, LockedStages, StagesFit, SeenIsCurrent, WorkIsOpen, DraftsFit, Locks
<1>4. NoGaps'
    <2>1. PICK n \in Slots : Filled(n) /\ NumbersFit(n)
        BY DEF StoreInv, NoGaps
    <2>2. PICK k \in Nat \ {0} : Slots = 1..k
        BY SlotFacts
    <2>3. Taken = 1..n
        BY <2>1, <2>2 DEF Taken, Filled
    <2>4. Max(Taken \cup {0}) = n
        <3>1. n \in Nat /\ Taken \cup {0} = 0..n
            BY <2>2, <2>3
        <3>2. n \in 0..n /\ \A y \in 0..n : n >= y
            BY <3>1
        <3>3. Max(0..n) \in 0..n /\ \A y \in 0..n : Max(0..n) >= y
            BY <3>2 DEF Max
        <3>4. Max(0..n) = n
            <4> DEFINE top == Max(0..n)
            <4> HIDE DEF top
            <4>1. top \in 0..n /\ top >= n
                BY <3>2, <3>3 DEF top
            <4>2. top = n
                BY <3>1, <4>1
            <4>. QED BY <4>2 DEF top
        <3>. QED BY <3>1, <3>4
    <2>5. number' = [number EXCEPT ![c] = 1 + n] /\ number'[c] \in Slots
        BY <2>4 DEF ListEvents
    <2>6. NumbersFit(n)'
        BY <1>1, <2>1, <2>2, <2>5, MovesTypes DEF StoreInv, Types, NumbersFit
    <2>7. Filled(n)'
        BY <2>1 DEF Filled, ListEvents
    <2>. QED BY <2>6, <2>7 DEF NoGaps
<1>. QED BY <1>2, <1>3, <1>4 DEF StoreInv

(* A number that is tried and free is the first blank one, and an append    *)
(* to it leaves no gap.                                                     *)
LEMMA WriteStep ==
    ASSUME StoreInv, NEW c \in Callers, stage[c] = "linking", number[c] \notin Taken,
           WriteEvent(c), Moves(c, AfterAppend(c)), UNCHANGED <<manifest, lock, seen, draft, number>>
    PROVE  /\ StoreInv'
           /\ number[c] \in Slots
           /\ \A r \in Slots : (events[r] = Nothing) <=> (r >= number[c])
           /\ events' = [events EXCEPT ![number[c]] = draft[c]]
           /\ draft[c] \in Drafts
           /\ ContinuesWork(draft[c]) => manifest.status = "open"
<1>1. PICK n \in Slots : Filled(n) /\ NumbersFit(n)
    BY DEF StoreInv, NoGaps
<1>2. PICK k \in Nat \ {0} : Slots = 1..k
    BY SlotFacts
<1>3. number[c] \in Slots /\ number[c] = n + 1
    BY <1>1, <1>2 DEF NumbersFit, Filled, Taken
<1>4. \A r \in Slots : (events[r] = Nothing) <=> (r >= number[c])
    BY <1>1, <1>2, <1>3 DEF Filled
<1>5. events' = [events EXCEPT ![number[c]] = draft[c]]
    BY DEF WriteEvent
<1>6. draft[c] \in Drafts /\ (ContinuesWork(draft[c]) => manifest.status = "open")
    BY DEF StoreInv, DraftsFit, WorkIsOpen
<1>7. AfterAppend(c) \in {"releasing", "done"} /\ (AfterAppend(c) = "releasing" => Locks(c))
    BY DEF AfterAppend
<1>8. AfterAppend(c) \in Stages \ {"linking"}
    BY <1>7 DEF Stages
<1>9. Types'
    BY <1>3, <1>5, <1>6, <1>8, MovesTypes DEF StoreInv, Types
<1>10. LockHeld' /\ StagesFit' /\ SeenIsCurrent' /\ WorkIsOpen' /\ DraftsFit'
    <2>1. /\ stage'[c] = AfterAppend(c)
          /\ \A b \in Callers \ {c} : stage'[b] = stage[b]
        BY <1>8, MovesTypes DEF StoreInv
    <2>2. LockHeld' /\ StagesFit'
        BY <1>7, <2>1 DEF StoreInv, LockHeld, LockedStages, StagesFit, Locks
    <2>3. SeenIsCurrent' /\ WorkIsOpen' /\ DraftsFit'
        BY <1>7, <2>1 DEF StoreInv, SeenIsCurrent, WorkIsOpen, DraftsFit
    <2>. QED BY <2>2, <2>3
<1>11. NoGaps'
    <2>1. draft[c] # Nothing
        BY <1>6, NothingElse
    <2>2. Filled(n + 1)'
        <3>1. \A s \in Slots : events'[s] = IF s = number[c] THEN draft[c] ELSE events[s]
            BY <1>3, <1>5 DEF StoreInv, Types
        <3>2. \A s \in Slots : (events'[s] = Nothing) <=> (s > n + 1)
            BY <1>2, <1>3, <1>4, <2>1, <3>1
        <3>. QED BY <3>2 DEF Filled
    <2>3. NumbersFit(n + 1)'
        BY <1>1, <1>2, <1>8, MovesTypes DEF NumbersFit, StoreInv
    <2>. QED BY <1>3, <2>2, <2>3 DEF NoGaps
<1>. QED BY <1>3, <1>4, <1>5, <1>6, <1>9, <1>10, <1>11 DEF StoreInv

(* An append that records nothing.                                          *)
LEMMA NoWriteStep ==
    ASSUME StoreInv, NEW c \in Callers, stage[c] = "linking",
           NEW s \in {AfterAppend(c), "listing"}, Moves(c, s),
           UNCHANGED <<manifest, events, lock, seen, draft, number>>
    PROVE  StoreInv'
<1>1. s \in {"releasing", "done", "listing"} /\ (s = "releasing" => Locks(c))
    BY DEF AfterAppend
<1>2. s \in Stages \ {"linking"}
    BY <1>1 DEF Stages
<1>3. Types'
    BY <1>2, MovesTypes DEF StoreInv, Types
<1>4. LockHeld' /\ StagesFit'
    BY <1>1, <1>2, MovesTypes DEF StoreInv, LockHeld, LockedStages, StagesFit, Locks
<1>5. SeenIsCurrent' /\ WorkIsOpen' /\ DraftsFit'
    BY <1>1, <1>2, MovesTypes DEF StoreInv, SeenIsCurrent, WorkIsOpen, DraftsFit
<1>6. NoGaps'
    BY <1>2, NoGapsKept
<1>. QED BY <1>3, <1>4, <1>5, <1>6 DEF StoreInv

(* Both ways an append may end.                                             *)
LEMMA AppendStep ==
    ASSUME StoreInv, NEW c \in Callers, LinkEvent(c) \/ FailAppend(c)
    PROVE  \/ /\ stage[c] = "linking" /\ number[c] \notin Taken /\ WriteEvent(c)
              /\ Moves(c, AfterAppend(c)) /\ UNCHANGED <<manifest, lock, seen, draft, number>>
           \/ /\ stage[c] = "linking" /\ UNCHANGED <<manifest, events, lock, seen, draft, number>>
              /\ \E s \in {AfterAppend(c), "listing"} : Moves(c, s)
BY DEF LinkEvent, FailAppend

(* Removing a dead caller's lock takes it from no one who works.            *)
LEMMA TriageStep ==
    ASSUME StoreInv, Triage
    PROVE  StoreInv'
<1>1. lock \in Callers /\ stage[lock] = "dead" /\ UNCHANGED <<manifest, events, stage, seen, draft, number>>
    BY StoreAssumption DEF Triage, callVars
<1>2. LockHeld'
    BY <1>1 DEF StoreInv, LockHeld, LockedStages
<1>. QED BY <1>1, <1>2
     DEF StoreInv, Types, StagesFit, SeenIsCurrent, WorkIsOpen, DraftsFit, NoGaps, Filled, NumbersFit

LEMMA StoreStep == StoreInv /\ [StoreNext]_storeVars => StoreInv'
<1>. SUFFICES ASSUME StoreInv, [StoreNext]_storeVars PROVE StoreInv'
    OBVIOUS
<1>1. ASSUME NEW c \in Callers, CallStep(c) \/ Die(c) PROVE StoreInv'
    <2>1. CASE Replace(c)
        BY <2>1, ReplaceStep
    <2>2. CASE ListEvents(c)
        BY <2>2, ListStep
    <2>3. CASE LinkEvent(c) \/ FailAppend(c)
        BY <2>3, AppendStep, WriteStep, NoWriteStep
    <2>4. CASE ~(Replace(c) \/ ListEvents(c) \/ LinkEvent(c) \/ FailAppend(c))
        BY <1>1, <2>4, QuietStep DEF CallStep
    <2>. QED BY <2>1, <2>2, <2>3, <2>4
<1>2. CASE Triage
    BY <1>2, TriageStep
<1>3. CASE UNCHANGED storeVars
    BY <1>3 DEF storeVars, callVars, StoreInv, Types, LockHeld, StagesFit, SeenIsCurrent,
                WorkIsOpen, DraftsFit, NoGaps, Filled, NumbersFit
<1>. QED BY <1>1, <1>2, <1>3 DEF StoreNext, Finished

LEMMA StoreIsSound == StoreSpec => []StoreInv
<1>. QED BY StoreStarts, StoreStep, PTL DEF StoreSpec

-----------------------------------------------------------------------------
(* The refinement.                                                          *)

LEMMA RecordStarts == StoreInit => Record!Init
<1>. SUFFICES ASSUME StoreInit PROVE Record!Init
    OBVIOUS
<1>1. Types /\ NoGaps
    BY StoreStarts DEF StoreInv
<1>. QED BY <1>1 DEF Record!Init, Types, Manifest, NoGaps, Filled

LEMMA RecordStep == StoreInv /\ [StoreNext]_storeVars => [Record!Next]_Record!record
<1>. SUFFICES ASSUME StoreInv, [StoreNext]_storeVars PROVE [Record!Next]_Record!record
    OBVIOUS
<1>. manifest \in Manifest
    BY DEF StoreInv, Types
<1>1. CASE UNCHANGED <<manifest, events>>
    BY <1>1 DEF Record!record
<1>2. ASSUME NEW c \in Callers, Replace(c) PROVE Record!Next
    <2>1. /\ manifest' = Changed(c, manifest) /\ UNCHANGED events
          /\ Task[c].op \in {"join", "handoff", "archive", "reopen", "rename"}
        BY <1>2, ReplaceStep DEF Replace
    <2>2. /\ manifest' \in Manifest
          /\ \/ /\ manifest.audience \subseteq manifest'.audience
                /\ manifest'.status = manifest.status /\ manifest'.title = manifest.title
             \/ manifest'.audience = manifest.audience /\ manifest'.title = manifest.title
             \/ manifest'.audience = manifest.audience /\ manifest'.status = manifest.status
        BY <2>1, ChangedFacts
    <2>3. /\ manifest'.audience \subseteq Agents /\ manifest'.status \in ConversationStatuses
          /\ manifest'.title \in Titles
        BY <2>2 DEF Manifest
    <2>. QED BY <2>1, <2>2, <2>3 DEF Record!Next, Record!Join, Record!Turn, Record!Retitle
<1>3. ASSUME NEW c \in Callers, LinkEvent(c) \/ FailAppend(c), events' # events
      PROVE  Record!Enter
    <2>1. /\ stage[c] = "linking" /\ number[c] \notin Taken /\ WriteEvent(c)
          /\ Moves(c, AfterAppend(c)) /\ UNCHANGED <<manifest, lock, seen, draft, number>>
        BY <1>3, AppendStep
    <2>2. /\ number[c] \in Slots
          /\ \A r \in Slots : (events[r] = Nothing) <=> (r >= number[c])
          /\ events' = [events EXCEPT ![number[c]] = draft[c]]
          /\ draft[c] \in Drafts
          /\ ContinuesWork(draft[c]) => manifest.status = "open"
        BY <2>1, WriteStep
    <2>3. events'[number[c]] = draft[c] /\ draft[c] # Nothing
        BY <2>2, NothingElse DEF StoreInv, Types
    <2>. QED BY <2>1, <2>2, <2>3 DEF Record!Enter
<1>4. \/ UNCHANGED <<manifest, events>>
      \/ \E c \in Callers : Replace(c)
      \/ \E c \in Callers : (LinkEvent(c) \/ FailAppend(c)) /\ UNCHANGED manifest /\ events' # events
    BY DEF StoreNext, CallStep, Die, Triage, Finished, storeVars, Acquire, Busy, Release,
           ReadToChange, ReadUnderLock, ReadOpen, PlanHandoff, PlanBudget, Post, ListEvents,
           LinkEvent, FailAppend
<1>. QED BY <1>1, <1>2, <1>3, <1>4 DEF Record!Next

(* The files of a conversation keep what ConversationRecord promises:       *)
(* members stay, a change of one field takes back no other, events are      *)
(* added one by one and never overwritten, and no handoff and no budget     *)
(* update is entered while it is archived.                                  *)
THEOREM FilesKeepRecord == StoreSpec => RecordSpec
<1>1. StoreInit => Record!Init
    BY RecordStarts
<1>2. StoreInv /\ [StoreNext]_storeVars => [Record!Next]_Record!record
    BY RecordStep
<1>. QED BY <1>1, <1>2, StoreIsSound, PTL DEF StoreSpec, RecordSpec, Record!Spec

-----------------------------------------------------------------------------
(* What a log derives.  Events that are neither handoffs nor budget updates *)
(* make no difference to a plan, nor do numbers without a file.             *)

RaiseFold == INSTANCE FoldInduction WITH Op <- RaiseBy
DepthFold == INSTANCE FoldInduction WITH Op <- AddEdge

LEMMA LimitsFold == \A log : EffectiveLimits(log) = RaiseFold!Folded(BaseLimits, log)
BY DEF EffectiveLimits, RaiseFold!Folded, RaiseFold!FoldLeft, RaiseFold!MapThenFoldSet, RaiseFold!Max,
       FoldLeft, MapThenFoldSet, Max

LEMMA DepthsFold == \A log : Depths(log) = DepthFold!Folded([a \in {RootAgent} |-> 0], log)
BY DEF Depths, DepthFold!Folded, DepthFold!FoldLeft, DepthFold!MapThenFoldSet, DepthFold!Max,
       FoldLeft, MapThenFoldSet, Max

Idle(e) == ~IsOfKind(e, "edge") /\ ~IsOfKind(e, "handoff_budget_updated")

LEMMA IdleIsSkipped ==
    ASSUME NEW e, Idle(e)
    PROVE  RaiseFold!Skipped(e) /\ DepthFold!Skipped(e)
BY DEF Idle, RaiseFold!Skipped, DepthFold!Skipped, RaiseBy, AddEdge

(* Two logs with the same handoffs and budget updates at the same numbers.  *)
Alike(r, q) ==
    /\ Len(r) <= Len(q)
    /\ \A i \in 1..Len(r) : r[i] = q[i] \/ (Idle(r[i]) /\ Idle(q[i]))
    /\ \A i \in 1..Len(q) : i > Len(r) => Idle(q[i])

LEMMA SamePlan ==
    ASSUME NEW V, NEW r \in Seq(V), NEW q \in Seq(V), Alike(r, q), NEW a, NEW b, NEW busy
    PROVE  MayHandOff(r, a, b, busy) <=> MayHandOff(q, a, b, busy)
<1>1. /\ \A i \in 1..Len(r) : r[i] = q[i] \/ (RaiseFold!Skipped(r[i]) /\ RaiseFold!Skipped(q[i]))
      /\ \A i \in 1..Len(q) : i > Len(r) => RaiseFold!Skipped(q[i])
    BY IdleIsSkipped DEF Alike
<1>2. /\ \A i \in 1..Len(r) : r[i] = q[i] \/ (DepthFold!Skipped(r[i]) /\ DepthFold!Skipped(q[i]))
      /\ \A i \in 1..Len(q) : i > Len(r) => DepthFold!Skipped(q[i])
    BY IdleIsSkipped DEF Alike
<1>3. EffectiveLimits(r) = EffectiveLimits(q)
    BY <1>1, LimitsFold, RaiseFold!FoldedSkips DEF Alike
<1>4. Depths(r) = Depths(q)
    BY <1>2, DepthsFold, DepthFold!FoldedSkips DEF Alike
<1>5. EdgesIn(r) = EdgesIn(q) /\ \A i \in EdgesIn(r) : r[i] = q[i]
    <2>1. DOMAIN r = 1..Len(r) /\ DOMAIN q = 1..Len(q) /\ Len(r) \in Nat /\ Len(q) \in Nat
        OBVIOUS
    <2>. QED BY <2>1 DEF EdgesIn, Alike, Idle
<1>6. PairCount(r, a, b) = PairCount(q, a, b)
    <2>1. {n \in EdgesIn(r) : r[n].from = a /\ r[n].to = b} = {n \in EdgesIn(q) : q[n].from = a /\ q[n].to = b}
        BY <1>5
    <2>. QED BY <2>1 DEF PairCount
<1>. QED BY <1>3, <1>4, <1>5, <1>6 DEF MayHandOff

(* Whatever a log holds, well-formed or not, the limits it derives lie      *)
(* between the base limits and the cap.                                     *)
THEOREM LimitsStayWithinCap ==
    ASSUME NEW log \in Seq(Drafts \cup {Nothing}), NEW d \in Dimensions
    PROVE  BaseLimits[d] <= EffectiveLimits(log)[d] /\ EffectiveLimits(log)[d] <= CapLimits[d]
<1>. DEFINE T == {l \in Limits : \A x \in Dimensions : BaseLimits[x] <= l[x] /\ l[x] <= CapLimits[x]}
<1>1. BaseLimits \in T
    BY StoreAssumption DEF Limits
<1>2. ASSUME NEW l \in T, NEW e \in Drafts \cup {Nothing} PROVE RaiseBy(l, e) \in T
    <2>1. CASE ~(IsOfKind(e, "handoff_budget_updated") /\ Counts(l, e))
        BY <2>1 DEF RaiseBy
    <2>2. CASE IsOfKind(e, "handoff_budget_updated") /\ Counts(l, e)
        <3>1. e \in BudgetUpdates
            BY <2>2 DEF IsOfKind, Drafts, Messages, Edges, LifecycleEvents, RenameEvents
        <3>2. \A x \in Dimensions : e.change[x].to \in Nat
            BY <3>1 DEF BudgetUpdates
        <3>3. \A x \in Raised(e) : e.change[x].from = l[x] /\ e.change[x].to > l[x] /\ e.change[x].to <= CapLimits[x]
            BY <2>2 DEF Counts
        <3>. DEFINE r == [x \in Dimensions |-> IF x \in Raised(e) THEN e.change[x].to ELSE l[x]]
        <3>4. RaiseBy(l, e) = r
            BY <2>2 DEF RaiseBy
        <3>5. r \in Limits
            BY <3>2 DEF Limits
        <3>6. ASSUME NEW x \in Dimensions PROVE BaseLimits[x] <= r[x] /\ r[x] <= CapLimits[x]
            <4>1. l[x] \in Nat /\ BaseLimits[x] \in Nat /\ BaseLimits[x] <= l[x] /\ l[x] <= CapLimits[x]
                BY StoreAssumption DEF Limits
            <4>. QED BY <3>2, <3>3, <4>1
        <3>. HIDE DEF r
        <3>. QED BY <3>4, <3>5, <3>6
    <2>. QED BY <2>1, <2>2
<1>. HIDE DEF T
<1>3. RaiseFold!Folded(BaseLimits, log) \in T
    BY <1>1, <1>2, RaiseFold!FoldedKeeps
<1>4. EffectiveLimits(log) \in T
    BY <1>3, LimitsFold
<1>. QED BY <1>4 DEF T

(* The event files as a log.                                                *)
LEMMA FilesAreALog ==
    ASSUME NEW V, NEW log \in [Slots -> V]
    PROVE  /\ log \in Seq(V)
           /\ Slots = 1..Len(log) /\ Len(log) \in Nat
           /\ \A s \in Slots : LET before == SubSeq(log, 1, s - 1)
                               IN  /\ before \in Seq(V) /\ Len(before) = s - 1
                                   /\ \A i \in 1..(s - 1) : before[i] = log[i]
<1>1. PICK k \in Nat \ {0} : Slots = 1..k
    BY SlotFacts
<1>2. log \in Seq(V) /\ Len(log) = k
    BY <1>1
<1>3. ASSUME NEW s \in Slots
      PROVE  /\ SubSeq(log, 1, s - 1) \in Seq(V) /\ Len(SubSeq(log, 1, s - 1)) = s - 1
             /\ \A i \in 1..(s - 1) : SubSeq(log, 1, s - 1)[i] = log[i]
    <2>1. s - 1 \in 0..Len(log)
        BY <1>1, <1>2
    <2>. QED BY <1>2, <2>1
<1>. QED BY <1>1, <1>2, <1>3

-----------------------------------------------------------------------------
(* A handoff that was planned is still allowed when it is recorded: until   *)
(* then only callers without the lock append, and they append messages.     *)

Planned ==
    \A c \in Callers :
        Task[c].op = "handoff" /\ stage[c] \in {"joining", "replacing", "listing", "linking"}
        => MayHandOff(events, Task[c].from, Task[c].to, {})

DraftsTold ==
    \A c \in Callers : stage[c] \in {"listing", "linking"} =>
        /\ Task[c].op = "handoff" => draft[c] = Told(c)
        /\ IsOfKind(draft[c], "edge") => Task[c].op = "handoff"
        /\ ~Locks(c) => draft[c] \in Messages

PlanInv == Planned /\ DraftsTold /\ WithinBudget

LEMMA PlanStarts == StoreInit => PlanInv
<1>. SUFFICES ASSUME StoreInit PROVE PlanInv
    OBVIOUS
<1>1. \A s \in Taken : events[s] = [kind |-> "message", by |-> Author]
    BY DEF StoreInit, Taken
<1>. QED BY <1>1 DEF StoreInit, PlanInv, Planned, DraftsTold, WithinBudget

LEMMA MessagesAreIdle == \A e \in Messages \cup {Nothing} : Idle(e)
BY DEF Idle, IsOfKind, Messages

(* An operation other than a handoff tells no edge.                         *)
LEMMA ToldFits ==
    ASSUME NEW c \in Callers, Task[c].op \in {"handoff", "archive", "reopen", "rename"}
    PROVE  IsOfKind(Told(c), "edge") => Task[c].op = "handoff"
BY DEF Told, IsOfKind

(* Steps that write no event.                                               *)
LEMMA PlanKept ==
    ASSUME StoreInv, PlanInv, NEW c \in Callers, NEW s \in Stages, Moves(c, s), events' = events,
           Task[c].op = "handoff" /\ s \in {"joining", "replacing", "listing", "linking"}
               => MayHandOff(events, Task[c].from, Task[c].to, {}),
           \A b \in Callers \ {c} : draft'[b] = draft[b],
           s \in {"listing", "linking"} =>
               /\ Task[c].op = "handoff" => draft'[c] = Told(c)
               /\ IsOfKind(draft'[c], "edge") => Task[c].op = "handoff"
               /\ ~Locks(c) => draft'[c] \in Messages
    PROVE  PlanInv'
<1>1. stage'[c] = s /\ \A b \in Callers \ {c} : stage'[b] = stage[b]
    BY MovesTypes DEF StoreInv
<1>2. Planned'
    BY <1>1 DEF PlanInv, Planned
<1>3. DraftsTold'
    <2>. SUFFICES ASSUME NEW b \in Callers, stage'[b] \in {"listing", "linking"}
                  PROVE  /\ Task[b].op = "handoff" => draft'[b] = Told(b)
                         /\ IsOfKind(draft'[b], "edge") => Task[b].op = "handoff"
                         /\ ~Locks(b) => draft'[b] \in Messages
        BY DEF DraftsTold, Told, Locks
    <2>1. CASE b = c
        BY <1>1, <2>1
    <2>2. CASE b # c
        BY <1>1, <2>2 DEF PlanInv, DraftsTold
    <2>. QED BY <2>1, <2>2
<1>4. WithinBudget'
    BY DEF PlanInv, WithinBudget, Taken, Before
<1>. QED BY <1>2, <1>3, <1>4 DEF PlanInv

(* Fewer agents that are busy never forbid a handoff.                       *)
LEMMA FewerBusy ==
    ASSUME NEW log, NEW a, NEW b, NEW busy, MayHandOff(log, a, b, busy)
    PROVE  MayHandOff(log, a, b, {})
BY DEF MayHandOff

LEMMA PlanQuiet ==
    ASSUME StoreInv, PlanInv, NEW c \in Callers,
           \/ Acquire(c) \/ Busy(c) \/ Release(c) \/ ReadToChange(c) \/ ReadUnderLock(c) \/ Replace(c)
           \/ ReadOpen(c) \/ PlanHandoff(c) \/ PlanBudget(c) \/ Post(c) \/ ListEvents(c) \/ Die(c)
    PROVE  PlanInv'
<1>1. ASSUME Acquire(c) \/ Busy(c) \/ Release(c) \/ ReadOpen(c) \/ Die(c) PROVE PlanInv'
    <2>1. PICK s \in {"locked", "refused", "done", "planning", "releasing", "dead"} : Moves(c, s)
        BY <1>1 DEF Acquire, Busy, Release, ReadOpen, Die
    <2>2. s \in Stages /\ s \notin {"joining", "replacing", "listing", "linking"}
        BY <2>1 DEF Stages
    <2>3. UNCHANGED <<events, draft>>
        BY <1>1 DEF Acquire, Busy, Release, ReadOpen, Die
    <2>. QED BY <2>1, <2>2, <2>3, PlanKept
<1>2. CASE ReadToChange(c)
    <2>1. PICK s \in {"releasing", "replacing"} : Moves(c, s)
        BY <1>2 DEF ReadToChange
    <2>2. s \in Stages /\ s \notin {"listing", "linking"}
        BY <2>1 DEF Stages
    <2>3. UNCHANGED <<events, draft>> /\ Task[c].op # "handoff"
        BY <1>2 DEF ReadToChange
    <2>. QED BY <2>1, <2>2, <2>3, PlanKept
<1>3. CASE ReadUnderLock(c)
    <2>1. PICK s \in {"releasing", "replacing"} : Moves(c, s)
        BY <1>3 DEF ReadUnderLock
    <2>2. s \in Stages /\ s \notin {"listing", "linking"}
        BY <2>1 DEF Stages
    <2>3. UNCHANGED <<events, draft>> /\ (Task[c].op = "join" \/ stage[c] = "joining")
        BY <1>3 DEF ReadUnderLock
    <2>4. Task[c].op = "handoff" => MayHandOff(events, Task[c].from, Task[c].to, {})
        BY <2>3 DEF PlanInv, Planned
    <2>. QED BY <2>1, <2>2, <2>3, <2>4, PlanKept
<1>4. CASE Replace(c)
    <2>1. Task[c].op \in {"join", "handoff", "archive", "reopen", "rename"}
        BY <1>4 DEF Replace, StoreInv, StagesFit
    <2>2. Task[c].op = "handoff" => MayHandOff(events, Task[c].from, Task[c].to, {})
        BY <1>4 DEF Replace, PlanInv, Planned
    <2>3. CASE Task[c].op = "join"
        <3>1. Moves(c, "releasing") /\ "releasing" \in Stages /\ UNCHANGED <<events, draft>>
            BY <1>4, <2>3 DEF Replace, Stages
        <3>. QED BY <3>1, PlanKept
    <2>4. CASE Task[c].op # "join"
        <3>1. Moves(c, "listing") /\ "listing" \in Stages /\ events' = events
            BY <1>4, <2>4 DEF Replace, Stages
        <3>2. draft'[c] = Told(c) /\ \A b \in Callers \ {c} : draft'[b] = draft[b]
            BY <1>4, <2>4 DEF Replace, StoreInv, Types
        <3>3. Locks(c)
            BY <2>1 DEF Locks
        <3>4. IsOfKind(draft'[c], "edge") => Task[c].op = "handoff"
            BY <2>1, <2>4, <3>2, ToldFits
        <3>. QED BY <2>2, <3>1, <3>2, <3>3, <3>4, PlanKept
    <2>. QED BY <2>3, <2>4
<1>5. CASE PlanHandoff(c)
    <2>1. PICK busy \in SUBSET Agents :
              Moves(c, IF MayHandOff(events, Task[c].from, Task[c].to, busy) THEN "joining" ELSE "releasing")
        BY <1>5 DEF PlanHandoff
    <2>2. UNCHANGED <<events, draft>>
        BY <1>5 DEF PlanHandoff
    <2>3. CASE MayHandOff(events, Task[c].from, Task[c].to, busy)
        <3>1. Moves(c, "joining") /\ "joining" \in Stages
            BY <2>1, <2>3 DEF Stages
        <3>2. MayHandOff(events, Task[c].from, Task[c].to, {})
            BY <2>3, FewerBusy
        <3>. QED BY <2>2, <3>1, <3>2, PlanKept
    <2>4. CASE ~MayHandOff(events, Task[c].from, Task[c].to, busy)
        <3>1. Moves(c, "releasing") /\ "releasing" \in Stages
            BY <2>1, <2>4 DEF Stages
        <3>. QED BY <2>2, <3>1, PlanKept
    <2>. QED BY <2>3, <2>4
<1>6. CASE PlanBudget(c)
    <2>1. Task[c].op = "budget" /\ Locks(c) /\ events' = events
        BY <1>6 DEF PlanBudget, Locks
    <2>2. \/ Moves(c, "releasing") /\ draft' = draft
          \/ /\ Moves(c, "listing") /\ draft'[c].kind = "handoff_budget_updated"
             /\ \A b \in Callers \ {c} : draft'[b] = draft[b]
        BY <1>6 DEF PlanBudget, StoreInv, Types
    <2>3. "releasing" \in Stages /\ "listing" \in Stages
        BY DEF Stages
    <2>4. CASE Moves(c, "releasing") /\ draft' = draft
        BY <2>1, <2>3, <2>4, PlanKept
    <2>5. CASE Moves(c, "listing") /\ draft'[c].kind = "handoff_budget_updated"
               /\ \A b \in Callers \ {c} : draft'[b] = draft[b]
        <3>1. ~IsOfKind(draft'[c], "edge")
            BY <2>5 DEF IsOfKind
        <3>. QED BY <2>1, <2>3, <2>5, <3>1, PlanKept
    <2>. QED BY <2>2, <2>4, <2>5
<1>7. CASE Post(c)
    <2>1. ~Locks(c) /\ Moves(c, "listing") /\ "listing" \in Stages /\ events' = events
        BY <1>7 DEF Post, Stages
    <2>2. draft'[c] = [kind |-> "message", by |-> c] /\ \A b \in Callers \ {c} : draft'[b] = draft[b]
        BY <1>7 DEF Post, StoreInv, Types
    <2>3. draft'[c] \in Messages /\ ~IsOfKind(draft'[c], "edge") /\ Task[c].op # "handoff"
        BY <2>1, <2>2 DEF Messages, IsOfKind, Locks
    <2>. QED BY <2>1, <2>2, <2>3, PlanKept
<1>8. CASE ListEvents(c)
    <2>1. Moves(c, "linking") /\ "linking" \in Stages /\ UNCHANGED <<events, draft>> /\ stage[c] = "listing"
        BY <1>8 DEF ListEvents, Stages
    <2>2. Task[c].op = "handoff" => MayHandOff(events, Task[c].from, Task[c].to, {})
        BY <2>1 DEF PlanInv, Planned
    <2>3. /\ Task[c].op = "handoff" => draft[c] = Told(c)
          /\ IsOfKind(draft[c], "edge") => Task[c].op = "handoff"
          /\ ~Locks(c) => draft[c] \in Messages
        BY <2>1 DEF PlanInv, DraftsTold
    <2>. QED BY <2>1, <2>2, <2>3, PlanKept
<1>. QED BY <1>1, <1>2, <1>3, <1>4, <1>5, <1>6, <1>7, <1>8

(* An append that records nothing.                                          *)
LEMMA PlanNoWrite ==
    ASSUME StoreInv, PlanInv, NEW c \in Callers, stage[c] = "linking",
           NEW s \in {AfterAppend(c), "listing"}, Moves(c, s), UNCHANGED <<events, draft>>
    PROVE  PlanInv'
<1>1. s \in {"releasing", "done", "listing"} /\ s \in Stages
    BY DEF AfterAppend, Stages
<1>2. Task[c].op = "handoff" => MayHandOff(events, Task[c].from, Task[c].to, {})
    BY DEF PlanInv, Planned
<1>3. /\ Task[c].op = "handoff" => draft[c] = Told(c)
      /\ IsOfKind(draft[c], "edge") => Task[c].op = "handoff"
      /\ ~Locks(c) => draft[c] \in Messages
    BY DEF PlanInv, DraftsTold
<1>. QED BY <1>1, <1>2, <1>3, PlanKept

(* An append under the first number that is free.                           *)
LEMMA PlanWrite ==
    ASSUME StoreInv, PlanInv, NEW c \in Callers, stage[c] = "linking", number[c] \notin Taken,
           WriteEvent(c), Moves(c, AfterAppend(c)), UNCHANGED <<manifest, lock, seen, draft, number>>
    PROVE  PlanInv'
<1>. DEFINE n == number[c]
            e == draft[c]
<1>1. /\ n \in Slots
      /\ \A r \in Slots : (events[r] = Nothing) <=> (r >= n)
      /\ events' = [events EXCEPT ![n] = e]
      /\ e \in Drafts
    BY WriteStep
<1>2. /\ AfterAppend(c) \in Stages \ {"joining", "replacing", "listing", "linking"}
      /\ stage'[c] = AfterAppend(c) /\ \A b \in Callers \ {c} : stage'[b] = stage[b]
    BY MovesTypes DEF AfterAppend, Stages, StoreInv
<1>. HIDE DEF n
<1>3. /\ events'[n] = e /\ \A i \in Slots \ {n} : events'[i] = events[i]
      /\ events[n] = Nothing /\ \A i \in Slots : i > n => events'[i] = Nothing
    <2>1. Slots \subseteq Nat
        BY SlotFacts
    <2>. QED BY <1>1, <2>1 DEF StoreInv, Types
<1>. HIDE DEF e
<1>0. events \in [Slots -> Drafts \cup {Nothing}] /\ events' \in [Slots -> Drafts \cup {Nothing}]
    BY <1>1 DEF StoreInv, Types
<1>4. DraftsTold'
    BY <1>2 DEF PlanInv, DraftsTold, Told, Locks
<1>5. Planned'
    <2>. SUFFICES ASSUME NEW b \in Callers, Task[b].op = "handoff",
                         stage'[b] \in {"joining", "replacing", "listing", "linking"}
                  PROVE  MayHandOff(events', Task[b].from, Task[b].to, {})
        BY DEF Planned, MayHandOff
    <2>1. b # c /\ stage[b] = stage'[b]
        BY <1>2
    <2>2. ~Locks(c)
        <3>1. lock = b
            BY <2>1 DEF StoreInv, LockHeld, LockedStages, Locks
        <3>. QED BY <2>1, <3>1 DEF StoreInv, LockHeld, LockedStages
    <2>3. e \in Messages
        BY <2>2 DEF PlanInv, DraftsTold, e
    <2>4. Alike(events, events')
        <3>1. /\ Slots = 1..Len(events) /\ Slots = 1..Len(events') /\ Len(events) \in Nat /\ Len(events') \in Nat
            BY <1>0, FilesAreALog
        <3>2. Len(events) = Len(events')
            BY <3>1
        <3>3. Idle(events[n]) /\ Idle(events'[n])
            BY <1>3, <2>3, MessagesAreIdle
        <3>. QED BY <1>3, <3>1, <3>2, <3>3 DEF Alike
    <2>5. MayHandOff(events, Task[b].from, Task[b].to, {})
        BY <2>1 DEF PlanInv, Planned
    <2>6. events \in Seq(Drafts \cup {Nothing}) /\ events' \in Seq(Drafts \cup {Nothing})
        BY <1>0, FilesAreALog
    <2>. QED BY <2>4, <2>5, <2>6, SamePlan
<1>6. WithinBudget'
    <2>. SUFFICES ASSUME NEW s \in Slots, events'[s] # Nothing, events'[s].kind = "edge"
                  PROVE  MayHandOff(Before(s)', events'[s].from, events'[s].to, {})
        BY DEF WithinBudget, Taken, MayHandOff
    <2>1. /\ Slots \subseteq Nat \ {0} /\ s <= n
          /\ \A i \in 1..(s - 1) : i \in Slots \ {n}
        <3>1. PICK k \in Nat \ {0} : Slots = 1..k
            BY SlotFacts
        <3>. QED BY <1>1, <1>3, <3>1
    <2>2. /\ Before(s) \in Seq(Drafts \cup {Nothing}) /\ Before(s)' \in Seq(Drafts \cup {Nothing})
          /\ Len(Before(s)) = s - 1 /\ Len(Before(s)') = s - 1
          /\ \A i \in 1..(s - 1) : Before(s)[i] = events[i] /\ Before(s)'[i] = events'[i]
        BY <1>0, FilesAreALog, SMTT(30) DEF Before
    <2>3. Alike(Before(s), Before(s)')
        BY <1>3, <2>1, <2>2 DEF Alike
    <2>4. CASE s # n
        <3>1. events'[s] = events[s] /\ s \in Taken
            BY <1>3, <2>4 DEF Taken
        <3>2. MayHandOff(Before(s), events[s].from, events[s].to, {})
            BY <3>1 DEF PlanInv, WithinBudget
        <3>. QED BY <2>2, <2>3, <3>1, <3>2, SamePlan
    <2>5. CASE s = n
        <3>1. Task[c].op = "handoff" /\ e = Told(c)
            <4>1. IsOfKind(e, "edge")
                BY <1>3, <2>5 DEF IsOfKind
            <4>. QED BY <4>1 DEF PlanInv, DraftsTold, e
        <3>2. e.from = Task[c].from /\ e.to = Task[c].to
            BY <3>1 DEF Told
        <3>3. MayHandOff(events, Task[c].from, Task[c].to, {})
            BY <3>1 DEF PlanInv, Planned
        <3>4. Alike(Before(s)', events)
            <4>1. Slots = 1..Len(events) /\ Len(events) \in Nat
                BY <1>0, FilesAreALog
            <4>2. \A i \in 1..Len(events) : i > s - 1 => Idle(events[i])
                <5>1. \A i \in Slots : i >= n => events[i] = Nothing
                    BY <1>1 DEF n
                <5>. QED BY <2>1, <2>5, <4>1, <5>1, MessagesAreIdle
            <4>. QED BY <1>3, <2>1, <2>2, <2>5, <4>1, <4>2 DEF Alike
        <3>5. events \in Seq(Drafts \cup {Nothing})
            BY <1>0, FilesAreALog
        <3>6. MayHandOff(Before(s)', Task[c].from, Task[c].to, {})
            BY <2>2, <3>3, <3>4, <3>5, SamePlan
        <3>7. events'[s] = e
            BY <1>3, <2>5
        <3>8. events'[s].from = Task[c].from /\ events'[s].to = Task[c].to
            BY <3>2, <3>7
        <3>. QED BY <3>6, <3>8
    <2>. QED BY <2>4, <2>5
<1>. QED BY <1>4, <1>5, <1>6 DEF PlanInv

(* Each recorded handoff was allowed by the log in front of it: to another  *)
(* agent that can be run, within the edges, the depth and the rework rounds *)
(* in force then.                                                           *)
THEOREM HandoffsStayWithinBudget == StoreSpec => []WithinBudget
<1>1. StoreInit => PlanInv
    BY PlanStarts
<1>2. StoreInv /\ PlanInv /\ [StoreNext]_storeVars => PlanInv'
    <2>. SUFFICES ASSUME StoreInv, PlanInv, [StoreNext]_storeVars PROVE PlanInv'
        OBVIOUS
    <2>1. ASSUME NEW c \in Callers, CallStep(c) \/ Die(c) PROVE PlanInv'
        <3>1. CASE LinkEvent(c) \/ FailAppend(c)
            BY <3>1, AppendStep, PlanWrite, PlanNoWrite
        <3>2. CASE ~(LinkEvent(c) \/ FailAppend(c))
            BY <2>1, <3>2, PlanQuiet DEF CallStep
        <3>. QED BY <3>1, <3>2
    <2>2. ASSUME UNCHANGED <<events, stage, draft>> PROVE PlanInv'
        BY <2>2 DEF PlanInv, Planned, DraftsTold, WithinBudget, Taken, Before, Told, Locks
    <2>3. CASE Triage \/ UNCHANGED storeVars
        BY <2>2, <2>3 DEF Triage, storeVars, callVars
    <2>. QED BY <2>1, <2>3 DEF StoreNext, Finished
<1>3. PlanInv => WithinBudget
    BY DEF PlanInv
<1>. QED BY <1>1, <1>2, <1>3, StoreIsSound, PTL DEF StoreSpec

-----------------------------------------------------------------------------

\* The lock names a caller, and what is recorded or about to be is an event that
\* the append agrees to.
Recordable ==
    /\ lock \in Callers \cup {NoOne}
    /\ \A s \in Slots : events[s] \in Event \cup {Nothing}
    /\ \A c \in Callers : draft[c] \in Event \cup {Nothing}

\* A raise that is valid against the limits in force passes the checks of the append.
LEMMA RaiseIsRecordable ==
    ASSUME StoreInv, NEW raise \in Limits, NEW limits \in Limits, limits = EffectiveLimits(events), ValidRaise(limits, raise)
    PROVE  [kind   |-> "handoff_budget_updated",
            change |-> [d \in Dimensions |->
                          [from |-> IF raise[d] = 0 THEN 0 ELSE limits[d], to |-> raise[d]]]] \in BudgetEvents
<1>. DEFINE change == [d \in Dimensions |-> [from |-> IF raise[d] = 0 THEN 0 ELSE limits[d], to |-> raise[d]]]
            e == [kind |-> "handoff_budget_updated", change |-> change]
<1>1. events \in Seq(Drafts \cup {Nothing})
  BY FilesAreALog DEF StoreInv, Types
<1>2. ASSUME NEW d \in Dimensions
      PROVE  raise[d] \in Nat /\ limits[d] \in Nat /\ 0 < limits[d]
  <2>1. BaseLimits[d] <= limits[d]
    BY <1>1, LimitsStayWithinCap
  <2>2. BaseLimits[d] \in Nat /\ 0 < BaseLimits[d]
    BY StoreAssumption DEF Limits
  <2>. QED BY <2>1, <2>2 DEF Limits
<1>3. change \in [Dimensions -> [from : Nat, to : Nat]]
  BY <1>2
<1>4. e.change = change /\ e \in BudgetUpdates
  BY <1>3 DEF BudgetUpdates
<1>5. \A d \in Dimensions : change[d].to = raise[d] /\ (raise[d] # 0 => change[d].from = limits[d])
  OBVIOUS
<1>6. \E d \in Dimensions : change[d].to # 0
  BY <1>5 DEF ValidRaise, Named
<1>7. \A d \in Dimensions : change[d].to # 0 =>
         change[d].from > 0 /\ change[d].to > change[d].from /\ change[d].to <= CapLimits[d]
  BY <1>2, <1>5 DEF ValidRaise, Named
<1>. HIDE DEF change
<1>8. e \in BudgetEvents
  BY <1>4, <1>6, <1>7 DEF BudgetEvents
<1>. QED BY <1>8 DEF change

LEMMA ToldIsRecordable ==
    ASSUME NEW c \in Callers, Task[c].op \in {"handoff", "archive", "reopen", "rename"}
    PROVE  Told(c) \in Event
<1>1. CASE Task[c].op = "handoff"
  BY <1>1, TaskFacts DEF Told, Event, Edges
<1>2. CASE Task[c].op \in {"archive", "reopen"}
  BY <1>2 DEF Told, Event, LifecycleEvents, ConversationStatuses
<1>3. CASE Task[c].op = "rename"
  BY <1>3, TaskFacts DEF Told, Event, RenameEvents
<1>. QED BY <1>1, <1>2, <1>3

LEMMA RecordableStart == StoreInit => Recordable
<1>1. [kind |-> "message", by |-> Author] \in Event
  BY DEF Event, Messages
<1>. QED BY <1>1 DEF StoreInit, Recordable

LEMMA RecordableStep == StoreInv /\ Recordable /\ [StoreNext]_storeVars => Recordable'
<1>. SUFFICES ASSUME StoreInv, Recordable, [StoreNext]_storeVars PROVE Recordable'
  OBVIOUS
<1>1. /\ draft = [c \in Callers |-> draft[c]] /\ events = [s \in Slots |-> events[s]]
  BY DEF StoreInv, Types
<1>2. CASE UNCHANGED <<events, draft>> /\ lock' \in Callers \cup {NoOne}
  BY <1>2 DEF Recordable
<1>3. ASSUME NEW c \in Callers, NEW e \in Event, UNCHANGED <<events, lock>>, draft' = [draft EXCEPT ![c] = e]
      PROVE  Recordable'
  BY <1>1, <1>3 DEF Recordable
<1>4. ASSUME NEW c \in Callers, UNCHANGED <<draft, lock>>, WriteEvent(c) \/ UNCHANGED events
      PROVE  Recordable'
  <2>1. draft[c] \in Event \cup {Nothing}
    BY DEF Recordable
  <2>. QED BY <1>1, <1>4, <2>1 DEF Recordable, WriteEvent
<1>5. ASSUME NEW c \in Callers, CallStep(c) \/ Die(c) PROVE Recordable'
  <2>1. CASE Replace(c)
    <3>1. CASE Task[c].op = "join"
      BY <2>1, <3>1, <1>2 DEF Replace, Recordable
    <3>2. CASE Task[c].op # "join"
      <4>1. Task[c].op \in {"handoff", "archive", "reopen", "rename"}
        BY <2>1, <3>2 DEF Replace, StoreInv, StagesFit
      <4>. QED BY <2>1, <3>2, <4>1, <1>3, ToldIsRecordable DEF Replace
    <3>. QED BY <3>1, <3>2
  <2>2. CASE PlanBudget(c)
    <3>. DEFINE limits == EffectiveLimits(events)
                raise == Task[c].raise
                e == [kind   |-> "handoff_budget_updated",
                      change |-> [d \in Dimensions |->
                                    [from |-> IF raise[d] = 0 THEN 0 ELSE limits[d], to |-> raise[d]]]]
    <3>1. raise \in Limits /\ Task[c].expected \in Limits
      BY <2>2, TaskFacts DEF PlanBudget
    <3>2. \/ Task[c].expected = limits /\ ValidRaise(limits, raise) /\ draft' = [draft EXCEPT ![c] = e]
          \/ UNCHANGED draft
      BY <2>2 DEF PlanBudget
    <3>3. UNCHANGED <<events, lock>>
      BY <2>2 DEF PlanBudget
    <3>4. Task[c].expected = limits /\ ValidRaise(limits, raise) => e \in Event
      BY <3>1, RaiseIsRecordable DEF Event
    <3>5. lock \in Callers \cup {NoOne}
      BY DEF Recordable
    <3>. HIDE DEF e, limits, raise
    <3>. QED BY <3>2, <3>3, <3>4, <3>5, <1>2, <1>3
  <2>3. CASE Post(c)
    <3>1. [kind |-> "message", by |-> c] \in Event
      BY DEF Event, Messages
    <3>. QED BY <2>3, <3>1, <1>3 DEF Post
  <2>4. CASE LinkEvent(c) \/ FailAppend(c)
    BY <2>4, <1>4 DEF LinkEvent, FailAppend
  <2>5. CASE \/ Acquire(c) \/ Busy(c) \/ Release(c) \/ ReadToChange(c) \/ ReadUnderLock(c)
             \/ ReadOpen(c) \/ PlanHandoff(c) \/ ListEvents(c) \/ Die(c)
    BY <2>5, <1>2 DEF Acquire, Busy, Release, ReadToChange, ReadUnderLock, ReadOpen, PlanHandoff, ListEvents,
                      Die, Recordable
  <2>. QED BY <1>5, <2>1, <2>2, <2>3, <2>4, <2>5 DEF CallStep
<1>6. CASE Triage \/ Finished \/ UNCHANGED storeVars
  BY <1>6, <1>2 DEF Triage, Finished, storeVars, callVars, Recordable
<1>. QED BY <1>5, <1>6 DEF StoreNext

(* Everything recorded in a conversation has its type, and so every budget  *)
(* update raises what it names, from what was in force, within the cap:     *)
(* what the plan agrees to, the append never refuses.                       *)
THEOREM StoreIsTyped == StoreSpec => []StoreTypeOK
<1>1. StoreInv /\ Recordable => StoreTypeOK
  BY DEF StoreInv, Types, Recordable, StoreTypeOK
<1>2. StoreInit => Recordable
  BY RecordableStart
<1>3. StoreInv /\ Recordable /\ [StoreNext]_storeVars => Recordable'
  BY RecordableStep
<1>. QED BY <1>1, <1>2, <1>3, StoreIsSound, PTL DEF StoreSpec

-----------------------------------------------------------------------------
(* The documents.  A call that is about to write knows what the document     *)
(* holds, unless it was disturbed; a checked call writes into the vault.     *)

Ops == {"write", "page", "summary", "flag", "append", "patch", "close"}

PieceSet == [nr : Nat, op : Ops]

StepNames == {"checking", "reading", "writing", "queueing", "announcing", "mirroring", "sending"}

ToolCalls == [step : StepNames, op : Ops, path : Paths, since : Nat, piece : PieceSet,
          read : SUBSET PieceSet, drops : SUBSET PieceSet, left : Seq(DOMAIN Mirrors), at : Nat]

Saveds == [piece : PieceSet, path : Paths, where : {"vault", "outbox"}, at : 0..MaxInstant]

RecordTypes ==
    /\ disk \in [{"vault", "below"} -> [Paths -> SUBSET PieceSet]]
    /\ mounted \in BOOLEAN
    /\ instant \in 0..MaxInstant
    /\ swaps \in Nat /\ made \in Nat
    /\ \A h \in Hands : hand[h] \in ToolCalls \cup {NoCall}
    /\ hand = [h \in Hands |-> hand[h]]
    /\ outbox \in [(0..MaxInstant) \X Paths -> SUBSET PieceSet]
    /\ saved \subseteq Saveds
    /\ overtaken \subseteq Hands

Knows(h) ==
    hand[h] # NoCall =>
        /\ hand[h].since <= swaps
        /\ hand[h].step = "checking" => hand[h].op \in Checked
        /\ hand[h].step = "reading" => hand[h].op \in Amends
        /\ hand[h].step = "writing" /\ swaps = hand[h].since =>
              /\ hand[h].op \in Checked => mounted
              /\ hand[h].op \in Amends /\ h \notin overtaken => hand[h].read = Here(hand[h].path)

Informed == \A h \in Hands : Knows(h)

SavedInv == RecordTypes /\ Informed /\ SavedIsKept

LEMMA HandAt ==
    ASSUME RecordTypes, NEW h \in Hands, NEW c, hand' = [hand EXCEPT ![h] = c]
    PROVE  /\ hand' = [g \in Hands |-> hand'[g]]
           /\ hand'[h] = c /\ \A g \in Hands \ {h} : hand'[g] = hand[g]
<1>1. hand = [g \in Hands |-> hand[g]]
  BY DEF RecordTypes
<1>. QED BY <1>1

LEMMA StepAt ==
    ASSUME RecordTypes, NEW h \in Hands, NEW step \in StepNames, hand[h] # NoCall, Goes(h, step)
    PROVE  \E c \in ToolCalls : /\ hand' = [hand EXCEPT ![h] = c]
                            /\ c.step = step /\ c.op = hand[h].op /\ c.path = hand[h].path /\ c.since = hand[h].since
                            /\ c.piece = hand[h].piece /\ c.read = hand[h].read /\ c.drops = hand[h].drops
                            /\ c.left = hand[h].left /\ c.at = hand[h].at
<1>. DEFINE c == [hand[h] EXCEPT !.step = step]
<1>1. hand[h] \in ToolCalls
  BY DEF RecordTypes
<1>2. /\ c \in ToolCalls
      /\ c.step = step /\ c.op = hand[h].op /\ c.path = hand[h].path /\ c.since = hand[h].since
      /\ c.piece = hand[h].piece /\ c.read = hand[h].read /\ c.drops = hand[h].drops
      /\ c.left = hand[h].left /\ c.at = hand[h].at
  BY <1>1 DEF ToolCalls
<1>3. hand' = [hand EXCEPT ![h] = c]
  BY DEF Goes
<1>. HIDE DEF c
<1>. QED BY <1>2, <1>3

LEMMA PathsAre ==
    /\ <<"log", 0>> \in Paths /\ <<"page", 0>> \in Paths
    /\ \A at \in 0..MaxInstant : <<"summary", at>> \in Paths /\ <<"alert", at>> \in Paths
BY RecordsAssumption DEF Paths

LEMMA HereIs == ASSUME RecordTypes, NEW p \in Paths PROVE Here(p) \in SUBSET PieceSet
BY DEF RecordTypes, Here, Side

\* Nothing but one call goes on.
LEMMA HandOnly ==
    ASSUME SavedInv, NEW h \in Hands, NEW c \in ToolCalls \cup {NoCall}, hand' = [hand EXCEPT ![h] = c],
           UNCHANGED <<disk, mounted, outbox, instant, made, swaps, overtaken, saved, excused>>,
           c # NoCall =>
              /\ c.since <= swaps
              /\ c.step = "checking" => c.op \in Checked
              /\ c.step = "reading" => c.op \in Amends
              /\ c.step = "writing" /\ swaps = c.since =>
                    /\ c.op \in Checked => mounted
                    /\ c.op \in Amends /\ h \notin overtaken => c.read = Here(c.path)
    PROVE  SavedInv'
<1>1. /\ hand' = [g \in Hands |-> hand'[g]]
      /\ hand'[h] = c /\ \A g \in Hands \ {h} : hand'[g] = hand[g]
  BY HandAt DEF SavedInv
<1>2. RecordTypes'
  BY <1>1 DEF SavedInv, RecordTypes
<1>3. ASSUME NEW g \in Hands PROVE Knows(g)'
  BY <1>1, <1>3 DEF SavedInv, Informed, Knows, Here, Side
<1>4. SavedIsKept'
  BY DEF SavedInv, SavedIsKept
<1>. QED BY <1>2, <1>3, <1>4 DEF SavedInv, Informed

LEMMA CallingKeeps ==
    ASSUME SavedInv, NEW h \in Hands, NEW op \in Ops, NEW p \in Paths, Calling(h, op, p)
    PROVE  SavedInv'
<1>1. PICK c : /\ c = [step |-> FirstStep(op), op |-> op, path |-> p, since |-> swaps,
                       piece |-> [nr |-> made + 1, op |-> op],
                       read |-> {}, drops |-> {}, left |-> <<>>, at |-> 0]
               /\ hand' = [hand EXCEPT ![h] = c]
  BY DEF Calling
<1>2. /\ made' = made + 1 /\ overtaken' = overtaken \ {h}
      /\ UNCHANGED <<disk, mounted, outbox, instant, swaps, saved, excused>>
      /\ made \in Nat /\ swaps \in Nat
  BY DEF Calling, SavedInv, RecordTypes
<1>3. /\ hand' = [g \in Hands |-> hand'[g]]
      /\ hand'[h] = c /\ \A g \in Hands \ {h} : hand'[g] = hand[g]
  BY <1>1, HandAt DEF SavedInv
<1>4. FirstStep(op) \in StepNames /\ (op \in Checked \cup Amends => FirstStep(op) # "writing")
      /\ (FirstStep(op) = "checking" => op \in Checked) /\ (FirstStep(op) = "reading" => op \in Amends)
  BY DEF FirstStep, StepNames, Checked, Amends
<1>5. c \in ToolCalls /\ c.since = swaps /\ c.step = FirstStep(op) /\ c.op = op
  <2>1. <<>> \in Seq(DOMAIN Mirrors)
    OBVIOUS
  <2>2. [nr |-> made + 1, op |-> op] \in PieceSet
    BY <1>2 DEF PieceSet
  <2>. QED BY <1>1, <1>2, <1>4, <2>1, <2>2 DEF ToolCalls
<1>6. RecordTypes'
  BY <1>2, <1>3, <1>5 DEF SavedInv, RecordTypes
<1>7. ASSUME NEW g \in Hands PROVE Knows(g)'
  <2>1. CASE g = h
    BY <1>2, <1>3, <1>4, <1>5, <2>1 DEF Knows
  <2>2. CASE g # h
    BY <1>2, <1>3, <2>2 DEF SavedInv, Informed, Knows, Here, Side
  <2>. QED BY <2>1, <2>2
<1>8. SavedIsKept'
  BY <1>2 DEF SavedInv, SavedIsKept
<1>. QED BY <1>6, <1>7, <1>8 DEF SavedInv, Informed

LEMMA ToolsKeep ==
    ASSUME SavedInv, NEW h \in Hands, VaultTools(h) \/ CloseAlert(h)
    PROVE  SavedInv'
<1>1. instant \in 0..MaxInstant
  BY DEF SavedInv, RecordTypes
<1>2. \E op \in Ops, p \in Paths : Calling(h, op, p)
  BY <1>1, PathsAre DEF VaultTools, VaultWrite, VaultPatch, VaultAppendLog, SessionWriteSummary, FlagSteward, KnowledgeTools,
     ProjectAppendLog, DecisionRecord, ProjectUpdateHandoff, RunbookWrite, SkillCandidateWrite, WikiUpdate,
     WriteAuthoritative, CloseAlert, SummaryPath, AlertPath, Ops
<1>. QED BY <1>2, CallingKeeps

LEMMA TimeKeeps == ASSUME SavedInv, Tick \/ Swap PROVE SavedInv'
<1>1. CASE Tick
  <2>1. /\ instant' \in 0..MaxInstant
        /\ UNCHANGED <<disk, mounted, outbox, hand, made, swaps, overtaken, saved, excused>>
    BY <1>1, RecordsAssumption DEF Tick, recordsHistory, SavedInv, RecordTypes
  <2>. QED BY <2>1 DEF SavedInv, RecordTypes, Informed, Knows, Here, Side, SavedIsKept
<1>2. CASE Swap
  <2>1. /\ swaps' = swaps + 1 /\ swaps \in Nat /\ mounted' \in BOOLEAN
        /\ UNCHANGED <<disk, outbox, instant, hand, made, overtaken, saved, excused>>
    BY <1>2 DEF Swap, SavedInv, RecordTypes
  <2>2. ASSUME NEW g \in Hands PROVE Knows(g)'
    <3>1. hand[g] # NoCall => hand[g].since \in Nat /\ hand[g].since <= swaps
      BY DEF SavedInv, Informed, Knows, RecordTypes, ToolCalls
    <3>2. Knows(g) /\ hand' = hand
      BY <2>1 DEF SavedInv, Informed
    <3>3. hand[g] # NoCall => hand[g].since <= swaps' /\ swaps' # hand[g].since
      BY <2>1, <3>1
    <3>. QED BY <3>2, <3>3 DEF Knows
  <2>3. RecordTypes'
    <3>1. swaps' \in Nat
      BY <2>1
    <3>. QED BY <2>1, <3>1 DEF SavedInv, RecordTypes
  <2>4. SavedIsKept'
    BY <2>1 DEF SavedInv, SavedIsKept
  <2>. QED BY <2>2, <2>3, <2>4 DEF SavedInv, Informed
<1>. QED BY <1>1, <1>2

LEMMA FindsVaultKeeps == ASSUME SavedInv, NEW h \in Hands, FindsVault(h) PROVE SavedInv'
<1>1. /\ hand[h] # NoCall /\ mounted /\ hand[h].step = "checking" /\ Goes(h, "writing")
      /\ UNCHANGED <<disk, mounted, outbox, instant, made, swaps, overtaken, saved, excused>>
  BY DEF FindsVault, recordsHistory
<1>2. PICK c \in ToolCalls : /\ hand' = [hand EXCEPT ![h] = c]
                         /\ c.op = hand[h].op /\ c.since = hand[h].since /\ c.step = "writing"
  BY <1>1, StepAt DEF SavedInv, StepNames
<1>3. c.op \notin Amends /\ c.since <= swaps
  BY <1>1, <1>2 DEF SavedInv, Informed, Knows, Checked, Amends
<1>. QED BY <1>1, <1>2, <1>3, HandOnly

LEMMA MissesVaultKeeps == ASSUME SavedInv, NEW h \in Hands, MissesVault(h) PROVE SavedInv'
<1>1. /\ hand[h] # NoCall
      /\ UNCHANGED <<disk, mounted, outbox, instant, made, swaps, overtaken, saved, excused>>
  BY DEF MissesVault, recordsHistory
<1>2. CASE CallOver(h)
  BY <1>1, <1>2, HandOnly DEF CallOver
<1>3. CASE Goes(h, "queueing")
  <2>1. PICK c \in ToolCalls : /\ hand' = [hand EXCEPT ![h] = c]
                           /\ c.since = hand[h].since /\ c.step = "queueing"
    BY <1>1, <1>3, StepAt DEF SavedInv, StepNames
  <2>2. c.since <= swaps
    BY <1>1, <2>1 DEF SavedInv, Informed, Knows
  <2>. QED BY <1>1, <2>1, <2>2, HandOnly
<1>. QED BY <1>2, <1>3 DEF MissesVault

LEMMA CallFailsKeeps == ASSUME SavedInv, NEW h \in Hands, CallFails(h) PROVE SavedInv'
<1>1. /\ hand[h] # NoCall
      /\ UNCHANGED <<disk, mounted, outbox, instant, made, swaps, overtaken, saved, excused>>
  BY DEF CallFails, recordsHistory
<1>2. CASE CallOver(h)
  BY <1>1, <1>2, HandOnly DEF CallOver
<1>3. CASE Goes(h, "queueing")
  <2>1. PICK c \in ToolCalls : /\ hand' = [hand EXCEPT ![h] = c]
                           /\ c.since = hand[h].since /\ c.step = "queueing"
    BY <1>1, <1>3, StepAt DEF SavedInv, StepNames
  <2>2. c.since <= swaps
    BY <1>1, <2>1 DEF SavedInv, Informed, Knows
  <2>. QED BY <1>1, <2>1, <2>2, HandOnly
<1>. QED BY <1>2, <1>3 DEF CallFails

LEMMA ReadsDocumentKeeps == ASSUME SavedInv, NEW h \in Hands, ReadsDocument(h) PROVE SavedInv'
<1>1. /\ hand[h] # NoCall /\ hand[h] \in ToolCalls /\ hand[h].step = "reading" /\ hand[h].since <= swaps
      /\ hand[h].op \in Amends
      /\ UNCHANGED <<disk, mounted, outbox, instant, made, swaps, overtaken, saved, excused>>
  BY DEF ReadsDocument, recordsHistory, SavedInv, RecordTypes, Informed, Knows, Checked, Amends
<1>2. PICK read, drops : /\ read = Here(hand[h].path) /\ drops \in Drops(h, read)
                         /\ hand' = [hand EXCEPT ![h].step = "writing", ![h].read = read, ![h].drops = drops]
  BY DEF ReadsDocument
<1>3. read \in SUBSET PieceSet /\ drops \in SUBSET PieceSet
  <2>1. read \in SUBSET PieceSet
    BY <1>1, <1>2, HereIs DEF SavedInv, ToolCalls
  <2>. QED BY <1>2, <2>1 DEF Drops
<1>4. PICK c : c = [hand[h] EXCEPT !.step = "writing", !.read = read, !.drops = drops]
  OBVIOUS
<1>5. c \in ToolCalls /\ c.read = read /\ c.op = hand[h].op /\ c.path = hand[h].path /\ c.since = hand[h].since
  BY <1>1, <1>3, <1>4 DEF ToolCalls, StepNames
<1>6. hand' = [hand EXCEPT ![h] = c]
  BY <1>2, <1>4
<1>7. c.op \notin Checked /\ c.read = Here(c.path) /\ c.since <= swaps /\ c.step = "writing"
  BY <1>1, <1>2, <1>4, <1>5 DEF Checked, Amends, ToolCalls
<1>. HIDE <1>2, <1>4
<1>. QED BY <1>1, <1>5, <1>6, <1>7, HandOnly

\* A document that this call replaces.
LEMMA ReplacesKeeps == ASSUME SavedInv, NEW h \in Hands, ReplacesDocument(h) PROVE SavedInv'
<1>. DEFINE path == hand[h].path
            side == Side
            new == Written(h)
            told == [piece |-> hand[h].piece, path |-> hand[h].path, where |-> "vault", at |-> 0]
<1>1. /\ hand[h] # NoCall /\ hand[h] \in ToolCalls /\ hand[h].step = "writing" /\ Knows(h)
      /\ path \in Paths /\ side \in {"vault", "below"} /\ new \in SUBSET PieceSet
      /\ RecordTypes
  BY DEF ReplacesDocument, SavedInv, Informed, RecordTypes, Side, Written, ToolCalls
<1>2. /\ disk' = [disk EXCEPT ![side][path] = new]
      /\ saved' = saved \cup {told}
      /\ excused' = excused \cup ExcusedBy(h)
      /\ UNCHANGED <<mounted, outbox, instant, made, swaps>>
  BY DEF ReplacesDocument, Saves
<1>3. /\ overtaken' \subseteq Hands
      /\ overtaken \subseteq overtaken'
      /\ \A g \in Hands \ {h} : /\ hand[g] # NoCall /\ hand[g].step = "writing" /\ hand[g].op \in Amends
                                /\ hand[g].path = path
                                => g \in overtaken'
  BY <1>1 DEF ReplacesDocument, RecordTypes
<1>4. told \in Saveds
  BY <1>1, RecordsAssumption DEF Saveds, ToolCalls
<1>5. PICK c \in ToolCalls \cup {NoCall} :
         /\ hand' = [hand EXCEPT ![h] = c]
         /\ c # NoCall => c.step = "announcing" /\ c.since = hand[h].since
  <2>1. CASE CallOver(h)
    BY <2>1 DEF CallOver
  <2>2. CASE Goes(h, "announcing")
    BY <1>1, <2>2, StepAt DEF StepNames
  <2>. QED BY <2>1, <2>2 DEF ReplacesDocument
<1>6. /\ hand' = [g \in Hands |-> hand'[g]]
      /\ hand'[h] = c /\ \A g \in Hands \ {h} : hand'[g] = hand[g]
  BY <1>1, <1>5, HandAt
<1>7. Here(path) = disk[side][path] /\ side = IF mounted THEN "vault" ELSE "below"
  BY DEF Here, Side
<1>8. /\ hand[h].op \in Whole \/ Disturbed(h) => Here(path) \ new \subseteq ExcusedBy(h)
      /\ hand[h].drops \subseteq ExcusedBy(h) \/ hand[h].op \in Whole \/ Disturbed(h)
      /\ ~mounted /\ (hand[h].op \notin Checked \/ swaps # hand[h].since) => hand[h].piece \in ExcusedBy(h)
      /\ hand[h].piece \in new
      /\ hand[h].read \ hand[h].drops \subseteq new
  BY DEF ExcusedBy, Written
<1>. HIDE DEF path, side, new, told
<1>9. /\ disk' \in [{"vault", "below"} -> [Paths -> SUBSET PieceSet]]
      /\ \A w \in {"vault", "below"}, p \in Paths : disk'[w][p] = IF w = side /\ p = path THEN new ELSE disk[w][p]
  BY <1>1, <1>2 DEF RecordTypes
<1>10. Here(path) \ new \subseteq excused'
  <2>1. CASE hand[h].op \in Whole \/ Disturbed(h)
    BY <1>2, <1>8, <2>1
  <2>2. CASE ~(hand[h].op \in Whole \/ Disturbed(h))
    <3>1. hand[h].op \in Amends
      BY <1>1, <2>2 DEF ToolCalls, Ops, Whole, Amends
    <3>2. hand[h].read = Here(path)
      BY <1>1, <2>2, <3>1 DEF Disturbed, Knows, path
    <3>. QED BY <1>2, <1>8, <2>2, <3>2
  <2>. QED BY <2>1, <2>2
<1>11. hand[h].piece \in excused' \cup disk'["vault"][path]
  <2>1. CASE mounted
    BY <1>1, <1>7, <1>8, <1>9, <2>1
  <2>2. CASE ~mounted
    BY <1>1, <1>2, <1>8, <2>2 DEF Knows
  <2>. QED BY <2>1, <2>2
<1>12. ASSUME NEW r \in saved', r.where = "vault" PROVE r.piece \in excused' \cup disk'["vault"][r.path]
  <2>1. CASE r = told
    BY <1>11, <2>1 DEF told, path
  <2>2. CASE r \in saved
    <3>1. r.piece \in excused \cup disk["vault"][r.path] /\ r.path \in Paths
      BY <1>12, <2>2 DEF SavedInv, SavedIsKept, RecordTypes, Saveds
    <3>2. CASE r.path = path /\ side = "vault"
      BY <1>2, <1>7, <1>9, <1>10, <3>1, <3>2
    <3>3. CASE ~(r.path = path /\ side = "vault")
      BY <1>2, <1>9, <3>1, <3>3
    <3>. QED BY <3>2, <3>3
  <2>. QED BY <1>2, <2>1, <2>2
<1>13. ASSUME NEW r \in saved', r.where # "vault"
       PROVE  \E q \in saved' : /\ q.where = "outbox" /\ q.path = r.path /\ q.at = r.at
                                /\ outbox'[QueueName(r.at, r.path)] = {q.piece}
  <2>1. r \in saved
    BY <1>2, <1>13 DEF told
  <2>2. PICK q \in saved : /\ q.where = "outbox" /\ q.path = r.path /\ q.at = r.at
                           /\ outbox[QueueName(r.at, r.path)] = {q.piece}
    BY <1>13, <2>1 DEF SavedInv, SavedIsKept
  <2>. QED BY <1>2, <2>2
<1>14. SavedIsKept'
  BY <1>12, <1>13 DEF SavedIsKept, QueueName
<1>15. ASSUME NEW g \in Hands PROVE Knows(g)'
  <2>1. CASE g = h
    BY <1>1, <1>2, <1>5, <1>6, <2>1 DEF Knows
  <2>2. CASE g # h
    <3>1. Knows(g) /\ hand'[g] = hand[g]
      BY <1>6, <2>2 DEF SavedInv, Informed
    <3>2. hand[g] # NoCall => hand[g].path \in Paths
      BY <1>1 DEF RecordTypes, ToolCalls
    <3>3. hand[g] # NoCall /\ hand[g].path # path => Here(hand[g].path)' = Here(hand[g].path)
      BY <1>1, <1>2, <1>9, <3>1, <3>2 DEF Here, Side
    <3>. QED BY <1>2, <1>3, <2>2, <3>1, <3>3 DEF Knows
  <2>. QED BY <2>1, <2>2
<1>16. RecordTypes'
  BY <1>1, <1>2, <1>3, <1>4, <1>5, <1>6, <1>9 DEF RecordTypes
<1>. QED BY <1>14, <1>15, <1>16 DEF SavedInv, Informed

LEMMA QueuesKeeps == ASSUME SavedInv, NEW h \in Hands, QueuesWrite(h) PROVE SavedInv'
<1>. DEFINE path == hand[h].path
            piece == hand[h].piece
            told == [piece |-> hand[h].piece, path |-> hand[h].path, where |-> "outbox", at |-> instant]
<1>1. /\ hand[h] # NoCall /\ path \in Paths /\ piece \in PieceSet /\ instant \in 0..MaxInstant /\ RecordTypes
  BY DEF QueuesWrite, SavedInv, RecordTypes, ToolCalls
<1>2. /\ outbox' = [outbox EXCEPT ![<<instant, path>>] = {piece}]
      /\ hand' = [hand EXCEPT ![h] = NoCall]
      /\ saved' = saved \cup {told}
      /\ UNCHANGED <<disk, mounted, instant, made, swaps, overtaken, excused>>
  BY DEF QueuesWrite, Saves, CallOver, QueueName
<1>3. told \in Saveds /\ told.where = "outbox" /\ told.path = path /\ told.at = instant /\ told.piece = piece
  BY <1>1 DEF Saveds
<1>4. /\ hand' = [g \in Hands |-> hand'[g]]
      /\ hand'[h] = NoCall /\ \A g \in Hands \ {h} : hand'[g] = hand[g]
  BY <1>1, <1>2, HandAt
<1>. HIDE DEF path, piece, told
<1>5. /\ outbox' \in [(0..MaxInstant) \X Paths -> SUBSET PieceSet]
      /\ \A at \in 0..MaxInstant, p \in Paths :
            outbox'[<<at, p>>] = IF at = instant /\ p = path THEN {piece} ELSE outbox[<<at, p>>]
  BY <1>1, <1>2 DEF RecordTypes
<1>6. RecordTypes'
  BY <1>1, <1>2, <1>3, <1>4, <1>5 DEF RecordTypes
<1>7. ASSUME NEW g \in Hands PROVE Knows(g)'
  BY <1>2, <1>4, <1>7 DEF SavedInv, Informed, Knows, Here, Side
<1>8. ASSUME NEW r \in saved', r.where # "vault"
      PROVE  \E q \in saved' : /\ q.where = "outbox" /\ q.path = r.path /\ q.at = r.at
                               /\ outbox'[<<r.at, r.path>>] = {q.piece}
  <2>1. r.at \in 0..MaxInstant /\ r.path \in Paths
    BY <1>6 DEF RecordTypes, Saveds
  <2>2. CASE r.at = instant /\ r.path = path
    BY <1>1, <1>2, <1>3, <1>5, <2>2
  <2>3. CASE ~(r.at = instant /\ r.path = path)
    <3>1. r \in saved
      BY <1>2, <1>3, <2>3
    <3>2. PICK q \in saved : /\ q.where = "outbox" /\ q.path = r.path /\ q.at = r.at
                             /\ outbox[<<r.at, r.path>>] = {q.piece}
      BY <1>8, <3>1 DEF SavedInv, SavedIsKept, QueueName
    <3>. QED BY <1>2, <1>5, <2>1, <2>3, <3>2
  <2>. QED BY <2>2, <2>3
<1>9. ASSUME NEW r \in saved', r.where = "vault" PROVE r.piece \in excused' \cup disk'["vault"][r.path]
  BY <1>2, <1>3, <1>9 DEF SavedInv, SavedIsKept
<1>10. SavedIsKept'
  BY <1>8, <1>9 DEF SavedIsKept, QueueName
<1>. QED BY <1>6, <1>7, <1>10 DEF SavedInv, Informed

LEMMA AnnouncingKeeps ==
    ASSUME SavedInv, NEW h \in Hands, NEW c \in ToolCalls \cup {NoCall}, hand' = [hand EXCEPT ![h] = c],
           UNCHANGED <<disk, mounted, outbox, instant, made, swaps, overtaken, saved, excused>>,
           hand[h] # NoCall,
           c # NoCall => c.step \in {"mirroring", "sending"} /\ c.since = hand[h].since
    PROVE  SavedInv'
<1>1. c # NoCall => c.since <= swaps
  BY DEF SavedInv, Informed, Knows
<1>. QED BY <1>1, HandOnly

-----------------------------------------------------------------------------
(* The alerts that a process sends on.  Of two that are sent on at once both *)
(* are marked; one that is alone is later than all that were alone before.   *)

Mirrored(h) == hand[h] # NoCall /\ hand[h].step \in {"mirroring", "sending"}

Deliveries == [by : Processes, to : DOMAIN Mirrors, alert : Paths, call : PieceSet, at : 0..MaxInstant,
               out : 0..MaxInstant]

Owners == Hands \ Gateways

MirrorTypes ==
    /\ mirror = [x \in Processes |-> mirror[x]]
    /\ \A x \in Processes : mirror[x] \in [seen : SUBSET Paths, last : [DOMAIN Mirrors -> Nat \cup {Never}]]
    /\ sent \subseteq Deliveries /\ \A m \in sent : m.at <= m.out
    /\ beside \subseteq Paths

Rises(s) == \A i, j \in 1..Len(s) : i < j => s[i] < s[j]

Has(s, i) == \E k \in 1..Len(s) : s[k] = i

\* May be sent: nothing was, or it was the limit ago.
Spaced(x, i, at) == mirror[x].last[i] = Never \/ at >= mirror[x].last[i] + RateLimit

\* What a call has yet to send goes to destinations that have not had it, and
\* it is later than what was sent alone.
SendsOnce(h) ==
    Mirrored(h) =>
        /\ hand[h].at <= instant
        /\ hand[h].path \in mirror[ProcessOf[h]].seen
        /\ Rises(hand[h].left)
        /\ hand[h].step = "sending" => hand[h].left # <<>>
        /\ \A m \in sent : m.by = ProcessOf[h] /\ m.alert = hand[h].path => m.at = hand[h].at /\ ~Has(hand[h].left, m.to)
        /\ \A m \in sent : m.by = ProcessOf[h] /\ m.alert \notin beside => m.at <= hand[h].at
        /\ hand[h].step = "sending" /\ hand[h].path \notin beside =>
              Spaced(ProcessOf[h], Head(hand[h].left), hand[h].at)

\* Two at once are marked.
Marks ==
    \A h, g \in Owners : h # g /\ ProcessOf[h] = ProcessOf[g] /\ Mirrored(h) /\ Mirrored(g) =>
        hand[h].path # hand[g].path /\ hand[h].path \in beside

\* What was sent alone is no later than the stamp.
Stamps ==
    \A m \in sent :
        /\ m.at <= instant /\ m.alert \in mirror[m.by].seen
        /\ m.alert \notin beside => mirror[m.by].last[m.to] # Never /\ m.at <= mirror[m.by].last[m.to]

\* Of two alerts sent on alone the later began the limit after the other.
AlertsSpaced ==
    \A m, n \in sent :
        (m.by = n.by /\ m.to = n.to /\ m # n) =>
            /\ m.alert # n.alert
            /\ m.at <= n.at /\ {m.alert, n.alert} \cap beside = {} => n.at >= m.at + RateLimit

MirrorInv ==
    /\ RecordTypes /\ MirrorTypes
    /\ \A h \in Owners : SendsOnce(h)
    /\ Marks /\ Stamps /\ AlertsSpaced

LEMMA OwnersAre == \A h \in Owners : h \in Hands /\ ProcessOf[h] \in Processes
BY RecordsAssumption DEF Owners

LEMMA DestinationsAre == DOMAIN Mirrors = 1..Len(Mirrors) /\ Len(Mirrors) \in Nat
BY RecordsAssumption

LEMMA OneSentLess ==
    ASSUME NEW s \in Seq(DOMAIN Mirrors), s # <<>>
    PROVE  /\ Head(s) \in DOMAIN Mirrors /\ Has(s, Head(s))
           /\ Tail(s) \in Seq(DOMAIN Mirrors)
           /\ \A i : Has(Tail(s), i) => Has(s, i)
           /\ Rises(s) => Rises(Tail(s)) /\ ~Has(Tail(s), Head(s))
<1>1. /\ Tail(s) \in Seq(DOMAIN Mirrors) /\ Len(s) \in Nat \ {0} /\ Len(Tail(s)) = Len(s) - 1
      /\ \A k \in 1..Len(Tail(s)) : Tail(s)[k] = s[k + 1]
      /\ Head(s) = s[1] /\ s[1] \in DOMAIN Mirrors
  OBVIOUS
<1>2. \A k \in 1..Len(s) : s[k] \in Nat
  BY DestinationsAre
<1>3. ASSUME NEW i, Has(Tail(s), i) PROVE Has(s, i)
  <2>1. PICK k \in 1..Len(Tail(s)) : Tail(s)[k] = i
    BY <1>3 DEF Has
  <2>2. k + 1 \in 1..Len(s) /\ s[k + 1] = i
    BY <1>1, <2>1
  <2>. QED BY <2>2 DEF Has
<1>4. Has(s, Head(s))
  BY <1>1 DEF Has
<1>5. ASSUME Rises(s) PROVE Rises(Tail(s))
  <2>1. ASSUME NEW i \in 1..Len(Tail(s)), NEW j \in 1..Len(Tail(s)), i < j PROVE Tail(s)[i] < Tail(s)[j]
    <3>1. i + 1 \in 1..Len(s) /\ j + 1 \in 1..Len(s) /\ i + 1 < j + 1
      BY <1>1, <2>1
    <3>2. s[i + 1] < s[j + 1]
      BY <1>5, <3>1 DEF Rises
    <3>. QED BY <1>1, <3>2
  <2>. QED BY <2>1 DEF Rises
<1>6. ASSUME Rises(s) PROVE ~Has(Tail(s), Head(s))
  <2>1. SUFFICES ASSUME NEW k \in 1..Len(Tail(s)), Tail(s)[k] = Head(s) PROVE FALSE
    BY DEF Has
  <2>2. 1 \in 1..Len(s) /\ k + 1 \in 1..Len(s) /\ 1 < k + 1 /\ s[k + 1] = s[1]
    BY <1>1, <2>1
  <2>3. s[1] < s[k + 1]
    BY <1>6, <2>2 DEF Rises
  <2>. QED BY <1>2, <2>2, <2>3
<1>. QED BY <1>1, <1>3, <1>4, <1>5, <1>6

\* Nothing is sent, and no call begins to.
LEMMA QuietKeeps ==
    ASSUME MirrorInv, RecordTypes', UNCHANGED <<mirror, sent, beside>>, instant <= instant',
           \A g \in Owners : Mirrored(g)' =>
              /\ Mirrored(g) /\ hand'[g].path = hand[g].path /\ hand'[g].at = hand[g].at
              /\ Rises(hand[g].left) => Rises(hand'[g].left)
              /\ \A i : Has(hand'[g].left, i) => Has(hand[g].left, i)
              /\ hand'[g].step = "sending" =>
                    /\ hand'[g].left # <<>>
                    /\ hand[g].path \notin beside => Spaced(ProcessOf[g], Head(hand'[g].left), hand[g].at)
    PROVE  MirrorInv'
<1>1. MirrorTypes' /\ AlertsSpaced'
  BY DEF MirrorInv, MirrorTypes, AlertsSpaced
<1>2. instant \in Nat /\ instant' \in Nat
  BY DEF MirrorInv, RecordTypes
<1>3. Stamps'
  <2>1. ASSUME NEW m \in sent PROVE m.at \in Nat
    BY DEF MirrorInv, MirrorTypes, Deliveries
  <2>. QED BY <1>2, <2>1 DEF MirrorInv, Stamps
<1>4. Marks'
  BY DEF MirrorInv, Marks
<1>5. ASSUME NEW g \in Owners PROVE SendsOnce(g)'
  <2>. SUFFICES ASSUME Mirrored(g)' PROVE SendsOnce(g)'
    BY DEF SendsOnce
  <2>1. /\ Mirrored(g) /\ hand'[g].path = hand[g].path /\ hand'[g].at = hand[g].at
        /\ Rises(hand[g].left) => Rises(hand'[g].left)
        /\ \A i : Has(hand'[g].left, i) => Has(hand[g].left, i)
        /\ hand'[g].step = "sending" =>
              /\ hand'[g].left # <<>>
              /\ hand[g].path \notin beside => Spaced(ProcessOf[g], Head(hand'[g].left), hand[g].at)
    OBVIOUS
  <2>2. SendsOnce(g)
    BY DEF MirrorInv
  <2>3. hand[g].at \in Nat
    BY <2>1, OwnersAre DEF MirrorInv, RecordTypes, Mirrored, ToolCalls
  <2>4. hand[g].at <= instant'
    BY <1>2, <2>1, <2>2, <2>3 DEF SendsOnce
  <2>. QED BY <2>1, <2>2, <2>4 DEF SendsOnce, Spaced
<1>. QED BY <1>1, <1>3, <1>4, <1>5 DEF MirrorInv

LEMMA OneHandQuiet ==
    ASSUME MirrorInv, RecordTypes', UNCHANGED <<mirror, sent, beside>>, instant <= instant',
           NEW h \in Hands, NEW c, hand' = [hand EXCEPT ![h] = c],
           c # NoCall /\ c.step \in {"mirroring", "sending"} =>
              /\ Mirrored(h) /\ c.path = hand[h].path /\ c.at = hand[h].at
              /\ Rises(hand[h].left) => Rises(c.left)
              /\ \A i : Has(c.left, i) => Has(hand[h].left, i)
              /\ c.step = "sending" =>
                    /\ c.left # <<>>
                    /\ hand[h].path \notin beside => Spaced(ProcessOf[h], Head(c.left), hand[h].at)
    PROVE  MirrorInv'
<1>1. hand'[h] = c /\ \A g \in Hands \ {h} : hand'[g] = hand[g]
  BY HandAt DEF MirrorInv
<1>2. ASSUME NEW g \in Owners, Mirrored(g)'
      PROVE  /\ Mirrored(g) /\ hand'[g].path = hand[g].path /\ hand'[g].at = hand[g].at
             /\ Rises(hand[g].left) => Rises(hand'[g].left)
             /\ \A i : Has(hand'[g].left, i) => Has(hand[g].left, i)
             /\ hand'[g].step = "sending" =>
                   /\ hand'[g].left # <<>>
                   /\ hand[g].path \notin beside => Spaced(ProcessOf[g], Head(hand'[g].left), hand[g].at)
  <2>1. CASE g = h
    BY <1>1, <1>2, <2>1 DEF Mirrored
  <2>2. CASE g # h
    <3>1. hand'[g] = hand[g] /\ SendsOnce(g) /\ Mirrored(g)
      BY <1>1, <1>2, <2>2, OwnersAre DEF MirrorInv, Mirrored
    <3>. QED BY <3>1 DEF SendsOnce
  <2>. QED BY <2>1, <2>2
<1>. QED BY <1>2, QuietKeeps

LEMMA TimeQuiet == ASSUME MirrorInv, RecordTypes', Tick \/ Swap PROVE MirrorInv'
<1>1. UNCHANGED <<mirror, sent, beside, hand>> /\ instant <= instant'
  BY DEF Tick, Swap, recordsHistory, MirrorInv, RecordTypes
<1>2. ASSUME NEW g \in Owners, Mirrored(g)'
      PROVE  /\ Mirrored(g) /\ hand'[g] = hand[g]
             /\ hand[g].step = "sending" =>
                   /\ hand[g].left # <<>>
                   /\ hand[g].path \notin beside => Spaced(ProcessOf[g], Head(hand[g].left), hand[g].at)
  <2>1. Mirrored(g) /\ SendsOnce(g)
    BY <1>1, <1>2 DEF MirrorInv, Mirrored
  <2>. QED BY <1>1, <2>1 DEF SendsOnce
<1>. QED BY <1>1, <1>2, QuietKeeps

\* The writing of documents leaves the messages alone.
LEMMA WritingQuiet ==
    ASSUME MirrorInv, RecordTypes', NEW h \in Hands,
           \/ VaultTools(h) \/ CloseAlert(h)
           \/ FindsVault(h) \/ MissesVault(h) \/ ReadsDocument(h) \/ CallFails(h)
           \/ ReplacesDocument(h) \/ QueuesWrite(h)
    PROVE  MirrorInv'
<1>1. RecordTypes /\ instant \in Nat
  BY DEF MirrorInv, RecordTypes
<1>2. ASSUME NEW op, NEW p, Calling(h, op, p) PROVE MirrorInv'
  <2>1. PICK c : /\ c = [step |-> FirstStep(op), op |-> op, path |-> p, since |-> swaps,
                         piece |-> [nr |-> made + 1, op |-> op],
                         read |-> {}, drops |-> {}, left |-> <<>>, at |-> 0]
                 /\ hand' = [hand EXCEPT ![h] = c]
    BY <1>2 DEF Calling
  <2>2. c.step \notin {"mirroring", "sending"}
    BY <2>1 DEF FirstStep
  <2>3. UNCHANGED <<mirror, sent, beside, instant>>
    BY <1>2 DEF Calling
  <2>4. instant <= instant'
    BY <1>1, <2>3
  <2>5. c # NoCall /\ c.step \in {"mirroring", "sending"} => FALSE
    BY <2>2
  <2>. QED BY <2>1, <2>3, <2>4, <2>5, OneHandQuiet
<1>3. CASE VaultTools(h) \/ CloseAlert(h)
  <2>1. \E op, p : Calling(h, op, p)
    BY <1>3 DEF VaultTools, VaultWrite, VaultPatch, VaultAppendLog, SessionWriteSummary, FlagSteward, KnowledgeTools,
       ProjectAppendLog, DecisionRecord, ProjectUpdateHandoff, RunbookWrite, SkillCandidateWrite, WikiUpdate,
       WriteAuthoritative, CloseAlert
  <2>. QED BY <1>2, <2>1
<1>4. CASE FindsVault(h) \/ MissesVault(h) \/ CallFails(h) \/ ReplacesDocument(h) \/ QueuesWrite(h)
  <2>1. UNCHANGED <<mirror, sent, beside, instant>> /\ hand[h] # NoCall
    BY <1>4 DEF FindsVault, MissesVault, CallFails, ReplacesDocument, QueuesWrite, recordsHistory
  <2>2. CallOver(h) \/ \E step \in {"writing", "queueing", "announcing"} : Goes(h, step)
    BY <1>4 DEF FindsVault, MissesVault, CallFails, ReplacesDocument, QueuesWrite
  <2>3. PICK c : /\ hand' = [hand EXCEPT ![h] = c]
                 /\ c # NoCall => c.step \notin {"mirroring", "sending"}
    <3>1. CASE CallOver(h)
      BY <3>1 DEF CallOver
    <3>2. ASSUME NEW step \in {"writing", "queueing", "announcing"}, Goes(h, step)
          PROVE  \E c : hand' = [hand EXCEPT ![h] = c] /\ (c # NoCall => c.step \notin {"mirroring", "sending"})
      BY <1>1, <2>1, <3>2, StepAt DEF StepNames
    <3>. QED BY <2>2, <3>1, <3>2
  <2>4. instant <= instant'
    BY <1>1, <2>1
  <2>. QED BY <2>1, <2>3, <2>4, OneHandQuiet
<1>5. CASE ReadsDocument(h)
  <2>1. PICK read, drops : hand' = [hand EXCEPT ![h].step = "writing", ![h].read = read, ![h].drops = drops]
    BY <1>5 DEF ReadsDocument
  <2>2. PICK c : c = [hand[h] EXCEPT !.step = "writing", !.read = read, !.drops = drops]
    OBVIOUS
  <2>3. hand' = [hand EXCEPT ![h] = c] /\ hand[h] \in ToolCalls
    BY <1>1, <1>5, <2>1, <2>2 DEF ReadsDocument, RecordTypes
  <2>4. c.step = "writing" /\ UNCHANGED <<mirror, sent, beside, instant>>
    BY <1>5, <2>2, <2>3 DEF ReadsDocument, recordsHistory, ToolCalls
  <2>. HIDE <2>1, <2>2
  <2>5. instant <= instant'
    BY <1>1, <2>4
  <2>6. c # NoCall /\ c.step \in {"mirroring", "sending"} => FALSE
    BY <2>4
  <2>. QED BY <2>3, <2>4, <2>5, <2>6, OneHandQuiet
<1>. QED BY <1>3, <1>4, <1>5

\* What a call has yet to send, when one destination is done with.
LEMMA LeftAt ==
    ASSUME RecordTypes, NEW h \in Hands, hand[h] # NoCall, hand[h].left # <<>>,
           \/ hand' = [hand EXCEPT ![h].left = Tail(@)] /\ hand[h].step = "mirroring"
           \/ hand' = [hand EXCEPT ![h].step = "mirroring", ![h].left = Tail(@)]
    PROVE  \E c \in ToolCalls : /\ hand' = [hand EXCEPT ![h] = c]
                            /\ c.step = "mirroring" /\ c.left = Tail(hand[h].left) /\ c.since = hand[h].since
                            /\ c.path = hand[h].path /\ c.at = hand[h].at /\ c.op = hand[h].op
<1>. DEFINE c == [hand[h] EXCEPT !.step = "mirroring", !.left = Tail(@)]
<1>1. hand[h] \in ToolCalls /\ Tail(hand[h].left) \in Seq(DOMAIN Mirrors)
  <2>1. hand[h] \in ToolCalls
    BY DEF RecordTypes
  <2>2. hand[h].left \in Seq(DOMAIN Mirrors)
    BY <2>1 DEF ToolCalls
  <2>. QED BY <2>1, <2>2, OneSentLess
<1>2. /\ c \in ToolCalls
      /\ c.step = "mirroring" /\ c.left = Tail(hand[h].left) /\ c.since = hand[h].since
      /\ c.path = hand[h].path /\ c.at = hand[h].at /\ c.op = hand[h].op
  BY <1>1 DEF ToolCalls, StepNames
<1>3. hand' = [hand EXCEPT ![h] = c]
  <2>1. CASE hand' = [hand EXCEPT ![h].left = Tail(@)] /\ hand[h].step = "mirroring"
    <3>1. [hand[h] EXCEPT !.left = Tail(@)] = c
      BY <1>1, <2>1 DEF ToolCalls
    <3>. QED BY <2>1, <3>1
  <2>2. CASE hand' = [hand EXCEPT ![h].step = "mirroring", ![h].left = Tail(@)]
    <3>1. hand = [g \in Hands |-> hand[g]]
      BY DEF RecordTypes
    <3>. QED BY <2>2, <3>1
  <2>. QED BY <2>1, <2>2
<1>. HIDE DEF c
<1>. QED BY <1>2, <1>3

RecordsInv == SavedInv /\ MirrorInv

LEMMA LeavesKeeps == ASSUME RecordsInv, NEW h \in Owners, LeavesUnannounced(h) PROVE RecordsInv'
<1>1. /\ h \in Hands /\ hand[h] # NoCall /\ hand' = [hand EXCEPT ![h] = NoCall]
      /\ UNCHANGED <<disk, mounted, outbox, instant, mirror, made, swaps, overtaken, saved, excused, beside, sent>>
  BY OwnersAre DEF LeavesUnannounced, CallOver, recordsHistory
<1>2. SavedInv'
  BY <1>1, AnnouncingKeeps DEF RecordsInv
<1>3. MirrorInv'
  <2>1. instant <= instant' /\ RecordTypes'
    BY <1>1, <1>2 DEF RecordsInv, SavedInv, RecordTypes
  <2>. QED BY <1>1, <2>1, OneHandQuiet DEF RecordsInv
<1>. QED BY <1>2, <1>3 DEF RecordsInv

LEMMA NextDestinationKeeps == ASSUME RecordsInv, NEW h \in Owners, NextDestination(h) PROVE RecordsInv'
<1>1. /\ h \in Hands /\ hand[h] # NoCall /\ hand[h].step = "mirroring" /\ RecordTypes /\ MirrorInv
      /\ UNCHANGED <<disk, mounted, outbox, instant, mirror, made, swaps, overtaken, saved, excused, beside, sent>>
  BY OwnersAre DEF NextDestination, recordsHistory, RecordsInv, MirrorInv
<1>2. Mirrored(h) /\ SendsOnce(h) /\ hand[h].left \in Seq(DOMAIN Mirrors)
  BY <1>1 DEF Mirrored, MirrorInv, RecordTypes, ToolCalls
<1>3. PICK c \in ToolCalls \cup {NoCall} :
         /\ hand' = [hand EXCEPT ![h] = c]
         /\ c # NoCall =>
               /\ c.step \in {"mirroring", "sending"} /\ c.since = hand[h].since
               /\ c.path = hand[h].path /\ c.at = hand[h].at
               /\ Rises(hand[h].left) => Rises(c.left)
               /\ \A i : Has(c.left, i) => Has(hand[h].left, i)
               /\ c.step = "sending" => /\ c.left # <<>> /\ Spaced(ProcessOf[h], Head(c.left), hand[h].at)
  <2>1. CASE hand[h].left = <<>>
    BY <1>1, <2>1 DEF NextDestination, CallOver
  <2>2. CASE hand[h].left # <<>> /\ TooSoon(h, Head(hand[h].left))
    <3>1. hand' = [hand EXCEPT ![h].left = Tail(@)]
      BY <2>2 DEF NextDestination
    <3>2. PICK c \in ToolCalls : /\ hand' = [hand EXCEPT ![h] = c]
                             /\ c.step = "mirroring" /\ c.left = Tail(hand[h].left) /\ c.since = hand[h].since
                             /\ c.path = hand[h].path /\ c.at = hand[h].at
      BY <1>1, <2>2, <3>1, LeftAt
    <3>3. (Rises(hand[h].left) => Rises(c.left)) /\ \A i : Has(c.left, i) => Has(hand[h].left, i)
      BY <1>2, <2>2, <3>2, OneSentLess
    <3>. QED BY <3>2, <3>3
  <2>3. CASE hand[h].left # <<>> /\ ~TooSoon(h, Head(hand[h].left))
    <3>1. Goes(h, "sending")
      BY <2>3 DEF NextDestination
    <3>2. PICK c \in ToolCalls : /\ hand' = [hand EXCEPT ![h] = c]
                             /\ c.step = "sending" /\ c.left = hand[h].left /\ c.since = hand[h].since
                             /\ c.path = hand[h].path /\ c.at = hand[h].at
      BY <1>1, <3>1, StepAt DEF StepNames
    <3>3. Spaced(ProcessOf[h], Head(hand[h].left), hand[h].at)
      <4>1. hand[h].at \in Nat
        BY <1>1 DEF RecordTypes, ToolCalls
      <4>2. mirror[ProcessOf[h]].last[Head(hand[h].left)] \in Nat \cup {Never}
        BY <1>1, <1>2, <2>3, OneSentLess, OwnersAre DEF MirrorInv, MirrorTypes
      <4>3. RateLimit \in Nat
        BY RecordsAssumption
      <4>4. \A last \in Nat : ~(hand[h].at < last + RateLimit) => hand[h].at >= last + RateLimit
        BY <4>1, <4>3
      <4>. QED BY <2>3, <4>2, <4>4 DEF TooSoon, Spaced
    <3>. QED BY <2>3, <3>2, <3>3
  <2>. QED BY <2>1, <2>2, <2>3
<1>4. SavedInv'
  BY <1>1, <1>3, AnnouncingKeeps DEF RecordsInv
<1>5. instant <= instant' /\ RecordTypes'
  BY <1>1, <1>4 DEF SavedInv, RecordTypes
<1>6. MirrorInv'
  BY <1>1, <1>2, <1>3, <1>5, OneHandQuiet
<1>. QED BY <1>4, <1>6 DEF RecordsInv

LEMMA SendFailsKeeps == ASSUME RecordsInv, NEW h \in Owners, SendFails(h) PROVE RecordsInv'
<1>1. /\ h \in Hands /\ hand[h] # NoCall /\ hand[h].step = "sending" /\ RecordTypes /\ MirrorInv
      /\ hand' = [hand EXCEPT ![h].step = "mirroring", ![h].left = Tail(@)]
      /\ UNCHANGED <<disk, mounted, outbox, instant, mirror, made, swaps, overtaken, saved, excused, beside, sent>>
  BY OwnersAre DEF SendFails, recordsHistory, RecordsInv, MirrorInv
<1>2. Mirrored(h) /\ SendsOnce(h) /\ hand[h].left \in Seq(DOMAIN Mirrors)
  BY <1>1 DEF Mirrored, MirrorInv, RecordTypes, ToolCalls
<1>3. hand[h].left # <<>>
  BY <1>1, <1>2 DEF SendsOnce
<1>4. PICK c \in ToolCalls : /\ hand' = [hand EXCEPT ![h] = c]
                         /\ c.step = "mirroring" /\ c.left = Tail(hand[h].left) /\ c.since = hand[h].since
                         /\ c.path = hand[h].path /\ c.at = hand[h].at
  BY <1>1, <1>3, LeftAt
<1>5. SavedInv'
  BY <1>1, <1>4, AnnouncingKeeps DEF RecordsInv
<1>6. instant <= instant' /\ RecordTypes'
  BY <1>1, <1>5 DEF SavedInv, RecordTypes
<1>7. (Rises(hand[h].left) => Rises(c.left)) /\ \A i : Has(c.left, i) => Has(hand[h].left, i)
  BY <1>2, <1>3, <1>4, OneSentLess
<1>8. MirrorInv'
  BY <1>1, <1>2, <1>4, <1>6, <1>7, OneHandQuiet
<1>. QED BY <1>5, <1>8 DEF RecordsInv
LEMMA OneOfMany ==
    ASSUME MirrorTypes, NEW x \in Processes, NEW new, mirror' = [mirror EXCEPT ![x] = new],
           new \in [seen : SUBSET Paths, last : [DOMAIN Mirrors -> Nat \cup {Never}]]
    PROVE  /\ mirror' = [y \in Processes |-> mirror'[y]]
           /\ mirror'[x] = new /\ \A y \in Processes \ {x} : mirror'[y] = mirror[y]
           /\ \A y \in Processes :
                 mirror'[y] \in [seen : SUBSET Paths, last : [DOMAIN Mirrors -> Nat \cup {Never}]]
<1>1. mirror = [y \in Processes |-> mirror[y]]
  BY DEF MirrorTypes
<1>2. /\ mirror' = [y \in Processes |-> mirror'[y]]
      /\ mirror'[x] = new /\ \A y \in Processes \ {x} : mirror'[y] = mirror[y]
  BY <1>1
<1>. QED BY <1>2 DEF MirrorTypes

\* An alert that its process has not sent on is marked with those it sends.
LEMMA AnnouncesKeeps == ASSUME RecordsInv, NEW h \in Owners, Announces(h) PROVE RecordsInv'
<1>. DEFINE x == ProcessOf[h]
            path == hand[h].path
<1>1. /\ h \in Hands /\ x \in Processes /\ hand[h] # NoCall /\ hand[h].step = "announcing"
      /\ path \notin mirror[x].seen
      /\ RecordTypes /\ MirrorInv /\ hand[h] \in ToolCalls /\ path \in Paths
      /\ UNCHANGED <<disk, mounted, outbox, instant, made, swaps, overtaken, saved, excused, sent>>
  BY OwnersAre DEF Announces, Alert, recordsHistory, RecordsInv, MirrorInv, RecordTypes, ToolCalls
<1>2. PICK new : /\ mirror' = [mirror EXCEPT ![x] = new]
                 /\ new \in [seen : SUBSET Paths, last : [DOMAIN Mirrors -> Nat \cup {Never}]]
                 /\ new.seen = mirror[x].seen \cup {path} /\ new.last = mirror[x].last
  <2>1. PICK new : new = [mirror[x] EXCEPT !.seen = @ \cup {path}]
    OBVIOUS
  <2>2. mirror[x] \in [seen : SUBSET Paths, last : [DOMAIN Mirrors -> Nat \cup {Never}]]
    BY <1>1 DEF MirrorInv, MirrorTypes
  <2>3. /\ new \in [seen : SUBSET Paths, last : [DOMAIN Mirrors -> Nat \cup {Never}]]
        /\ new.seen = mirror[x].seen \cup {path} /\ new.last = mirror[x].last
    BY <1>1, <2>1, <2>2
  <2>4. mirror' = [mirror EXCEPT ![x] = new]
    BY <2>1 DEF Announces, Alert
  <2>. QED BY <2>3, <2>4
<1>3. PICK c \in ToolCalls : /\ hand' = [hand EXCEPT ![h] = c]
                         /\ c.step = "mirroring" /\ c.path = path /\ c.since = hand[h].since
                         /\ c.at = instant /\ c.left = [i \in DOMAIN Mirrors |-> i]
  <2>1. PICK c : c = [hand[h] EXCEPT !.step = "mirroring", !.at = instant, !.left = [i \in DOMAIN Mirrors |-> i]]
    OBVIOUS
  <2>2. [i \in DOMAIN Mirrors |-> i] \in Seq(DOMAIN Mirrors)
    BY DestinationsAre
  <2>3. instant \in Nat
    BY <1>1 DEF RecordTypes
  <2>4. /\ c \in ToolCalls
        /\ c.step = "mirroring" /\ c.path = path /\ c.since = hand[h].since
        /\ c.at = instant /\ c.left = [i \in DOMAIN Mirrors |-> i]
    BY <1>1, <2>1, <2>2, <2>3 DEF ToolCalls, StepNames
  <2>5. hand' = [hand EXCEPT ![h] = c]
    BY <1>1, <2>1 DEF Announces, RecordTypes
  <2>. QED BY <2>4, <2>5
<1>4. SavedInv'
  BY <1>1, <1>3, AnnouncingKeeps DEF RecordsInv
<1>5. RecordTypes'
  BY <1>4 DEF SavedInv
<1>6. hand'[h] = c /\ \A g \in Hands \ {h} : hand'[g] = hand[g]
  BY <1>1, <1>3, HandAt
<1>7. /\ mirror' = [y \in Processes |-> mirror'[y]]
      /\ mirror'[x] = new /\ \A y \in Processes \ {x} : mirror'[y] = mirror[y]
      /\ \A y \in Processes :
            mirror'[y] \in [seen : SUBSET Paths, last : [DOMAIN Mirrors -> Nat \cup {Never}]]
  BY <1>1, <1>2, OneOfMany DEF MirrorInv
<1>8. \A y \in Processes : mirror[y].seen \subseteq mirror'[y].seen /\ mirror'[y].last = mirror[y].last
  BY <1>2, <1>7
<1>9. /\ beside' = beside \cup (IF Mirroring(x) = {} THEN {} ELSE Mirroring(x) \cup {path})
      /\ Mirroring(x) \subseteq Paths
      /\ \A g \in Owners : Mirrored(g) /\ ProcessOf[g] = x => hand[g].path \in Mirroring(x)
  <2>1. DOMAIN ProcessOf = Owners
    BY RecordsAssumption DEF Owners
  <2>2. \A g \in Owners : hand[g] # NoCall => hand[g].path \in Paths
    BY <1>1, OwnersAre DEF RecordTypes, ToolCalls
  <2>3. \A g \in Owners : Mirrored(g) /\ ProcessOf[g] = x => hand[g].path \in Mirroring(x)
    BY <2>1 DEF Mirroring, Mirrored, Alert
  <2>4. Mirroring(x) \subseteq Paths
    BY <2>1, <2>2 DEF Mirroring, Alert
  <2>. QED BY <2>3, <2>4 DEF Announces, Alert
<1>. HIDE DEF x, path
<1>10. beside \subseteq beside' /\ beside' \subseteq Paths
  BY <1>1, <1>9 DEF MirrorInv, MirrorTypes
<1>11. MirrorTypes'
  BY <1>1, <1>7, <1>10 DEF MirrorInv, MirrorTypes
<1>12. AlertsSpaced'
  <2>1. ASSUME NEW m \in sent, NEW n \in sent, m.by = n.by, m.to = n.to, m # n
        PROVE  /\ m.alert # n.alert
               /\ m.at <= n.at /\ {m.alert, n.alert} \cap beside' = {} => n.at >= m.at + RateLimit
    BY <1>1, <1>10, <2>1 DEF MirrorInv, AlertsSpaced
  <2>. QED BY <1>1, <2>1 DEF AlertsSpaced
<1>13. Stamps'
  <2>1. ASSUME NEW m \in sent
        PROVE  /\ m.at <= instant' /\ m.alert \in mirror'[m.by].seen
               /\ m.alert \notin beside' => mirror'[m.by].last[m.to] # Never /\ m.at <= mirror'[m.by].last[m.to]
    <3>1. m.by \in Processes
      BY <1>1 DEF MirrorInv, MirrorTypes, Deliveries
    <3>. QED BY <1>1, <1>8, <1>10, <3>1 DEF MirrorInv, Stamps
  <2>. QED BY <1>1, <2>1 DEF Stamps
<1>14. Marks'
  <2>1. ASSUME NEW g \in Owners, g # h, ProcessOf[g] = x, Mirrored(g)
        PROVE  hand[g].path # path /\ hand[g].path \in beside' /\ path \in beside'
    <3>1. hand[g].path \in mirror[x].seen
      BY <1>1, <2>1 DEF MirrorInv, SendsOnce
    <3>. QED BY <1>1, <1>9, <2>1, <3>1
  <2>2. \A g \in Owners \ {h} : hand'[g] = hand[g] /\ (Mirrored(g)' <=> Mirrored(g))
    BY <1>6, OwnersAre DEF Mirrored
  <2>3. hand'[h].path = path /\ ProcessOf[h] = x
    BY <1>3, <1>6 DEF x
  <2>4. ASSUME NEW f \in Owners, NEW g \in Owners, f # g, ProcessOf[f] = ProcessOf[g], Mirrored(f)', Mirrored(g)'
        PROVE  hand'[f].path # hand'[g].path /\ hand'[f].path \in beside'
    <3>1. CASE f = h
      BY <2>1, <2>2, <2>3, <2>4, <3>1
    <3>2. CASE g = h
      BY <2>1, <2>2, <2>3, <2>4, <3>2
    <3>3. CASE f # h /\ g # h
      BY <1>1, <1>10, <2>2, <2>4, <3>3 DEF MirrorInv, Marks
    <3>. QED BY <3>1, <3>2, <3>3
  <2>. QED BY <2>4 DEF Marks
<1>15. SendsOnce(h)'
  <2>1. /\ hand'[h].at = instant' /\ hand'[h].path = path /\ hand'[h].step = "mirroring"
        /\ hand'[h].left = [i \in DOMAIN Mirrors |-> i] /\ ProcessOf[h] = x
    BY <1>1, <1>3, <1>6 DEF x
  <2>2. Rises(hand'[h].left)
    BY <2>1, DestinationsAre DEF Rises
  <2>3. path \in mirror'[x].seen /\ instant' \in Nat
    BY <1>1, <1>2, <1>5, <1>7 DEF RecordTypes
  <2>4. \A m \in sent' : m.at <= instant'
    BY <1>13 DEF Stamps
  <2>5. \A m \in sent' : ~(m.by = x /\ m.alert = path)
    BY <1>1 DEF MirrorInv, Stamps
  <2>. QED BY <2>1, <2>2, <2>3, <2>4, <2>5 DEF SendsOnce
<1>16. ASSUME NEW g \in Owners, g # h PROVE SendsOnce(g)'
  <2>1. hand'[g] = hand[g] /\ ProcessOf[g] \in Processes /\ SendsOnce(g) /\ (Mirrored(g)' <=> Mirrored(g))
    BY <1>1, <1>6, <1>16, OwnersAre DEF MirrorInv, Mirrored
  <2>. QED BY <1>1, <1>8, <1>10, <2>1 DEF SendsOnce, Spaced
<1>17. MirrorInv'
  BY <1>5, <1>11, <1>12, <1>13, <1>14, <1>15, <1>16 DEF MirrorInv
<1>. QED BY <1>4, <1>17 DEF RecordsInv

\* A message goes to a destination that has not had the alert; it is later
\* than the stamp, which it becomes.
LEMMA SendSucceedsKeeps == ASSUME RecordsInv, NEW h \in Owners, SendSucceeds(h) PROVE RecordsInv'
<1>. DEFINE x == ProcessOf[h]
            i == Head(hand[h].left)
            path == hand[h].path
            at == hand[h].at
            told == [by |-> x, to |-> i, alert |-> path, call |-> hand[h].piece, at |-> at,
                     out |-> instant]
<1>1. /\ h \in Hands /\ x \in Processes /\ hand[h] # NoCall /\ hand[h].step = "sending"
      /\ RecordTypes /\ MirrorInv /\ hand[h] \in ToolCalls /\ path \in Paths
      /\ UNCHANGED <<disk, mounted, outbox, instant, made, swaps, overtaken, saved, excused, beside>>
  BY OwnersAre DEF SendSucceeds, RecordsInv, MirrorInv, RecordTypes, ToolCalls
<1>2. Mirrored(h) /\ SendsOnce(h) /\ hand[h].left \in Seq(DOMAIN Mirrors) /\ hand[h].left # <<>>
  BY <1>1 DEF Mirrored, MirrorInv, SendsOnce, ToolCalls
<1>3. /\ i \in DOMAIN Mirrors /\ Has(hand[h].left, i)
      /\ \A k : Has(Tail(hand[h].left), k) => Has(hand[h].left, k)
      /\ Rises(Tail(hand[h].left)) /\ ~Has(Tail(hand[h].left), i)
  BY <1>2, OneSentLess DEF SendsOnce
<1>4. at \in 0..MaxInstant /\ at <= instant /\ instant \in 0..MaxInstant
  BY <1>1, <1>2, RecordsAssumption DEF SendsOnce, RecordTypes, ToolCalls
<1>5. PICK c \in ToolCalls : /\ hand' = [hand EXCEPT ![h] = c]
                         /\ c.step = "mirroring" /\ c.left = Tail(hand[h].left) /\ c.since = hand[h].since
                         /\ c.path = path /\ c.at = at
  BY <1>1, <1>2, LeftAt DEF SendSucceeds
<1>6. SavedInv'
  BY <1>1, <1>5, AnnouncingKeeps DEF RecordsInv
<1>7. RecordTypes'
  BY <1>6 DEF SavedInv
<1>8. hand'[h] = c /\ \A g \in Hands \ {h} : hand'[g] = hand[g]
  BY <1>1, <1>5, HandAt
<1>9. PICK new : /\ mirror' = [mirror EXCEPT ![x] = new]
                 /\ new \in [seen : SUBSET Paths, last : [DOMAIN Mirrors -> Nat \cup {Never}]]
                 /\ new.seen = mirror[x].seen
                 /\ new.last[i] = at /\ \A k \in DOMAIN Mirrors \ {i} : new.last[k] = mirror[x].last[k]
  <2>1. PICK new : new = [mirror[x] EXCEPT !.last[i] = at]
    OBVIOUS
  <2>2. mirror[x] \in [seen : SUBSET Paths, last : [DOMAIN Mirrors -> Nat \cup {Never}]]
    BY <1>1 DEF MirrorInv, MirrorTypes
  <2>3. /\ new \in [seen : SUBSET Paths, last : [DOMAIN Mirrors -> Nat \cup {Never}]]
        /\ new.seen = mirror[x].seen
        /\ new.last[i] = at /\ \A k \in DOMAIN Mirrors \ {i} : new.last[k] = mirror[x].last[k]
    BY <1>3, <1>4, <2>1, <2>2
  <2>4. mirror' = [mirror EXCEPT ![x] = new]
    BY <2>1 DEF SendSucceeds
  <2>. QED BY <2>3, <2>4
<1>10. /\ mirror' = [y \in Processes |-> mirror'[y]]
       /\ mirror'[x] = new /\ \A y \in Processes \ {x} : mirror'[y] = mirror[y]
       /\ \A y \in Processes :
             mirror'[y] \in [seen : SUBSET Paths, last : [DOMAIN Mirrors -> Nat \cup {Never}]]
  BY <1>1, <1>9, OneOfMany DEF MirrorInv
<1>11. sent' = sent \cup {told} /\ told \in Deliveries
       /\ told.by = x /\ told.to = i /\ told.alert = path /\ told.at = at /\ told.out = instant
  BY <1>1, <1>3, <1>4 DEF SendSucceeds, Alert, Deliveries, ToolCalls
<1>12. /\ \A m \in sent : m.by = x /\ m.alert = path => m.at = at /\ ~Has(hand[h].left, m.to)
       /\ \A m \in sent : m.by = x /\ m.alert \notin beside => m.at <= at
       /\ path \notin beside => mirror[x].last[i] = Never \/ at >= mirror[x].last[i] + RateLimit
       /\ path \in mirror[x].seen
  BY <1>1, <1>2 DEF SendsOnce, Spaced
<1>13. \A m \in sent : /\ m.by \in Processes /\ m.to \in DOMAIN Mirrors /\ m.at \in 0..MaxInstant
                       /\ m.at <= instant /\ m.alert \in mirror[m.by].seen
                       /\ m.alert \notin beside => mirror[m.by].last[m.to] # Never /\ m.at <= mirror[m.by].last[m.to]
  BY <1>1 DEF MirrorInv, MirrorTypes, Stamps, Deliveries
<1>14. mirror[x].last[i] \in Nat \cup {Never} /\ RateLimit \in Nat /\ Never \notin Nat
  BY <1>1, <1>3, RecordsAssumption DEF MirrorInv, MirrorTypes
<1>15. ProcessOf[h] = x /\ hand[h].path = path
  OBVIOUS
<1>. HIDE DEF x, i, path, at, told
<1>16. MirrorTypes'
  BY <1>1, <1>4, <1>10, <1>11 DEF MirrorInv, MirrorTypes
<1>17. Stamps'
  <2>1. ASSUME NEW m \in sent'
        PROVE  /\ m.at <= instant' /\ m.alert \in mirror'[m.by].seen
               /\ m.alert \notin beside' => mirror'[m.by].last[m.to] # Never /\ m.at <= mirror'[m.by].last[m.to]
    <3>1. CASE m = told
      BY <1>1, <1>4, <1>9, <1>10, <1>11, <1>12, <1>14, <3>1
    <3>2. CASE m \in sent /\ m.by = x
      <4>1. CASE m.to = i
        BY <1>1, <1>4, <1>9, <1>10, <1>12, <1>13, <1>14, <3>2, <4>1
      <4>2. CASE m.to # i
        BY <1>1, <1>9, <1>10, <1>13, <3>2, <4>2
      <4>. QED BY <4>1, <4>2
    <3>3. CASE m \in sent /\ m.by # x
      BY <1>1, <1>10, <1>13, <3>3
    <3>. QED BY <1>11, <3>1, <3>2, <3>3
  <2>. QED BY <2>1 DEF Stamps
<1>18. ASSUME NEW m \in sent, m.by = x, m.to = i
       PROVE  /\ m.alert # path
              /\ {m.alert, path} \cap beside = {} => m.at <= at /\ at >= m.at + RateLimit
  <2>1. m.alert # path
    BY <1>3, <1>12, <1>18
  <2>2. ASSUME m.alert \notin beside, path \notin beside PROVE m.at <= at /\ at >= m.at + RateLimit
    <3>1. mirror[x].last[i] \in Nat /\ m.at <= mirror[x].last[i] /\ at >= mirror[x].last[i] + RateLimit
      BY <1>12, <1>13, <1>14, <1>18, <2>2
    <3>. QED BY <1>4, <1>13, <1>14, <3>1
  <2>. QED BY <2>1, <2>2
<1>19. AlertsSpaced'
  <2>1. ASSUME NEW m \in sent', NEW n \in sent', m.by = n.by, m.to = n.to, m # n
        PROVE  /\ m.alert # n.alert
               /\ m.at <= n.at /\ {m.alert, n.alert} \cap beside' = {} => n.at >= m.at + RateLimit
    <3>1. CASE m \in sent /\ n \in sent
      BY <1>1, <2>1, <3>1 DEF MirrorInv, AlertsSpaced
    <3>2. CASE n = told /\ m \in sent
      BY <1>1, <1>11, <1>18, <2>1, <3>2
    <3>3. CASE m = told /\ n \in sent
      <4>1. /\ n.alert # path
            /\ {path, n.alert} \cap beside = {} => n.at <= at /\ at >= n.at + RateLimit
        BY <1>11, <1>18, <2>1, <3>3
      <4>2. n.at \in Nat /\ at \in Nat
        BY <1>4, <1>13, <3>3
      <4>. QED BY <1>1, <1>11, <1>14, <3>3, <4>1, <4>2
    <3>. QED BY <1>11, <2>1, <3>1, <3>2, <3>3
  <2>. QED BY <2>1 DEF AlertsSpaced
<1>20. Marks'
  <2>1. \A g \in Owners : (Mirrored(g)' => Mirrored(g)) /\ hand'[g].path = hand[g].path
    BY <1>2, <1>5, <1>8, <1>15, OwnersAre DEF Mirrored
  <2>. QED BY <1>1, <2>1 DEF MirrorInv, Marks
<1>21. SendsOnce(h)'
  <2>1. /\ hand'[h].at = at /\ hand'[h].path = path /\ hand'[h].left = Tail(hand[h].left)
        /\ hand'[h].step = "mirroring"
    BY <1>5, <1>8
  <2>2. ASSUME NEW m \in sent', m.by = x, m.alert = path PROVE m.at = at /\ ~Has(Tail(hand[h].left), m.to)
    BY <1>3, <1>11, <1>12, <2>2
  <2>3. ASSUME NEW m \in sent', m.by = x, m.alert \notin beside PROVE m.at <= at
    BY <1>4, <1>11, <1>12, <2>3
  <2>4. at <= instant' /\ path \in mirror'[x].seen
    BY <1>1, <1>4, <1>9, <1>10, <1>12
  <2>. QED BY <1>1, <1>3, <1>15, <2>1, <2>2, <2>3, <2>4 DEF SendsOnce
<1>22. ASSUME NEW g \in Owners, g # h PROVE SendsOnce(g)'
  <2>. SUFFICES ASSUME Mirrored(g)' PROVE SendsOnce(g)'
    BY DEF SendsOnce
  <2>1. hand'[g] = hand[g] /\ ProcessOf[g] \in Processes /\ SendsOnce(g) /\ Mirrored(g)
    BY <1>1, <1>8, <1>22, OwnersAre DEF MirrorInv, Mirrored
  <2>2. ProcessOf[g] = x => path # hand[g].path /\ path \in beside /\ hand[g].path \in beside
    BY <1>1, <1>2, <1>15, <1>22, <2>1 DEF MirrorInv, Marks
  <2>3. ASSUME NEW m \in sent', m.by = ProcessOf[g], m.alert = hand[g].path
        PROVE  m.at = hand[g].at /\ ~Has(hand[g].left, m.to)
    BY <1>11, <2>1, <2>2, <2>3 DEF SendsOnce
  <2>4. ASSUME NEW m \in sent', m.by = ProcessOf[g], m.alert \notin beside PROVE m.at <= hand[g].at
    BY <1>11, <2>1, <2>2, <2>4 DEF SendsOnce
  <2>5. hand[g].path \in mirror'[ProcessOf[g]].seen
    BY <1>9, <1>10, <2>1 DEF SendsOnce
  <2>6. hand[g].path \notin beside => mirror'[ProcessOf[g]] = mirror[ProcessOf[g]]
    BY <1>10, <2>1, <2>2
  <2>. QED BY <1>1, <2>1, <2>3, <2>4, <2>5, <2>6 DEF SendsOnce, Spaced
<1>23. MirrorInv'
  BY <1>7, <1>16, <1>17, <1>19, <1>20, <1>21, <1>22 DEF MirrorInv
<1>. QED BY <1>6, <1>23 DEF RecordsInv

LEMMA RecordsInvInit == RecordsInit => RecordsInv
<1>. SUFFICES ASSUME RecordsInit PROVE RecordsInv
  OBVIOUS
<1>1. /\ \A h \in Hands : hand[h] = NoCall
      /\ saved = {} /\ sent = {} /\ beside = {} /\ overtaken = {}
      /\ 0 \in 0..MaxInstant /\ instant = 0 /\ mounted = TRUE /\ swaps = 0 /\ made = 0
  BY RecordsAssumption DEF RecordsInit
<1>2. RecordTypes
  <2>1. disk \in [{"vault", "below"} -> [Paths -> SUBSET PieceSet]]
    BY DEF RecordsInit
  <2>2. outbox \in [(0..MaxInstant) \X Paths -> SUBSET PieceSet]
    BY DEF RecordsInit
  <2>3. hand = [h \in Hands |-> hand[h]]
    BY DEF RecordsInit
  <2>. QED BY <1>1, <2>1, <2>2, <2>3 DEF RecordTypes
<1>3. MirrorTypes
  <2>1. \A x \in Processes : mirror[x] \in [seen : SUBSET Paths, last : [DOMAIN Mirrors -> Nat \cup {Never}]]
    BY DEF RecordsInit
  <2>2. mirror = [x \in Processes |-> mirror[x]]
    BY DEF RecordsInit
  <2>. QED BY <1>1, <2>1, <2>2 DEF MirrorTypes
<1>4. /\ \A h \in Owners : SendsOnce(h) /\ ~Mirrored(h)
      /\ \A h \in Hands : Knows(h)
  BY <1>1, OwnersAre DEF SendsOnce, Mirrored, Knows
<1>5. Marks /\ Stamps /\ AlertsSpaced /\ SavedIsKept
  BY <1>1, <1>4 DEF Marks, Stamps, AlertsSpaced, SavedIsKept
<1>. QED BY <1>2, <1>3, <1>4, <1>5 DEF RecordsInv, SavedInv, MirrorInv, Informed

LEMMA RecordsInvStep == RecordsInv /\ [RecordsNext]_recordsVars => RecordsInv'
<1>. SUFFICES ASSUME RecordsInv, [RecordsNext]_recordsVars PROVE RecordsInv'
  OBVIOUS
<1>1. SavedInv /\ MirrorInv
  BY DEF RecordsInv
<1>2. CASE Tick \/ Swap
  <2>1. SavedInv'
    BY <1>1, <1>2, TimeKeeps
  <2>2. RecordTypes'
    BY <2>1 DEF SavedInv
  <2>. QED BY <1>1, <1>2, <2>1, <2>2, TimeQuiet DEF RecordsInv
<1>3. ASSUME NEW h \in Hands, VaultTools(h) \/ CloseAlert(h) PROVE RecordsInv'
  <2>1. SavedInv'
    BY <1>1, <1>3, ToolsKeep
  <2>2. RecordTypes'
    BY <2>1 DEF SavedInv
  <2>. QED BY <1>1, <1>3, <2>1, <2>2, WritingQuiet DEF RecordsInv
<1>4. ASSUME NEW h \in Hands,
             FindsVault(h) \/ MissesVault(h) \/ ReadsDocument(h) \/ CallFails(h) \/ ReplacesDocument(h) \/ QueuesWrite(h)
      PROVE  RecordsInv'
  <2>1. SavedInv'
    BY <1>1, <1>4, FindsVaultKeeps, MissesVaultKeeps, ReadsDocumentKeeps, CallFailsKeeps, ReplacesKeeps, QueuesKeeps
  <2>2. RecordTypes'
    BY <2>1 DEF SavedInv
  <2>3. MirrorInv'
    BY <1>1, <1>4, <2>2, WritingQuiet
  <2>. QED BY <2>1, <2>3 DEF RecordsInv
<1>5. ASSUME NEW h \in Owners,
             LeavesUnannounced(h) \/ Announces(h) \/ NextDestination(h) \/ SendSucceeds(h) \/ SendFails(h)
      PROVE  RecordsInv'
  BY <1>5, LeavesKeeps, AnnouncesKeeps, NextDestinationKeeps, SendSucceedsKeeps, SendFailsKeeps
<1>6. CASE UNCHANGED recordsVars
  <2>1. SavedInv'
    BY <1>1, <1>6 DEF RecordsInv, SavedInv, RecordTypes, Informed, Knows, SavedIsKept, Here, Side, recordsVars, recordsHistory
  <2>2. UNCHANGED instant /\ UNCHANGED hand /\ UNCHANGED mirror /\ UNCHANGED sent /\ UNCHANGED beside
    BY <1>6 DEF recordsVars, recordsHistory
  <2>3. RecordTypes'
    BY <2>1 DEF SavedInv
  <2>4. MirrorTypes' /\ Marks' /\ Stamps' /\ AlertsSpaced'
    BY <1>1, <2>2 DEF MirrorInv, MirrorTypes, Marks, Stamps, AlertsSpaced, Spaced, Mirrored
  <2>5. \A h \in Owners : SendsOnce(h)'
    BY <1>1, <2>2 DEF MirrorInv, SendsOnce, Mirrored, Spaced
  <2>6. MirrorInv'
    BY <2>3, <2>4, <2>5 DEF MirrorInv
  <2>. QED BY <2>1, <2>6 DEF RecordsInv
<1>7. Gateways \subseteq Hands
  BY RecordsAssumption
<1>. QED BY <1>2, <1>3, <1>4, <1>5, <1>6, <1>7 DEF RecordsNext, Owners

\* What a tool reported as written is in the vault, and what it reported as
\* queued in the outbox, but for what the property excepts: whichever calls
\* are under way at once, however many, and whenever the vault goes or comes
\* (vaultWrite, vaultAppendLog, vaultPatch, queueWrite, closeStoredStewardAlert).
THEOREM SavedStays == RecordsSpec => []SavedIsKept
<1>1. RecordsInv => SavedIsKept
  BY DEF RecordsInv, SavedInv
<1>. QED BY <1>1, RecordsInvInit, RecordsInvStep, PTL DEF RecordsSpec

\* Of any number of destinations each gets an alert once, and between the
\* messages of alerts that were not mirrored side by side there is the least
\* interval, less what slow sends took from it, whatever fails in between
\* (mirrorStewardAlert).
THEOREM MirrorKeepsTheLimit == RecordsSpec => []MirrorLimited
<1>1. ASSUME RecordsInv PROVE MirrorLimited
  <2>1. SUFFICES ASSUME NEW m \in sent, NEW n \in sent, m.by = n.by, m.to = n.to, m # n
                 PROVE  /\ m.alert # n.alert
                        /\ m.at <= n.at /\ {m.alert, n.alert} \cap beside = {}
                              => n.out + (m.out - m.at) >= m.out + RateLimit
    BY DEF MirrorLimited
  <2>2. /\ m.at \in Nat /\ m.out \in Nat /\ n.at \in Nat /\ n.out \in Nat /\ RateLimit \in Nat
        /\ m.at <= m.out /\ n.at <= n.out
    BY <1>1, RecordsAssumption DEF RecordsInv, MirrorInv, MirrorTypes, Deliveries
  <2>3. /\ m.alert # n.alert
        /\ m.at <= n.at /\ {m.alert, n.alert} \cap beside = {} => n.at >= m.at + RateLimit
    BY <1>1, <2>1 DEF RecordsInv, MirrorInv, AlertsSpaced
  <2>. QED BY <2>2, <2>3
<1>. QED BY <1>1, RecordsInvInit, RecordsInvStep, PTL DEF RecordsSpec

-----------------------------------------------------------------------------
(* What the events of a run tell, and what the fallback makes of it.         *)

Models == {Candidates[i] : i \in DOMAIN Candidates}

Evidence == [flags : SUBSET Flags, final : Seq(Records), last : Records \cup {NoRecord}]

LEMMA EarliestIsLeft ==
    ASSUME NEW current, NEW tried, Left(current, tried) # {}
    PROVE  Min(Left(current, tried)) \in Left(current, tried)
<1>. DEFINE L == Left(current, tried)
<1>1. L \subseteq Nat /\ L # {}
  BY RunOutcomeAssumption DEF Left
<1>. HIDE DEF L
<1>2. PICK m \in L : \A y \in L : ~ (<<y, m>> \in OpToRel(<, Nat))
  BY <1>1, NatLessThanWellFounded, WFMin
<1>3. ASSUME NEW y \in L PROVE m <= y
  <2>1. SUFFICES ASSUME y < m PROVE FALSE
    BY <1>1
  <2>2. <<y, m>> \in {ss \in Nat \X Nat : ss[1] < ss[2]}
    BY <1>1, <2>1
  <2>3. <<y, m>> \in OpToRel(<, Nat)
    BY <2>2 DEF OpToRel
  <2>. QED BY <1>2, <2>3
<1>4. \E x \in L : \A y \in L : x =< y
  BY <1>3
<1>5. Min(L) \in L
  BY <1>4, Zenon DEF Min
<1>. QED BY <1>5 DEF L

LEMMA PlanIs ==
    ASSUME NEW outcome, NEW explicitly, NEW current, NEW tried, NEW plan,
           plan = Plan(outcome, explicitly, current, tried)
    PROVE  /\ plan.kind \in {"no_attempt", "exhausted", "attempt"}
           /\ plan.kind # "no_attempt" => outcome \in Eligible
           /\ plan.kind = "exhausted" => \A i \in DOMAIN Candidates : Candidates[i] \in tried \cup {current}
           /\ plan.kind = "attempt" => plan.model \in Models \ tried
<1>1. CASE explicitly \/ ~AutoSwitch \/ outcome \notin Eligible
  BY <1>1 DEF Plan
<1>2. CASE ~(explicitly \/ ~AutoSwitch \/ outcome \notin Eligible) /\ Left(current, tried) = {}
  <2>1. plan = [kind |-> "exhausted"]
    BY <1>2 DEF Plan
  <2>. QED BY <1>2, <2>1 DEF Left
<1>3. CASE ~(explicitly \/ ~AutoSwitch \/ outcome \notin Eligible) /\ Left(current, tried) # {}
  <2>1. PICK i : i = Min(Left(current, tried)) /\ i \in Left(current, tried)
    BY <1>3, EarliestIsLeft
  <2>2. plan = [kind |-> "attempt", model |-> Candidates[i]]
    BY <1>3, <2>1 DEF Plan
  <2>3. Candidates[i] \in Models \ tried
    BY <2>1 DEF Left, Models
  <2>. QED BY <1>3, <2>2, <2>3
<1>. QED BY <1>1, <1>2, <1>3

LEMMA EligibleIsUntouched ==
    ASSUME NEW sight, Classify(sight) \in Eligible
    PROVE  Untouched(sight)
<1>. DEFINE records == Authoritative(sight)
<1>1. CASE "settled" \notin sight.flags \/ Tainted(sight)
  BY <1>1 DEF Classify, Eligible
<1>2. CASE ~("settled" \notin sight.flags \/ Tainted(sight)) /\ records = <<>>
  <2>1. ~Fails(records)
    BY <1>2 DEF Fails
  <2>. QED BY <1>2, <2>1 DEF Classify, Eligible
<1>3. CASE ~("settled" \notin sight.flags \/ Tainted(sight)) /\ records # <<>> /\ Fails(records)
  BY <1>3 DEF Classify, Eligible
<1>4. CASE ~("settled" \notin sight.flags \/ Tainted(sight)) /\ records # <<>> /\ ~Fails(records)
  BY <1>4 DEF Classify, Eligible
<1>. QED BY <1>1, <1>2, <1>3, <1>4

LEMMA RecordsAre ==
    \A r \in {<<>>, <<"error">>, <<"stop">>, <<"error_unsaid">>, <<"stop", "error">>, <<"aborted">>} : r \in Seq(Records)
<1>1. ASSUME NEW a \in Records, NEW b \in Records PROVE <<>> \in Seq(Records) /\ <<a>> \in Seq(Records) /\ <<a, b>> \in Seq(Records)
  OBVIOUS
<1>2. "error" \in Records /\ "stop" \in Records /\ "error_unsaid" \in Records /\ "aborted" \in Records
  BY DEF Records
<1>. QED BY <1>1, <1>2

LEMMA SeesMore ==
    ASSUME NEW sight \in Evidence, NEW event \in RunEvents \cup {[type |-> "settled"]}
    PROVE  /\ Sees(sight, event) \in Evidence
           /\ sight.flags \subseteq Sees(sight, event).flags
           /\ event.type \in Effects => ~Untouched(Sees(sight, event))
<1>1. CASE event.type \in Flags
  <2>1. event.type # "message" /\ event.type # "agent_end" /\ event.type # "notify"
    BY <1>1 DEF Flags, Effects
  <2>2. Sees(sight, event) = [sight EXCEPT !.flags = @ \cup {event.type}]
    BY <1>1, <2>1 DEF Sees
  <2>. QED BY <1>1, <2>2 DEF Evidence, Untouched
<1>2. CASE event.type = "message"
  <2>1. event.record \in Records /\ event.type \notin Flags
    BY <1>2 DEF RunEvents, Records, Effects, Flags
  <2>2. Sees(sight, event) = [sight EXCEPT !.last = event.record]
    BY <1>2, <2>1 DEF Sees
  <2>. QED BY <1>2, <2>1, <2>2 DEF Evidence, Flags
<1>3. CASE event.type = "agent_end"
  <2>1. event.records \in {<<>>, <<"error">>, <<"stop">>, <<"error_unsaid">>, <<"stop", "error">>, <<"aborted">>}
    <3>1. event \in [type : {"agent_end"},
                    records : {<<>>, <<"error">>, <<"stop">>, <<"error_unsaid">>, <<"stop", "error">>, <<"aborted">>}]
      BY <1>3 DEF RunEvents, Effects
    <3>. QED BY <3>1
  <2>2. event.type \notin Flags
    BY <1>3 DEF Effects, Flags
  <2>3. Sees(sight, event) = [sight EXCEPT !.final = event.records]
    BY <1>3, <2>2 DEF Sees
  <2>4. event.records \in Seq(Records)
    BY <2>1, RecordsAre
  <2>. QED BY <1>3, <2>2, <2>3, <2>4 DEF Evidence, Flags
<1>4. CASE event.type = "notify"
  <2>1. event.type \notin Flags
    BY <1>4 DEF Effects, Flags
  <2>2. Sees(sight, event) = sight
    BY <1>4, <2>1 DEF Sees
  <2>. QED BY <1>4, <2>1, <2>2 DEF Flags
<1>5. event.type \in Flags \/ event.type \in {"message", "agent_end", "notify"}
  BY DEF RunEvents, Flags
<1>. QED BY <1>1, <1>2, <1>3, <1>4, <1>5

LEMMA UnseenIs == Unseen \in Evidence /\ Untouched(Unseen)
BY DEF Unseen, Evidence, Untouched

-----------------------------------------------------------------------------
(* A request that a program puts to an agent.  As long as it may be put      *)
(* again, the evidence of the run under way tells every effect there was.    *)

RequestSteps == {"starting", "running", "deciding", "selecting", "stopping", "done"}

RequestStates == [step : RequestSteps, policy : {"none", "usable"}, on : {PrimaryModel} \cup Models,
                  tried : SUBSET Models, seen : Evidence, events : Nat]

Puttings == [on : {PrimaryModel} \cup Models, untouched : BOOLEAN]

BoundedTypes ==
    /\ bounded \in RequestStates
    /\ bounded.on \in {PrimaryModel} \cup bounded.tried
    /\ process \in {"none", "alive", "gone"}
    /\ effect \in BOOLEAN
    /\ handed \in Seq(Puttings)

Witnessed ==
    /\ At("starting") => handed = <<>> /\ ~effect
    /\ At("running") \/ At("deciding") => (effect => ~Untouched(bounded.seen))
    /\ At("selecting") => ~effect /\ Decision.kind = "attempt"

HandedFits ==
    \A i \in DOMAIN handed :
        /\ handed[i].untouched
        /\ i > 1 => handed[i].on \in bounded.tried
        /\ \A j \in DOMAIN handed : i > 1 /\ j > i => handed[i].on # handed[j].on

AnswerFits ==
    answer # NoResult =>
        /\ At("stopping") \/ At("done")
        /\ answer.kind = "launch_failure" => At("done") /\ handed = <<>>
        /\ answer.kind = "exhausted" =>
              ~effect /\ \A i \in DOMAIN Candidates : Candidates[i] \in bounded.tried \cup {PrimaryModel}

BoundedInv == BoundedTypes /\ Witnessed /\ HandedFits /\ AnswerFits

LEMMA DecisionIs ==
    /\ Decision.kind \in {"no_attempt", "exhausted", "attempt"}
    /\ Decision.kind # "no_attempt" => Classify(bounded.seen) \in Eligible
    /\ Decision.kind = "exhausted" => \A i \in DOMAIN Candidates : Candidates[i] \in bounded.tried \cup {bounded.on}
    /\ Decision.kind = "attempt" => Decision.model \in Models \ bounded.tried
<1>1. ASSUME NEW explicitly, explicitly = FALSE
      PROVE  LET plan == Plan(Classify(bounded.seen), explicitly, bounded.on, bounded.tried)
             IN  /\ plan.kind \in {"no_attempt", "exhausted", "attempt"}
                 /\ plan.kind # "no_attempt" => Classify(bounded.seen) \in Eligible
                 /\ plan.kind = "exhausted" =>
                       \A i \in DOMAIN Candidates : Candidates[i] \in bounded.tried \cup {bounded.on}
                 /\ plan.kind = "attempt" => plan.model \in Models \ bounded.tried
  BY PlanIs
<1>. QED BY <1>1, Zenon DEF Decision

LEMMA BoundedInvInit == BoundedInit => BoundedInv
<1>. SUFFICES ASSUME BoundedInit PROVE BoundedInv
  OBVIOUS
<1>1. PICK policy \in {"none", "usable"} :
         bounded = [step |-> "starting", policy |-> policy, on |-> PrimaryModel, tried |-> {},
                    seen |-> Unseen, events |-> 0]
  BY DEF BoundedInit
<1>2. process = "none" /\ answer = NoResult /\ handed = <<>> /\ effect = FALSE
  BY DEF BoundedInit
<1>3. BoundedTypes
  <2>1. bounded \in RequestStates /\ bounded.on = PrimaryModel
    BY <1>1, UnseenIs DEF RequestStates, RequestSteps
  <2>2. <<>> \in Seq(Puttings)
    OBVIOUS
  <2>. QED BY <1>2, <2>1, <2>2 DEF BoundedTypes
<1>4. Witnessed /\ HandedFits /\ AnswerFits
  BY <1>1, <1>2 DEF Witnessed, HandedFits, AnswerFits, At
<1>. QED BY <1>3, <1>4 DEF BoundedInv

\* The request is not put.
LEMMA NotPutKeeps ==
    ASSUME BoundedInv, NEW b \in RequestStates, bounded' = b,
           bounded.tried \subseteq b.tried, b.on = bounded.on,
           handed' = handed, effect' \in BOOLEAN, process' \in {"none", "alive", "gone"},
           b.step # "starting",
           b.step \in {"running", "deciding"} => (effect' => ~Untouched(b.seen)),
           b.step = "selecting" => ~effect' /\ Decision'.kind = "attempt",
           answer' # NoResult =>
              /\ b.step \in {"stopping", "done"}
              /\ answer'.kind = "launch_failure" => b.step = "done" /\ handed = <<>>
              /\ answer'.kind = "exhausted" =>
                    ~effect' /\ \A i \in DOMAIN Candidates : Candidates[i] \in b.tried \cup {PrimaryModel}
    PROVE  BoundedInv'
<1>1. BoundedTypes'
  BY DEF BoundedInv, BoundedTypes
<1>2. Witnessed'
  BY DEF Witnessed, At
<1>3. HandedFits'
  BY DEF BoundedInv, HandedFits
<1>4. AnswerFits'
  BY DEF AnswerFits, At
<1>. QED BY <1>1, <1>2, <1>3, <1>4 DEF BoundedInv

\* It is put, on a model it was not put on.
LEMMA PutKeeps ==
    ASSUME BoundedInv, NEW b \in RequestStates, bounded' = b, b.step = "running", b.seen = Unseen,
           process' \in {"none", "alive", "gone"}, effect' = effect, answer' = answer, answer = NoResult,
           ~effect, Puts(b.on), b.on \in {PrimaryModel} \cup b.tried, bounded.tried \subseteq b.tried,
           handed = <<>> \/ (b.on \in b.tried /\ b.on \notin bounded.tried)
    PROVE  BoundedInv'
<1>. DEFINE p == [on |-> b.on, untouched |-> ~effect]
<1>1. /\ p \in Puttings /\ p.untouched /\ p.on = b.on /\ handed' = Append(handed, p) /\ handed \in Seq(Puttings)
      /\ effect = FALSE
  BY DEF BoundedInv, BoundedTypes, Puttings, Puts, RequestStates
<1>. HIDE DEF p
<1>2. /\ handed' \in Seq(Puttings) /\ DOMAIN handed' = 1..(Len(handed) + 1) /\ DOMAIN handed = 1..Len(handed)
      /\ Len(handed) \in Nat
      /\ handed'[Len(handed) + 1] = p /\ \A i \in DOMAIN handed : handed'[i] = handed[i]
  BY <1>1
<1>3. BoundedTypes'
  BY <1>2 DEF BoundedInv, BoundedTypes
<1>4. Witnessed'
  BY DEF Witnessed, At
<1>5. AnswerFits'
  BY DEF AnswerFits
<1>6. HandedFits'
  <2>1. ASSUME NEW i \in DOMAIN handed' PROVE handed'[i].untouched /\ (i > 1 => handed'[i].on \in b.tried)
    <3>1. CASE i \in DOMAIN handed
      BY <1>2, <3>1 DEF BoundedInv, HandedFits
    <3>2. CASE i = Len(handed) + 1
      BY <1>1, <1>2, <3>2
    <3>. QED BY <1>2, <3>1, <3>2
  <2>2. ASSUME NEW i \in DOMAIN handed', NEW j \in DOMAIN handed', i > 1, j > i PROVE handed'[i].on # handed'[j].on
    <3>1. i \in DOMAIN handed
      BY <1>2, <2>2
    <3>2. CASE j \in DOMAIN handed
      BY <1>2, <2>2, <3>1, <3>2 DEF BoundedInv, HandedFits
    <3>3. CASE j = Len(handed) + 1
      <4>1. handed[i].on \in bounded.tried
        BY <2>2, <3>1 DEF BoundedInv, HandedFits
      <4>. QED BY <1>1, <1>2, <3>1, <3>3, <4>1
    <3>. QED BY <1>2, <3>2, <3>3
  <2>. QED BY <2>1, <2>2 DEF HandedFits
<1>. QED BY <1>3, <1>4, <1>5, <1>6 DEF BoundedInv

\* The request is given up, or is over.
LEMMA OverKeeps ==
    ASSUME BoundedInv, NEW step \in {"stopping", "done"}, bounded' = [bounded EXCEPT !.step = step],
           process' \in {"none", "alive", "gone"}, UNCHANGED boundedHistory,
           answer' # NoResult =>
              /\ answer'.kind = "launch_failure" => step = "done" /\ handed = <<>>
              /\ answer'.kind = "exhausted" =>
                    ~effect /\ \A i \in DOMAIN Candidates : Candidates[i] \in bounded.tried \cup {PrimaryModel}
    PROVE  BoundedInv'
<1>1. bounded \in RequestStates /\ handed' = handed /\ effect' = effect /\ effect \in BOOLEAN
  BY DEF BoundedInv, BoundedTypes, boundedHistory
<1>2. PICK b \in RequestStates : /\ bounded' = b
                                 /\ b.tried = bounded.tried /\ b.on = bounded.on /\ b.step = step
  <2>1. PICK b : b = [bounded EXCEPT !.step = step]
    OBVIOUS
  <2>2. b \in RequestStates /\ b.tried = bounded.tried /\ b.on = bounded.on /\ b.step = step
    BY <1>1, <2>1 DEF RequestStates, RequestSteps
  <2>. QED BY <2>1, <2>2
<1>. QED BY <1>1, <1>2, NotPutKeeps

LEMMA StartKeeps == ASSUME BoundedInv, StartRejected \/ Started PROVE BoundedInv'
<1>1. /\ At("starting") /\ handed = <<>> /\ ~effect /\ answer = NoResult /\ bounded \in RequestStates
      /\ process \in {"none", "alive", "gone"}
  BY DEF BoundedInv, Witnessed, AnswerFits, At, StartRejected, Started, BoundedTypes
<1>2. CASE StartRejected
  <2>1. /\ answer' = [kind |-> "launch_failure", milestone |-> "start_rejection"]
        /\ bounded' = [bounded EXCEPT !.step = "done"]
        /\ process' \in {"none", "alive", "gone"} /\ UNCHANGED boundedHistory
    BY <1>1, <1>2 DEF StartRejected, Failure
  <2>2. answer'.kind = "launch_failure"
    BY <2>1
  <2>. QED BY <1>1, <2>1, <2>2, OverKeeps
<1>3. CASE Started
  <2>1. /\ bounded' = [bounded EXCEPT !.step = "running"] /\ process' = "alive" /\ answer' = answer /\ effect' = effect
        /\ Puts(bounded.on) /\ bounded.on \in {PrimaryModel} \cup bounded.tried /\ effect \in BOOLEAN
    BY <1>3 DEF Started, BoundedInv, BoundedTypes
  <2>2. PICK b : b = [bounded EXCEPT !.step = "running"]
    OBVIOUS
  <2>3. b \in RequestStates /\ b.tried = bounded.tried /\ b.on = bounded.on /\ b.step = "running" /\ b.seen = bounded.seen
    BY <1>1, <2>2 DEF RequestStates, RequestSteps
  <2>4. BoundedTypes'
    BY <1>1, <2>1, <2>2, <2>3 DEF BoundedInv, BoundedTypes, Puts, Puttings, RequestStates
  <2>5. Witnessed'
    BY <1>1, <2>1, <2>2, <2>3 DEF Witnessed, At
  <2>6. DOMAIN handed' = {1} /\ handed'[1].untouched
    <3>1. PICK p : p = [on |-> bounded.on, untouched |-> ~effect]
      OBVIOUS
    <3>2. p.untouched
      BY <1>1, <2>1, <3>1
    <3>3. handed' = <<p>>
      BY <1>1, <2>1, <3>1 DEF Puts
    <3>. QED BY <3>2, <3>3
  <2>7. HandedFits' /\ AnswerFits'
    BY <1>1, <2>1, <2>6 DEF HandedFits, AnswerFits
  <2>. QED BY <2>4, <2>5, <2>7 DEF BoundedInv
<1>. QED BY <1>2, <1>3

LEMMA EventsKeep == ASSUME BoundedInv, AgentEvents PROVE BoundedInv'
<1>1. /\ At("running") /\ bounded \in RequestStates /\ effect \in BOOLEAN
      /\ UNCHANGED <<process, answer, handed>> /\ answer = NoResult
      /\ effect => ~Untouched(bounded.seen)
      /\ process \in {"none", "alive", "gone"}
  BY DEF AgentEvents, BoundedInv, BoundedTypes, Witnessed, AnswerFits, At
<1>2. PICK event \in RunEvents : /\ bounded' = [bounded EXCEPT !.seen = Sees(@, event), !.events = @ + 1]
                                 /\ effect' = (effect \/ event.type \in Effects)
  BY DEF AgentEvents
<1>3. bounded.seen \in Evidence /\ bounded.events \in Nat
  BY <1>1 DEF RequestStates
<1>4. PICK sight : sight = Sees(bounded.seen, event)
  OBVIOUS
<1>5. /\ sight \in Evidence /\ bounded.seen.flags \subseteq sight.flags
      /\ event.type \in Effects => ~Untouched(sight)
  BY <1>3, <1>4, SeesMore
<1>6. PICK b : b = [bounded EXCEPT !.seen = sight, !.events = @ + 1]
  OBVIOUS
<1>7. b \in RequestStates /\ b.tried = bounded.tried /\ b.on = bounded.on /\ b.step = "running" /\ b.seen = sight
  <2>1. bounded.events + 1 \in Nat
    BY <1>3
  <2>. QED BY <1>1, <1>5, <1>6, <2>1 DEF RequestStates, At
<1>8. bounded' = b
  BY <1>2, <1>4, <1>6
<1>9. effect' => ~Untouched(b.seen)
  BY <1>1, <1>2, <1>5, <1>7 DEF Untouched
<1>10. effect' \in BOOLEAN
  BY <1>1, <1>2
<1>. QED BY <1>1, <1>7, <1>8, <1>9, <1>10, NotPutKeeps

LEMMA ExitsKeep == ASSUME BoundedInv, PromptRejected \/ ProcessExits \/ ClientStops PROVE BoundedInv'
<1>1. UNCHANGED boundedHistory /\ process' \in {"none", "alive", "gone"}
  BY DEF PromptRejected, ProcessExits, ClientStops, BoundedInv, BoundedTypes
<1>2. ASSUME NEW milestone, Concludes(Failure("ambiguous", milestone)) PROVE BoundedInv'
  <2>1. answer'.kind = "ambiguous" /\ bounded' = [bounded EXCEPT !.step = "stopping"]
    BY <1>2 DEF Concludes, Failure
  <2>. QED BY <1>1, <2>1, OverKeeps
<1>3. CASE ClientStops
  <2>1. /\ bounded' = [bounded EXCEPT !.step = "done"] /\ answer' = answer /\ ~At("done")
        /\ At("stopping")
    BY <1>3 DEF ClientStops, At
  <2>2. answer # NoResult =>
            /\ answer.kind # "launch_failure"
            /\ answer.kind = "exhausted" =>
                    ~effect /\ \A i \in DOMAIN Candidates : Candidates[i] \in bounded.tried \cup {PrimaryModel}
    BY <2>1 DEF BoundedInv, AnswerFits
  <2>. QED BY <1>1, <2>1, <2>2, OverKeeps
<1>4. CASE ProcessExits /\ ~At("running")
  <2>1. UNCHANGED <<bounded, answer, handed, effect>>
    BY <1>4 DEF ProcessExits, boundedHistory
  <2>2. BoundedTypes'
    BY <1>1, <2>1 DEF BoundedInv, BoundedTypes
  <2>3. Witnessed'
    BY <2>1 DEF BoundedInv, Witnessed, At, Decision
  <2>4. HandedFits' /\ AnswerFits'
    BY <2>1 DEF BoundedInv, HandedFits, AnswerFits, At
  <2>. QED BY <2>2, <2>3, <2>4 DEF BoundedInv
<1>. QED BY <1>2, <1>3, <1>4 DEF PromptRejected, ProcessExits

LEMMA SettlesKeeps == ASSUME BoundedInv, AgentSettles PROVE BoundedInv'
<1>1. /\ At("running") /\ bounded \in RequestStates /\ effect \in BOOLEAN
      /\ process' = process /\ UNCHANGED boundedHistory /\ answer = NoResult
      /\ effect => ~Untouched(bounded.seen)
      /\ process \in {"none", "alive", "gone"}
  BY DEF AgentSettles, BoundedInv, BoundedTypes, Witnessed, AnswerFits, At
<1>2. CASE bounded.policy = "none"
  <2>1. answer'.kind = "ok" /\ bounded' = [bounded EXCEPT !.step = "stopping"]
    BY <1>2 DEF AgentSettles, Concludes
  <2>. QED BY <1>1, <2>1, OverKeeps
<1>3. CASE bounded.policy # "none"
  <2>1. PICK sight : sight = Sees(bounded.seen, [type |-> "settled"])
    OBVIOUS
  <2>2. sight \in Evidence /\ bounded.seen.flags \subseteq sight.flags
    BY <1>1, <2>1, SeesMore DEF RequestStates
  <2>3. PICK b : b = [bounded EXCEPT !.step = "deciding", !.seen = sight]
    OBVIOUS
  <2>4. b \in RequestStates /\ b.tried = bounded.tried /\ b.on = bounded.on /\ b.step = "deciding" /\ b.seen = sight
    BY <1>1, <2>2, <2>3 DEF RequestStates, RequestSteps
  <2>5. bounded' = b /\ answer' = answer
    BY <1>3, <2>1, <2>3 DEF AgentSettles
  <2>6. effect => ~Untouched(b.seen)
    BY <1>1, <2>2, <2>4 DEF Untouched
  <2>. QED BY <1>1, <2>4, <2>5, <2>6, NotPutKeeps DEF boundedHistory
<1>. QED BY <1>2, <1>3

LEMMA DecidesKeeps == ASSUME BoundedInv, Decides PROVE BoundedInv'
<1>1. /\ At("deciding") /\ bounded \in RequestStates /\ effect \in BOOLEAN
      /\ process' = process /\ UNCHANGED boundedHistory /\ answer = NoResult
      /\ effect => ~Untouched(bounded.seen)
      /\ process \in {"none", "alive", "gone"}
      /\ bounded.on \in {PrimaryModel} \cup bounded.tried
  BY DEF Decides, BoundedInv, BoundedTypes, Witnessed, AnswerFits, At
<1>2. /\ Decision.kind \in {"no_attempt", "exhausted", "attempt"}
      /\ Decision.kind # "no_attempt" => ~effect
      /\ Decision.kind = "exhausted" => \A i \in DOMAIN Candidates : Candidates[i] \in bounded.tried \cup {bounded.on}
  <2>1. Decision.kind # "no_attempt" => Untouched(bounded.seen)
    BY DecisionIs, EligibleIsUntouched
  <2>. QED BY <1>1, <2>1, DecisionIs
<1>3. CASE Decision.kind = "no_attempt"
  <2>1. Concludes([kind |-> "ok"])
    BY <1>3 DEF Decides
  <2>2. answer'.kind = "ok" /\ bounded' = [bounded EXCEPT !.step = "stopping"]
    BY <2>1 DEF Concludes
  <2>. QED BY <1>1, <2>2, OverKeeps
<1>4. CASE Decision.kind = "exhausted"
  <2>1. Concludes(Failure("exhausted", Classify(bounded.seen)))
    BY <1>4 DEF Decides
  <2>2. answer'.kind = "exhausted" /\ bounded' = [bounded EXCEPT !.step = "stopping"]
    BY <2>1 DEF Concludes, Failure
  <2>. QED BY <1>1, <1>2, <1>4, <2>2, OverKeeps
<1>5. CASE Decision.kind = "attempt"
  <2>1. bounded' = [bounded EXCEPT !.step = "selecting"] /\ answer' = answer
    BY <1>5 DEF Decides
  <2>2. PICK b : b = [bounded EXCEPT !.step = "selecting"]
    OBVIOUS
  <2>3. b \in RequestStates /\ b.tried = bounded.tried /\ b.on = bounded.on /\ b.step = "selecting" /\ b.seen = bounded.seen
    BY <1>1, <2>2 DEF RequestStates, RequestSteps
  <2>4. Decision' = Decision
    BY <2>1, <2>2, <2>3 DEF Decision
  <2>. QED BY <1>1, <1>2, <1>5, <2>1, <2>2, <2>3, <2>4, NotPutKeeps DEF boundedHistory
<1>. QED BY <1>2, <1>3, <1>4, <1>5

LEMMA ModelKeeps == ASSUME BoundedInv, ModelSet \/ ModelRefused PROVE BoundedInv'
<1>1. /\ At("selecting") /\ bounded \in RequestStates /\ effect \in BOOLEAN
      /\ answer' = answer /\ effect' = effect /\ process' = process /\ answer = NoResult /\ ~effect
      /\ process \in {"none", "alive", "gone"}
      /\ Decision.kind = "attempt"
  BY DEF ModelSet, ModelRefused, boundedHistory, BoundedInv, BoundedTypes, Witnessed, AnswerFits, At
<1>2. PICK m : m = Decision.model
  OBVIOUS
<1>3. m \in Models /\ m \notin bounded.tried
  BY <1>1, <1>2, DecisionIs
<1>4. CASE ModelSet
  <2>1. PICK b : b = [bounded EXCEPT !.step = "running", !.on = m, !.tried = @ \cup {m}, !.seen = Unseen, !.events = 0]
    OBVIOUS
  <2>2. /\ b \in RequestStates /\ b.step = "running" /\ b.on = m /\ b.tried = bounded.tried \cup {m}
        /\ b.seen = Unseen
    BY <1>1, <1>3, <2>1, UnseenIs DEF RequestStates, RequestSteps
  <2>3. bounded' = b /\ Puts(b.on)
    BY <1>2, <1>4, <2>1, <2>2 DEF ModelSet
  <2>. QED BY <1>1, <1>3, <2>2, <2>3, PutKeeps
<1>5. CASE ModelRefused
  <2>1. PICK b : b = [bounded EXCEPT !.step = "deciding", !.tried = @ \cup {m}]
    OBVIOUS
  <2>2. /\ b \in RequestStates /\ b.step = "deciding" /\ b.on = bounded.on /\ b.tried = bounded.tried \cup {m}
    BY <1>1, <1>3, <2>1 DEF RequestStates, RequestSteps
  <2>3. bounded' = b /\ handed' = handed
    BY <1>2, <1>5, <2>1 DEF ModelRefused, boundedHistory
  <2>. QED BY <1>1, <2>2, <2>3, NotPutKeeps
<1>. QED BY <1>4, <1>5

LEMMA BoundedInvStep == BoundedInv /\ [BoundedNext]_boundedVars => BoundedInv'
<1>. SUFFICES ASSUME BoundedInv, [BoundedNext]_boundedVars PROVE BoundedInv'
  OBVIOUS
<1>1. CASE UNCHANGED boundedVars
  BY <1>1 DEF boundedVars, boundedHistory, BoundedInv, BoundedTypes, Witnessed, HandedFits, AnswerFits, At, Decision
<1>. QED BY <1>1, StartKeeps, EventsKeep, ExitsKeep, SettlesKeeps, DecidesKeeps, ModelKeeps DEF BoundedNext

LEMMA BoundedInvIs == BoundedInv => AskRepeatsOnlyUntouched
BY DEF BoundedInv, HandedFits, AnswerFits, AskRepeatsOnlyUntouched

-----------------------------------------------------------------------------
(* An interactive session.  What the extension follows, waits with and is    *)
(* about to send again has had no effect, unless the evidence shows it.      *)

Resendings == [request : Requests, on : Models, untouched : BOOLEAN]

SessionTypes ==
    /\ resent \in Seq(Resendings)
    /\ asked \subseteq Requests /\ affected \subseteq asked \cup {0}
    /\ \A i \in DOMAIN resent : resent[i].request \in asked
    /\ run # NoRun => run \in [asks : asked \cup {0}, events : 0..MaxEvents]
    /\ incident # NoIncident =>
          /\ incident.request \in asked /\ incident.tried \in SUBSET Models /\ incident.seen \in Evidence
          /\ incident = [request |-> incident.request, tried |-> incident.tried,
                         model |-> incident.model, seen |-> incident.seen]
    /\ handling # NoHandling =>
          handling \in [step : {"selecting", "switched", "sending"}, request : asked,
                        tried : SUBSET Models, to : Models]
    /\ pending # NoPending => pending \in [request : Requests, tried : SUBSET Models]

Attempted(r, tried) == \A i \in DOMAIN resent : resent[i].request = r => resent[i].on \in tried

IncidentFits ==
    incident # NoIncident =>
        /\ Attempted(incident.request, incident.tried)
        /\ incident.request \in affected => ~Untouched(incident.seen)

HandlingFits ==
    handling # NoHandling =>
        /\ handling.request \notin affected
        /\ Attempted(handling.request, handling.tried)
        /\ handling.to \notin handling.tried
        /\ run # NoRun => run.asks # handling.request
        /\ handling.step = "sending" /\ run = NoRun => pending # NoPending

PendingFits ==
    pending # NoPending =>
        /\ handling # NoHandling /\ handling.step = "sending"
        /\ pending.request = handling.request
        /\ pending.tried = handling.tried \cup {handling.to}

SessionInv ==
    /\ SessionTypes
    /\ IncidentFits /\ HandlingFits /\ PendingFits
    /\ SessionRepeatsOnlyUntouched

LEMMA RequestsAre == Requests \subseteq Nat /\ 0 \notin Requests
BY SessionAssumption

LEMMA SessionInvInit == SessionInit => SessionInv
<1>. SUFFICES ASSUME SessionInit PROVE SessionInv
  OBVIOUS
<1>1. <<>> \in Seq(Resendings) /\ DOMAIN <<>> = {}
  OBVIOUS
<1>2. /\ run = NoRun /\ incident = NoIncident /\ pending = NoPending /\ handling = NoHandling
      /\ asked = {} /\ affected = {} /\ resent = <<>>
  BY DEF SessionInit
<1>3. SessionTypes
  BY <1>1, <1>2 DEF SessionTypes
<1>4. IncidentFits /\ HandlingFits /\ PendingFits
  BY <1>2 DEF IncidentFits, HandlingFits, PendingFits
<1>5. SessionRepeatsOnlyUntouched
  BY <1>1, <1>2 DEF SessionRepeatsOnlyUntouched
<1>. QED BY <1>3, <1>4, <1>5 DEF SessionInv

LEMMA ElsewhereKeeps ==
    ASSUME SessionInv, UNCHANGED <<run, incident, pending, handling, asked, affected, resent>>
    PROVE  SessionInv'
<1>1. SessionTypes'
  BY DEF SessionInv, SessionTypes
<1>2. IncidentFits' /\ HandlingFits' /\ PendingFits'
  BY DEF SessionInv, IncidentFits, HandlingFits, PendingFits, Attempted
<1>3. SessionRepeatsOnlyUntouched'
  BY DEF SessionInv, SessionRepeatsOnlyUntouched
<1>. QED BY <1>1, <1>2, <1>3 DEF SessionInv

LEMMA RunBegunIs == \A r \in Requests \cup {0} : [asks |-> r, events |-> 0] # NoRun
               /\ \A R : r \in R => [asks |-> r, events |-> 0] \in [asks : R, events : 0..MaxEvents]
<1>1. 0 \in 0..MaxEvents
  BY RunOutcomeAssumption
<1>2. NoRun \notin [asks : Requests \cup {0}, events : 0..MaxEvents]
  BY SessionAssumption
<1>3. ASSUME NEW r, NEW R, r \in R PROVE [asks |-> r, events |-> 0] \in [asks : R, events : 0..MaxEvents]
  BY <1>1, <1>3
<1>. QED BY <1>2, <1>3

\* A run that begins takes what is pending, which has had no effect.
LEMMA FollowsIs ==
    ASSUME SessionInv, NEW request \in Requests, Follows(request),
           NEW new, new \in SUBSET Requests, asked \subseteq new, request \in new,
           request \notin affected, Attempted(request, {}) \/ pending # NoPending
    PROVE  /\ pending' = NoPending
           /\ incident'.request \in new /\ incident'.tried \in SUBSET Models /\ incident'.seen \in Evidence
           /\ incident' = [request |-> incident'.request, tried |-> incident'.tried,
                           model |-> incident'.model, seen |-> incident'.seen]
           /\ Attempted(incident'.request, incident'.tried)
           /\ incident'.request \notin affected
           /\ pending # NoPending => incident'.request = pending.request /\ incident'.tried = pending.tried
<1>1. pending' = NoPending
  BY DEF Follows
<1>2. CASE pending = NoPending
  <2>1. incident' = [request |-> request, tried |-> {}, model |-> model, seen |-> Unseen]
    BY <1>2 DEF Follows
  <2>. QED BY <1>1, <1>2, <2>1, UnseenIs
<1>3. CASE pending # NoPending
  <2>1. incident' = [request |-> pending.request, tried |-> pending.tried, model |-> model, seen |-> Unseen]
    BY <1>3 DEF Follows
  <2>2. /\ pending.request \in asked \ affected /\ pending.tried \in SUBSET Models
        /\ Attempted(pending.request, pending.tried)
    <3>1. /\ handling # NoHandling /\ pending.request = handling.request
          /\ pending.tried = handling.tried \cup {handling.to}
      BY <1>3 DEF SessionInv, PendingFits
    <3>2. handling.request \in asked \ affected /\ Attempted(handling.request, handling.tried)
      BY <3>1 DEF SessionInv, HandlingFits, SessionTypes
    <3>3. pending.tried \in SUBSET Models
      BY <1>3 DEF SessionInv, SessionTypes
    <3>. QED BY <3>1, <3>2, <3>3 DEF Attempted
  <2>. QED BY <1>1, <1>3, <2>1, <2>2, UnseenIs
<1>. QED BY <1>2, <1>3

LEMMA StewardAsksKeeps == ASSUME SessionInv, StewardAsks PROVE SessionInv'
<1>1. PICK r \in Requests : r \notin asked /\ Begins(r) /\ asked' = asked \cup {r}
  BY DEF StewardAsks
<1>2. UNCHANGED <<handling, affected, resent>> /\ run = NoRun /\ run' = [asks |-> r, events |-> 0] /\ Follows(r)
  BY <1>1 DEF StewardAsks, Begins
<1>3. run' # NoRun /\ run' \in [asks : asked' \cup {0}, events : 0..MaxEvents] /\ run'.asks = r
  BY <1>1, <1>2, RunBegunIs
<1>4. r \notin affected /\ Attempted(r, {})
  BY <1>1, RequestsAre DEF SessionInv, SessionTypes, Attempted
<1>5. asked \subseteq asked' /\ asked' \in SUBSET Requests /\ r \in asked'
  BY <1>1 DEF SessionInv, SessionTypes
<1>6. PICK new : new = asked'
  OBVIOUS
<1>7. /\ pending' = NoPending
      /\ incident'.request \in asked' /\ incident'.tried \in SUBSET Models /\ incident'.seen \in Evidence
      /\ incident' = [request |-> incident'.request, tried |-> incident'.tried,
                      model |-> incident'.model, seen |-> incident'.seen]
      /\ Attempted(incident'.request, incident'.tried)
      /\ incident'.request \notin affected
  BY <1>1, <1>2, <1>4, <1>5, <1>6, FollowsIs
<1>8. SessionTypes'
  BY <1>1, <1>2, <1>3, <1>5, <1>7 DEF SessionInv, SessionTypes
<1>9. IncidentFits'
  BY <1>2, <1>7 DEF IncidentFits, Attempted
<1>10. HandlingFits'
  <2>1. handling # NoHandling => handling.request \in asked
    BY DEF SessionInv, SessionTypes
  <2>. QED BY <1>1, <1>2, <1>3, <2>1 DEF SessionInv, HandlingFits, Attempted
<1>11. PendingFits' /\ SessionRepeatsOnlyUntouched'
  BY <1>2, <1>7 DEF SessionInv, PendingFits, SessionRepeatsOnlyUntouched
<1>. QED BY <1>8, <1>9, <1>10, <1>11 DEF SessionInv

LEMMA StrangerBeginsKeeps == ASSUME SessionInv, StrangerBegins PROVE SessionInv'
<1>1. /\ run = NoRun /\ run' = [asks |-> 0, events |-> 0] /\ incident' = NoIncident /\ pending' = NoPending
      /\ UNCHANGED <<handling, asked, affected, resent>>
  BY DEF StrangerBegins
<1>2. run' # NoRun /\ run' \in [asks : asked' \cup {0}, events : 0..MaxEvents] /\ run'.asks = 0
  BY <1>1, RunBegunIs
<1>3. SessionTypes'
  BY <1>1, <1>2 DEF SessionInv, SessionTypes
<1>4. HandlingFits'
  <2>1. handling # NoHandling => handling.request # 0
    BY RequestsAre DEF SessionInv, SessionTypes
  <2>. QED BY <1>1, <1>2, <2>1 DEF SessionInv, HandlingFits, Attempted
<1>5. IncidentFits' /\ PendingFits' /\ SessionRepeatsOnlyUntouched'
  BY <1>1 DEF SessionInv, IncidentFits, PendingFits, SessionRepeatsOnlyUntouched
<1>. QED BY <1>3, <1>4, <1>5 DEF SessionInv

LEMMA RunGoesOnKeeps == ASSUME SessionInv, RunGoesOn PROVE SessionInv'
<1>1. /\ run # NoRun /\ run.events < MaxEvents /\ run \in [asks : asked \cup {0}, events : 0..MaxEvents]
      /\ UNCHANGED <<pending, handling, asked, resent>>
  BY DEF RunGoesOn, SessionInv, SessionTypes
<1>2. PICK event \in RunEvents :
         /\ run' = [run EXCEPT !.events = @ + 1]
         /\ incident' = IF incident = NoIncident THEN incident ELSE [incident EXCEPT !.seen = Sees(@, event)]
         /\ affected' = affected \cup {r \in {run.asks} : event.type \in Effects}
  BY DEF RunGoesOn
<1>3. run' \in [asks : asked \cup {0}, events : 0..MaxEvents] /\ run' # NoRun /\ run'.asks = run.asks
  <2>1. run.events + 1 \in 0..MaxEvents
    BY <1>1, RunOutcomeAssumption
  <2>2. run' \in [asks : asked \cup {0}, events : 0..MaxEvents] /\ run'.asks = run.asks
    BY <1>1, <1>2, <2>1
  <2>3. run' \in [asks : Requests \cup {0}, events : 0..MaxEvents]
    BY <2>2 DEF SessionInv, SessionTypes
  <2>. QED BY <2>2, <2>3, SessionAssumption
<1>4. affected' \subseteq asked \cup {0} /\ affected \subseteq affected' /\ (affected' \subseteq affected \cup {run.asks})
      /\ (event.type \notin Effects => affected' = affected)
  BY <1>1, <1>2 DEF SessionInv, SessionTypes
<1>5. ASSUME incident' # NoIncident
      PROVE  /\ incident # NoIncident /\ incident'.request = incident.request /\ incident'.tried = incident.tried
             /\ incident'.seen \in Evidence /\ incident.seen.flags \subseteq incident'.seen.flags
             /\ event.type \in Effects => ~Untouched(incident'.seen)
             /\ incident' = [request |-> incident'.request, tried |-> incident'.tried,
                             model |-> incident'.model, seen |-> incident'.seen]
  <2>1. /\ incident # NoIncident /\ incident.seen \in Evidence
        /\ incident = [request |-> incident.request, tried |-> incident.tried,
                       model |-> incident.model, seen |-> incident.seen]
    BY <1>2, <1>5 DEF SessionInv, SessionTypes
  <2>2. PICK sight : sight = Sees(incident.seen, event)
    OBVIOUS
  <2>3. /\ sight \in Evidence /\ incident.seen.flags \subseteq sight.flags
        /\ event.type \in Effects => ~Untouched(sight)
    BY <2>1, <2>2, SeesMore
  <2>4. incident' = [request |-> incident.request, tried |-> incident.tried,
                     model |-> incident.model, seen |-> sight]
    BY <1>2, <2>1, <2>2
  <2>. QED BY <2>1, <2>3, <2>4
<1>6. SessionTypes'
  BY <1>1, <1>3, <1>4, <1>5 DEF SessionInv, SessionTypes
<1>7. IncidentFits'
  <2>1. ASSUME incident' # NoIncident, incident'.request \in affected' PROVE ~Untouched(incident'.seen)
    BY <1>4, <1>5, <2>1 DEF SessionInv, IncidentFits, Untouched
  <2>2. incident' # NoIncident => Attempted(incident.request, incident.tried)'
    BY <1>1, <1>5 DEF SessionInv, IncidentFits, Attempted
  <2>. QED BY <2>1, <2>2 DEF IncidentFits
<1>8. HandlingFits'
  <2>1. handling # NoHandling => handling.request # run.asks /\ handling.request \notin affected
    BY <1>1 DEF SessionInv, HandlingFits
  <2>. QED BY <1>1, <1>3, <1>4, <2>1 DEF SessionInv, HandlingFits, Attempted
<1>9. PendingFits' /\ SessionRepeatsOnlyUntouched'
  BY <1>1 DEF SessionInv, PendingFits, SessionRepeatsOnlyUntouched
<1>. QED BY <1>6, <1>7, <1>8, <1>9 DEF SessionInv

LEMMA NextIs ==
    ASSUME NEW idle \in BOOLEAN, incident.seen \in Evidence, NextAttempt(idle).kind = "attempt"
    PROVE  NextAttempt(idle).model \in Models \ incident.tried /\ Untouched(incident.seen)
<1>1. ASSUME NEW explicitly
      PROVE  LET plan == Plan(Settles(idle), explicitly, model, incident.tried)
             IN  plan.kind = "attempt" => Settles(idle) \in Eligible /\ plan.model \in Models \ incident.tried
  BY PlanIs
<1>2. Settles(idle) \in Eligible /\ NextAttempt(idle).model \in Models \ incident.tried
  BY <1>1, Zenon DEF NextAttempt
<1>3. PICK sight : sight = Sees(incident.seen, [type |-> "settled"])
  OBVIOUS
<1>4. incident.seen.flags \subseteq sight.flags
  BY <1>3, SeesMore
<1>5. Classify(sight) \in Eligible
  BY <1>2, <1>3 DEF Settles, Eligible
<1>6. Untouched(sight)
  BY <1>5, EligibleIsUntouched
<1>. QED BY <1>2, <1>4, <1>6 DEF Untouched

LEMMA RunSettlesKeeps == ASSUME SessionInv, RunSettles PROVE SessionInv'
<1>1. /\ run' = NoRun /\ handling = NoHandling /\ incident' = NoIncident
      /\ UNCHANGED <<pending, asked, affected, resent>>
      /\ pending = NoPending
  BY DEF RunSettles, sessionHistory, SessionInv, PendingFits
<1>2. PICK idle \in BOOLEAN :
         IF GoesOn(idle)
         THEN handling' = [step |-> "selecting", request |-> incident.request,
                           tried |-> incident.tried, to |-> NextAttempt(idle).model]
         ELSE handling' = handling
  BY DEF RunSettles
<1>3. CASE GoesOn(idle)
  <2>1. /\ incident # NoIncident /\ NextAttempt(idle).kind = "attempt"
        /\ incident.request \in asked /\ incident.tried \in SUBSET Models /\ incident.seen \in Evidence
    BY <1>3 DEF GoesOn, SessionInv, SessionTypes
  <2>2. PICK m : m = NextAttempt(idle).model
    OBVIOUS
  <2>3. m \in Models \ incident.tried /\ Untouched(incident.seen)
    BY <2>1, <2>2, NextIs
  <2>4. /\ handling' = [step |-> "selecting", request |-> incident.request, tried |-> incident.tried, to |-> m]
        /\ incident.request \notin affected /\ Attempted(incident.request, incident.tried)
    BY <1>2, <1>3, <2>1, <2>2, <2>3 DEF SessionInv, IncidentFits
  <2>5. SessionTypes'
    BY <1>1, <2>1, <2>3, <2>4 DEF SessionInv, SessionTypes
  <2>6. HandlingFits'
    BY <1>1, <2>3, <2>4 DEF HandlingFits, Attempted
  <2>7. IncidentFits' /\ PendingFits' /\ SessionRepeatsOnlyUntouched'
    BY <1>1 DEF SessionInv, IncidentFits, PendingFits, SessionRepeatsOnlyUntouched
  <2>. QED BY <2>5, <2>6, <2>7 DEF SessionInv
<1>4. CASE ~GoesOn(idle)
  <2>1. handling' = NoHandling
    BY <1>1, <1>2, <1>4
  <2>2. SessionTypes'
    BY <1>1, <2>1 DEF SessionInv, SessionTypes
  <2>3. HandlingFits' /\ IncidentFits' /\ PendingFits' /\ SessionRepeatsOnlyUntouched'
    BY <1>1, <2>1 DEF SessionInv, HandlingFits, IncidentFits, PendingFits, SessionRepeatsOnlyUntouched
  <2>. QED BY <2>2, <2>3 DEF SessionInv
<1>. QED BY <1>3, <1>4

\* The extension gives up.
LEMMA GivesUpKeeps ==
    ASSUME SessionInv, handling' = NoHandling, pending' = NoPending,
           UNCHANGED <<run, incident, asked, affected, resent>>
    PROVE  SessionInv'
<1>1. SessionTypes'
  BY DEF SessionInv, SessionTypes
<1>2. IncidentFits' /\ HandlingFits' /\ PendingFits' /\ SessionRepeatsOnlyUntouched'
  BY DEF SessionInv, IncidentFits, HandlingFits, PendingFits, Attempted, SessionRepeatsOnlyUntouched
<1>. QED BY <1>1, <1>2 DEF SessionInv

LEMMA SwitchKeeps ==
    ASSUME SessionInv, SwitchSucceeds \/ SwitchFails \/ NoLongerIdle \/ ContinuationFails
    PROVE  SessionInv'
<1>1. CASE SwitchFails \/ NoLongerIdle
  <2>1. /\ handling' = NoHandling /\ UNCHANGED <<run, incident, pending, asked, affected, resent>>
        /\ handling.step # "sending"
    BY <1>1 DEF SwitchFails, NoLongerIdle, sessionHistory
  <2>2. pending' = NoPending
    BY <2>1 DEF SessionInv, PendingFits
  <2>. QED BY <2>1, <2>2, GivesUpKeeps
<1>2. CASE ContinuationFails
  BY <1>2, GivesUpKeeps DEF ContinuationFails, sessionHistory
<1>3. CASE SwitchSucceeds
  <2>1. /\ handling # NoHandling /\ handling.step = "selecting"
        /\ handling' = [handling EXCEPT !.step = "switched"]
        /\ UNCHANGED <<run, incident, pending, asked, affected, resent>>
    BY <1>3 DEF SwitchSucceeds, sessionHistory
  <2>2. handling \in [step : {"selecting", "switched", "sending"}, request : asked, tried : SUBSET Models, to : Models]
    BY <2>1 DEF SessionInv, SessionTypes
  <2>3. /\ handling' \in [step : {"selecting", "switched", "sending"}, request : asked, tried : SUBSET Models, to : Models]
        /\ handling'.step = "switched" /\ handling'.request = handling.request
        /\ handling'.tried = handling.tried /\ handling'.to = handling.to
    BY <2>1, <2>2
  <2>4. pending = NoPending
    BY <2>1 DEF SessionInv, PendingFits
  <2>5. SessionTypes'
    BY <2>1, <2>3 DEF SessionInv, SessionTypes
  <2>6. HandlingFits'
    BY <2>1, <2>3 DEF SessionInv, HandlingFits, Attempted
  <2>7. IncidentFits' /\ PendingFits' /\ SessionRepeatsOnlyUntouched'
    BY <2>1, <2>4 DEF SessionInv, IncidentFits, PendingFits, Attempted, SessionRepeatsOnlyUntouched
  <2>. QED BY <2>5, <2>6, <2>7 DEF SessionInv
<1>. QED BY <1>1, <1>2, <1>3

LEMMA PreparesKeeps == ASSUME SessionInv, PreparesContinuation PROVE SessionInv'
<1>1. /\ handling # NoHandling /\ run = NoRun
      /\ pending' = [request |-> handling.request, tried |-> handling.tried \cup {handling.to}]
      /\ handling' = [handling EXCEPT !.step = "sending"]
      /\ UNCHANGED <<run, incident, asked, affected, resent>>
  BY DEF PreparesContinuation, sessionHistory
<1>2. handling \in [step : {"selecting", "switched", "sending"}, request : asked, tried : SUBSET Models, to : Models]
  BY <1>1 DEF SessionInv, SessionTypes
<1>3. /\ handling' \in [step : {"selecting", "switched", "sending"}, request : asked, tried : SUBSET Models, to : Models]
      /\ handling'.step = "sending" /\ handling'.request = handling.request
      /\ handling'.tried = handling.tried /\ handling'.to = handling.to
  BY <1>1, <1>2
<1>4. /\ pending' \in [request : Requests, tried : SUBSET Models]
      /\ pending'.request = handling.request /\ pending'.tried = handling.tried \cup {handling.to}
  BY <1>1, <1>2 DEF SessionInv, SessionTypes
<1>5. pending' # NoPending
  BY <1>4, SessionAssumption DEF Models
<1>6. SessionTypes'
  BY <1>1, <1>3, <1>4 DEF SessionInv, SessionTypes
<1>7. HandlingFits'
  BY <1>1, <1>3, <1>5 DEF SessionInv, HandlingFits, Attempted
<1>8. handling' # NoHandling
  <2>1. handling' \in [step : {"selecting", "switched", "sending"}, request : Requests, tried : SUBSET Models, to : Models]
    BY <1>3 DEF SessionInv, SessionTypes
  <2>. QED BY <2>1, SessionAssumption DEF Models
<1>9. PendingFits'
  BY <1>3, <1>4, <1>8 DEF PendingFits
<1>10. IncidentFits' /\ SessionRepeatsOnlyUntouched'
  BY <1>1 DEF SessionInv, IncidentFits, Attempted, SessionRepeatsOnlyUntouched
<1>. QED BY <1>6, <1>7, <1>9, <1>10 DEF SessionInv

LEMMA ContinuationBeginsKeeps == ASSUME SessionInv, ContinuationBegins PROVE SessionInv'
<1>1. /\ handling # NoHandling /\ handling.step = "sending" /\ run = NoRun /\ handling' = NoHandling
      /\ run' = [asks |-> handling.request, events |-> 0] /\ Follows(handling.request)
      /\ UNCHANGED <<asked, affected>>
  BY DEF ContinuationBegins, Begins
<1>2. /\ handling \in [step : {"selecting", "switched", "sending"}, request : asked, tried : SUBSET Models, to : Models]
      /\ handling.request \notin affected /\ Attempted(handling.request, handling.tried)
      /\ handling.to \notin handling.tried /\ asked \subseteq Requests /\ resent \in Seq(Resendings)
      /\ handling.request \in Requests
  BY <1>1 DEF SessionInv, HandlingFits, SessionTypes
<1>3. /\ pending # NoPending /\ pending.request = handling.request
      /\ pending.tried = handling.tried \cup {handling.to}
  BY <1>1 DEF SessionInv, HandlingFits, PendingFits
<1>4. PICK again : again = [request |-> handling.request, on |-> handling.to,
                            untouched |-> handling.request \notin affected]
  OBVIOUS
<1>5. /\ again \in Resendings /\ again.untouched /\ again.request = handling.request /\ again.on = handling.to
      /\ resent' = Append(resent, again)
  BY <1>1, <1>2, <1>4 DEF Resendings, ContinuationBegins
<1>. HIDE <1>4
<1>6. /\ resent' \in Seq(Resendings) /\ DOMAIN resent' = 1..(Len(resent) + 1) /\ DOMAIN resent = 1..Len(resent)
      /\ Len(resent) \in Nat
      /\ resent'[Len(resent) + 1] = again /\ \A i \in DOMAIN resent : resent'[i] = resent[i]
  BY <1>2, <1>5
<1>7. /\ pending' = NoPending
      /\ incident'.request \in asked /\ incident'.tried \in SUBSET Models /\ incident'.seen \in Evidence
      /\ incident' = [request |-> incident'.request, tried |-> incident'.tried,
                      model |-> incident'.model, seen |-> incident'.seen]
      /\ incident'.request = handling.request /\ incident'.tried = handling.tried \cup {handling.to}
  BY <1>1, <1>2, <1>3, FollowsIs
<1>8. run' \in [asks : asked \cup {0}, events : 0..MaxEvents]
  BY <1>1, <1>2, RunBegunIs
<1>9. \A i \in DOMAIN resent' : resent'[i].request \in asked
  BY <1>2, <1>5, <1>6 DEF SessionInv, SessionTypes
<1>10. SessionTypes'
  BY <1>1, <1>2, <1>6, <1>7, <1>8, <1>9 DEF SessionInv, SessionTypes
<1>11. IncidentFits'
  <2>1. Attempted(incident.request, incident.tried)'
    BY <1>2, <1>5, <1>6, <1>7 DEF Attempted
  <2>2. incident'.request \notin affected'
    BY <1>1, <1>2, <1>7
  <2>. QED BY <2>1, <2>2 DEF IncidentFits
<1>12. HandlingFits' /\ PendingFits'
  BY <1>1, <1>7 DEF HandlingFits, PendingFits
<1>13. SessionRepeatsOnlyUntouched'
  <2>1. ASSUME NEW i \in DOMAIN resent' PROVE resent'[i].untouched
    BY <1>5, <1>6 DEF SessionInv, SessionRepeatsOnlyUntouched
  <2>2. ASSUME NEW i \in DOMAIN resent, resent[i].request = again.request PROVE resent[i].on # again.on
    BY <1>2, <1>5, <2>2 DEF Attempted
  <2>3. ASSUME NEW i \in DOMAIN resent', NEW j \in DOMAIN resent',
               resent'[i].request = resent'[j].request, resent'[i].on = resent'[j].on
        PROVE  i = j
    <3>1. CASE i \in DOMAIN resent /\ j \in DOMAIN resent
      BY <1>6, <2>3, <3>1 DEF SessionInv, SessionRepeatsOnlyUntouched
    <3>2. CASE i \in DOMAIN resent /\ j = Len(resent) + 1
      BY <1>6, <2>2, <2>3, <3>2
    <3>3. CASE j \in DOMAIN resent /\ i = Len(resent) + 1
      BY <1>6, <2>2, <2>3, <3>3
    <3>4. CASE i = Len(resent) + 1 /\ j = Len(resent) + 1
      BY <3>4
    <3>. QED BY <1>6, <3>1, <3>2, <3>3, <3>4
  <2>. QED BY <2>1, <2>3 DEF SessionRepeatsOnlyUntouched
<1>. QED BY <1>10, <1>11, <1>12, <1>13 DEF SessionInv

LEMMA SessionInvStep == SessionInv /\ [SessionNext]_sessionVars => SessionInv'
<1>. SUFFICES ASSUME SessionInv, [SessionNext]_sessionVars PROVE SessionInv'
  OBVIOUS
<1>1. CASE UNCHANGED sessionVars \/ SessionStart \/ StewardSelects \/ TurnEnds \/ ReviewBegins \/ ReviewEnds
  <2>1. UNCHANGED <<run, incident, pending, handling, asked, affected, resent>>
    BY <1>1 DEF sessionVars, sessionHistory, SessionStart, StewardSelects, TurnEnds, ReviewBegins, ReviewEnds
  <2>. QED BY <2>1, ElsewhereKeeps
<1>. QED BY <1>1, StewardAsksKeeps, StrangerBeginsKeeps, RunGoesOnKeeps, RunSettlesKeeps, SwitchKeeps, PreparesKeeps,
       ContinuationBeginsKeeps DEF SessionNext

LEMMA SessionInvIs == SessionInv => SessionRepeatsOnlyUntouched
BY DEF SessionInv

\* A session's extension sends a request again only while it has had no
\* effect, and once on each model: for any number of requests, of fallback
\* models and of events (agent_settled, planFallbackAttempt).
THEOREM SessionsRepeatNothing == SessionSpec => []SessionRepeatsOnlyUntouched
BY SessionInvInit, SessionInvStep, SessionInvIs, PTL DEF SessionSpec

\* A program's request is put again only while it has had no effect, and once
\* on each fallback model; what it is told of a failure is so (askAgentClassified).
THEOREM AsksRepeatNothing == BoundedSpec => []AskRepeatsOnlyUntouched
BY BoundedInvInit, BoundedInvStep, BoundedInvIs, PTL DEF BoundedSpec

\* The two as an agent's process has them.
THEOREM NothingIsRepeated == AgentSpec => []RepeatsOnlyUntouched
<1>. DEFINE Inv == SessionInv /\ BoundedInv
<1>1. AgentInit => Inv
  BY SessionInvInit, BoundedInvInit DEF AgentInit
<1>2. Inv /\ [AgentNext]_agentVars => Inv'
  BY SessionInvStep, BoundedInvStep DEF AgentNext, agentVars
<1>3. Inv => RepeatsOnlyUntouched
  BY SessionInvIs, BoundedInvIs DEF RepeatsOnlyUntouched
<1>. QED BY <1>1, <1>2, <1>3, PTL DEF AgentSpec
=============================================================================
