-------------------------- MODULE WorkbenchTimeline --------------------------
(***************************************************************************)
(* The active surface of one conversation in the Workbench: the timeline   *)
(* (history read, then live stream, web/src/ConversationTimeline.tsx and   *)
(* conversation-activity.ts), the cards of running agents and of pending   *)
(* approvals (ConversationNavigator.tsx), and the composer they interlock  *)
(* (ConversationComposer.tsx, composer-interlock.ts).                      *)
(*                                                                         *)
(* The gateway's side: an event is appended to the log and, in a later     *)
(* step, published to whoever is subscribed then; a run publishes its      *)
(* transient frames directly.  The stream replays nothing.  It may break   *)
(* and lose what was on the wire.                                          *)
(***************************************************************************)
EXTENDS Naturals, Sequences, FiniteSets, SequencesExt

CONSTANTS Speakers,
          Editable,     \* the interlock state in which the text is the reader's
          MaxRuns,      \* bound: runs of each agent
          MaxTexts,     \* bound: messages written
          MaxKept,      \* bound: messages in the log, repeats included, before a send
          MaxFaults,    \* bound: broken streams and failed requests
          MaxMounts,    \* bound: times the surface is mounted
          MaxWire       \* bound: frames on the wire

ASSUME TimelineAssumption ==
    /\ {MaxRuns, MaxTexts, MaxKept, MaxFaults, MaxMounts, MaxWire} \subseteq Nat
    /\ Editable \notin 0..MaxTexts

VARIABLES
    log,            \* the events of the conversation, in order
    unpublished,    \* appended, and not published yet
    run,            \* per agent: its newest run and how far that is
    asking,         \* agents whose run waits for an approval
    posts,          \* messages on their way to the gateway, or answered by it
    sub, wire,      \* the subscription and the frames on the wire
    faults, mounts,  \* counted for the bounds
    at,             \* what the timeline is doing
    budget,         \* whether an automatic reconnection is left
    items,          \* the events shown
    missed,         \* history variable: published between the history and the stream
    dock, settled,  \* runs shown at work, and the tombstones of settled ones
    cards,          \* approvals shown
    text, held,     \* the composer: its text, and the draft of the interlock
    sending,        \* the message the composer waits for, 0 for none
    locked,         \* the interlocked prop of the last commit
    was,            \* wasInterlockedRef: the prop its effect has seen
    written,        \* messages written so far
    abandoned,      \* messages whose composer was unmounted with them
    dropped         \* history variable: failed between a clearing commit and its effect

timelineGateway == <<log, unpublished, run, asking>>
stream == <<sub, wire>>
view == <<items, missed, dock, settled, cards>>
composer == <<text, held, sending, locked, was>>
counts == <<faults, mounts, written, abandoned, dropped>>
timelineVars == <<timelineGateway, posts, stream, at, budget, view, composer, counts>>

RunId == [agent: Speakers, n: 1..MaxRuns]
Event == [kind: {"steward"}, m: 1..MaxTexts] \cup [kind: {"started", "reply", "end"}, agent: Speakers]
Frame == [kind: {"working", "delta", "settled", "approval"}, run: RunId]
         \cup [kind: {"event"}, id: Nat]

TimelineTypeOK ==
    /\ log \in Seq(Event) /\ unpublished \subseteq DOMAIN log
    /\ run \in [Speakers -> [n: 0..MaxRuns, stage: {"idle", "started", "working", "replied", "ended"}]]
    /\ asking \in [Speakers -> {"no", "pending", "answered"}]
    /\ posts \subseteq [m: 1..MaxTexts, stage: {"sent", "kept"}]
    /\ sub \in BOOLEAN /\ wire \in Seq(Frame)
    /\ at \in {"off", "history", "connecting", "live", "disconnected"}
    /\ budget \in BOOLEAN
    /\ items \in Seq(Nat) /\ missed \subseteq Nat
    /\ dock \subseteq RunId /\ settled \subseteq RunId /\ cards \subseteq RunId
    /\ text \in 0..MaxTexts /\ held \in 0..MaxTexts \cup {Editable} /\ sending \in 0..MaxTexts
    /\ locked \in BOOLEAN /\ was \in BOOLEAN
    /\ written \in 0..MaxTexts /\ abandoned \subseteq 1..MaxTexts /\ dropped \subseteq 1..MaxTexts
    /\ faults \in 0..MaxFaults /\ mounts \in 0..MaxMounts

TimelineInit ==
    /\ log = <<>> /\ unpublished = {} /\ posts = {}
    /\ run = [a \in Speakers |-> [n |-> 0, stage |-> "idle"]]
    /\ asking = [a \in Speakers |-> "no"]
    /\ sub = FALSE /\ wire = <<>> /\ at = "off" /\ budget = TRUE
    /\ items = <<>> /\ missed = {} /\ dock = {} /\ settled = {} /\ cards = {}
    /\ text = 0 /\ held = Editable /\ sending = 0 /\ locked = FALSE /\ was = FALSE
    /\ faults = 0 /\ mounts = 0 /\ written = 0 /\ abandoned = {} /\ dropped = {}

RunOf(a) == [agent |-> a, n |-> run[a].n]

-----------------------------------------------------------------------------
(* The gateway.                                                            *)

Push(frame) ==
    /\ Len(wire) < MaxWire
    /\ wire' = IF sub THEN Append(wire, frame) ELSE wire

Keep(event) ==
    /\ log' = Append(log, event)
    /\ unpublished' = unpublished \cup {Len(log) + 1}

Publish(i) ==
    /\ i \in unpublished
    /\ unpublished' = unpublished \ {i}
    /\ Push([kind |-> "event", id |-> i])
    /\ UNCHANGED <<log, run, asking, posts, sub, at, budget, view, composer, counts>>

(* An agent's events are published before its run goes on.                 *)
Told(a) == \A i \in unpublished : log[i].kind # "steward" => log[i].agent # a

StartRun(a) ==
    /\ run[a].stage = "idle" /\ run[a].n < MaxRuns
    /\ run' = [run EXCEPT ![a] = [n |-> @.n + 1, stage |-> "started"]]
    /\ asking' = [asking EXCEPT ![a] = "no"]
    /\ Keep([kind |-> "started", agent |-> a])
    /\ UNCHANGED <<posts, stream, at, budget, view, composer, counts>>

(* The run is shown at work once its start is durable and told.            *)
Work(a) ==
    /\ run[a].stage = "started" /\ Told(a)
    /\ run' = [run EXCEPT ![a].stage = "working"]
    /\ Push([kind |-> "working", run |-> RunOf(a)])
    /\ UNCHANGED <<log, unpublished, asking, posts, sub, at, budget, view, composer, counts>>

(* A delta or a tool line; only what a subscriber sees matters.            *)
Progress(a) ==
    /\ run[a].stage = "working" /\ sub
    /\ ~ \E i \in DOMAIN wire : wire[i] = [kind |-> "delta", run |-> RunOf(a)]
    /\ Push([kind |-> "delta", run |-> RunOf(a)])
    /\ UNCHANGED <<timelineGateway, posts, sub, at, budget, view, composer, counts>>

Ask(a) ==
    /\ run[a].stage = "working" /\ asking[a] = "no"
    /\ asking' = [asking EXCEPT ![a] = "pending"]
    /\ Push([kind |-> "approval", run |-> RunOf(a)])
    /\ UNCHANGED <<log, unpublished, run, posts, sub, at, budget, view, composer, counts>>

(* The run settles: the reply, if there is one, the terminal event, and    *)
(* last the transient frame.  What it was asking is no longer pending.     *)
Reply(a) ==
    /\ run[a].stage = "working"
    /\ run' = [run EXCEPT ![a].stage = "replied"]
    /\ asking' = [asking EXCEPT ![a] = "no"]
    /\ Keep([kind |-> "reply", agent |-> a])
    /\ UNCHANGED <<posts, stream, at, budget, view, composer, counts>>

Finish(a) ==
    /\ run[a].stage \in {"working", "replied"} /\ Told(a)
    /\ run' = [run EXCEPT ![a].stage = "ended"]
    /\ asking' = [asking EXCEPT ![a] = "no"]
    /\ Keep([kind |-> "end", agent |-> a])
    /\ UNCHANGED <<posts, stream, at, budget, view, composer, counts>>

Settle(a) ==
    /\ run[a].stage = "ended" /\ Told(a)
    /\ run' = [run EXCEPT ![a].stage = "idle"]
    /\ Push([kind |-> "settled", run |-> RunOf(a)])
    /\ UNCHANGED <<log, unpublished, asking, posts, sub, at, budget, view, composer, counts>>

(* The message route keeps the message before it dispatches anything.      *)
KeepPost(p) ==
    /\ p.stage = "sent"
    /\ posts' = (posts \ {p}) \cup {[p EXCEPT !.stage = "kept"]}
    /\ Keep([kind |-> "steward", m |-> p.m])
    /\ UNCHANGED <<run, asking, stream, at, budget, view, composer, counts>>

-----------------------------------------------------------------------------
(* The composer.                                                           *)

Interlocked == dock # {} \/ cards # {}

Visible == IF held = Editable THEN text ELSE held

(* What the composer is rendered with follows the dock and the cards in a  *)
(* commit of its own.  A commit first runs the effects of the one before.  *)
Commit ==
    /\ at # "off" /\ locked = was /\ locked # Interlocked
    /\ locked' = Interlocked
    /\ UNCHANGED <<timelineGateway, posts, stream, at, budget, view, text, held, sending, was, counts>>

(* The passive effect of that commit: the draft is held when the interlock *)
(* begins and given back when it clears.                                   *)
ApplyInterlock ==
    /\ was # locked
    /\ was' = locked
    /\ \/ locked /\ held' = (IF held = Editable THEN text ELSE held) /\ UNCHANGED text
       \/ ~locked /\ held' = Editable /\ text' = (IF held \in {Editable, 0} THEN text ELSE held)
    /\ UNCHANGED <<timelineGateway, posts, stream, at, budget, view, sending, locked, counts>>

Type ==
    /\ at # "off" /\ ~locked /\ sending = 0 /\ text = 0 /\ Visible = 0
    /\ written < MaxTexts
    /\ written' = written + 1 /\ text' = written'
    /\ UNCHANGED <<timelineGateway, posts, stream, at, budget, view, held, sending, locked, was,
                   faults, mounts, abandoned, dropped>>

(* handleSubmit: the text leaves the field at once.  In the moment before  *)
(* the effect of a clearing commit, the effect puts it back in the field.  *)
Submit ==
    /\ at # "off" /\ ~locked /\ sending = 0 /\ text # 0
    /\ Cardinality({i \in DOMAIN log : log[i].kind = "steward"}) < MaxKept
    /\ posts' = posts \cup {[m |-> text, stage |-> "sent"]}
    /\ sending' = text /\ text' = 0
    /\ UNCHANGED <<timelineGateway, stream, at, budget, view, held, locked, was, counts>>

Sent(p) ==
    /\ p.stage = "kept"
    /\ posts' = posts \ {p}
    /\ sending' = IF sending = p.m THEN 0 ELSE sending
    /\ UNCHANGED <<timelineGateway, stream, at, budget, view, text, held, locked, was, counts>>

(* Mutant: the text goes back to the field, interlocked or not.            *)
RestoreToField(m) == text' = m /\ UNCHANGED <<held, dropped>>

(* The raw text comes back: to the field, or to the draft if the effect    *)
(* has seen an interlock.  When the interlock is cleared and the effect    *)
(* has not run, it runs before the next render, with the draft it knows,   *)
(* and what was put aside here is lost.                                    *)
Restore(m) ==
    \/ ~was /\ text' = m /\ UNCHANGED <<held, dropped>>
    \/ was /\ locked /\ held' = m /\ UNCHANGED <<text, dropped>>
    \/ was /\ ~locked /\ dropped' = dropped \cup {m} /\ UNCHANGED <<text, held>>

(* A refusal before anything is kept, a conflict of the dispatch after, or *)
(* an answer that is lost.                                                 *)
SendFails(p) ==
    /\ faults < MaxFaults /\ faults' = faults + 1
    /\ posts' = posts \ {p}
    /\ IF sending = p.m THEN Restore(p.m) /\ sending' = 0
                        ELSE UNCHANGED <<text, held, sending, dropped>>
    /\ UNCHANGED <<timelineGateway, stream, at, budget, view, locked, was, mounts, written, abandoned>>

-----------------------------------------------------------------------------
(* The timeline.                                                           *)

Mount ==
    /\ at = "off" /\ mounts < MaxMounts
    /\ mounts' = mounts + 1
    /\ at' = "history" /\ budget' = TRUE
    /\ UNCHANGED <<timelineGateway, posts, stream, view, composer, faults, written, abandoned, dropped>>

(* The reader leaves, or the conversation is opened again: the surface and *)
(* all that was only in it are gone.                                       *)
Unmount ==
    /\ at # "off" /\ at' = "off"
    /\ sub' = FALSE /\ wire' = <<>>
    /\ items' = <<>> /\ missed' = {} /\ dock' = {} /\ settled' = {} /\ cards' = {}
    /\ text' = 0 /\ held' = Editable /\ sending' = 0 /\ locked' = FALSE /\ was' = FALSE
    /\ abandoned' = abandoned \cup ({text, sending, Visible} \ {0})
    /\ UNCHANGED <<timelineGateway, posts, budget, faults, mounts, written, dropped>>

ReadHistory ==
    /\ at = "history"
    /\ items' = [i \in 1..Len(log) |-> i]
    /\ at' = "connecting"
    /\ UNCHANGED <<timelineGateway, posts, stream, budget, missed, dock, settled, cards, composer, counts>>

(* The gateway subscribes the request; there is no replay.                 *)
Connect ==
    /\ at = "connecting"
    /\ at' = "live"
    /\ sub' = TRUE /\ wire' = <<>>
    /\ missed' = (DOMAIN log \ unpublished) \ ToSet(items)
    /\ UNCHANGED <<timelineGateway, posts, budget, items, dock, settled, cards, composer, counts>>

(* A stream has ended or a request failed: the activity is cleared, and    *)
(* one attempt follows by itself.                                          *)
End ==
    /\ dock' = {} /\ settled' = {} /\ missed' = {}
    /\ IF budget
         THEN budget' = FALSE /\ at' = "history" /\ items' = <<>>
         ELSE at' = "disconnected" /\ UNCHANGED <<budget, items>>
    /\ UNCHANGED <<cards, composer>>

(* The gateway cannot be reached; that may last.                           *)
RequestFails ==
    /\ at \in {"history", "connecting"}
    /\ End
    /\ UNCHANGED <<timelineGateway, posts, stream, counts>>

(* The connection breaks, with any part of what was on the wire.           *)
Break ==
    /\ sub /\ faults < MaxFaults
    /\ faults' = faults + 1
    /\ sub' = FALSE
    /\ \E k \in 0..Len(wire) : wire' = SubSeq(wire, 1, k)
    /\ UNCHANGED <<timelineGateway, posts, at, budget, view, composer, mounts, written, abandoned,
                   dropped>>

StreamEnds ==
    /\ at = "live" /\ ~sub /\ wire = <<>>
    /\ End
    /\ UNCHANGED <<timelineGateway, posts, stream, counts>>

Reconnect ==
    /\ at = "disconnected"
    /\ at' = "history" /\ budget' = TRUE /\ items' = <<>>
    /\ dock' = {} /\ settled' = {}
    /\ UNCHANGED <<timelineGateway, posts, stream, missed, cards, composer, counts>>

(* applyConversationActivityFrame: a settled run is never shown again.  A  *)
(* run id names one agent, so no frame contradicts what is shown, and the  *)
(* cap of 32 tombstones is beyond the runs of one subscription.            *)
ApplyActivity(frame) ==
    IF frame.run \in settled THEN UNCHANGED <<dock, settled>>
    ELSE IF frame.kind = "settled"
      THEN dock' = dock \ {frame.run} /\ settled' = settled \cup {frame.run}
      ELSE dock' = dock \cup {frame.run} /\ UNCHANGED settled

(* reconcileConversationActivity: an agent's durable event ends its cards. *)
Reconciled(event) ==
    IF event.kind \in {"reply", "end"} THEN {r \in dock : r.agent # event.agent} ELSE dock

(* Mutant: the live item is appended whatever is shown.                    *)
AppendAlways(shown, id) == Append(shown, id)

AppendLive(shown, id) == IF Contains(shown, id) THEN shown ELSE Append(shown, id)

ShowEvent(frame) ==
    /\ dock' = Reconciled(log[frame.id])
    /\ items' = AppendLive(items, frame.id)
    /\ UNCHANGED <<settled, cards>>

Receive ==
    /\ at = "live" /\ wire # <<>>
    /\ wire' = Tail(wire)
    /\ LET frame == Head(wire)
       IN  \/ frame.kind = "event" /\ ShowEvent(frame)
           \/ frame.kind = "approval" /\ cards' = cards \cup {frame.run}
                /\ UNCHANGED <<items, dock, settled>>
           \/ frame.kind \in {"working", "delta", "settled"} /\ ApplyActivity(frame)
                /\ UNCHANGED <<items, cards>>
    /\ UNCHANGED <<timelineGateway, posts, sub, at, budget, missed, composer, counts>>

(* The reader answers a card.  Only an answer the gateway accepts removes  *)
(* it: a request that is no longer pending is refused, and the card stays. *)
Respond(r) ==
    /\ r \in cards
    /\ asking[r.agent] = "pending" /\ run[r.agent].n = r.n
    /\ asking' = [asking EXCEPT ![r.agent] = "answered"]
    /\ cards' = cards \ {r}
    /\ UNCHANGED <<log, unpublished, run, posts, stream, at, budget, items, missed, dock, settled,
                   composer, counts>>

TimelineNext ==
    \/ \E i \in DOMAIN log : Publish(i)
    \/ \E a \in Speakers : StartRun(a) \/ Work(a) \/ Progress(a) \/ Ask(a) \/ Reply(a) \/ Finish(a) \/ Settle(a)
    \/ \E p \in posts : KeepPost(p) \/ Sent(p) \/ SendFails(p)
    \/ Type \/ Submit \/ Commit \/ ApplyInterlock
    \/ Mount \/ Unmount \/ ReadHistory \/ Connect \/ RequestFails \/ Break \/ StreamEnds \/ Reconnect
    \/ Receive
    \/ \E r \in cards : Respond(r)

TimelineSpec == TimelineInit /\ [][TimelineNext]_timelineVars

-----------------------------------------------------------------------------
OnWire == {wire[i].id : i \in {j \in DOMAIN wire : wire[j].kind = "event"}}

(* Whatever way an event reaches the page, the history or the stream or    *)
(* both (it is appended before it is published), it is shown once; and the *)
(* page misses only what was published between its history read and its    *)
(* subscription: every other event is shown, on the wire, or still to be   *)
(* published.                                                              *)
ShownExactlyOnce ==
    /\ IsInjective(items)
    /\ sub => DOMAIN log \subseteq ToSet(items) \cup OnWire \cup unpublished \cup missed

(* The field shows the message, or will once the effect that follows a     *)
(* clearing commit has run: there is then no draft to replace it.          *)
InComposer(m) == Visible = m \/ (text = m /\ held = 0 /\ ~locked)

(* A message the reader wrote is lost between the field, the draft of the  *)
(* interlock and the gateway in one way only: its send fails after the     *)
(* commit that clears an interlock and before the effect of that commit.   *)
(* However else interlocks, commits, effects and failures interleave, it   *)
(* can be read in the composer, is under way, is in the log, or its        *)
(* composer was closed with it.                                            *)
TextKept ==
    \A m \in 1..written \ dropped :
        \/ InComposer(m)
        \/ \E p \in posts : p.m = m
        \/ \E i \in DOMAIN log : log[i] = [kind |-> "steward", m |-> m]
        \/ m \in abandoned

(* "The composer is read-only [...] until the work settles"                *)
(* (docs/gateway.md:60): with a live stream, nothing under way and every   *)
(* agent idle, the composer is not interlocked.                            *)
InterlockReleased ==
    sub /\ wire = <<>> /\ unpublished = {} /\ (\A a \in Speakers : run[a].stage = "idle")
        => ~Interlocked
=============================================================================
