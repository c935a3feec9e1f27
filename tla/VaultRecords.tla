---------------------------- MODULE VaultRecords ----------------------------
(***************************************************************************)
(* What agents write into the vault with their tools: documents, logs,     *)
(* knowledge pages, session summaries and alerts for the steward.          *)
(*                                                                         *)
(* Every write replaces one file through a rename; nothing is locked.  The *)
(* vault is a directory that another device may hold: it can go away, and  *)
(* what remains at its path is then an ordinary directory without the      *)
(* vault's markers.  Only vaultWrite looks for the markers; what it cannot *)
(* write goes to an outbox on this device, when the agent has one.         *)
(*                                                                         *)
(* A document is the set of pieces it holds, a piece being what one call   *)
(* wrote; {} is a file that does not exist.                                *)
(*                                                                         *)
(* Sources: vault-tools.ts, knowledge.ts, session.ts, alerts.ts,           *)
(* alert-mirror.ts, steward-alert-store.ts and the tools of                *)
(* pi-extension.ts that use them.                                          *)
(***************************************************************************)
EXTENDS Naturals, FiniteSets, Sequences

CONSTANTS
    Hands,          \* calls that may be under way at once, one after another each
    Gateways,       \* those among them that are requests of the steward
    Processes,      \* agent processes
    ProcessOf,      \* [Hands \ Gateways -> Processes]
    Mirrors,        \* the destinations alerts are sent to, in order
    RateLimit,      \* least time between two messages to one destination
    Never,          \* the last time of a destination nothing was sent to
    NoCall,         \* a hand that is doing nothing
    MaxInstant,     \* bound on time
    MaxSwaps,       \* bound on how often the vault goes away or comes back
    MaxCalls        \* bound on the calls

ASSUME RecordsAssumption ==
    /\ Gateways \subseteq Hands
    /\ Mirrors \in Seq({Mirrors[i] : i \in DOMAIN Mirrors})
    /\ ProcessOf \in [Hands \ Gateways -> Processes]
    /\ RateLimit \in Nat /\ MaxInstant \in Nat /\ MaxSwaps \in Nat /\ MaxCalls \in Nat
    /\ Never \notin Nat

\* A summary and an alert have the time in their name.
Paths == ({"log", "page"} \X {0}) \cup ({"summary", "alert"} \X (0..MaxInstant))

VARIABLES
    disk,       \* disk[w][p]: the document p of the vault, or of the directory below
    mounted,    \* whether the vault is there
    outbox,     \* outbox[name]: what a blocked write left on this device
    instant,    \* the time
    hand,       \* what each hand is doing
    mirror      \* each process: the alerts it has mirrored, and when it last sent

\* History: read by the properties only, never by a guard.
VARIABLES
    made,       \* calls begun
    swaps,      \* times the vault went away or came back
    overtaken,  \* hands whose document was replaced after they read it
    saved,      \* what calls have reported as saved, and where
    excused,    \* pieces replaced on purpose, or lost to a writer overtaken
    beside,     \* alerts mirrored while their process mirrored another
    sent        \* messages sent: when their alert began to be mirrored, and when they were out

recordsHistory == <<made, swaps, overtaken, saved, excused, beside, sent>>
recordsVars == <<disk, mounted, outbox, instant, hand, mirror, recordsHistory>>

-----------------------------------------------------------------------------

\* Operations that check the vault, that replace a document without reading
\* it, and that read it first.
Checked == {"write", "page", "summary"}
Whole   == {"write", "page", "summary", "flag"}
Amends  == {"append", "patch", "close"}

Side == IF mounted THEN "vault" ELSE "below"

Here(p) == disk[Side][p]

\* queueWrite names the proposal after the time and the path.
QueueName(at, p) == <<at, p>>

-----------------------------------------------------------------------------

RecordsInit ==
    /\ disk = [w \in {"vault", "below"} |-> [p \in Paths |-> {}]]
    /\ mounted = TRUE
    /\ outbox = [name \in (0..MaxInstant) \X Paths |-> {}]
    /\ instant = 0
    /\ hand = [h \in Hands |-> NoCall]
    /\ mirror = [x \in Processes |->
                    [seen |-> {}, last |-> [i \in DOMAIN Mirrors |-> Never]]]
    /\ made = 0
    /\ swaps = 0
    /\ overtaken = {}
    /\ saved = {}
    /\ excused = {}
    /\ beside = {}
    /\ sent = {}

\* Time passes, and the vault goes away and comes back, at any moment.
Tick ==
    /\ instant < MaxInstant
    /\ instant' = instant + 1
    /\ UNCHANGED <<disk, mounted, outbox, hand, mirror, recordsHistory>>

Swap ==
    /\ swaps < MaxSwaps
    /\ mounted' = ~mounted
    /\ swaps' = swaps + 1
    /\ UNCHANGED <<disk, outbox, instant, hand, mirror, made, overtaken, saved, excused,
                   beside, sent>>

-----------------------------------------------------------------------------
(* The tools.                                                              *)

FirstStep(op) ==
    CASE op \in Checked -> "checking"
      [] op \in Amends  -> "reading"
      [] OTHER          -> "writing"

Calling(h, op, p) ==
    /\ hand[h] = NoCall
    /\ made < MaxCalls
    /\ made' = made + 1
    /\ hand' = [hand EXCEPT ![h] =
          [step |-> FirstStep(op), op |-> op, path |-> p, since |-> swaps,
           piece |-> [nr |-> made + 1, op |-> op],
           read |-> {}, drops |-> {}, left |-> <<>>, at |-> 0]]
    /\ overtaken' = overtaken \ {h}
    /\ UNCHANGED <<disk, mounted, outbox, instant, mirror, swaps, saved, excused, beside, sent>>

VaultWrite(h) == \E kind \in {"log", "page"} : Calling(h, "write", <<kind, 0>>)

VaultPatch(h) == \E kind \in {"log", "page"} : Calling(h, "patch", <<kind, 0>>)

VaultAppendLog(h) == Calling(h, "append", <<"log", 0>>)

\* The log of a project is a log like any other.
ProjectAppendLog(h) == Calling(h, "append", <<"log", 0>>)

\* The knowledge tools render a whole document and write it where its title says.
WriteAuthoritative(h) == Calling(h, "page", <<"page", 0>>)

DecisionRecord(h)       == WriteAuthoritative(h)
ProjectUpdateHandoff(h) == WriteAuthoritative(h)
RunbookWrite(h)         == WriteAuthoritative(h)
SkillCandidateWrite(h)  == WriteAuthoritative(h)
WikiUpdate(h)           == WriteAuthoritative(h)

KnowledgeTools(h) ==
    \/ ProjectAppendLog(h) \/ DecisionRecord(h) \/ ProjectUpdateHandoff(h)
    \/ RunbookWrite(h) \/ SkillCandidateWrite(h) \/ WikiUpdate(h)

\* A file of its own for every summary and every alert, but for those of one instant.
SummaryPath(at) == <<"summary", at>>
AlertPath(at)   == <<"alert", at>>

SessionWriteSummary(h) == Calling(h, "summary", SummaryPath(instant))

FlagSteward(h) == Calling(h, "flag", AlertPath(instant))

\* POST /api/alerts/close, for an alert the steward has seen.
CloseAlert(h) ==
    \E p \in Paths : p[1] = "alert" /\ Here(p) # {} /\ Calling(h, "close", p)

-----------------------------------------------------------------------------
(* Writing a document.                                                     *)

Goes(h, step) == hand' = [hand EXCEPT ![h].step = step]
CallOver(h) == hand' = [hand EXCEPT ![h] = NoCall]

\* assertVaultAvailable: the directory left behind has none of the markers.
FindsVault(h) ==
    /\ hand[h] # NoCall /\ hand[h].step = "checking"
    /\ mounted
    /\ Goes(h, "writing")
    /\ UNCHANGED <<disk, mounted, outbox, instant, mirror, recordsHistory>>

\* Only vault_write has an outbox; the other tools report the error.
MissesVault(h) ==
    /\ hand[h] # NoCall /\ hand[h].step = "checking"
    /\ ~mounted
    /\ IF hand[h].op = "write" THEN Goes(h, "queueing") ELSE CallOver(h)
    /\ UNCHANGED <<disk, mounted, outbox, instant, mirror, recordsHistory>>

\* What a call makes of the document it reads: an alert must be open, and the
\* text to patch must be there once.
Drops(h, read) ==
    IF hand[h].op = "patch" THEN {{x} : x \in read} ELSE {{}}

Accepts(h, read) ==
    CASE hand[h].op = "close" -> read # {} /\ \A x \in read : x.op # "close"
      [] OTHER                -> TRUE

ReadsDocument(h) ==
    /\ hand[h] # NoCall /\ hand[h].step = "reading"
    /\ LET read == Here(hand[h].path)
       IN  /\ Accepts(h, read)
           /\ \E drops \in Drops(h, read) :
                 hand' = [hand EXCEPT ![h].step = "writing", ![h].read = read, ![h].drops = drops]
    /\ UNCHANGED <<disk, mounted, outbox, instant, mirror, recordsHistory>>

\* Variant: an append takes any failure to read for a file that does not exist.
CallFailsButAppendWrites(h) ==
    /\ hand[h] # NoCall /\ hand[h].step \in {"reading", "writing", "queueing"}
    /\ IF hand[h].op = "write" /\ hand[h].step = "writing" THEN Goes(h, "queueing")
       ELSE IF hand[h].op = "append" /\ hand[h].step = "reading" THEN Goes(h, "writing")
       ELSE CallOver(h)
    /\ UNCHANGED <<disk, mounted, outbox, instant, mirror, recordsHistory>>

\* A file operation fails, or the document is not what the call needs.
CallFails(h) ==
    /\ hand[h] # NoCall /\ hand[h].step \in {"reading", "writing", "queueing"}
    /\ IF hand[h].op = "write" /\ hand[h].step = "writing" THEN Goes(h, "queueing") ELSE CallOver(h)
    /\ UNCHANGED <<disk, mounted, outbox, instant, mirror, recordsHistory>>

Written(h) == (hand[h].read \ hand[h].drops) \cup {hand[h].piece}

\* The vault went or came during the call, or another call replaced what it read.
Disturbed(h) == h \in overtaken \/ swaps # hand[h].since

\* Pieces that a write is allowed to lose, and a piece written outside the
\* vault: by a call that never looks, or that looked before the vault went.
ExcusedBy(h) ==
    (IF hand[h].op \in Whole \/ Disturbed(h)
     THEN Here(hand[h].path) \ Written(h) ELSE hand[h].drops)
    \cup {x \in {hand[h].piece} : ~mounted /\ (hand[h].op \notin Checked \/ swaps # hand[h].since)}

Saves(h, where, at) ==
    saved' = saved \cup {[piece |-> hand[h].piece, path |-> hand[h].path,
                          where |-> where, at |-> at]}

\* atomicWriteFile: the directory is made if it is not there, the vault's too.
ReplacesDocument(h) ==
    /\ hand[h] # NoCall /\ hand[h].step = "writing"
    /\ disk' = [disk EXCEPT ![Side][hand[h].path] = Written(h)]
    /\ IF hand[h].op = "flag" THEN Goes(h, "announcing") ELSE CallOver(h)
    /\ Saves(h, "vault", 0)
    /\ excused' = excused \cup ExcusedBy(h)
    /\ overtaken' = overtaken \cup
          {g \in Hands \ {h} : /\ hand[g] # NoCall
                               /\ hand[g].step = "writing"
                               /\ hand[g].op \in Amends
                               /\ hand[g].path = hand[h].path}
    /\ UNCHANGED <<mounted, outbox, instant, mirror, made, swaps, beside, sent>>

\* queueWrite.
QueuesWrite(h) ==
    /\ hand[h] # NoCall /\ hand[h].step = "queueing"
    /\ outbox' = [outbox EXCEPT ![QueueName(instant, hand[h].path)] = {hand[h].piece}]
    /\ CallOver(h)
    /\ Saves(h, "outbox", instant)
    /\ UNCHANGED <<disk, mounted, instant, mirror, made, swaps, overtaken, excused, beside, sent>>

-----------------------------------------------------------------------------
(* mirrorStewardAlert, for an alert that is to be mirrored.                *)

Alert(h) == hand[h].path

Mirroring(x) ==
    {Alert(g) : g \in {k \in DOMAIN ProcessOf :
        ProcessOf[k] = x /\ hand[k] # NoCall /\ hand[k].step \in {"mirroring", "sending"}}}

\* No notification is asked for, its severity is too low, or this process has
\* mirrored an alert of that name.
LeavesUnannounced(h) ==
    /\ hand[h] # NoCall /\ hand[h].step = "announcing"
    /\ CallOver(h)
    /\ UNCHANGED <<disk, mounted, outbox, instant, mirror, recordsHistory>>

Announces(h) ==
    LET x == ProcessOf[h] IN
    /\ hand[h] # NoCall /\ hand[h].step = "announcing"
    /\ Alert(h) \notin mirror[x].seen
    /\ mirror' = [mirror EXCEPT ![x].seen = @ \cup {Alert(h)}]
    /\ hand' = [hand EXCEPT ![h].step = "mirroring", ![h].at = instant,
                            ![h].left = [i \in DOMAIN Mirrors |-> i]]
    /\ beside' = beside \cup (IF Mirroring(x) = {} THEN {} ELSE Mirroring(x) \cup {Alert(h)})
    /\ UNCHANGED <<disk, mounted, outbox, instant, made, swaps, overtaken, saved, excused, sent>>

\* Mutant: one moment less than the limit is enough.
TooSoonStrict(h, i) ==
    LET last == mirror[ProcessOf[h]].last[i]
    IN  last # Never /\ hand[h].at + 1 < last + RateLimit

\* Sent too lately to that destination: dropped, not queued.
TooSoon(h, i) ==
    LET last == mirror[ProcessOf[h]].last[i]
    IN  last # Never /\ hand[h].at < last + RateLimit

NextDestination(h) ==
    /\ hand[h] # NoCall /\ hand[h].step = "mirroring"
    /\ IF hand[h].left = <<>> THEN CallOver(h)
       ELSE IF TooSoon(h, Head(hand[h].left))
       THEN hand' = [hand EXCEPT ![h].left = Tail(@)]
       ELSE Goes(h, "sending")
    /\ UNCHANGED <<disk, mounted, outbox, instant, mirror, recordsHistory>>

\* The stamp is the time the alert began to be mirrored.
SendSucceeds(h) ==
    LET x == ProcessOf[h]
        i == Head(hand[h].left)
    IN
    /\ hand[h] # NoCall /\ hand[h].step = "sending"
    /\ mirror' = [mirror EXCEPT ![x].last[i] = hand[h].at]
    /\ hand' = [hand EXCEPT ![h].step = "mirroring", ![h].left = Tail(@)]
    /\ sent' = sent \cup {[by |-> x, to |-> i, alert |-> Alert(h), call |-> hand[h].piece,
                           at |-> hand[h].at, out |-> instant]}
    /\ UNCHANGED <<disk, mounted, outbox, instant, made, swaps, overtaken, saved, excused, beside>>

\* A refused message leaves no stamp: the next alert is sent at once.
SendFails(h) ==
    /\ hand[h] # NoCall /\ hand[h].step = "sending"
    /\ hand' = [hand EXCEPT ![h].step = "mirroring", ![h].left = Tail(@)]
    /\ UNCHANGED <<disk, mounted, outbox, instant, mirror, recordsHistory>>

-----------------------------------------------------------------------------

VaultTools(h) ==
    \/ VaultWrite(h) \/ VaultPatch(h) \/ VaultAppendLog(h)
    \/ SessionWriteSummary(h) \/ FlagSteward(h) \/ KnowledgeTools(h)

RecordsNext ==
    \/ Tick \/ Swap
    \/ \E h \in Hands \ Gateways : VaultTools(h)
    \/ \E h \in Gateways : CloseAlert(h)
    \/ \E h \in Hands :
          \/ FindsVault(h) \/ MissesVault(h) \/ ReadsDocument(h) \/ CallFails(h)
          \/ ReplacesDocument(h) \/ QueuesWrite(h)
    \/ \E h \in Hands \ Gateways :
          \/ LeavesUnannounced(h) \/ Announces(h) \/ NextDestination(h)
          \/ SendSucceeds(h) \/ SendFails(h)

RecordsSpec == RecordsInit /\ [][RecordsNext]_recordsVars

-----------------------------------------------------------------------------
(* Properties.                                                             *)

\* What a tool reported as written is in the vault, and what it reported as
\* queued is in the outbox, however calls interleave and the vault goes and
\* comes.  Excepted are a piece that a later write of the whole document
\* replaced or a patch took out; a piece lost to a writer whose document was
\* replaced after it read it, or under whom the vault was swapped; a piece
\* written outside the vault by a tool that does not look for it; and a
\* queued piece that another of the same millisecond replaced (vaultWrite,
\* vaultAppendLog, vaultPatch, queueWrite, closeStoredStewardAlert).
SavedIsKept ==
    \A r \in saved :
        IF r.where = "vault"
        THEN r.piece \in excused \cup disk["vault"][r.path]
        ELSE \E q \in saved : /\ q.where = "outbox" /\ q.path = r.path /\ q.at = r.at
                              /\ outbox[QueueName(r.at, r.path)] = {q.piece}

\* One alert is sent to a destination once, and between the messages of two
\* alerts that were not mirrored side by side there is the least interval, a
\* failed delivery in between included, less the time for which the first one
\* was held up by slow sends, its own too: the window counts from the moment
\* its alert began to be mirrored (mirrorStewardAlert).
MirrorLimited ==
    \A m, n \in sent :
        (m.by = n.by /\ m.to = n.to /\ m # n) =>
            /\ m.alert # n.alert
            /\ m.at <= n.at /\ {m.alert, n.alert} \cap beside = {}
                  => n.out + (m.out - m.at) >= m.out + RateLimit
=============================================================================
