--------------------------- MODULE ConversationRoutes ---------------------------
(***************************************************************************)
(* The gateway's routes that open conversations, pass the steward's        *)
(* messages on to agents, archive, reopen, rename and raise budgets.       *)
(*                                                                         *)
(* A route records first and dispatches then: the manifest, the event,     *)
(* and one run after another for the agents the text mentions, or the      *)
(* message is steered into the one run that is already under way.  Every   *)
(* await lets other routes in; the request is answered when the last run   *)
(* has ended.  Nothing catches a failed append of a message: the promise   *)
(* of the route is dropped, and with an unhandled rejection the process    *)
(* goes, and every run and request with it.                                *)
(*                                                                         *)
(* The files of a conversation are specified in ConversationStore, a run   *)
(* in ConversationBroker; here a change of the manifest is one step, made  *)
(* under the lock that every other change needs.                           *)
(*                                                                         *)
(* Sources: the conversation routes of gateway-http.ts, conversations.ts,  *)
(* conversation-contract.ts and conversation-peer-start.ts.                *)
(***************************************************************************)
EXTENDS Naturals, Sequences, FiniteSets, SequencesExt

CONSTANTS
    Rooms,          \* conversation ids
    Earlier,        \* the conversation that was there before
    RunnableAgents, \* the local runnable set
    Foreign,        \* an agent that only other machines run
    Posts,          \* requests of the steward's browsers
    Wants,          \* what a request may ask for
    Texts,          \* the messages among them, as Markdown
    Candidates,     \* CONVERSATION_GENERIC_MAX_CANDIDATES
    NoFence,        \* a line that opens or closes no block of code
    NoRoom,         \* no conversation of an id
    NoTurn,         \* no run of an agent in a conversation
    NoOne,          \* who made the earlier conversation, and who holds a free lock
    Others,         \* who else locks conversations: handoffs and other devices
    MaxItems,       \* CONVERSATION_CONTEXT_MAX_ITEMS
    MaxChars,       \* CONVERSATION_CONTEXT_MAX_CHARS, counted in lines
    MaxTroubles     \* bound on mutations by others and failures of the file system and of processes

Names == RunnableAgents \cup {Foreign}

\* A line of Markdown: a quote or not, a fence or not, and what is on it.  A
\* line that can close a fence has nothing after it.
Fences == ({"tick", "tilde"} \X (3..4)) \cup {NoFence}

Tokens ==
    [is: {"ticks"}, n: Nat \ {0}] \cup [is: {"mention"}, who: Names] \cup [is: {"escaped", "glued", "word"}]

Lines == [quote: BOOLEAN, fence: Fences, bare: BOOLEAN, tokens: Seq(Tokens)]

Managing == {"archive", "reopen", "rename", "budget"}

\* The manifest of a conversation, and a run.
Manifests == [members: SUBSET Names, open: BOOLEAN, title: {"old", "new"}, maker: Posts \cup {NoOne}]

Turns == [by: Posts, at: {"starting", "bound", "prompted"}]

ASSUME RoutesAssumption ==
    /\ Earlier \in Rooms /\ IsFiniteSet(RunnableAgents) /\ Foreign \notin RunnableAgents
    /\ {NoOne, Others} \cap Posts = {} /\ Others # NoOne /\ NoRoom \notin Manifests /\ NoTurn \notin Turns
    /\ Texts \subseteq Seq(Lines)
    /\ Wants \subseteq [op: {"message", "create"}, text: Texts] \cup [op: {"start"}, who: Names]
                      \cup [op: {"start_peer"}, peers: Seq(Names)] \cup [op: {"attach", "archive", "reopen"}]
                      \cup [op: {"rename"}, title: {"old", "new"}] \cup [op: {"budget"}, expected: Nat]
    /\ Candidates \in Nat /\ MaxItems \in Nat \ {0} /\ MaxChars \in Nat \ {0} /\ MaxTroubles \in Nat

VARIABLES
    room,       \* the manifest of each conversation, and which request made it
    record,     \* its steward messages and origin events, by the request they came from
    holder,     \* who has the mutation lock of each conversation
    locks,      \* how often they took one
    call,       \* where each request is
    turn,       \* the run of each agent in each conversation
    slips,      \* failures so far
    passed      \* history: how often a message was given to an agent

routeVars == <<room, record, holder, locks, call, turn, slips, passed>>

-----------------------------------------------------------------------------
(* Whom a text addresses.                                                  *)

\* scanLine: no name counts inside a code span, which a run of as many ticks
\* closes, behind a letter, or with the @ doubled.
ScanToken(scan, token) ==
    CASE token.is = "ticks" /\ scan.span = 0         -> [scan EXCEPT !.span = token.n]
      [] token.is = "ticks" /\ scan.span = token.n   -> [scan EXCEPT !.span = 0]
      [] token.is = "mention" /\ scan.span = 0       -> [scan EXCEPT !.names = Append(@, token.who)]
      [] OTHER                                       -> scan

ScanTokens(scan, line) == FoldLeft(ScanToken, scan, line.tokens)

\* isClosingFenceLine: the same character, at least as often, and nothing else.
Closes(line, fence) ==
    line.fence # NoFence /\ line.fence[1] = fence[1] /\ line.fence[2] >= fence[2] /\ line.bare

\* scanStewardMentions, a line: a span that is open goes on in quotes and fences.
ScanLine(scan, line) ==
    CASE scan.fence # NoFence /\ Closes(line, scan.fence)  -> [scan EXCEPT !.fence = NoFence]
      [] scan.fence # NoFence                              -> scan
      [] scan.span # 0                                     -> ScanTokens(scan, line)
      [] line.quote                                        -> scan
      [] line.fence # NoFence                              -> [scan EXCEPT !.fence = line.fence]
      [] OTHER                                             -> ScanTokens(scan, line)

Mentions(text) == FoldLeft(ScanLine, [fence |-> NoFence, span |-> 0, names |-> <<>>], text).names

\* resolveRecipients: each once, in the order of its first mention.
AddName(names, name) == IF name \in ToSet(names) THEN names ELSE Append(names, name)

Resolve(names) == FoldLeft(AddName, <<>>, names)

Recipients[text \in Texts] == Resolve(Mentions(text))

-----------------------------------------------------------------------------
(* What a request must be.                                                 *)

\* parsePeerAudienceStartRequest: from two to eight, and no name twice.
PeersParsed(peers) == Len(peers) \in 2..8 /\ Cardinality(ToSet(peers)) = Len(peers)

\* validatePeerRunnability.
PeersRunnable(peers) == ToSet(peers) \subseteq RunnableAgents

PeersAccepted(peers) == PeersParsed(peers) /\ PeersRunnable(peers)

StartAccepted(agent) == agent \in RunnableAgents

\* One name that cannot be reached refuses the whole message.
MessageAccepted(text) == text # <<>> /\ ToSet(Mentions(text)) \subseteq RunnableAgents

Accepted(want) ==
    CASE want.op = "create"      -> MessageAccepted(want.text)
      [] want.op = "start"       -> StartAccepted(want.who)
      [] want.op = "start_peer"  -> PeersAccepted(want.peers)

\* The audience a new conversation gets.
Audience(want) ==
    CASE want.op = "create"      -> ToSet(Recipients[want.text])
      [] want.op = "start"       -> {want.who}
      [] want.op = "start_peer"  -> ToSet(want.peers)

Creates(want) == want.op \in {"create", "start", "start_peer"}

\* checkActiveGate.
GateOpen(members) == members \subseteq RunnableAgents

\* A message without a mention goes to the only member the conversation had when it
\* was read at first.
MessageTargets(c) ==
    LET names == Recipients[c.want.text] IN
    IF names = <<>> /\ Cardinality(c.seen) = 1 THEN SetToSeq(c.seen) ELSE names

-----------------------------------------------------------------------------
(* What an agent is shown of the conversation.                             *)

Size(p) == IF "text" \in DOMAIN call[p].want THEN Len(call[p].want.text) ELSE 1

Newest(events, k) == SubSeq(events, Len(events) - k + 1, Len(events))

\* validateTranscriptBudget, and the caps that the selection stops at.
Fits(events, k) ==
    k <= MaxItems /\ FoldLeft(LAMBDA sum, p : sum + Size(p), 0, Newest(events, k)) <= MaxChars

\* selectDurableTranscript: as many whole events as fit, from the newest on.
SelectDurableTranscript(events) ==
    Newest(events, Max({0} \cup {k \in 1..Len(events) : Fits(events, k)}))

\* selectConversationContext: the context of the runs a request begins.
Context(q) == SelectDurableTranscript(SubSeq(record[call[q].room], 1, call[q].prior))

-----------------------------------------------------------------------------

Unasked == [at |-> "idle"]

RoutesInit ==
    /\ \E guests \in SUBSET {Foreign}, a \in RunnableAgents :
          room = [c \in Rooms |->
                    IF c = Earlier THEN [members |-> guests \cup {a}, open |-> TRUE, title |-> "old", maker |-> NoOne] ELSE NoRoom]
    /\ record = [c \in Rooms |-> <<>>]
    /\ holder = [c \in Rooms |-> NoOne] /\ locks = 0 /\ slips = 0
    /\ call = [q \in Posts |-> Unasked]
    /\ turn = [c \in Rooms |-> [a \in RunnableAgents |-> NoTurn]]
    /\ passed = [q \in Posts |-> [a \in RunnableAgents |-> 0]]

At(q, place) == call[q].at = place

Becomes(q, c) == call' = [call EXCEPT ![q] = c]

Goes(q, place) == Becomes(q, [call[q] EXCEPT !.at = place])

\* What the browser is told; a failed run is told apart from one that was refused.
Says(c, code) == [c EXCEPT !.at = "answered", !.code = code]

Answers(q, code) == Becomes(q, Says(call[q], code))

Untroubled == locks + slips < MaxTroubles

Slips == Untroubled /\ slips' = slips + 1

\* The routes that create check their bodies before anything is written.
Asks(q) ==
    /\ At(q, "idle")
    /\ \E w \in Wants :
          LET asked == [at |-> "creating", want |-> w, room |-> NoRoom, tries |-> 0, seen |-> {}, prior |-> 0,
                        left |-> <<>>, told |-> {}, crossed |-> FALSE, changed |-> FALSE, code |-> 0]
          IN  IF Creates(w)
              THEN Becomes(q, IF Accepted(w) THEN asked ELSE Says(asked, 400))
              ELSE \E c \in Rooms : Becomes(q, [asked EXCEPT !.at = "reading", !.room = c])
    /\ UNCHANGED <<room, record, holder, locks, turn, slips, passed>>

-----------------------------------------------------------------------------
(* A conversation is opened.                                               *)

\* createConversationRecord: a name that is taken is never written over.
Opens(q) ==
    /\ At(q, "creating")
    /\ \E c \in Rooms :
          IF room[c] = NoRoom
          THEN /\ room' = [room EXCEPT ![c] = [members |-> Audience(call[q].want), open |-> TRUE, title |-> "old", maker |-> q]]
               /\ Becomes(q, [call[q] EXCEPT !.at = "recording", !.room = c])
          ELSE /\ Becomes(q, IF call[q].tries + 1 = Candidates THEN Says(call[q], 409)
                             ELSE [call[q] EXCEPT !.tries = @ + 1])
               /\ UNCHANGED room
    /\ UNCHANGED <<record, holder, locks, turn, slips, passed>>

\* The link or what comes after it fails.
OpeningFails(q) ==
    /\ At(q, "creating")
    /\ Slips
    /\ \/ UNCHANGED room
       \/ \E c \in Rooms :
             /\ room[c] = NoRoom
             /\ room' = [room EXCEPT ![c] = [members |-> Audience(call[q].want), open |-> TRUE, title |-> "old", maker |-> q]]
    /\ Answers(q, 500)
    /\ UNCHANGED <<record, holder, locks, turn, passed>>

-----------------------------------------------------------------------------
(* A message comes into a conversation, or a browser wants to attach.      *)

\* The message was checked only after the conversation it is for.
ReadsManifest(q) ==
    /\ At(q, "reading") /\ call[q].want.op = "message"
    /\ LET r == room[call[q].room] IN
       \/ r = NoRoom /\ Answers(q, 404)
       \/ r # NoRoom /\ ~r.open /\ Answers(q, 409)
       \/ /\ r # NoRoom /\ r.open
          /\ Becomes(q, IF MessageAccepted(call[q].want.text)
                        THEN [call[q] EXCEPT !.at = "looking_back", !.seen = r.members]
                        ELSE Says(call[q], 400))
    /\ UNCHANGED <<room, record, holder, locks, turn, slips, passed>>

\* An attachment is only an answer.
Attaches(q) ==
    /\ At(q, "reading") /\ call[q].want.op = "attach"
    /\ LET r == room[call[q].room] IN
       \/ r = NoRoom /\ Answers(q, 404)
       \/ r # NoRoom /\ Answers(q, IF r.open /\ GateOpen(r.members) THEN 200 ELSE 409)
    /\ UNCHANGED <<room, record, holder, locks, turn, slips, passed>>

\* The context for the agents is read before the message is recorded.
ReadsPrior(q) ==
    /\ At(q, "looking_back")
    /\ Becomes(q, [call[q] EXCEPT !.prior = Len(record[call[q].room]),
                                  !.at = IF Recipients[call[q].want.text] = <<>> THEN "recording" ELSE "joining"])
    /\ UNCHANGED <<room, record, holder, locks, turn, slips, passed>>

GrownBy(q) == [room EXCEPT ![call[q].room].members = @ \cup ToSet(Recipients[call[q].want.text])]

\* Mutant: a message is recorded whether or not its agents could join.
JoinsOrNot(q) ==
    /\ At(q, "joining")
    /\ IF holder[call[q].room] # NoOne THEN UNCHANGED room ELSE room' = GrownBy(q)
    /\ Goes(q, "recording")
    /\ UNCHANGED <<record, holder, locks, turn, slips, passed>>

Joins(q) ==
    /\ At(q, "joining")
    /\ IF holder[call[q].room] # NoOne
       THEN Answers(q, 409) /\ UNCHANGED room
       ELSE Goes(q, "recording") /\ room' = GrownBy(q)
    /\ UNCHANGED <<record, holder, locks, turn, slips, passed>>

JoinFails(q) ==
    /\ At(q, "joining")
    /\ Slips
    /\ holder[call[q].room] = NoOne
    /\ room' \in {room, GrownBy(q)}
    /\ Answers(q, 500)
    /\ UNCHANGED <<record, holder, locks, turn, passed>>

-----------------------------------------------------------------------------
(* The steward manages a conversation.                                     *)

Frees(q) == holder' = [holder EXCEPT ![call[q].room] = NoOne]

\* handleConversationLifecycle and handleConversationRename go straight for the
\* lock, handleConversationWorkflowBudgetUpdate after it has read the manifest.
Takes(q) ==
    /\ At(q, "reading") /\ call[q].want.op \in Managing
    /\ LET c == call[q] IN
       IF room[c.room] # NoRoom /\ holder[c.room] = NoOne
       THEN holder' = [holder EXCEPT ![c.room] = q] /\ Goes(q, "locked")
       ELSE Answers(q, IF room[c.room] = NoRoom THEN 404 ELSE 409) /\ UNCHANGED holder
    /\ UNCHANGED <<room, record, locks, turn, slips, passed>>

\* The manifest is replaced unless it is as wanted.
Rewrites(q, r) ==
    /\ At(q, "locked")
    /\ IF r = room[call[q].room]
       THEN Answers(q, 200) /\ Frees(q) /\ UNCHANGED room
       ELSE /\ room' = [room EXCEPT ![call[q].room] = r]
            /\ Becomes(q, [call[q] EXCEPT !.at = "noting", !.changed = TRUE])
            /\ UNCHANGED holder
    /\ UNCHANGED <<record, locks, turn, slips, passed>>

TransitionsLifecycle(q) ==
    /\ call[q].at = "locked" /\ call[q].want.op \in {"archive", "reopen"}
    /\ Rewrites(q, [room[call[q].room] EXCEPT !.open = (call[q].want.op = "reopen")])

Renames(q) ==
    /\ call[q].at = "locked" /\ call[q].want.op = "rename"
    /\ Rewrites(q, [room[call[q].room] EXCEPT !.title = call[q].want.title])

RewriteFails(q) ==
    /\ At(q, "locked") /\ call[q].want.op # "budget"
    /\ Slips
    /\ Answers(q, 500) /\ Frees(q)
    /\ UNCHANGED <<room, record, locks, turn, passed>>

\* The budget in force, as the number of raises before.
Raised(c) == Cardinality({i \in DOMAIN record[c] : call[record[c][i]].want.op = "budget"})

Roots(c) == {p \in ToSet(record[c]) : call[p].want.op \in {"create", "message"}}

\* A raise names a message of the steward and the budget it was decided on.
ChecksBudget(q) ==
    /\ At(q, "locked") /\ call[q].want.op = "budget"
    /\ LET c == call[q]
           Refuses(code) == Answers(q, code) /\ Frees(q)
       IN  \/ ~room[c.room].open /\ Refuses(409)
           \/ room[c.room].open /\ Refuses(404)
           \/ /\ room[c.room].open /\ Roots(c.room) # {}
              /\ IF c.want.expected # Raised(c.room) THEN Refuses(409)
                 ELSE Becomes(q, [c EXCEPT !.at = "noting", !.changed = TRUE]) /\ UNCHANGED holder
    /\ UNCHANGED <<room, record, locks, turn, slips, passed>>

Notes(q) ==
    /\ At(q, "noting")
    /\ record' = [record EXCEPT ![call[q].room] = Append(@, q)]
    /\ Answers(q, 200) /\ Frees(q)
    /\ UNCHANGED <<room, locks, turn, slips, passed>>

\* A raise that could not be recorded is said to be rejected.
NoteFails(q) ==
    /\ At(q, "noting")
    /\ Slips
    /\ record' \in {record, [record EXCEPT ![call[q].room] = Append(@, q)]}
    /\ Answers(q, IF call[q].want.op = "budget" THEN 400 ELSE 500) /\ Frees(q)
    /\ UNCHANGED <<room, locks, turn, passed>>

-----------------------------------------------------------------------------
(* The event is recorded and passed on.                                    *)

Success(want) == IF Creates(want) THEN 201 ELSE 200

\* The event is appended and published, and then its agents are given it.
RecordsThen(q, op, targets, place) ==
    /\ At(q, "recording") /\ call[q].want.op = op
    /\ record' = [record EXCEPT ![call[q].room] = Append(@, q)]
    /\ LET c == [call[q] EXCEPT !.left = targets] IN
       Becomes(q, IF targets = <<>> THEN Says(c, Success(c.want)) ELSE [c EXCEPT !.at = place])
    /\ UNCHANGED <<room, holder, locks, turn, slips, passed>>

RecordsStart(q) == RecordsThen(q, "start", <<call[q].want.who>>, "dispatching")

\* Nobody is greeted.
RecordsStartPeer(q) == RecordsThen(q, "start_peer", <<>>, "dispatching")

RecordsCreate(q) == RecordsThen(q, "create", Recipients[call[q].want.text], "dispatching")

\* A message to one agent may be steered.
RecordsMessage(q) ==
    LET targets == MessageTargets(call[q])
    IN  RecordsThen(q, "message", targets, IF Len(targets) = 1 THEN "steering" ELSE "dispatching")

\* A transcript that cannot be read, or a failing append, ends the process; the
\* service manager starts it again.
RecordFails(q) ==
    /\ Slips
    /\ \/ At(q, "looking_back") /\ UNCHANGED record
       \/ At(q, "recording") /\ record' \in {record, [record EXCEPT ![call[q].room] = Append(@, q)]}
    /\ call' = [p \in Posts |-> IF call[p].at \in {"idle", "answered"} THEN call[p] ELSE [at |-> "lost", want |-> call[p].want]]
    /\ turn' = [c \in Rooms |-> [a \in RunnableAgents |-> NoTurn]]
    /\ UNCHANGED <<room, holder, locks, passed>>

Given(q, a) == passed' = [passed EXCEPT ![q][a] = @ + 1]

\* What the answer says of the agent whose turn it is, and what is left to do.
Tells(c, what) ==
    LET told == [c EXCEPT !.told = @ \cup {<<Head(c.left), what>>}, !.left = Tail(@), !.at = "dispatching"]
    IN  IF told.left # <<>> THEN told
        ELSE Says(told, IF told.crossed THEN 409 ELSE Success(told.want))

\* steerActiveConversationRun: into a run that has its client.
Steers(q) ==
    /\ At(q, "steering")
    /\ LET c == call[q]
           a == Head(c.left)
           t == IF a \in RunnableAgents THEN turn[c.room][a] ELSE NoTurn
       IN  Becomes(q, IF t = NoTurn THEN [c EXCEPT !.at = "dispatching"]
                      ELSE IF t.at = "starting" THEN Tells(c, "steer-failed")
                      ELSE [c EXCEPT !.at = "steered"])
    /\ UNCHANGED <<room, record, holder, locks, turn, slips, passed>>

SteerAcknowledged(q) ==
    /\ At(q, "steered")
    /\ Given(q, Head(call[q].left))
    /\ Becomes(q, Tells(call[q], "steered"))
    /\ UNCHANGED <<room, record, holder, locks, turn, slips>>

\* Mutant: what could not be steered is dispatched.
SteerFailsOver(q) ==
    /\ At(q, "steered")
    /\ Slips
    /\ Given(q, Head(call[q].left)) \/ UNCHANGED passed
    /\ Goes(q, "dispatching")
    /\ UNCHANGED <<room, record, holder, locks, turn>>

\* No acknowledgement: the agent may have the message all the same.
SteerFails(q) ==
    /\ At(q, "steered")
    /\ Slips
    /\ Given(q, Head(call[q].left)) \/ UNCHANGED passed
    /\ Becomes(q, Tells(call[q], "steer-failed"))
    /\ UNCHANGED <<room, record, holder, locks, turn>>

\* The broker throws: a route for one agent says so, the others go on.
RefusedBy(c, busy) ==
    IF c.want.op = "start" THEN Says(c, 409)
    ELSE IF busy
    THEN LET crossed == [c EXCEPT !.crossed = TRUE, !.left = Tail(@), !.at = "dispatching"]
         IN  IF crossed.left = <<>> THEN Says(crossed, 409) ELSE crossed
    ELSE Tells(c, "conflict")

\* dispatchConversationMention and startConversationAgentRun read the manifest.
Dispatches(q) ==
    /\ At(q, "dispatching")
    /\ LET c == call[q]
           r == room[c.room]
           a == Head(c.left)
       IN  IF r.open /\ a \in r.members /\ a \in RunnableAgents THEN Goes(q, "reserving")
           ELSE Becomes(q, RefusedBy(c, FALSE))
    /\ UNCHANGED <<room, record, holder, locks, turn, slips, passed>>

Reserves(q) ==
    /\ At(q, "reserving")
    /\ LET c == call[q]
           a == Head(c.left)
       IN  IF turn[c.room][a] # NoTurn
           THEN Becomes(q, RefusedBy(c, TRUE)) /\ UNCHANGED turn
           ELSE /\ turn' = [turn EXCEPT ![c.room][a] = [by |-> q, at |-> "starting"]]
                /\ Goes(q, "running")
    /\ UNCHANGED <<room, record, holder, locks, slips, passed>>

-----------------------------------------------------------------------------
(* The run of a request, as its route sees it.                             *)

TurnIs(q, place) ==
    At(q, "running") /\ turn[call[q].room][Head(call[q].left)] = [by |-> q, at |-> place]

TurnGoes(q, place) == turn' = [turn EXCEPT ![call[q].room][Head(call[q].left)] = [by |-> q, at |-> place]]

TurnOver(q) == turn' = [turn EXCEPT ![call[q].room][Head(call[q].left)] = NoTurn]

\* The client is bound before the run's start is recorded and the agent prompted.
TurnBinds(q) ==
    /\ TurnIs(q, "starting")
    /\ TurnGoes(q, "bound")
    /\ UNCHANGED <<room, record, holder, locks, call, slips, passed>>

TurnPrompts(q) ==
    /\ TurnIs(q, "bound")
    /\ TurnGoes(q, "prompted")
    /\ Given(q, Head(call[q].left))
    /\ UNCHANGED <<room, record, holder, locks, call, slips>>

\* Aborted, timed out, not started, or ended by the agent.
TurnEnds(q) ==
    /\ \/ TurnIs(q, "starting") \/ TurnIs(q, "bound") \/ TurnIs(q, "prompted")
    /\ \E outcome \in {"completed", "failed"} :
          /\ outcome = "completed" => TurnIs(q, "prompted")
          /\ Becomes(q, Tells(call[q], outcome))
    /\ TurnOver(q)
    /\ UNCHANGED <<room, record, holder, locks, slips, passed>>

\* An event of the run cannot be appended.
TurnBreaks(q) ==
    /\ \/ TurnIs(q, "starting") \/ TurnIs(q, "bound") \/ TurnIs(q, "prompted")
    /\ Slips
    /\ Becomes(q, IF call[q].want.op = "start" THEN Says(call[q], 500) ELSE RefusedBy(call[q], FALSE))
    /\ TurnOver(q)
    /\ UNCHANGED <<room, record, holder, locks, passed>>

-----------------------------------------------------------------------------
(* Others: archives, reopenings, handoffs, renames.                        *)

OthersLock(c) ==
    /\ room[c] # NoRoom /\ holder[c] = NoOne /\ Untroubled
    /\ holder' = [holder EXCEPT ![c] = Others] /\ locks' = locks + 1
    /\ UNCHANGED <<room, record, call, turn, slips, passed>>

OthersChange(c) ==
    /\ holder[c] = Others
    /\ holder' = [holder EXCEPT ![c] = NoOne]
    /\ room' \in {room, [room EXCEPT ![c].open = ~@]}
    /\ UNCHANGED <<record, locks, call, turn, slips, passed>>

\* A lock that a dead process left is removed by hand.
Triage(c) ==
    /\ \E q \in Posts : holder[c] = q /\ At(q, "lost")
    /\ holder' = [holder EXCEPT ![c] = NoOne]
    /\ UNCHANGED <<room, record, locks, call, turn, slips, passed>>

RouteStep(q) ==
    \/ Asks(q) \/ Opens(q) \/ OpeningFails(q)
    \/ ReadsManifest(q) \/ Attaches(q) \/ ReadsPrior(q) \/ Joins(q) \/ JoinFails(q)
    \/ RecordsStart(q) \/ RecordsStartPeer(q) \/ RecordsCreate(q) \/ RecordsMessage(q) \/ RecordFails(q)
    \/ Steers(q) \/ SteerAcknowledged(q) \/ SteerFails(q)
    \/ Dispatches(q) \/ Reserves(q)
    \/ Takes(q) \/ TransitionsLifecycle(q) \/ Renames(q) \/ RewriteFails(q) \/ ChecksBudget(q) \/ Notes(q) \/ NoteFails(q)
    \/ TurnBinds(q) \/ TurnPrompts(q) \/ TurnEnds(q) \/ TurnBreaks(q)

RoutesNext ==
    \/ \E q \in Posts : RouteStep(q)
    \/ \E c \in Rooms : OthersLock(c) \/ OthersChange(c) \/ Triage(c)

RoutesSpec == RoutesInit /\ [][RoutesNext]_routeVars

-----------------------------------------------------------------------------

Times(q, c) == Cardinality({i \in DOMAIN record[c] : record[c][i] = q})

Unrecorded(q) == \A c \in Rooms : Times(q, c) = 0

Answered(q, codes) == call[q].at = "answered" /\ call[q].code \in codes

\* What a browser is told is so: a success names the one conversation where its
\* event is recorded, once if it changed anything, and to which all it names belong,
\* and that conversation is the request's own if it asked for a new one; a request
\* found wrong, too late or in the way of another has left no event, unless agents
\* were at work already or a raise failed on its way; an agent said to have been
\* reached was; and no two raises were granted on the same budget (the answers of
\* the conversation routes, gateway-http.ts).
AnsweredIsSo ==
    /\ \A q \in Posts : Answered(q, {200, 201}) =>
          LET c == call[q]
              silent == c.want.op = "attach" \/ (c.want.op \in Managing /\ ~c.changed)
          IN  /\ \A d \in Rooms : Times(q, d) = (IF d = c.room /\ ~silent THEN 1 ELSE 0)
              /\ Creates(c.want) <=> room[c.room].maker = q
              /\ Creates(c.want) => Audience(c.want) \subseteq room[c.room].members
              /\ c.want.op = "message" => ToSet(Recipients[c.want.text]) \subseteq room[c.room].members
              /\ \A t \in c.told : t[2] \in {"steered", "completed"} => passed[q][t[1]] > 0
    /\ \A q \in Posts :
          /\ Answered(q, {404}) => Unrecorded(q)
          /\ Answered(q, {400}) /\ call[q].want.op # "budget" => Unrecorded(q)
          /\ Answered(q, {409}) /\ call[q].left = <<>> /\ ~call[q].crossed => Unrecorded(q)
    /\ \A q, p \in Posts :
          /\ q # p /\ Answered(q, {200}) /\ Answered(p, {200})
          /\ call[q].want.op = "budget" /\ call[p].want.op = "budget"
          => call[q].room # call[p].room \/ call[q].want.expected # call[p].want.expected

\* A recorded event reaches each agent once at most, whether it is steered into a
\* run, begins one or is shown as its context, and only an agent that belongs to
\* the conversation and that it names or that was the only one
\* (handleConversationMessage; "the current message is never part of the replayed
\* context", gateway-http.ts:2677; "no active run falls through to existing
\* dispatch", gateway-http.ts:2736).
GivenOnceToMembers ==
    \A q \in Posts, a \in RunnableAgents : passed[q][a] > 0 =>
        /\ passed[q][a] = 1
        /\ \E c \in Rooms : room[c] # NoRoom /\ a \in room[c].members /\ Times(q, c) = 1
        /\ call[q].at # "lost" => q \notin ToSet(Context(q))
        /\ call[q].at # "lost" /\ call[q].want.op = "message" =>
              LET names == ToSet(Recipients[call[q].want.text])
              IN  IF names = {} THEN call[q].seen = {a} ELSE a \in names
=============================================================================
