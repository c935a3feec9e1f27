------------------------------- MODULE Chat_proofs -------------------------------
(***************************************************************************)
(* Proofs about the two ways to chat with an agent, for any messages,      *)
(* chats, agents and bounds.                                               *)
(*                                                                         *)
(* A chat transport leaves no agent process and no socket behind, and      *)
(* Telegram is told to forget only messages that have been handled.  The   *)
(* gateway lets the agent work once at most for a message that shared the  *)
(* process with no other, and an aborted message is not sent again.        *)
(***************************************************************************)
EXTENDS ChatTransport, GatewayChat, TLAPS

(* The transport.                                                           *)

Busy == {"starting", "prompting", "waiting", "modelling"}

\* The handler has a message, the one it is for, and mostly a client; a chat whose first client is
\* being started has no session; a transport that stopped is at rest.
Handling ==
    /\ at = "idle" <=> now = 0
    /\ at \in {"prompt", "abort", "switch"} => What[now] = at
    /\ at \in Busy => using # 0
    /\ at = "modelling" => tried < Fallbacks
    /\ at = "starting" /\ What[now] = "prompt" => session[Chat[now]] = 0
    /\ up = "stopped" => at = "idle" /\ queue = <<>>

\* One connection at a time is being opened, in use, or due.
Connecting ==
    /\ opening \subseteq {gen}
    /\ opening # {} => socket = 0 /\ ~timer
    /\ timer => socket = 0 /\ gen <= 2 * MaxDrops

\* What the next poll would confirm.
Polled == IF offset = 0 THEN confirmed ELSE offset - 1

\* The messages in the process follow the one that is handled, and all before that
\* one have been handled.
Feeding ==
    /\ 1..arrived \subseteq Updates
    /\ \A i \in 1..Len(queue) : queue[i] <= arrived
    /\ service = "telegram" =>
          /\ Polled \in Updates \cup {0} /\ confirmed <= Polled /\ Polled <= arrived
          /\ now # 0 => Polled = now
          /\ \A i \in 1..Len(queue) : queue[i] = Polled + i
          /\ \A u \in Updates : u <= Polled /\ u # now => u \in handled
    /\ NoUpdateSkipped

Queued == queue \in Seq(Updates)

FeedTypes ==
    /\ arrived \in Updates \cup {0} /\ handled \subseteq Updates
    /\ offset \in Nat /\ confirmed \in Updates \cup {0} /\ now \in Updates \cup {0}

ConnTypes ==
    /\ gen \in Gens /\ opening \subseteq Gens /\ socket \in Gens \cup {0} /\ sockets \subseteq Gens
    /\ ready \in BOOLEAN /\ timer \in BOOLEAN

ClientTypes ==
    /\ using \in Clients \cup {0} /\ session \in [Chats -> Clients \cup {0}]
    /\ life \in [Clients -> {"none", "starting", "live", "exited", "stopped"}]
    /\ agentOf \in [Clients -> Agents] /\ flagged \in [Clients -> BOOLEAN]
    /\ cmd \in [Clients -> Updates \cup {0}] /\ turn \in [Clients -> Updates \cup {0}]

HandlerTypes ==
    /\ service \in Services /\ up \in {"up", "stopping", "stopped"} /\ tried \in 0..Fallbacks
    /\ at \in {"idle", "prompt", "abort", "switch", "starting", "replacing", "prompting",
               "waiting", "modelling"}

TransportInv ==
    /\ Queued /\ FeedTypes /\ ConnTypes /\ ClientTypes /\ HandlerTypes
    /\ Handling /\ Connecting /\ Feeding /\ NothingLeftBehind

LEMMA Numbering ==
    /\ Updates \subseteq Nat /\ 0 \notin Updates /\ Clients \subseteq Nat /\ 0 \notin Clients
    /\ Fallbacks \in Nat /\ MaxDrops \in Nat
    /\ \A u \in Updates : /\ What[u] \in {"prompt", "abort", "switch"}
                          /\ Chat[u] \in Chats /\ To[u] \in Agents
BY ChatAssumption DEF Clients

Lines == {"settled", "rejected"} \X Updates

Answers == {"none", "answer", "failed", "timeout"} \X (Updates \cup {0})

\* What the agents have written, what the users were told, and the counters.
OutputTypes ==
    /\ out \in [Clients -> Seq(Lines)] /\ said \in [Updates -> Answers]
    /\ crashes \in 0..MaxCrashes /\ exits \in 0..MaxExits

LEMMA TypesOf == TypeOK <=> Queued /\ FeedTypes /\ ConnTypes /\ ClientTypes /\ HandlerTypes /\ OutputTypes
BY Zenon DEF TypeOK, Queued, FeedTypes, ConnTypes, ClientTypes, HandlerTypes, OutputTypes, Lines, Answers

LEMMA ItemsOf ==
    ASSUME NEW q \in Seq(Updates)
    PROVE  Len(q) \in Nat /\ \A i \in 1..Len(q) : q[i] \in Updates
OBVIOUS

LEMMA AppendOf ==
    ASSUME NEW q \in Seq(Updates), NEW u \in Updates
    PROVE  /\ Append(q, u) \in Seq(Updates) /\ Len(Append(q, u)) = Len(q) + 1
           /\ \A i \in 1..Len(Append(q, u)) : Append(q, u)[i] = IF i \in 1..Len(q) THEN q[i] ELSE u
OBVIOUS

LEMMA FirstOfQueue ==
    ASSUME NEW q \in Seq(Updates), q # <<>>
    PROVE  /\ Head(q) = q[1] /\ Head(q) \in Updates /\ Tail(q) \in Seq(Updates) /\ Len(q) >= 1
           /\ Len(Tail(q)) = Len(q) - 1 /\ \A i \in 1..Len(q) - 1 : Tail(q)[i] = q[i + 1]
OBVIOUS

LEMMA TransportStarts == Init => TransportInv
<1> SUFFICES ASSUME Init PROVE TransportInv
    OBVIOUS
<1>1. Queued /\ FeedTypes
    BY DEF Init, Queued, FeedTypes
<1>2. ConnTypes
    <2>1. 1 \in Gens
        BY Numbering DEF Gens
    <2>. QED BY <2>1 DEF Init, ConnTypes
<1>3. ClientTypes
    BY ChatAssumption DEF Init, ClientTypes
<1>4. HandlerTypes
    BY Numbering DEF Init, HandlerTypes
<1>5. Handling /\ Connecting
    BY Numbering DEF Init, Handling, Connecting, Busy
<1>6. Feeding
    BY Numbering DEF Init, Feeding, Polled, NoUpdateSkipped
<1>7. NothingLeftBehind
    BY DEF Init, NothingLeftBehind
<1>. QED BY <1>1, <1>2, <1>3, <1>4, <1>5, <1>6, <1>7 DEF TransportInv

-----------------------------------------------------------------------------

\* The handler goes on, returns or throws.
Goes ==
    \/ UNCHANGED <<now, handled, queue>>
    \/ /\ at # "idle" /\ now' = 0 /\ handled' = handled \cup {now}
       /\ queue' = queue \/ queue' = <<>>

LEMMA FeedKept ==
    ASSUME TransportInv, UNCHANGED <<service, arrived, offset, confirmed>>, Goes
    PROVE  Queued' /\ FeedTypes' /\ Feeding' /\ (queue = <<>> => queue' = <<>>)
<1>1. CASE UNCHANGED <<now, handled, queue>>
    BY <1>1 DEF TransportInv, Queued, FeedTypes, Feeding, Polled, NoUpdateSkipped
<1>2. CASE at # "idle" /\ now' = 0 /\ handled' = handled \cup {now} /\ (queue' = queue \/ queue' = <<>>)
    <2>1. now \in Updates /\ handled' \subseteq Updates
        BY <1>2 DEF TransportInv, FeedTypes, Handling
    <2>2. Polled' = Polled
        BY DEF Polled
    <2>3. \A i \in 1..Len(queue') : i \in 1..Len(queue) /\ queue'[i] = queue[i]
        BY <1>2 DEF TransportInv, FeedTypes
    <2>4. Feeding'
        BY <1>2, <2>1, <2>2, <2>3 DEF TransportInv, Feeding, NoUpdateSkipped
    <2>5. Queued'
        <3>1. queue \in Seq(Updates) /\ <<>> \in Seq(Updates)
            BY DEF TransportInv, Queued
        <3>. QED BY <1>2, <3>1, Zenon DEF Queued
    <2>6. FeedTypes'
        BY <1>2, <2>1, <2>5 DEF TransportInv, FeedTypes
    <2>7. queue = <<>> => queue' = <<>>
        BY <1>2
    <2>. QED BY <2>4, <2>5, <2>6, <2>7
<1>. QED BY <1>1, <1>2 DEF Goes

LEMMA ArriveStep == ASSUME TransportInv, Arrive PROVE TransportInv'
<1> USE Numbering DEF feedVars, connVars, tableVars, pipeVars
<1>1. /\ arrived' = arrived + 1 /\ arrived' \in Updates
      /\ queue' = queue \/ queue' = Append(queue, arrived + 1)
      /\ service = "telegram" => queue' = queue
      /\ up # "up" => queue' = queue
      /\ UNCHANGED <<service, up, offset, confirmed, crashes, handled, connVars, at, now, using,
                     tried, said, tableVars, flagged, exits, pipeVars>>
    BY DEF Arrive
<1>2. FeedTypes' /\ ConnTypes' /\ ClientTypes' /\ HandlerTypes'
    BY <1>1 DEF TransportInv, FeedTypes, ConnTypes, ClientTypes, HandlerTypes
<1>3. Handling' /\ Connecting' /\ NothingLeftBehind'
    BY <1>1 DEF TransportInv, Handling, Connecting, NothingLeftBehind
<1>4. 1..arrived' \subseteq Updates
    BY <1>1 DEF TransportInv, FeedTypes, Feeding
<1>5. Queued' /\ \A i \in 1..Len(queue') : queue'[i] <= arrived'
    <2>1. queue \in Seq(Updates) /\ arrived \in Nat /\ \A i \in 1..Len(queue) : queue[i] <= arrived
        BY DEF TransportInv, Queued, FeedTypes, Feeding
    <2>2. \A i \in 1..Len(queue) : queue[i] \in Nat
        BY <2>1, ItemsOf
    <2>3. \A i \in 1..Len(queue) : queue[i] <= arrived'
        BY <1>1, <2>1, <2>2
    <2>4. CASE queue' = queue
        BY <2>1, <2>3, <2>4 DEF Queued
    <2>5. CASE queue' = Append(queue, arrived')
        <3>1. /\ queue' \in Seq(Updates) /\ Len(queue') = Len(queue) + 1
              /\ \A i \in 1..Len(queue') : queue'[i] = IF i \in 1..Len(queue) THEN queue[i] ELSE arrived'
            BY <1>1, <2>1, <2>5, AppendOf
        <3>. QED BY <1>1, <2>3, <3>1 DEF Queued
    <2>. QED BY <1>1, <2>4, <2>5
<1>6. Feeding'
    BY <1>1, <1>4, <1>5 DEF TransportInv, FeedTypes, Feeding, Polled, NoUpdateSkipped
<1>. QED BY <1>2, <1>3, <1>5, <1>6 DEF TransportInv

LEMMA PollStep == ASSUME TransportInv, Poll PROVE TransportInv'
<1> USE Numbering DEF feedVars, connVars, tableVars, pipeVars
<1>1. /\ service = "telegram" /\ up = "up" /\ at = "idle" /\ now = 0
      /\ confirmed' = Polled /\ queue' = Unseen(Polled)
      /\ UNCHANGED <<service, up, arrived, offset, crashes, handled, connVars, at, now, using,
                     tried, said, tableVars, flagged, exits, pipeVars>>
    BY DEF Poll, Polled, TransportInv, Handling
<1>2. /\ Polled \in Updates \cup {0} /\ Polled \in Nat /\ arrived \in Nat /\ Polled <= arrived
      /\ 1..arrived \subseteq Updates
    <2>1. Polled \in Updates \cup {0} /\ arrived \in Updates \cup {0} /\ Polled <= arrived
          /\ 1..arrived \subseteq Updates
        BY <1>1 DEF TransportInv, FeedTypes, Feeding
    <2>. QED BY <2>1
<1>3. /\ queue' \in Seq(Updates) /\ Len(queue') = arrived - Polled
      /\ \A i \in 1..Len(queue') : queue'[i] = Polled + i
    <2>1. \A i \in 1..(arrived - Polled) : Polled + i \in Updates
        BY <1>2
    <2>. QED BY <1>1, <1>2, <2>1 DEF Unseen
<1>4. Polled' = Polled
    BY <1>1 DEF Polled
<1>5. Queued' /\ FeedTypes' /\ ConnTypes' /\ ClientTypes' /\ HandlerTypes'
    BY <1>1, <1>2, <1>3 DEF TransportInv, Queued, FeedTypes, ConnTypes, ClientTypes, HandlerTypes
<1>6. Handling' /\ Connecting' /\ NothingLeftBehind'
    BY <1>1 DEF TransportInv, Handling, Connecting, NothingLeftBehind
<1>7. NoUpdateSkipped'
    BY <1>1 DEF TransportInv, Feeding, NoUpdateSkipped
<1>8. \A i \in 1..Len(queue') : queue'[i] <= arrived'
    BY <1>1, <1>2, <1>3
<1>9. Feeding'
    BY <1>1, <1>2, <1>3, <1>4, <1>7, <1>8 DEF TransportInv, Feeding
<1>. QED BY <1>5, <1>6, <1>9 DEF TransportInv

LEMMA CrashStep == ASSUME TransportInv, Crash PROVE TransportInv'
<1> USE Numbering DEF feedVars, connVars, tableVars, pipeVars
<1>1. /\ service = "telegram" /\ up = "up"
      /\ queue' = <<>> /\ offset' = 0 /\ at' = "idle" /\ now' = 0 /\ using' = 0 /\ tried' = 0
      /\ session' = [k \in Chats |-> 0]
      /\ life' = [c \in Clients |-> IF life[c] = "none" THEN "none" ELSE "stopped"]
      /\ cmd' = [c \in Clients |-> 0] /\ turn' = [c \in Clients |-> 0]
      /\ UNCHANGED <<service, up, arrived, confirmed, handled, connVars, agentOf, flagged>>
    BY DEF Crash
<1>2. Queued'
    BY <1>1 DEF Queued
<1>3. FeedTypes' /\ ConnTypes' /\ ClientTypes' /\ HandlerTypes'
    BY <1>1 DEF TransportInv, FeedTypes, ConnTypes, ClientTypes, HandlerTypes
<1>4. Handling' /\ Connecting'
    BY <1>1 DEF TransportInv, Handling, Connecting, Busy
<1>5. NothingLeftBehind'
    BY <1>1 DEF TransportInv, NothingLeftBehind
<1>6. Polled' = confirmed /\ confirmed \in Nat /\ Polled' <= arrived
    <2>1. Polled' = confirmed
        BY <1>1 DEF Polled
    <2>2. confirmed \in Updates \cup {0} /\ arrived \in Updates \cup {0} /\ offset \in Nat
        BY DEF TransportInv, FeedTypes
    <2>3. Polled \in Updates \cup {0} /\ confirmed <= Polled /\ Polled <= arrived
        BY <1>1 DEF TransportInv, Feeding
    <2>. QED BY <2>1, <2>2, <2>3
<1>7. \A i \in 1..Len(queue') : FALSE
    BY <1>1
<1>8. Feeding'
    BY <1>1, <1>6, <1>7 DEF TransportInv, FeedTypes, Feeding, NoUpdateSkipped
<1>. QED BY <1>2, <1>3, <1>4, <1>5, <1>8 DEF TransportInv

LEMMA BeginStep == ASSUME TransportInv, Begin PROVE TransportInv'
<1> USE Numbering DEF feedVars, connVars, tableVars, pipeVars
<1>1. /\ at = "idle" /\ now = 0 /\ queue # <<>> /\ queue \in Seq(Updates)
      /\ now' = Head(queue) /\ queue' = Tail(queue)
      /\ offset' = IF service = "telegram" THEN Head(queue) + 1 ELSE offset
      /\ at' = What[Head(queue)] /\ tried' = 0
      /\ UNCHANGED <<service, up, arrived, confirmed, crashes, handled, connVars, using, said,
                     tableVars, flagged, exits, pipeVars>>
    BY DEF Begin, TransportInv, Handling, Queued
<1>2. /\ now' = queue[1] /\ now' \in Updates /\ Len(queue) \in Nat /\ Len(queue) >= 1 /\ Queued'
      /\ Len(queue') = Len(queue) - 1 /\ \A i \in 1..Len(queue) - 1 : queue'[i] = queue[i + 1]
    BY <1>1, FirstOfQueue DEF Queued
<1>3. /\ offset' = IF service = "telegram" THEN now' + 1 ELSE offset
      /\ at' = What[now'] /\ tried' = 0 /\ up # "stopped"
      /\ UNCHANGED <<service, up, arrived, confirmed, crashes, handled, connVars, using, said,
                     tableVars, flagged, exits, pipeVars>>
    BY <1>1 DEF TransportInv, Handling
<1>4. FeedTypes' /\ ConnTypes' /\ ClientTypes' /\ HandlerTypes'
    BY <1>2, <1>3 DEF TransportInv, FeedTypes, ConnTypes, ClientTypes, HandlerTypes
<1>5. Handling' /\ Connecting' /\ NothingLeftBehind'
    <2>1. at' \in {"prompt", "abort", "switch"} /\ now' # 0 /\ at = "idle"
        BY <1>1, <1>2, <1>3
    <2>. QED BY <1>3, <2>1 DEF TransportInv, Handling, Connecting, NothingLeftBehind, Busy
<1>6. ASSUME service = "telegram"
      PROVE  /\ Polled' = now' /\ now' = Polled + 1 /\ Polled \in Nat /\ confirmed <= Polled'
             /\ \A i \in 1..Len(queue') : queue'[i] = Polled' + i
    <2>1. Polled' = now' /\ Polled \in Nat /\ now' = Polled + 1 /\ confirmed <= Polled'
        BY <1>2, <1>3, <1>6 DEF Polled, TransportInv, FeedTypes, Feeding
    <2>2. \A i \in 1..Len(queue') : queue'[i] = Polled + (i + 1)
        BY <1>2, <1>6 DEF TransportInv, Feeding
    <2>. QED BY <2>1, <2>2, <1>2
<1>7. now' <= arrived /\ \A i \in 1..Len(queue') : queue'[i] <= arrived
    <2>1. \A i \in 1..Len(queue) : queue[i] <= arrived
        BY DEF TransportInv, Feeding
    <2>2. \A i \in 1..Len(queue') : i + 1 \in 1..Len(queue) /\ queue'[i] = queue[i + 1]
        BY <1>2
    <2>. QED BY <1>2, <2>1, <2>2
<1>8. NoUpdateSkipped'
    BY <1>3 DEF TransportInv, Feeding, NoUpdateSkipped
<1>9. service = "telegram" => \A u \in Updates : u <= Polled' /\ u # now' => u \in handled
    BY <1>1, <1>2, <1>6 DEF TransportInv, Feeding
<1>10. Feeding'
    BY <1>2, <1>3, <1>6, <1>7, <1>8, <1>9 DEF TransportInv, Feeding
<1>. QED BY <1>2, <1>4, <1>5, <1>10 DEF TransportInv

LEMMA ConnStep ==
    ASSUME TransportInv, NEW g \in Gens,
           Opened(g) \/ OpenFails(g) \/ Hello \/ Drop \/ Reconnect
    PROVE  TransportInv'
<1> USE DEF feedVars, connVars, tableVars, pipeVars, othersOfConn
<1>0. UNCHANGED othersOfConn
    BY DEF Opened, OpenFails, Hello, Drop, Reconnect
<1>1. /\ gen \in Nat /\ gen # 0 /\ socket \in Nat /\ MaxDrops \in Nat /\ 0 \notin Gens
      /\ \A n \in Nat : n \in Gens <=> 0 < n /\ n <= 2 * MaxDrops + 1
    BY Numbering DEF TransportInv, ConnTypes, Gens
<1>2. ConnTypes' /\ Connecting' /\ sockets' \subseteq {socket'} \ {0} /\ (up = "stopped" => sockets' = {})
    <2>1. CASE Opened(g)
        BY <1>0, <1>1, <2>1 DEF TransportInv, ConnTypes, Connecting, NothingLeftBehind, Opened
    <2>2. CASE OpenFails(g)
        <3>1. /\ opening' = opening \ {g} /\ opening # {} /\ gen <= 2 * MaxDrops - 1
              /\ UNCHANGED <<gen, socket, ready, sockets>> /\ timer' \in BOOLEAN
            BY <2>2 DEF OpenFails, Schedule
        <3>2. socket = 0 /\ opening' = {}
            BY <3>1, <2>2 DEF OpenFails, TransportInv, Connecting
        <3>3. opening' \subseteq Gens /\ socket \in Gens \cup {0} /\ sockets \subseteq Gens /\ ready \in BOOLEAN
              /\ gen \in Gens
            BY <3>2 DEF TransportInv, ConnTypes
        <3>4. sockets' \subseteq {socket'} \ {0} /\ (up = "stopped" => sockets' = {})
            BY <3>1 DEF TransportInv, NothingLeftBehind
        <3>5. Connecting'
            BY <1>1, <3>1, <3>2 DEF Connecting
        <3>. QED BY <3>1, <3>3, <3>4, <3>5 DEF ConnTypes
    <2>3. CASE Hello
        BY <1>0, <1>1, <2>3 DEF TransportInv, ConnTypes, Connecting, NothingLeftBehind, Hello
    <2>4. CASE Drop
        <3>1. /\ socket # 0 /\ gen <= 2 * MaxDrops - 1 /\ gen' = gen + 1 /\ ready' = FALSE
              /\ socket' = 0 /\ sockets' = sockets \ {socket} /\ opening' = opening
              /\ timer' \in BOOLEAN
            BY <2>4 DEF Drop, Schedule
        <3>2. opening = {}
            BY <3>1 DEF TransportInv, Connecting
        <3>3. gen' \in Gens /\ sockets' \subseteq Gens /\ opening' \subseteq Gens /\ Connecting'
            BY <1>1, <3>1, <3>2 DEF TransportInv, ConnTypes, Connecting
        <3>4. sockets' \subseteq {socket'} \ {0} /\ (up = "stopped" => sockets' = {})
            BY <1>0, <3>1 DEF TransportInv, NothingLeftBehind
        <3>. QED BY <3>1, <3>3, <3>4 DEF ConnTypes
    <2>5. CASE Reconnect
        <3>1. /\ timer /\ gen' = gen + 1 /\ opening' = opening \cup {gen'} /\ ~ready' /\ ready' \in BOOLEAN
              /\ ~timer' /\ timer' \in BOOLEAN /\ UNCHANGED <<socket, sockets>>
            BY <2>5 DEF Reconnect, Connect
        <3>2. opening = {} /\ socket = 0 /\ gen <= 2 * MaxDrops
            BY <3>1 DEF TransportInv, Connecting
        <3>3. gen' \in Gens /\ sockets' \subseteq Gens /\ opening' \subseteq Gens /\ Connecting'
            BY <1>1, <3>1, <3>2 DEF TransportInv, ConnTypes, Connecting
        <3>4. sockets' \subseteq {socket'} \ {0} /\ (up = "stopped" => sockets' = {})
            BY <1>0, <3>1 DEF TransportInv, NothingLeftBehind
        <3>. QED BY <3>1, <3>2, <3>3, <3>4 DEF ConnTypes
    <2>. QED BY <2>1, <2>2, <2>3, <2>4, <2>5
<1>3. FeedTypes' /\ ClientTypes' /\ HandlerTypes'
    BY <1>0 DEF TransportInv, FeedTypes, ClientTypes, HandlerTypes
<1>4. NothingLeftBehind'
    BY <1>0, <1>2 DEF TransportInv, NothingLeftBehind
<1>5. Queued' /\ Handling' /\ Feeding'
    BY <1>0 DEF TransportInv, Queued, Handling, Feeding, Polled, NoUpdateSkipped
<1>. QED BY <1>2, <1>3, <1>4, <1>5 DEF TransportInv

\* A running agent belongs to a chat or is about to be stopped.
Belonging ==
    \A c \in Clients : life[c] = "live" =>
        (\E k \in Chats : session[k] = c) \/ (at = "replacing" /\ using = c)

LEMMA HandlerKeeps ==
    ASSUME TransportInv, Goes, UNCHANGED <<service, up, arrived, offset, confirmed, connVars>>,
           ClientTypes', tried' \in 0..Fallbacks,
           at' \in {"idle", "prompt", "abort", "switch", "starting", "replacing", "prompting",
                    "waiting", "modelling"},
           at = "idle" => at' = "idle", at' = "idle" <=> now' = 0,
           at' \in {"prompt", "abort", "switch"} => UNCHANGED <<at, now>>,
           at' \in Busy => using' # 0, at' = "modelling" => tried' < Fallbacks,
           at' = "starting" /\ What[now'] = "prompt" => session'[Chat[now']] = 0,
           Belonging', up = "stopped" => \A c \in Clients : life'[c] = "live" => life[c] = "live"
    PROVE  TransportInv'
<1> USE DEF connVars
<1>1. Queued' /\ FeedTypes' /\ Feeding' /\ (queue = <<>> => queue' = <<>>)
    BY FeedKept
<1>2. ConnTypes' /\ Connecting'
    BY DEF TransportInv, ConnTypes, Connecting
<1>3. HandlerTypes'
    BY DEF TransportInv, HandlerTypes
<1>4. Handling'
    BY <1>1 DEF TransportInv, Handling
<1>5. NothingLeftBehind'
    BY DEF TransportInv, NothingLeftBehind, Belonging
<1>. QED BY <1>1, <1>2, <1>3, <1>4, <1>5 DEF TransportInv

LEMMA SessionStep ==
    ASSUME TransportInv, GetSession \/ SwitchAgent \/ Started
    PROVE  TransportInv'
<1> USE Numbering DEF feedVars, connVars, tableVars, pipeVars
<1>1. /\ now \in Updates /\ Chat[now] \in Chats /\ To[now] \in Agents /\ DefaultAgent \in Agents
      /\ session[Chat[now]] \in Clients \cup {0} /\ using \in Clients \cup {0}
    BY ChatAssumption DEF GetSession, SwitchAgent, Started, TransportInv, Handling, FeedTypes, ClientTypes
<1>2. Belonging
    BY DEF TransportInv, NothingLeftBehind, Belonging
<1>3. at \in {"prompt", "switch", "starting"} /\ tried \in 0..Fallbacks /\ up # "stopped"
    BY DEF GetSession, SwitchAgent, Started, TransportInv, HandlerTypes, Handling
<1>4. CASE GetSession
    <2>1. CASE /\ session[Chat[now]] # 0 /\ using' = session[Chat[now]] /\ at' = "prompting"
               /\ flagged' = [flagged EXCEPT ![session[Chat[now]]] = FALSE] /\ UNCHANGED tableVars
        <3>1. ClientTypes' /\ Belonging'
            BY <1>1, <1>2, <1>3, <1>4, <2>1 DEF GetSession, TransportInv, ClientTypes, Belonging
        <3>2. Goes /\ UNCHANGED <<service, up, arrived, offset, confirmed, connVars, now, tried>>
            BY <1>4 DEF GetSession, Goes
        <3>. QED BY <1>1, <1>3, <2>1, <3>1, <3>2, HandlerKeeps DEF TransportInv, Handling
    <2>2. CASE /\ session[Chat[now]] = 0 /\ Spawn(DefaultAgent) /\ at' = "starting"
               /\ UNCHANGED <<session, flagged>>
        <3>1. PICK c \in Clients : /\ life' = [life EXCEPT ![c] = "starting"] /\ using' = c
                                   /\ agentOf' = [agentOf EXCEPT ![c] = DefaultAgent]
            BY <2>2 DEF Spawn
        <3>2. ClientTypes' /\ Belonging'
            BY <1>1, <1>2, <1>3, <1>4, <2>2, <3>1 DEF GetSession, TransportInv, ClientTypes, Belonging
        <3>3. Goes /\ UNCHANGED <<service, up, arrived, offset, confirmed, connVars, now, tried>>
            BY <1>4 DEF GetSession, Goes
        <3>. QED BY <1>1, <1>3, <2>2, <3>1, <3>2, <3>3, HandlerKeeps DEF TransportInv, Handling
    <2>. QED BY <1>4, <2>1, <2>2 DEF GetSession
<1>5. CASE SwitchAgent
    <2>1. CASE Return /\ UNCHANGED tableVars
        <3>1. ClientTypes' /\ Belonging'
            BY <1>2, <1>5, <2>1 DEF SwitchAgent, Return, TransportInv, ClientTypes, Belonging
        <3>2. Goes /\ at' = "idle" /\ now' = 0 /\ tried' = 0
            BY <1>3, <2>1 DEF Return, Goes
        <3>. QED BY <1>3, <1>5, <3>1, <3>2, HandlerKeeps DEF SwitchAgent, Busy
    <2>2. CASE /\ Spawn(To[now]) /\ at' = "starting" /\ UNCHANGED <<session, now, tried, handled, queue>>
        <3>1. PICK c \in Clients : /\ life' = [life EXCEPT ![c] = "starting"] /\ using' = c
                                   /\ agentOf' = [agentOf EXCEPT ![c] = To[now]]
            BY <2>2 DEF Spawn
        <3>2. ClientTypes' /\ Belonging'
            BY <1>1, <1>2, <1>3, <1>5, <2>2, <3>1 DEF SwitchAgent, TransportInv, ClientTypes, Belonging
        <3>3. Goes /\ What[now] = "switch"
            BY <1>5, <2>2 DEF SwitchAgent, Goes, TransportInv, Handling
        <3>. QED BY <1>1, <1>3, <1>5, <2>2, <3>1, <3>2, <3>3, HandlerKeeps
                 DEF SwitchAgent, TransportInv, Handling
    <2>. QED BY <1>5, <2>1, <2>2 DEF SwitchAgent
<1>6. CASE Started
    <2>1. using \in Clients /\ at = "starting"
        BY <1>1, <1>6 DEF Started, TransportInv, Handling, Busy
    <2>2. /\ session' = [session EXCEPT ![Chat[now]] = using] /\ life' = [life EXCEPT ![using] = "live"]
          /\ UNCHANGED <<service, up, arrived, offset, confirmed, connVars, now, tried, agentOf, flagged,
                         cmd, turn, queue, handled>>
          /\ \/ What[now] = "prompt" /\ at' = "prompting" /\ using' = using
             \/ What[now] # "prompt" /\ at' = "replacing" /\ using' = session[Chat[now]]
        BY <1>6 DEF Started
    <2>3. What[now] = "prompt" => session[Chat[now]] = 0
        BY <2>1 DEF TransportInv, Handling
    <2>4. /\ session' \in [Chats -> Clients \cup {0}]
          /\ \A k \in Chats : session'[k] = IF k = Chat[now] THEN using ELSE session[k]
          /\ \A c \in Clients : life'[c] = IF c = using THEN "live" ELSE life[c]
          /\ ClientTypes'
        BY <1>1, <2>1, <2>2 DEF TransportInv, ClientTypes
    <2>5. ASSUME NEW c \in Clients, life'[c] = "live"
          PROVE  (\E k \in Chats : session'[k] = c) \/ (at' = "replacing" /\ using' = c)
        <3>1. CASE c = using
            BY <1>1, <2>4, <3>1
        <3>2. CASE c # using
            <4>1. PICK k \in Chats : session[k] = c
                BY <1>2, <2>1, <2>4, <2>5, <3>2 DEF Belonging
            <4>. QED BY <2>2, <2>3, <2>4, <4>1
        <3>. QED BY <3>1, <3>2
    <2>6. Goes /\ Belonging'
        BY <2>2, <2>5 DEF Goes, Belonging
    <2>7. now' = now /\ now # 0 /\ at' \in {"prompting", "replacing"} /\ tried' = tried
          /\ (at' = "prompting" => using' # 0)
        BY <1>1, <2>1, <2>2
    <2>8. UNCHANGED <<service, up, arrived, offset, confirmed, connVars>>
        BY <2>2
    <2>. QED BY <1>3, <2>1, <2>4, <2>6, <2>7, <2>8, HandlerKeeps DEF Busy
<1>. QED BY <1>4, <1>5, <1>6

LEMMA PromptStep ==
    ASSUME TransportInv, StartFails \/ Replaced \/ Abort \/ Prompt \/ Line \/ SetModel \/ Timeout
    PROVE  TransportInv'
<1> USE Numbering DEF feedVars, connVars, tableVars, pipeVars
<1>1. /\ now \in Updates /\ Chat[now] \in Chats /\ session[Chat[now]] \in Clients \cup {0}
      /\ at # "idle" /\ up # "stopped" /\ tried \in 0..Fallbacks /\ using \in Clients \cup {0}
      /\ at \in Busy => using \in Clients
      /\ at \in Busy \cup {"replacing", "abort"}
    BY DEF StartFails, Replaced, Abort, Prompt, Line, SetModel, Timeout, Busy,
           TransportInv, Handling, FeedTypes, HandlerTypes, ClientTypes
<1>2. Belonging
    BY DEF TransportInv, NothingLeftBehind, Belonging
<1>3. UNCHANGED <<service, up, arrived, offset, confirmed, connVars>>
    BY DEF StartFails, Replaced, Abort, Prompt, Line, SetModel, Timeout
<1>4. ASSUME Return \/ Throw, ClientTypes', Belonging'
      PROVE  TransportInv'
    <2>1. Goes /\ at' = "idle" /\ now' = 0 /\ tried' = 0
        BY <1>1, <1>4 DEF Return, Throw, Goes
    <2>. QED BY <1>1, <1>3, <1>4, <2>1, HandlerKeeps DEF Busy
<1>5. ASSUME UNCHANGED <<now, handled, queue, using>>, at' \in {"prompting", "waiting", "modelling"},
             at \in Busy, tried' \in 0..Fallbacks, at' = "modelling" => tried' < Fallbacks,
             ClientTypes', Belonging'
      PROVE  TransportInv'
    <2>1. Goes
        BY <1>5 DEF Goes
    <2>. QED BY <1>1, <1>3, <1>5, <2>1, HandlerKeeps DEF Busy
<1>6. CASE StartFails
    <2>1. /\ life' = [life EXCEPT ![using] = "stopped"] /\ Throw /\ using \in Clients
          /\ UNCHANGED <<session, agentOf, flagged, cmd, turn>> /\ using' = 0 /\ at # "replacing"
        BY <1>1, <1>6 DEF StartFails, Throw, Busy
    <2>2. ClientTypes' /\ Belonging'
        BY <1>2, <2>1 DEF TransportInv, ClientTypes, Belonging
    <2>. QED BY <1>4, <2>1, <2>2
<1>7. CASE Replaced
    <2>1. /\ Stopped({using} \ {0}) /\ Return /\ using' = 0
          /\ UNCHANGED <<session, agentOf, flagged>>
        BY <1>7 DEF Replaced, Return
    <2>2. ClientTypes' /\ Belonging'
        <3>1. ClientTypes'
            BY <2>1 DEF Stopped, TransportInv, ClientTypes
        <3>2. \A c \in Clients : life'[c] = "live" => life[c] = "live" /\ c # using
            BY <1>1, <2>1 DEF Stopped
        <3>. QED BY <1>2, <2>1, <3>1, <3>2 DEF Belonging
    <2>. QED BY <1>4, <2>1, <2>2
<1>8. CASE Abort
    <2>1. /\ UNCHANGED <<session, life, agentOf, cmd>> /\ at # "replacing"
          /\ Return \/ Throw
          /\ flagged' \in [Clients -> BOOLEAN] /\ turn' \in [Clients -> Updates \cup {0}]
        <3>1. flagged' \in [Clients -> BOOLEAN] /\ turn' \in [Clients -> Updates \cup {0}]
            BY <1>1, <1>8 DEF Abort, TransportInv, ClientTypes
        <3>. QED BY <1>8, <3>1 DEF Abort
    <2>2. using' = 0
        BY <2>1 DEF Return, Throw
    <2>3. ClientTypes' /\ Belonging'
        BY <1>2, <2>1, <2>2 DEF TransportInv, ClientTypes, Belonging
    <2>. QED BY <1>4, <2>1, <2>3
<1>9. CASE Prompt
    <2>1. UNCHANGED <<session, life, agentOf, flagged, turn>> /\ at \in Busy /\ at # "replacing"
        BY <1>9 DEF Prompt, Busy
    <2>2. CASE cmd' = [cmd EXCEPT ![using] = now] /\ at' = "waiting" /\ UNCHANGED <<now, using, tried, handled, queue>>
        <3>1. ClientTypes' /\ Belonging'
            BY <1>1, <1>2, <2>1, <2>2 DEF TransportInv, ClientTypes, Belonging
        <3>. QED BY <1>1, <1>5, <2>1, <2>2, <3>1
    <2>3. CASE Throw /\ UNCHANGED cmd
        <3>1. using' = 0
            BY <2>3 DEF Throw
        <3>2. ClientTypes' /\ Belonging'
            BY <1>2, <2>1, <2>3, <3>1 DEF TransportInv, ClientTypes, Belonging
        <3>. QED BY <1>4, <2>3, <3>2
    <2>. QED BY <1>9, <2>2, <2>3 DEF Prompt
<1>10. CASE Line \/ SetModel \/ Timeout
    <2>1. /\ UNCHANGED <<session, life, agentOf, flagged, cmd, turn>> /\ at \in Busy /\ at # "replacing"
        BY <1>10 DEF Line, SetModel, Timeout, Busy
    <2>2. CASE Return \/ Throw
        <3>1. using' = 0
            BY <2>2 DEF Return, Throw
        <3>2. ClientTypes' /\ Belonging'
            BY <1>2, <2>1, <3>1 DEF TransportInv, ClientTypes, Belonging
        <3>. QED BY <1>4, <2>2, <3>2
    <2>3. CASE ~(Return \/ Throw)
        <3>1. /\ UNCHANGED <<now, handled, queue, using>> /\ at' \in {"prompting", "waiting", "modelling"}
              /\ tried' \in 0..Fallbacks /\ (at' = "modelling" => tried' < Fallbacks)
            BY <1>1, <1>10, <2>3 DEF Line, SetModel, Timeout, TransportInv, Handling
        <3>2. ClientTypes' /\ Belonging'
            BY <1>2, <2>1, <3>1 DEF TransportInv, ClientTypes, Belonging
        <3>. QED BY <1>5, <2>1, <3>1, <3>2
    <2>. QED BY <2>2, <2>3
<1>. QED BY <1>6, <1>7, <1>8, <1>9, <1>10

LEMMA AgentStep ==
    ASSUME TransportInv, NEW c \in Clients, Unread(c) \/ PiReads(c) \/ PiSettles(c) \/ PiExits(c)
    PROVE  TransportInv'
<1> USE Numbering DEF feedVars, connVars, tableVars, pipeVars, othersOfPi
<1>1. UNCHANGED <<service, up, arrived, offset, confirmed, connVars, session, agentOf, flagged>>
    BY DEF Unread, PiReads, PiSettles, PiExits
<1>2. /\ cmd' \in [Clients -> Updates \cup {0}] /\ turn' \in [Clients -> Updates \cup {0}]
      /\ life' \in [Clients -> {"none", "starting", "live", "exited", "stopped"}]
      /\ \A b \in Clients : life'[b] = "live" => life[b] = "live"
    BY DEF Unread, PiReads, PiSettles, PiExits, TransportInv, ClientTypes
<1>3. CASE UNCHANGED <<tried, queue, handled, at, now, using>>
    <2>1. Goes /\ ClientTypes' /\ Belonging'
        BY <1>1, <1>2, <1>3 DEF Goes, TransportInv, ClientTypes, NothingLeftBehind, Belonging
    <2>. QED BY <1>1, <1>2, <1>3, <2>1, HandlerKeeps DEF TransportInv, HandlerTypes, Handling
<1>4. CASE at = "waiting" /\ Throw
    <2>1. Goes /\ at' = "idle" /\ now' = 0 /\ tried' = 0 /\ using' = 0
        BY <1>4 DEF Throw, Goes
    <2>2. ClientTypes' /\ Belonging'
        BY <1>1, <1>2, <1>4, <2>1 DEF TransportInv, ClientTypes, NothingLeftBehind, Belonging
    <2>. QED BY <1>1, <1>2, <1>4, <2>1, <2>2, HandlerKeeps DEF Busy
<1>. QED BY <1>3, <1>4 DEF Unread, PiReads, PiSettles, PiExits

LEMMA EndStep ==
    ASSUME TransportInv, Stop \/ Teardown
    PROVE  TransportInv'
<1> USE Numbering DEF feedVars, connVars, tableVars, pipeVars
<1>1. /\ UNCHANGED <<service, arrived, offset, confirmed, queue, handled, gen, opening, at, now, using,
                     tried, agentOf, flagged>>
      /\ up' \in {"stopping", "stopped"}
    BY DEF Stop, Teardown
<1>2. Queued' /\ FeedTypes' /\ HandlerTypes' /\ Feeding'
    BY <1>1 DEF TransportInv, Queued, FeedTypes, HandlerTypes, Feeding, Polled, NoUpdateSkipped
<1>3. CASE Stop
    <2>1. /\ ~timer' /\ timer' \in BOOLEAN /\ ready' \in BOOLEAN /\ up' = "stopping"
          /\ UNCHANGED <<socket, sockets, session, life, cmd, turn>>
        BY <1>3 DEF Stop
    <2>2. ConnTypes' /\ ClientTypes'
        BY <1>1, <2>1 DEF TransportInv, ConnTypes, ClientTypes
    <2>3. Handling' /\ Connecting' /\ NothingLeftBehind'
        BY <1>1, <2>1 DEF TransportInv, Handling, Connecting, NothingLeftBehind
    <2>. QED BY <1>2, <2>2, <2>3 DEF TransportInv
<1>4. CASE Teardown
    <2>1. /\ at = "idle" /\ queue = <<>> /\ up' = "stopped"
          /\ socket' = 0 /\ sockets' = sockets \ {socket} /\ UNCHANGED <<ready, timer>>
          /\ session' = [k \in Chats |-> 0] /\ Stopped({session[k] : k \in Chats} \ {0})
        BY <1>4 DEF Teardown
    <2>2. ConnTypes' /\ ClientTypes'
        BY <1>1, <2>1 DEF Stopped, TransportInv, ConnTypes, ClientTypes
    <2>3. Handling' /\ Connecting'
        BY <1>1, <2>1 DEF TransportInv, Handling, Connecting, Busy
    <2>4. \A c \in Clients : life'[c] # "live"
        BY <2>1 DEF Stopped, TransportInv, ClientTypes, NothingLeftBehind
    <2>5. NothingLeftBehind'
        BY <2>1, <2>4 DEF TransportInv, NothingLeftBehind
    <2>. QED BY <1>2, <2>2, <2>3, <2>5 DEF TransportInv
<1>. QED BY <1>3, <1>4

LEMMA TransportStep == TransportInv /\ [Next]_vars => TransportInv'
<1> SUFFICES ASSUME TransportInv, [Next]_vars PROVE TransportInv'
    OBVIOUS
<1>1. CASE Arrive \/ Poll \/ Crash \/ Begin
    BY <1>1, ArriveStep, PollStep, CrashStep, BeginStep
<1>2. CASE Connection \/ (\E g \in Gens : OpenFails(g)) \/ Drop
    <2>1. 1 \in Gens
        BY Numbering DEF Gens
    <2>. QED BY <1>2, <2>1, ConnStep DEF Connection
<1>3. CASE GetSession \/ SwitchAgent \/ Started
    BY <1>3, SessionStep
<1>4. CASE StartFails \/ Replaced \/ Abort \/ Prompt \/ Line \/ SetModel \/ Timeout
    BY <1>4, PromptStep
<1>5. CASE \E c \in Clients : Unread(c) \/ PiReads(c) \/ PiSettles(c) \/ PiExits(c)
    BY <1>5, AgentStep
<1>6. CASE Stop \/ Teardown
    BY <1>6, EndStep
<1>7. CASE UNCHANGED vars
    BY <1>7 DEF vars, feedVars, connVars, tableVars, pipeVars, TransportInv, Queued, FeedTypes, ConnTypes,
                ClientTypes, HandlerTypes, Handling, Connecting, Feeding, Polled, NoUpdateSkipped,
                NothingLeftBehind
<1>. QED BY <1>1, <1>2, <1>3, <1>4, <1>5, <1>6, <1>7 DEF Next, Handler

LEMMA TransportIsSound == Spec => []TransportInv
BY TransportStarts, TransportStep, PTL DEF Spec

LEMMA OutputStarts == Init => OutputTypes
BY ChatAssumption DEF Init, OutputTypes, Lines, Answers

\* A step adds a line to what an agent has written, takes the first one, or
\* forgets them.
LEMMA OutputStep == TransportInv /\ OutputTypes /\ [Next]_vars => OutputTypes'
<1> SUFFICES ASSUME TransportInv, OutputTypes, [Next]_vars PROVE OutputTypes'
    OBVIOUS
<1> USE Numbering DEF feedVars, connVars, tableVars, pipeVars, othersOfPi, othersOfConn
<1>1. ASSUME NEW c \in Clients, NEW line \in Lines, out' = [out EXCEPT ![c] = Append(@, line)]
      PROVE  out' \in [Clients -> Seq(Lines)]
    BY <1>1 DEF OutputTypes
<1>2. ASSUME NEW c \in Clients, out[c] # <<>>, out' = [out EXCEPT ![c] = Tail(@)]
      PROVE  out' \in [Clients -> Seq(Lines)]
    <2>1. out[c] \in Seq(Lines)
        BY DEF OutputTypes
    <2>2. Tail(out[c]) \in Seq(Lines)
        BY <1>2, <2>1
    <2>. QED BY <1>2, <2>2 DEF OutputTypes
<1>3. ASSUME NEW what \in {"answer", "failed", "timeout"}, NEW p \in Updates \cup {0}, Say(what, p)
      PROVE  said' \in [Updates -> Answers]
    <2>1. <<what, p>> \in Answers
        BY DEF Answers
    <2>. QED BY <1>3, <2>1 DEF Say, OutputTypes
<1>4. 0 \in Updates \cup {0} /\ \A c \in Clients : turn[c] \in Updates \cup {0} /\ cmd[c] \in Updates \cup {0}
    BY DEF TransportInv, ClientTypes
<1>5. MaxCrashes \in Nat /\ MaxExits \in Nat /\ crashes \in 0..MaxCrashes /\ exits \in 0..MaxExits
    BY ChatAssumption DEF OutputTypes
<1>6. CASE Arrive \/ Poll \/ Begin \/ GetSession \/ SwitchAgent \/ Started \/ Stop
           \/ Connection \/ (\E g \in Gens : OpenFails(g)) \/ Drop \/ UNCHANGED vars
    <2>1. UNCHANGED <<out, said, crashes, exits>>
        BY <1>6 DEF Arrive, Poll, Begin, GetSession, SwitchAgent, Started, Stop, Connection, Opened, Hello,
           Reconnect, OpenFails, Drop, vars
    <2>. QED BY <2>1 DEF OutputTypes
<1>7. CASE Crash
    <2>1. out' \in [Clients -> Seq(Lines)]
        BY <1>7 DEF Crash
    <2>2. UNCHANGED <<said, exits>> /\ crashes' \in 0..MaxCrashes
        BY <1>5, <1>7 DEF Crash
    <2>. QED BY <2>1, <2>2 DEF OutputTypes
<1>8. CASE Replaced \/ Teardown
    <2>1. \E cs : Stopped(cs)
        BY <1>8 DEF Replaced, Teardown
    <2>2. out' \in [Clients -> Seq(Lines)]
        BY <2>1 DEF Stopped, OutputTypes
    <2>3. UNCHANGED <<said, crashes, exits>>
        BY <1>8 DEF Replaced, Teardown
    <2>. QED BY <2>2, <2>3 DEF OutputTypes
<1>9. CASE Abort
    <2>1. UNCHANGED <<said, crashes, exits>>
        BY <1>9 DEF Abort
    <2>2. PICK c : c = session[Chat[now]]
        OBVIOUS
    <2>3. CASE out' = out
        BY <2>1, <2>3 DEF OutputTypes
    <2>4. CASE out' # out
        <3>1. c # 0 /\ out' = [out EXCEPT ![c] = IF turn[c] = 0 THEN @ ELSE Append(@, <<"settled", turn[c]>>)]
            BY <1>9, <2>2, <2>4 DEF Abort
        <3>2. c \in Clients /\ turn[c] # 0
            BY <2>4, <3>1 DEF OutputTypes
        <3>3. <<"settled", turn[c]>> \in Lines /\ out' = [out EXCEPT ![c] = Append(@, <<"settled", turn[c]>>)]
            BY <1>4, <3>1, <3>2 DEF Lines
        <3>. QED BY <1>1, <2>1, <3>2, <3>3 DEF OutputTypes
    <2>. QED BY <2>3, <2>4
<1>10. CASE Prompt \/ SetModel \/ Timeout \/ StartFails
    <2>1. UNCHANGED <<out, crashes>> /\ exits' \in 0..MaxExits
        BY <1>5, <1>10 DEF Prompt, SetModel, Timeout, StartFails
    <2>2. UNCHANGED said \/ \E what \in {"failed", "timeout"} : Say(what, 0)
        BY <1>10 DEF Prompt, SetModel, Timeout, StartFails
    <2>3. said' \in [Updates -> Answers]
        BY <1>3, <1>4, <2>2 DEF OutputTypes
    <2>. QED BY <2>1, <2>3 DEF OutputTypes
<1>11. CASE Line
    <2>1. using \in Clients /\ out[using] # <<>> /\ out' = [out EXCEPT ![using] = Tail(@)]
        BY <1>11 DEF Line, TransportInv, Handling, Busy, ClientTypes
    <2>2. Head(out[using]) \in Lines
        BY <2>1 DEF OutputTypes
    <2>3. Head(out[using])[2] \in Updates
        BY <2>2 DEF Lines
    <2>4. UNCHANGED said \/ Say("answer", Head(out[using])[2]) \/ Say("failed", 0)
        BY <1>11 DEF Line
    <2>5. said' \in [Updates -> Answers]
        BY <1>3, <1>4, <2>3, <2>4 DEF OutputTypes
    <2>6. UNCHANGED <<crashes, exits>>
        BY <1>11 DEF Line
    <2>. QED BY <1>2, <2>1, <2>5, <2>6 DEF OutputTypes
<1>12. ASSUME NEW c \in Clients, Unread(c) \/ PiReads(c) \/ PiSettles(c) \/ PiExits(c) PROVE OutputTypes'
    <2>1. UNCHANGED crashes /\ exits' \in 0..MaxExits
        BY <1>5, <1>12 DEF Unread, PiReads, PiSettles, PiExits
    <2>2. UNCHANGED said \/ Say("failed", 0)
        BY <1>12 DEF Unread, PiReads, PiSettles, PiExits
    <2>3. said' \in [Updates -> Answers]
        BY <1>3, <1>4, <2>2 DEF OutputTypes
    <2>4. CASE Unread(c)
        <3>1. out[c] # <<>> /\ out' = [out EXCEPT ![c] = Tail(@)]
            BY <2>4 DEF Unread
        <3>. QED BY <1>2, <2>1, <2>3, <3>1 DEF OutputTypes
    <2>5. CASE PiReads(c)
        <3>1. <<"rejected", cmd[c]>> \in Lines
            BY <1>4, <2>5 DEF PiReads, Lines
        <3>2. UNCHANGED out \/ out' = [out EXCEPT ![c] = Append(@, <<"rejected", cmd[c]>>)]
            BY <2>5 DEF PiReads
        <3>. QED BY <1>1, <2>1, <2>3, <3>1, <3>2 DEF OutputTypes
    <2>6. CASE PiSettles(c)
        <3>1. <<"settled", turn[c]>> \in Lines /\ out' = [out EXCEPT ![c] = Append(@, <<"settled", turn[c]>>)]
            BY <1>4, <2>6 DEF PiSettles, Lines
        <3>. QED BY <1>1, <2>1, <2>3, <3>1 DEF OutputTypes
    <2>7. CASE PiExits(c)
        BY <2>1, <2>3, <2>7 DEF PiExits, OutputTypes
    <2>. QED BY <1>12, <2>4, <2>5, <2>6, <2>7
<1>. QED BY <1>6, <1>7, <1>8, <1>9, <1>10, <1>11, <1>12 DEF Next, Handler

(* Every variable of the transport keeps its type.                          *)
THEOREM TransportTypes == Spec => []TypeOK
<1>1. TransportInv /\ OutputTypes => TypeOK
    BY TypesOf DEF TransportInv
<1>. QED BY <1>1, TransportStarts, TransportStep, OutputStarts, OutputStep, PTL DEF Spec

(* Through switches of the agent, starts that fail, connections that drop  *)
(* and a stop in the middle of any of them, a running agent belongs to a   *)
(* chat or is about to be stopped, the open socket is the one in use, and  *)
(* a stopped transport has none.                                           *)
THEOREM TransportsEndClean == Spec => []NothingLeftBehind
BY TransportIsSound, PTL DEF TransportInv

(* Telegram is told to forget a message only when it has been handled,     *)
(* though the process may crash or a handler throw in the middle of a      *)
(* batch.                                                                  *)
THEOREM UpdatesAreHandled == Spec => []NoUpdateSkipped
BY TransportIsSound, PTL DEF TransportInv, Feeding

-----------------------------------------------------------------------------
(* The gateway.                                                             *)

Models == {Candidates[i] : i \in DOMAIN Candidates}

Request ==
    [op : {"prompt", "steer"}, of : Turns, ask : Nat]
    \cup [op : {"model"}, of : Turns, to : Models]
    \cup [op : {"abort"}, of : {Unknown}]
    \cup [op : {"select"}, of : {Unknown}, auto : BOOLEAN]

Run == {Idle} \cup [of : Turns, worked : BOOLEAN]

Process == [st : {"none", "starting", "up", "exited", "stopped"}, agent : Team,
            stdin : Seq(Request), run : Run]

Stages == {"unposted", "policy", "asked", "settled", "switching", "failed", "done"}

Seen == [worked : BOOLEAN, end : {"none", "stop", "error", "conflict", "aborted"}]

Message == [st : Stages, kind : AllKinds, on : Procs \cup {0}, asks : Nat, config : BOOLEAN,
            seen : Seen,
            tried : SUBSET (Models \cup {Unknown}), to : Models \cup {Unknown}, aborted : BOOLEAN]

GatewayTypes ==
    /\ client \in Procs /\ currentAgent \in Team
    /\ pi \in [Procs -> Process] /\ chat \in [Turns -> Message]
    /\ incident \in Turns \cup {Unknown}
    /\ replacing \subseteq [old : Procs, new : Procs, switch : BOOLEAN]
    /\ works \in [Turns -> Nat] /\ crossed \subseteq Turns

\* A process that does not run has nothing to do; turns are at processes that have
\* run, and a replacement is not used before it has started.
Placed ==
    /\ pi[client].st \in {"up", "exited", "stopped"}
    /\ \A p \in Procs : pi[p].st # "up" => pi[p].stdin = <<>> /\ pi[p].run = Idle
    /\ \A t \in Turns : chat[t].on # 0 => pi[chat[t].on].st \in {"up", "exited", "stopped"}
    /\ \A t \in Turns : chat[t].st \in {"asked", "settled", "switching"} => chat[t].on # 0
    /\ \A r \in replacing : /\ pi[r.new].st = "starting"
                            /\ pi[r.old].st \in {"up", "exited", "stopped"}
    /\ \A r, s \in replacing : r.new = s.new => r = s

\* Only a turn that has read its policy is an incident, or marked as aborted.
Marked == \A t \in Turns : incident = t \/ chat[t].aborted => chat[t].st \notin {"unposted", "policy"}

\* The prompts of t in a process's stdin, and whether the process has t to do.
PromptsOf(stdin, t) == {i \in DOMAIN stdin : stdin[i].of = t /\ stdin[i].op # "model"}

OneAtMost(S) == \A i, j \in S : i = j

Held(t, p) == pi[p].run.of = t \/ PromptsOf(pi[p].stdin, t) # {}

\* A message that has shared its process with no other: it is at one process, once,
\* and what the agent has done for it was seen by the turn that waits.
Alone(t) ==
    /\ \A p \in Procs : Held(t, p) =>
          /\ p = chat[t].on /\ pi[p].st = "up" /\ chat[t].st \in {"asked", "failed"}
          /\ \A u \in Turns : Held(u, p) => u = t
    /\ chat[t].st = "asked" /\ pi[chat[t].on].st = "up" => Held(t, chat[t].on)
    /\ \A p \in Procs : /\ pi[p].run.of = t => PromptsOf(pi[p].stdin, t) = {}
                        /\ OneAtMost(PromptsOf(pi[p].stdin, t))
    /\ works[t] <= 1
    /\ works[t] = 1 =>
          /\ chat[t].st \in {"asked", "settled", "failed", "done"}
          /\ chat[t].st \in {"asked", "settled"} => chat[t].seen.worked
          /\ \A p \in Procs : /\ PromptsOf(pi[p].stdin, t) = {}
                              /\ pi[p].run.of = t => pi[p].run.worked

Alones == \A t \in Turns \ crossed : Alone(t)

GatewayInv == GatewayTypes /\ Placed /\ Marked /\ Alones

LEMMA Constants ==
    /\ Procs \subseteq Nat /\ 0 \notin Procs /\ 1 \in Procs /\ FirstAgent \in Team /\ Unknown \notin Turns
    /\ \A t \in Turns : Kinds[t] \subseteq AllKinds
    /\ Idle.of = Unknown /\ ~Idle.worked /\ Idle \in Run
BY GatewayChatAssumption DEF Procs, Idle, Run

LEMMA OverOf ==
    ASSUME NEW c \in Message, NEW st \in Stages
    PROVE  /\ Over(c, st) \in Message /\ Over(c, st).st = st /\ Over(c, st).on = c.on
           /\ Over(c, st).asks = c.asks /\ Over(c, st).aborted = c.aborted
BY DEF Message, Over, Nothing, Seen

LEMMA RejectedOf ==
    ASSUME NEW c \in Message
    PROVE  /\ Rejected(c) \in Message /\ Rejected(c).on = c.on
           /\ Rejected(c).st = IF c.st = "switching" THEN "settled" ELSE "failed"
           /\ Rejected(c).asks = c.asks /\ Rejected(c).aborted = c.aborted
<1>1. CASE c.st = "switching"
    <2> DEFINE r == [c EXCEPT !.st = "settled", !.tried = @ \cup {c.to}]
    <2>1. c.tried \cup {c.to} \subseteq Models \cup {Unknown} /\ "settled" \in Stages
        BY DEF Message, Stages
    <2>2. /\ r.st = "settled" /\ r.on = c.on /\ r.asks = c.asks /\ r.aborted = c.aborted
          /\ r \in Message
        BY <2>1 DEF Message
    <2>. QED BY <1>1, <2>2 DEF Rejected
<1>2. CASE c.st # "switching"
    BY <1>2, OverOf DEF Rejected, Stages
<1>. QED BY <1>1, <1>2

LEMMA AskedOf ==
    ASSUME NEW c \in Message
    PROVE  /\ Asked(c) \in Message /\ Asked(c).st = "asked" /\ Asked(c).on = c.on
           /\ Asked(c).asks = c.asks + 1 /\ Asked(c).aborted = c.aborted
<1>1. /\ "asked" \in Stages /\ c.asks + 1 \in Nat
      /\ Nothing \in Seen
    BY DEF Message, Stages, Nothing, Seen
<1>. QED BY <1>1 DEF Message, Asked

LEMMA SeenOf ==
    ASSUME NEW seen \in Seen
    PROVE  /\ Shown(seen) \in Seen /\ Shown(seen).worked
           /\ \A end \in {"stop", "error", "conflict", "aborted"} :
                 EndedBy(seen, end) \in Seen /\ EndedBy(seen, end).worked = seen.worked
BY DEF Seen, Shown, EndedBy

LEMMA OthersAre ==
    ASSUME GatewayTypes, NEW t \in Turns, NEW p \in Procs
    PROVE  Others(t, p) = {u \in Turns \ {t} : Held(u, p)}
BY DEF Others, Held, PromptsOf

LEMMA PromptsAfterAppend ==
    ASSUME NEW s \in Seq(Request), NEW q \in Request, NEW t \in Turns
    PROVE  /\ Append(s, q) \in Seq(Request)
           /\ q.of # t \/ q.op = "model" => PromptsOf(Append(s, q), t) = PromptsOf(s, t)
           /\ PromptsOf(s, t) = {} => OneAtMost(PromptsOf(Append(s, q), t))
           /\ q.of = t /\ q.op # "model" => PromptsOf(Append(s, q), t) # {}
<1> DEFINE a == Append(s, q)
<1>1. /\ a \in Seq(Request) /\ DOMAIN a = 1..Len(s) + 1 /\ DOMAIN s = 1..Len(s) /\ Len(s) \in Nat
      /\ \A i \in 1..Len(s) : a[i] = s[i]
      /\ a[Len(s) + 1] = q
    OBVIOUS
<1> HIDE DEF a
<1>. QED BY <1>1 DEF PromptsOf, OneAtMost, a

LEMMA TailOf == ASSUME NEW s \in Seq(Request), s # <<>> PROVE Tail(s) \in Seq(Request)
OBVIOUS

LEMMA RunsOf ==
    ASSUME NEW o \in Process, NEW run \in Run
    PROVE  /\ [o EXCEPT !.run = run] \in Process /\ [o EXCEPT !.run = run].st = o.st
           /\ [o EXCEPT !.run = run].run = run /\ [o EXCEPT !.run = run].stdin = o.stdin
<1>1. [o EXCEPT !.run = run] \in Process
    BY DEF Process
<1>2. /\ [o EXCEPT !.run = run].st = o.st /\ [o EXCEPT !.run = run].stdin = o.stdin
      /\ [o EXCEPT !.run = run].run = run
    BY DEF Process
<1>. QED BY <1>1, <1>2

LEMMA ProcessGone ==
    ASSUME NEW o \in Process, NEW st \in {"exited", "stopped"}
    PROVE  \E x \in Process : /\ x = [o EXCEPT !.st = st, !.stdin = <<>>, !.run = Idle]
                              /\ x.st = st /\ x.stdin = <<>> /\ x.run = Idle
<1> DEFINE x == [o EXCEPT !.st = st, !.stdin = <<>>, !.run = Idle]
<1>1. <<>> \in Seq(Request)
    OBVIOUS
<1>2. x \in Process
    BY <1>1, Constants DEF Process
<1>3. x.st = st /\ x.stdin = <<>> /\ x.run = Idle
    BY DEF Process
<1> HIDE DEF x
<1>. QED BY <1>2, <1>3 DEF x

LEMMA ProcessUp ==
    ASSUME NEW o \in Process
    PROVE  \E x \in Process : /\ x = [o EXCEPT !.st = "up"]
                              /\ x.st = "up" /\ x.stdin = o.stdin /\ x.run = o.run
<1> DEFINE x == [o EXCEPT !.st = "up"]
<1>1. x \in Process
    BY DEF Process
<1>2. x.st = "up" /\ x.stdin = o.stdin /\ x.run = o.run
    BY DEF Process
<1> HIDE DEF x
<1>. QED BY <1>1, <1>2 DEF x

LEMMA RunWorks ==
    ASSUME NEW run \in [of : Turns, worked : BOOLEAN]
    PROVE  /\ [run EXCEPT !.worked = TRUE] \in Run /\ [run EXCEPT !.worked = TRUE].of = run.of
           /\ [run EXCEPT !.worked = TRUE].worked
BY DEF Run

LEMMA PromptsAfterTail ==
    ASSUME NEW s \in Seq(Request), s # <<>>, NEW t \in Turns
    PROVE  /\ Tail(s) \in Seq(Request) /\ Head(s) \in Request
           /\ PromptsOf(Tail(s), t) # {} => PromptsOf(s, t) # {}
           /\ OneAtMost(PromptsOf(s, t)) => OneAtMost(PromptsOf(Tail(s), t))
           /\ Head(s).of # t \/ Head(s).op = "model" =>
                  (PromptsOf(s, t) # {} => PromptsOf(Tail(s), t) # {})
           /\ Head(s).of = t /\ Head(s).op # "model" =>
                  /\ PromptsOf(s, t) # {}
                  /\ OneAtMost(PromptsOf(s, t)) => PromptsOf(Tail(s), t) = {}
<1> DEFINE r == Tail(s)
<1>1. /\ r \in Seq(Request) /\ DOMAIN s = 1..Len(s) /\ DOMAIN r = 1..Len(s) - 1
      /\ Len(s) \in Nat /\ Len(s) >= 1 /\ Head(s) = s[1] /\ Head(s) \in Request
      /\ \A i \in 1..Len(s) - 1 : r[i] = s[i + 1]
    OBVIOUS
<1> HIDE DEF r
<1>2. \A i \in PromptsOf(r, t) : i + 1 \in PromptsOf(s, t) /\ i \in Nat /\ i >= 1
    BY <1>1 DEF PromptsOf
<1>3. \A i \in PromptsOf(s, t) : i \in Nat /\ (i = 1 \/ i - 1 \in PromptsOf(r, t))
    <2>1. SUFFICES ASSUME NEW i \in 1..Len(s), s[i].of = t, s[i].op # "model", i # 1
                   PROVE  i - 1 \in PromptsOf(r, t)
        BY <1>1 DEF PromptsOf
    <2>2. i - 1 \in 1..Len(s) - 1 /\ r[i - 1] = s[i]
        BY <1>1, <2>1
    <2>. QED BY <1>1, <2>1, <2>2 DEF PromptsOf
<1>4. 1 \in PromptsOf(s, t) <=> Head(s).of = t /\ Head(s).op # "model"
    BY <1>1 DEF PromptsOf
<1>5. OneAtMost(PromptsOf(s, t)) => OneAtMost(PromptsOf(r, t))
    <2>1. SUFFICES ASSUME OneAtMost(PromptsOf(s, t)), NEW i \in PromptsOf(r, t), NEW j \in PromptsOf(r, t)
                   PROVE  i = j
        BY DEF OneAtMost
    <2>2. i + 1 = j + 1 /\ i \in Nat /\ j \in Nat
        BY <1>2, <2>1 DEF OneAtMost
    <2>. QED BY <2>2
<1>6. Head(s).of = t /\ Head(s).op # "model" /\ OneAtMost(PromptsOf(s, t)) => PromptsOf(r, t) = {}
    <2>1. SUFFICES ASSUME 1 \in PromptsOf(s, t), OneAtMost(PromptsOf(s, t)), NEW i \in PromptsOf(r, t)
                   PROVE  FALSE
        BY <1>4
    <2>2. i + 1 = 1 /\ i \in Nat /\ i >= 1
        BY <1>2, <2>1 DEF OneAtMost
    <2>. QED BY <2>2
<1>7. (Head(s).of # t \/ Head(s).op = "model") /\ PromptsOf(s, t) # {} => PromptsOf(r, t) # {}
    BY <1>3, <1>4
<1>. QED BY <1>1, <1>2, <1>4, <1>5, <1>6, <1>7 DEF r

LEMMA GatewayStarts == GatewayChatInit => GatewayInv
<1> SUFFICES ASSUME GatewayChatInit PROVE GatewayInv
    OBVIOUS
<1>1. /\ pi \in [Procs -> Process] /\ \A p \in Procs : pi[p].stdin = <<>> /\ pi[p].run = Idle
      /\ \A p \in Procs : pi[p].st = IF p = 1 THEN "up" ELSE "none"
    BY Constants DEF GatewayChatInit, Process
<1>2. /\ chat \in [Turns -> Message]
      /\ \A t \in Turns : chat[t].st = "unposted" /\ chat[t].on = 0 /\ ~chat[t].aborted
    BY DEF GatewayChatInit, Message, Stages, AllKinds, Nothing, Seen
<1>3. GatewayTypes
    BY <1>1, <1>2, Constants DEF GatewayChatInit, GatewayTypes
<1>4. Placed /\ Marked
    BY <1>1, <1>2, Constants DEF GatewayChatInit, Placed, Marked
<1>5. \A t \in Turns, p \in Procs : ~Held(t, p) /\ PromptsOf(pi[p].stdin, t) = {}
    BY <1>1, Constants DEF Held, PromptsOf
<1>6. Alones
    BY <1>2, <1>5 DEF GatewayChatInit, Alones, Alone, OneAtMost, Held
<1>. QED BY <1>3, <1>4, <1>6 DEF GatewayInv

\* What p has to do for t is the same, and it has nothing new for others.
Same(t, p) ==
    /\ pi'[p].run.of = t <=> pi[p].run.of = t
    /\ pi[p].run.of = t => pi'[p].run = pi[p].run
    /\ PromptsOf(pi'[p].stdin, t) = {} <=> PromptsOf(pi[p].stdin, t) = {}
    /\ OneAtMost(PromptsOf(pi[p].stdin, t)) => OneAtMost(PromptsOf(pi'[p].stdin, t))
    /\ Held(t, p) => pi'[p].st = "up" /\ \A u \in Turns : Held(u, p)' => Held(u, p)

\* The turn of t goes on, or is given up, without being asked again.
Going(t) ==
    /\ chat'[t].st = "asked" => /\ chat[t].st = "asked"
                                /\ pi'[chat[t].on].st = "up" => pi[chat[t].on].st = "up"
    /\ chat[t].st \in {"asked", "failed"} =>
          chat'[t].st \in {"asked", "failed"} /\ chat'[t].on = chat[t].on
    /\ works[t] = 1 =>
          /\ chat'[t].st \in {"asked", "settled", "failed", "done"}
          /\ chat'[t].st \in {"asked", "settled"} => chat'[t].seen.worked

LEMMA AloneKept ==
    ASSUME GatewayInv, NEW t \in Turns \ crossed, \A p \in Procs : Same(t, p), Going(t),
           works'[t] = works[t]
    PROVE  Alone(t)'
<1>1. Alone(t) /\ chat[t].on \in Procs \cup {0} /\ (chat[t].st = "asked" => chat[t].on # 0)
    BY DEF GatewayInv, Alones, Placed, GatewayTypes, Message
<1>2. \A p \in Procs : Held(t, p)' <=> Held(t, p)
    BY DEF Same, Held
<1>3. ASSUME NEW p \in Procs, Held(t, p)'
      PROVE  /\ p = chat'[t].on /\ pi'[p].st = "up" /\ chat'[t].st \in {"asked", "failed"}
             /\ \A u \in Turns : Held(u, p)' => u = t
    BY <1>1, <1>2, <1>3 DEF Alone, Same, Going
<1>4. chat'[t].st = "asked" /\ pi'[chat'[t].on].st = "up" => Held(t, chat[t].on)'
    <2>1. SUFFICES ASSUME chat'[t].st = "asked", pi'[chat'[t].on].st = "up"
                   PROVE  Held(t, chat[t].on)'
        OBVIOUS
    <2>2. chat[t].st = "asked" /\ chat'[t].on = chat[t].on /\ chat[t].on \in Procs /\ pi[chat[t].on].st = "up"
        BY <1>1, <2>1 DEF Going
    <2>3. PICK p \in Procs : p = chat[t].on
        BY <2>2
    <2>4. Held(t, p)' /\ chat'[t].on = p
        BY <1>1, <1>2, <2>2, <2>3 DEF Alone
    <2>. QED BY <2>4 DEF Held
<1>5. \A p \in Procs : /\ pi'[p].run.of = t => PromptsOf(pi'[p].stdin, t) = {}
                       /\ OneAtMost(PromptsOf(pi'[p].stdin, t))
    BY <1>1 DEF Alone, Same
<1>6. works'[t] <= 1
    BY <1>1 DEF Alone
<1>7. works'[t] = 1 =>
          /\ chat'[t].st \in {"asked", "settled", "failed", "done"}
          /\ chat'[t].st \in {"asked", "settled"} => chat'[t].seen.worked
          /\ \A p \in Procs : /\ PromptsOf(pi'[p].stdin, t) = {}
                              /\ pi'[p].run.of = t => pi'[p].run.worked
    BY <1>1 DEF Alone, Same, Going
<1>. QED BY <1>3, <1>4, <1>5, <1>6, <1>7 DEF Alone

LEMMA SameUntouched ==
    ASSUME GatewayInv, NEW t \in Turns \ crossed, NEW p \in Procs, pi'[p] = pi[p]
    PROVE  Same(t, p)
BY DEF GatewayInv, Alones, Alone, Same, Held

LEMMA GoingUntouched ==
    ASSUME GatewayInv, NEW t \in Turns \ crossed, chat'[t] = chat[t],
           chat[t].on # 0 => (pi'[chat[t].on].st = "up" => pi[chat[t].on].st = "up")
    PROVE  Going(t)
BY DEF GatewayInv, Alones, Alone, Going, Placed

LEMMA GoingGivenUp ==
    ASSUME GatewayInv, NEW t \in Turns \ crossed, chat[t].st \in {"asked", "switching"},
           chat'[t] = Rejected(chat[t])
    PROVE  Going(t)
<1>1. chat[t] \in Message /\ Alone(t)
    BY DEF GatewayInv, GatewayTypes, Alones
<1>. QED BY <1>1, RejectedOf DEF Going, Alone

LEMMA WriteOf ==
    ASSUME GatewayTypes, NEW p \in Procs, NEW q \in Request, pi' = Write(p, q)
    PROVE  /\ pi' \in [Procs -> Process]
           /\ \A o \in Procs \ {p} : pi'[o] = pi[o]
           /\ pi'[p].st = pi[p].st /\ pi'[p].run = pi[p].run
           /\ pi'[p].stdin = Append(pi[p].stdin, q)
<1>1. pi[p] \in Process /\ Append(pi[p].stdin, q) \in Seq(Request)
    BY DEF GatewayTypes, Process
<1>. QED BY <1>1 DEF GatewayTypes, Process, Write

LEMMA TakenOf ==
    ASSUME GatewayTypes, NEW p \in Procs, pi[p].stdin # <<>>
    PROVE  /\ Taken(p) \in [Procs -> Process]
           /\ \A o \in Procs \ {p} : Taken(p)[o] = pi[o]
           /\ Taken(p)[p].st = pi[p].st /\ Taken(p)[p].run = pi[p].run
           /\ Taken(p)[p].stdin = Tail(pi[p].stdin)
           /\ pi[p].stdin \in Seq(Request) /\ Head(pi[p].stdin) \in Request
<1>1. pi[p] \in Process /\ Tail(pi[p].stdin) \in Seq(Request) /\ Head(pi[p].stdin) \in Request
    BY DEF GatewayTypes, Process
<1>. QED BY <1>1 DEF GatewayTypes, Process, Taken

LEMMA SameAfterWrite ==
    ASSUME GatewayInv, NEW t \in Turns \ crossed, NEW p \in Procs, NEW q \in Request, pi' = Write(p, q),
           q.op \notin {"prompt", "steer"}
    PROVE  \A o \in Procs : Same(t, o)
<1>1. /\ \A o \in Procs \ {p} : pi'[o] = pi[o]
      /\ pi'[p].st = pi[p].st /\ pi'[p].run = pi[p].run /\ pi'[p].stdin = Append(pi[p].stdin, q)
      /\ pi[p].stdin \in Seq(Request)
    BY WriteOf DEF GatewayInv, GatewayTypes, Process
<1>2. \A u \in Turns : PromptsOf(pi'[p].stdin, u) = PromptsOf(pi[p].stdin, u)
    <2>1. q.op = "model" \/ q.of = Unknown
        BY DEF Request
    <2>. QED BY <1>1, <2>1, PromptsAfterAppend, Constants
<1>3. \A o \in Procs \ {p} : Same(t, o)
    BY <1>1, SameUntouched
<1>4. Same(t, p)
    BY <1>1, <1>2 DEF Same, Held, GatewayInv, Alones, Alone
<1>. QED BY <1>3, <1>4

LEMMA SameAfterTaking ==
    ASSUME GatewayInv, NEW t \in Turns \ crossed, NEW p \in Procs, pi[p].stdin # <<>>, pi' = Taken(p),
           Head(pi[p].stdin).of # t \/ Head(pi[p].stdin).op = "model"
    PROVE  \A o \in Procs : Same(t, o)
<1>1. /\ \A o \in Procs \ {p} : pi'[o] = pi[o]
      /\ pi'[p].st = pi[p].st /\ pi'[p].run = pi[p].run /\ pi'[p].stdin = Tail(pi[p].stdin)
      /\ pi[p].stdin \in Seq(Request)
    BY TakenOf DEF GatewayInv
<1>2. \A u \in Turns : PromptsOf(pi'[p].stdin, u) # {} => PromptsOf(pi[p].stdin, u) # {}
    BY <1>1, PromptsAfterTail
<1>3. /\ PromptsOf(pi'[p].stdin, t) = {} <=> PromptsOf(pi[p].stdin, t) = {}
      /\ OneAtMost(PromptsOf(pi[p].stdin, t)) => OneAtMost(PromptsOf(pi'[p].stdin, t))
    BY <1>1, PromptsAfterTail
<1>4. \A o \in Procs \ {p} : Same(t, o)
    BY <1>1, SameUntouched
<1>5. Same(t, p)
    BY <1>1, <1>2, <1>3 DEF Same, Held, GatewayInv, Alones, Alone
<1>. QED BY <1>4, <1>5

\* Where only what processes have to do changes.
LEMMA PlacedKept ==
    ASSUME GatewayInv, GatewayTypes', UNCHANGED <<client, replacing>>,
           \A p \in Procs : pi'[p].st = pi[p].st /\ (pi[p].st # "up" => pi'[p] = pi[p]),
           \A t \in Turns : chat'[t].on \in {chat[t].on, client},
           \A t \in Turns : chat'[t].st \in {"asked", "settled", "switching"} =>
               chat'[t].on = client \/ chat[t].st \in {"asked", "settled", "switching"}
    PROVE  Placed'
<1>1. client \in Procs /\ 0 \notin Procs /\ \A t \in Turns : chat'[t].on \in Procs \cup {0}
    BY Constants DEF GatewayInv, GatewayTypes, Message
<1>2. \A r \in replacing : r.new \in Procs /\ r.old \in Procs
    BY DEF GatewayInv, GatewayTypes
<1>3. \A t \in Turns : chat'[t].on # 0 => pi'[chat'[t].on].st \in {"up", "exited", "stopped"}
    BY <1>1 DEF GatewayInv, Placed
<1>4. \A t \in Turns : chat'[t].st \in {"asked", "settled", "switching"} => chat'[t].on # 0
    BY <1>1 DEF GatewayInv, Placed
<1>5. \A r \in replacing' : pi'[r.new].st = "starting" /\ pi'[r.old].st \in {"up", "exited", "stopped"}
    BY <1>2 DEF GatewayInv, Placed
<1>6. \A p \in Procs : pi'[p].st # "up" => pi'[p].stdin = <<>> /\ pi'[p].run = Idle
    BY DEF GatewayInv, Placed
<1>. QED BY <1>1, <1>3, <1>4, <1>5, <1>6 DEF GatewayInv, Placed

LEMMA AlonesKept ==
    ASSUME GatewayInv, crossed \subseteq crossed', works' = works,
           \A t \in Turns \ crossed' : Going(t) /\ \A p \in Procs : Same(t, p)
    PROVE  Alones'
<1>1. SUFFICES ASSUME NEW t \in Turns \ crossed' PROVE Alone(t)'
    BY DEF Alones
<1>. QED BY <1>1, AloneKept

LEMMA MarkedKept ==
    ASSUME GatewayInv, incident' \in {incident, Unknown},
           \A t \in Turns : chat'[t].aborted => chat[t].aborted \/ incident = t,
           \A t \in Turns : chat'[t].st \in {"unposted", "policy"} => chat[t].st \in {"unposted", "policy"}
    PROVE  Marked'
BY Constants DEF GatewayInv, Marked

LEMMA FinishedOf == ASSUME NEW ts, Finished(ts) PROVE incident' \in {incident, Unknown}
BY DEF Finished

\* Where neither turns nor processes change.
LEMMA NothingAsked ==
    ASSUME GatewayInv, UNCHANGED <<client, currentAgent, pi, chat, replacing, incident, works, crossed>>
    PROVE  GatewayInv'
<1>1. GatewayTypes' /\ Placed' /\ Marked'
    BY DEF GatewayInv, GatewayTypes, Placed, Marked
<1>2. \A t \in Turns \ crossed : Going(t) /\ \A p \in Procs : Same(t, p)
    BY SameUntouched, GoingUntouched
<1>3. Alones'
    BY <1>2, AlonesKept
<1>. QED BY <1>1, <1>3 DEF GatewayInv

LEMMA AttachStep == ASSUME GatewayInv, NEW t \in Turns, Attach(t) PROVE GatewayInv'
BY NothingAsked DEF Attach, selectionVars, historyVars

\* A turn that waits for its policy.
LEMMA PolicyBegins ==
    ASSUME GatewayInv, NEW t \in Turns, chat[t].st = "unposted", NEW CONSTANT d \in Message,
           d.st = "policy", d.on = chat[t].on, d.aborted = chat[t].aborted,
           \A u \in Turns : chat'[u] = IF u = t THEN d ELSE chat[u], chat' \in [Turns -> Message],
           UNCHANGED <<client, currentAgent, pi, replacing, incident, works, crossed>>
    PROVE  GatewayInv'
<1>1. \A u \in Turns \ {t} : chat'[u] = chat[u]
    OBVIOUS
<1>2. GatewayTypes'
    BY DEF GatewayInv, GatewayTypes
<1>3. Placed'
    <2>1. \A u \in Turns : chat'[u].on = chat[u].on
        OBVIOUS
    <2>2. \A u \in Turns : chat'[u].st \in {"asked", "settled", "switching"} =>
              chat[u].st \in {"asked", "settled", "switching"}
        OBVIOUS
    <2>. QED BY <1>2, <2>1, <2>2, PlacedKept
<1>4. Marked'
    BY MarkedKept
<1>5. ASSUME NEW u \in Turns \ crossed PROVE Going(u) /\ \A p \in Procs : Same(u, p)
    <2>1. \A p \in Procs : Same(u, p)
        BY SameUntouched
    <2>2. ASSUME u # t PROVE Going(u)
        BY <1>1, <2>2, GoingUntouched
    <2>3. ASSUME u = t PROVE Going(u)
        <3>1. Alone(t)
            BY <2>3 DEF GatewayInv, Alones
        <3>2. works[t] # 1
            BY <3>1 DEF Alone
        <3>. QED BY <2>3, <3>2 DEF Going
    <2>. QED BY <2>1, <2>2, <2>3
<1>6. Alones'
    BY <1>5, AlonesKept
<1>. QED BY <1>2, <1>3, <1>4, <1>6 DEF GatewayInv

LEMMA PostCompletionStep ==
    ASSUME GatewayInv, NEW t \in Turns, NEW kind \in AllKinds, PostCompletion(t, kind)
    PROVE  GatewayInv'
<1>1. /\ chat \in [Turns -> Message] /\ chat[t].st = "unposted" /\ chat[t] \in Message
      /\ UNCHANGED <<client, currentAgent, pi, replacing, incident, works, crossed>>
      /\ chat' = [chat EXCEPT ![t].kind = kind, ![t].st = "policy"]
    BY DEF PostCompletion, GatewayInv, GatewayTypes, selectionVars, historyVars
<1>2. PICK d \in Message : d = [chat[t] EXCEPT !.kind = kind, !.st = "policy"]
    <2>1. "policy" \in Stages
        BY DEF Stages
    <2>. QED BY <1>1, <2>1 DEF Message
<1>3. d.st = "policy" /\ d.on = chat[t].on /\ d.aborted = chat[t].aborted
    BY <1>1, <1>2 DEF Message
<1>4. /\ chat' \in [Turns -> Message]
      /\ \A u \in Turns : chat'[u] = IF u = t THEN d ELSE chat[u]
    BY <1>1, <1>2
<1>. QED BY <1>1, <1>3, <1>4, PolicyBegins

\* A request of the steward is written, or nothing is.
LEMMA StewardStep ==
    ASSUME GatewayInv, NEW q \in Request, q.op \notin {"prompt", "steer"},
           (pi' = Write(client, q) /\ Writable(client)) \/ pi' = pi,
           chat' \in [Turns -> Message],
           \A t \in Turns : /\ chat'[t].st = chat[t].st /\ chat'[t].on = chat[t].on /\ chat'[t].seen = chat[t].seen
                            /\ chat'[t].aborted => chat[t].aborted \/ incident = t,
           UNCHANGED <<client, currentAgent, replacing, incident, works, crossed>>
    PROVE  GatewayInv'
<1>1. client \in Procs
    BY DEF GatewayInv, GatewayTypes
<1>2. /\ pi' \in [Procs -> Process]
      /\ \A p \in Procs : pi'[p].st = pi[p].st /\ (pi[p].st # "up" => pi'[p] = pi[p])
    <2>1. CASE pi' = Write(client, q) /\ Writable(client)
        BY <1>1, <2>1, WriteOf DEF GatewayInv, Writable
    <2>2. CASE pi' = pi
        BY <2>2 DEF GatewayInv, GatewayTypes
    <2>. QED BY <2>1, <2>2
<1>3. GatewayTypes'
    BY <1>2 DEF GatewayInv, GatewayTypes
<1>4. Placed'
    BY <1>2, <1>3, PlacedKept
<1>5. Marked'
    BY MarkedKept
<1>6. ASSUME NEW t \in Turns \ crossed PROVE Going(t) /\ \A p \in Procs : Same(t, p)
    <2>1. \A p \in Procs : Same(t, p)
        BY <1>1, SameAfterWrite, SameUntouched
    <2>2. Alone(t) /\ (chat[t].on # 0 => chat[t].on \in Procs) /\ (chat[t].st = "asked" => chat[t].on # 0)
        BY DEF GatewayInv, Alones, GatewayTypes, Placed, Message
    <2>3. Going(t)
        BY <1>2, <2>2 DEF Going, Alone
    <2>. QED BY <2>1, <2>3
<1>7. Alones'
    BY <1>6, AlonesKept
<1>. QED BY <1>3, <1>4, <1>5, <1>7 DEF GatewayInv

LEMMA PostAbortStep == ASSUME GatewayInv, PostAbort PROVE GatewayInv'
<1> DEFINE q == [op |-> "abort", of |-> Unknown]
<1>1. q \in Request /\ q.op \notin {"prompt", "steer"}
    BY DEF Request
<1>2. chat \in [Turns -> Message] /\ incident \in Turns \cup {Unknown}
    BY DEF GatewayInv, GatewayTypes
<1>3. /\ chat' \in [Turns -> Message]
      /\ \A t \in Turns : /\ chat'[t].st = chat[t].st /\ chat'[t].on = chat[t].on /\ chat'[t].seen = chat[t].seen
                          /\ chat'[t].aborted => chat[t].aborted \/ incident = t
    <2>1. CASE incident = Unknown
        BY <1>2, <2>1 DEF PostAbort
    <2>2. CASE incident # Unknown
        <3>1. incident \in Turns /\ chat' = [chat EXCEPT ![incident].aborted = TRUE]
            BY <1>2, <2>2 DEF PostAbort
        <3>2. chat[incident] \in Message
            BY <1>2, <3>1
        <3>3. [chat[incident] EXCEPT !.aborted = TRUE] \in Message
            BY <3>2 DEF Message
        <3>. QED BY <1>2, <3>1, <3>2, <3>3 DEF Message
    <2>. QED BY <2>1, <2>2
<1>4. /\ (pi' = Write(client, q) /\ Writable(client)) \/ pi' = pi
      /\ UNCHANGED <<client, currentAgent, replacing, incident, works, crossed>>
    BY DEF PostAbort, selectionVars, historyVars
<1> HIDE DEF q
<1>. QED BY <1>1, <1>3, <1>4, StewardStep

LEMMA PostModelStep == ASSUME GatewayInv, NEW auto \in BOOLEAN, PostModel(auto) PROVE GatewayInv'
<1> DEFINE q == [op |-> "select", of |-> Unknown, auto |-> auto]
<1>1. q \in Request /\ q.op \notin {"prompt", "steer"}
    BY DEF Request
<1>2. /\ pi' = Write(client, q) /\ Writable(client) /\ chat' = chat /\ chat \in [Turns -> Message]
      /\ UNCHANGED <<client, currentAgent, replacing, incident, works, crossed>>
    BY DEF PostModel, selectionVars, historyVars, GatewayInv, GatewayTypes
<1> HIDE DEF q
<1>. QED BY <1>1, <1>2, StewardStep

\* The turn t has come to an end, or is passed to its next model.
Ended(t) ==
    /\ chat[t].st \in {"asked", "switching", "settled"}
    /\ \/ chat' = [chat EXCEPT ![t] = Over(@, "failed")]
       \/ chat' = [chat EXCEPT ![t] = Rejected(@)]
       \/ chat[t].st # "asked" /\ chat' = [chat EXCEPT ![t] = Over(@, "done")]

LEMMA EndedOf ==
    ASSUME chat \in [Turns -> Message], NEW t \in Turns, Ended(t)
    PROVE  /\ chat' \in [Turns -> Message] /\ \A u \in Turns \ {t} : chat'[u] = chat[u]
           /\ chat'[t].on = chat[t].on /\ chat'[t].aborted = chat[t].aborted /\ chat'[t].asks = chat[t].asks
           /\ chat'[t].st \in {"settled", "failed", "done"}
           /\ chat'[t].st = "settled" => chat[t].st = "switching"
           /\ chat[t].st = "asked" => chat'[t].st = "failed"
<1>1. chat[t] \in Message
    OBVIOUS
<1>2. /\ Over(chat[t], "failed") \in Message /\ Over(chat[t], "failed").st = "failed"
      /\ Over(chat[t], "failed").on = chat[t].on /\ Over(chat[t], "failed").aborted = chat[t].aborted
      /\ Over(chat[t], "failed").asks = chat[t].asks
    BY <1>1, OverOf DEF Stages
<1>3. /\ Over(chat[t], "done") \in Message /\ Over(chat[t], "done").st = "done"
      /\ Over(chat[t], "done").on = chat[t].on /\ Over(chat[t], "done").aborted = chat[t].aborted
      /\ Over(chat[t], "done").asks = chat[t].asks
    BY <1>1, OverOf DEF Stages
<1>4. CASE chat' = [chat EXCEPT ![t] = Over(@, "failed")]
    BY <1>1, <1>2, <1>4
<1>5. CASE chat' = [chat EXCEPT ![t] = Rejected(@)]
    BY <1>1, <1>5, RejectedOf DEF Ended
<1>6. CASE chat[t].st # "asked" /\ chat' = [chat EXCEPT ![t] = Over(@, "done")]
    BY <1>1, <1>3, <1>6
<1>. QED BY <1>4, <1>5, <1>6 DEF Ended

\* One turn ends at most; what processes have to do for turns that are alone remains.
LEMMA EndedStep ==
    ASSUME GatewayInv, chat' = chat \/ \E t \in Turns : Ended(t),
           incident' \in {incident, Unknown}, pi' \in [Procs -> Process],
           \A p \in Procs : pi'[p].st = pi[p].st /\ (pi[p].st # "up" => pi'[p] = pi[p]),
           \A u \in Turns \ crossed : \A p \in Procs : Same(u, p),
           UNCHANGED <<client, currentAgent, replacing, works, crossed>>
    PROVE  GatewayInv'
<1> DEFINE Later(u) ==
        /\ chat'[u].on = chat[u].on /\ chat'[u].aborted = chat[u].aborted
        /\ \/ chat'[u] = chat[u]
           \/ /\ chat[u].st \in {"asked", "switching", "settled"}
              /\ chat'[u].st \in {"settled", "failed", "done"}
              /\ chat'[u].st = "settled" => chat[u].st = "switching"
              /\ chat[u].st = "asked" => chat'[u].st = "failed"
<1>1. /\ chat \in [Turns -> Message] /\ chat' \in [Turns -> Message]
      /\ \A u \in Turns : Later(u)
    <2>1. chat \in [Turns -> Message]
        BY DEF GatewayInv, GatewayTypes
    <2>2. CASE chat' = chat
        BY <2>1, <2>2
    <2>3. ASSUME NEW t \in Turns, Ended(t) PROVE chat' \in [Turns -> Message] /\ \A u \in Turns : Later(u)
        <3>1. chat[t].st \in {"asked", "switching", "settled"}
            BY <2>3 DEF Ended
        <3>. QED BY <2>1, <2>3, <3>1, EndedOf
    <2>. QED BY <2>1, <2>2, <2>3
<1>2. GatewayTypes'
    BY <1>1 DEF GatewayInv, GatewayTypes
<1>3. Placed'
    <2>1. /\ \A u \in Turns : chat'[u].on = chat[u].on
          /\ \A u \in Turns : chat'[u].st \in {"asked", "settled", "switching"} =>
                chat[u].st \in {"asked", "settled", "switching"}
        BY <1>1
    <2>. QED BY <1>2, <2>1, PlacedKept
<1>4. Marked'
    <2>1. /\ \A u \in Turns : chat'[u].aborted => chat[u].aborted
          /\ \A u \in Turns : chat'[u].st \in {"unposted", "policy"} => chat[u].st \in {"unposted", "policy"}
        BY <1>1
    <2>. QED BY <2>1, MarkedKept
<1>5. ASSUME NEW u \in Turns \ crossed PROVE Going(u)
    <2>1. Alone(u) /\ chat[u].on \in Procs \cup {0}
        BY DEF GatewayInv, Alones, GatewayTypes, Message
    <2>2. CASE chat'[u] = chat[u]
        BY <2>1, <2>2, GoingUntouched
    <2>3. CASE chat'[u] # chat[u]
        BY <1>1, <2>1, <2>3 DEF Going, Alone
    <2>. QED BY <2>2, <2>3
<1>6. Alones'
    BY <1>5, AlonesKept
<1>. QED BY <1>2, <1>3, <1>4, <1>6 DEF GatewayInv

LEMMA WholeTimesOutStep == ASSUME GatewayInv, NEW t \in Turns, WholeTimesOut(t) PROVE GatewayInv'
<1>1. /\ Ended(t) /\ incident' \in {incident, Unknown}
      /\ UNCHANGED <<client, currentAgent, pi, replacing, works, crossed>>
    BY FinishedOf DEF WholeTimesOut, historyVars, Ended
<1>2. pi' \in [Procs -> Process]
    BY <1>1 DEF GatewayInv, GatewayTypes
<1>. QED BY <1>1, <1>2, EndedStep, SameUntouched

LEMMA ResponseTimesOutStep == ASSUME GatewayInv, NEW t \in Turns, ResponseTimesOut(t) PROVE GatewayInv'
<1>1. chat[t].st \in {"asked", "switching"}
    BY DEF ResponseTimesOut, Unanswered
<1>2. /\ Ended(t) /\ incident' \in {incident, Unknown}
      /\ UNCHANGED <<client, currentAgent, pi, replacing, works, crossed>>
    BY <1>1, FinishedOf DEF ResponseTimesOut, historyVars, Ended
<1>3. pi' \in [Procs -> Process]
    BY <1>2 DEF GatewayInv, GatewayTypes
<1>. QED BY <1>2, <1>3, EndedStep, SameUntouched

\* t is asked: whoever else the process has to do with shares it from now on.
LEMMA AskAlones ==
    ASSUME GatewayInv, NEW t \in Turns, NEW p \in Procs, NEW CONSTANT s \in Seq(Request), NEW CONSTANT q \in Request,
           q.of = t, q.op \in {"prompt", "steer"}, pi[p].st = "up",
           chat[t].st \in {"unposted", "policy", "switching"},
           chat'[t].st = "asked", chat'[t].on = p, \A u \in Turns \ {t} : chat'[u] = chat[u],
           \A o \in Procs \ {p} : pi'[o] = pi[o],
           pi'[p].st = "up", pi'[p].run = pi[p].run, pi'[p].stdin = Append(s, q),
           \A u \in Turns : /\ PromptsOf(s, u) = {} <=> PromptsOf(pi[p].stdin, u) = {}
                            /\ OneAtMost(PromptsOf(pi[p].stdin, u)) => OneAtMost(PromptsOf(s, u)),
           Meets(t, p), works' = works
    PROVE  Alones'
<1>1. SUFFICES ASSUME NEW u \in Turns \ crossed' PROVE Alone(u)'
    BY DEF Alones
<1>2. /\ Others(t, p) = {v \in Turns \ {t} : Held(v, p)}
      /\ u \in Turns \ crossed
      /\ IF u = t THEN Others(t, p) = {} ELSE u \notin Others(t, p)
    BY <1>1, OthersAre DEF GatewayInv, Meets
<1>3. Alone(u) /\ works[u] \in Nat
    BY <1>2 DEF GatewayInv, Alones, GatewayTypes
<1>4. \A v \in Turns \ {t} : /\ PromptsOf(pi'[p].stdin, v) = {} <=> PromptsOf(pi[p].stdin, v) = {}
                             /\ OneAtMost(PromptsOf(pi[p].stdin, v)) => OneAtMost(PromptsOf(pi'[p].stdin, v))
    BY PromptsAfterAppend
<1>5. \A v \in Turns \ {t} : Held(v, p)' <=> Held(v, p)
    BY <1>4 DEF Held
<1>6. CASE u # t
    <2>1. ~Held(u, p)
        BY <1>2, <1>6
    <2>2. \A o \in Procs \ {p} : Same(u, o)
        BY <1>2, SameUntouched
    <2>3. Same(u, p)
        BY <1>4, <1>6, <2>1 DEF Same, Held
    <2>4. \A o \in Procs : pi'[o].st = pi[o].st
        OBVIOUS
    <2>5. chat'[u] = chat[u] /\ chat[u].on \in Procs \cup {0}
        BY <1>2, <1>6 DEF GatewayInv, GatewayTypes, Message
    <2>6. Going(u)
        BY <1>2, <2>4, <2>5, GoingUntouched
    <2>. QED BY <1>2, <2>2, <2>3, <2>6, AloneKept
<1>7. CASE u = t
    <2>1. \A o \in Procs : ~Held(t, o)
        BY <1>3, <1>7 DEF Alone
    <2>2. works[t] = 0
        BY <1>3, <1>7 DEF Alone
    <2>3. /\ PromptsOf(pi'[p].stdin, t) # {} /\ OneAtMost(PromptsOf(pi'[p].stdin, t))
          /\ \A o \in Procs \ {p} : PromptsOf(pi'[o].stdin, t) = {}
          /\ \A o \in Procs : pi'[o].run.of # t
        <3>1. \A o \in Procs : PromptsOf(pi[o].stdin, t) = {} /\ pi[o].run.of # t
            BY <2>1 DEF Held
        <3>2. PromptsOf(s, t) = {}
            BY <3>1
        <3>3. PromptsOf(Append(s, q), t) # {} /\ OneAtMost(PromptsOf(Append(s, q), t))
            BY <3>2, PromptsAfterAppend
        <3>. QED BY <3>1, <3>3
    <2>4. \A o \in Procs : Held(t, o)' => o = p
        BY <2>3 DEF Held
    <2>5. \A v \in Turns : Held(v, p)' => v = t
        BY <1>2, <1>5, <1>7
    <2>6. \A o \in Procs : OneAtMost(PromptsOf(pi'[o].stdin, t))
        BY <2>3, ZenonT(60) DEF OneAtMost
    <2>7. Held(t, p)'
        BY <2>3 DEF Held
    <2>. QED BY <1>7, <2>2, <2>3, <2>4, <2>5, <2>6, <2>7 DEF Alone
<1>. QED BY <1>6, <1>7

LEMMA SelectionStep == ASSUME GatewayInv, NEW p \in Procs, TakesSelection(p) PROVE GatewayInv'
<1>1. /\ pi[p].stdin # <<>> /\ pi[p].st = "up" /\ Head(pi[p].stdin).op = "select" /\ pi' = Taken(p)
      /\ UNCHANGED <<client, currentAgent, chat, replacing, incident, works, crossed>>
    BY DEF TakesSelection, Takes, historyVars
<1>2. /\ pi' \in [Procs -> Process]
      /\ \A o \in Procs : pi'[o].st = pi[o].st /\ (pi[o].st # "up" => pi'[o] = pi[o])
      /\ Head(pi[p].stdin).of = Unknown
    BY <1>1, TakenOf DEF GatewayInv, Request
<1>3. \A t \in Turns \ crossed : \A o \in Procs : Same(t, o)
    BY <1>1, <1>2, SameAfterTaking, Constants
<1>. QED BY <1>1, <1>2, <1>3, EndedStep

\* A turn is asked, or its process cannot be written to and it fails.
LEMMA AskStep ==
    ASSUME GatewayInv, NEW t \in Turns, NEW CONSTANT c \in Message,
           chat[t].st \in {"unposted", "policy"}, c.on = client, c.aborted = chat[t].aborted,
           Ask(t, client, c, pi), works' = works,
           UNCHANGED <<client, currentAgent, replacing>>,
           (Writable(client) /\ incident' = t) \/ incident' \in {incident, Unknown}
    PROVE  GatewayInv'
<1> DEFINE q == [op |-> IF c.kind = "steer" THEN "steer" ELSE "prompt", of |-> t, ask |-> c.asks + 1]
<1>1. /\ chat \in [Turns -> Message] /\ pi \in [Procs -> Process] /\ client \in Procs
      /\ pi[client] \in Process /\ pi[client].stdin \in Seq(Request) /\ chat[t] \in Message
    BY DEF GatewayInv, GatewayTypes, Process
<1>2. q \in Request /\ q.of = t /\ q.op \in {"prompt", "steer"}
    <2>1. c.asks + 1 \in Nat
        BY DEF Message
    <2>. QED BY <2>1 DEF Request
<1> HIDE DEF q
<1>3. CASE Writable(client)
    <2>1. /\ chat' = [chat EXCEPT ![t] = Asked(c)] /\ Meets(t, client)
          /\ pi' = [pi EXCEPT ![client].stdin = Append(@, q)]
        BY <1>3 DEF Ask, q
    <2>2. /\ chat' \in [Turns -> Message] /\ \A u \in Turns \ {t} : chat'[u] = chat[u]
          /\ chat'[t].st = "asked" /\ chat'[t].on = client /\ chat'[t].aborted = chat[t].aborted
        BY <1>1, <2>1, AskedOf
    <2>3. pi' = Write(client, q)
        BY <2>1 DEF Write
    <2>4. /\ pi' \in [Procs -> Process] /\ \A o \in Procs \ {client} : pi'[o] = pi[o]
          /\ pi'[client].st = pi[client].st /\ pi'[client].run = pi[client].run
          /\ pi'[client].stdin = Append(pi[client].stdin, q)
        BY <1>1, <1>2, <2>3, WriteOf DEF GatewayInv
    <2>5. pi[client].st = "up"
        BY <1>3 DEF Writable
    <2>6. GatewayTypes'
        <3>1. crossed' \subseteq Turns
            BY <2>1 DEF Meets, Others, GatewayInv, GatewayTypes
        <3>2. incident' \in Turns \cup {Unknown}
            BY DEF GatewayInv, GatewayTypes
        <3>. QED BY <2>2, <2>4, <3>1, <3>2 DEF GatewayInv, GatewayTypes
    <2>7. Placed'
        <3>1. /\ \A o \in Procs : pi'[o].st = pi[o].st /\ (pi[o].st # "up" => pi'[o] = pi[o])
              /\ \A u \in Turns : chat'[u].on \in {chat[u].on, client}
              /\ \A u \in Turns : chat'[u].st \in {"asked", "settled", "switching"} =>
                    chat'[u].on = client \/ chat[u].st \in {"asked", "settled", "switching"}
            BY <2>2, <2>4, <2>5
        <3>. QED BY <2>6, <3>1, PlacedKept
    <2>8. Marked'
        BY <2>2, Constants DEF GatewayInv, Marked
    <2>9. Alones'
        <3>1. PICK s \in Seq(Request) : s = pi[client].stdin
            BY <1>1
        <3>. QED BY <1>1, <1>2, <2>1, <2>2, <2>4, <2>5, <3>1, AskAlones
    <2>. QED BY <2>6, <2>7, <2>8, <2>9 DEF GatewayInv
<1>4. CASE ~Writable(client)
    <2>1. chat' = [chat EXCEPT ![t] = Over(c, "failed")] /\ pi' = pi /\ UNCHANGED crossed
          /\ incident' \in {incident, Unknown}
        BY <1>4 DEF Ask
    <2>2. /\ chat' \in [Turns -> Message] /\ \A u \in Turns \ {t} : chat'[u] = chat[u]
          /\ chat'[t].st = "failed" /\ chat'[t].on = client /\ chat'[t].aborted = chat[t].aborted
        BY <1>1, <2>1, OverOf DEF Stages
    <2>3. GatewayTypes'
        BY <2>1, <2>2 DEF GatewayInv, GatewayTypes
    <2>4. Placed'
        <3>1. /\ \A u \in Turns : chat'[u].on \in {chat[u].on, client}
              /\ \A u \in Turns : chat'[u].st \in {"asked", "settled", "switching"} =>
                    chat'[u].on = client \/ chat[u].st \in {"asked", "settled", "switching"}
            BY <2>2
        <3>. QED BY <2>1, <2>3, <3>1, PlacedKept
    <2>5. Marked'
        <3>1. /\ \A u \in Turns : chat'[u].aborted => chat[u].aborted
              /\ \A u \in Turns : chat'[u].st \in {"unposted", "policy"} => chat[u].st \in {"unposted", "policy"}
            BY <2>2
        <3>. QED BY <2>1, <3>1, MarkedKept
    <2>6. ASSUME NEW u \in Turns \ crossed PROVE Going(u) /\ \A o \in Procs : Same(u, o)
        <3>1. \A o \in Procs : Same(u, o)
            BY <2>1, SameUntouched
        <3>2. ASSUME u # t PROVE Going(u)
            BY <2>1, <2>2, <3>2, GoingUntouched
        <3>3. ASSUME u = t PROVE Going(u)
            <4>1. Alone(t)
                BY <3>3 DEF GatewayInv, Alones
            <4>. QED BY <2>2, <3>3, <4>1 DEF Going, Alone
        <3>. QED BY <3>1, <3>2, <3>3
    <2>7. Alones'
        BY <2>1, <2>6, AlonesKept
    <2>. QED BY <2>3, <2>4, <2>5, <2>7 DEF GatewayInv
<1>. QED BY <1>3, <1>4

LEMMA PostChatStep ==
    ASSUME GatewayInv, NEW t \in Turns, NEW kind \in AllKinds, PostChat(t, kind)
    PROVE  GatewayInv'
<1>1. /\ chat \in [Turns -> Message] /\ chat[t].st = "unposted" /\ chat[t] \in Message
      /\ UNCHANGED <<client, currentAgent, replacing, incident, works>>
    BY DEF PostChat, GatewayInv, GatewayTypes, selectionVars
<1>2. client \in Procs
    BY DEF GatewayInv, GatewayTypes
<1>3. CASE kind = "steer"
    <2>1. PICK c \in Message : c = [[chat[t] EXCEPT !.kind = kind] EXCEPT !.on = client]
        BY <1>1, <1>2 DEF Message
    <2>2. c.on = client /\ c.aborted = chat[t].aborted
        BY <1>1, <2>1 DEF Message
    <2>3. Ask(t, client, c, pi)
        BY <1>3, <2>1 DEF PostChat
    <2>. QED BY <1>1, <2>2, <2>3, AskStep
<1>4. CASE kind # "steer"
    <2>1. PICK d \in Message : d = [[chat[t] EXCEPT !.kind = kind] EXCEPT !.st = "policy"]
        <3>1. "policy" \in Stages
            BY DEF Stages
        <3>. QED BY <1>1, <3>1 DEF Message
    <2>2. d.st = "policy" /\ d.on = chat[t].on /\ d.aborted = chat[t].aborted
        BY <1>1, <2>1 DEF Message
    <2>3. chat' = [chat EXCEPT ![t] = d] /\ UNCHANGED <<pi, crossed>>
        BY <1>4, <2>1 DEF PostChat
    <2>. QED BY <1>1, <2>2, <2>3, PolicyBegins
<1>. QED BY <1>3, <1>4

LEMMA PolicyReadStep == ASSUME GatewayInv, NEW t \in Turns, PolicyRead(t) PROVE GatewayInv'
<1>1. /\ chat \in [Turns -> Message] /\ chat[t].st = "policy" /\ chat[t] \in Message
      /\ UNCHANGED <<client, currentAgent, replacing, works>> /\ client \in Procs
    BY DEF PolicyRead, GatewayInv, GatewayTypes
<1>2. PICK config \in Policies : Ask(t, client, [chat[t] EXCEPT !.config = config, !.on = client], pi)
    BY DEF PolicyRead
<1>3. PICK c \in Message : c = [chat[t] EXCEPT !.config = config, !.on = client]
    <2>1. config \in BOOLEAN
        BY <1>2 DEF Policies
    <2>. QED BY <1>1, <2>1 DEF Message
<1>4. c.on = client /\ c.aborted = chat[t].aborted
    BY <1>1, <1>3 DEF Message
<1>5. (Writable(client) /\ incident' = t) \/ incident' \in {incident, Unknown}
    BY DEF PolicyRead
<1>. QED BY <1>1, <1>2, <1>3, <1>4, <1>5, AskStep

\* A request for a model is not a prompt, and a run that showed nothing has done no work.
LEMMA ContinueStep == ASSUME GatewayInv, NEW t \in Turns, Continue(t) PROVE GatewayInv'
<1>1. /\ chat \in [Turns -> Message] /\ chat[t].st = "settled" /\ chat[t] \in Message
      /\ UNCHANGED <<client, currentAgent, replacing, works, crossed>>
      /\ chat[t].on \in Procs
    BY DEF Continue, historyVars, GatewayInv, GatewayTypes, Placed, Message
<1>2. CASE ~Attempts(t)
    <2>1. /\ chat' = [chat EXCEPT ![t] = Over(@, "done")] /\ pi' = pi /\ incident' \in {incident, Unknown}
        BY <1>2, FinishedOf DEF Continue
    <2>2. Ended(t) /\ pi' \in [Procs -> Process]
        BY <1>1, <2>1 DEF Ended, GatewayInv, GatewayTypes
    <2>. QED BY <1>1, <2>1, <2>2, EndedStep, SameUntouched
<1>3. CASE Attempts(t)
    <2>1. PICK i \in Left(t) :
              IF Writable(chat[t].on)
                THEN /\ chat' = [chat EXCEPT ![t].st = "switching", ![t].to = Candidates[i]]
                     /\ pi' = Write(chat[t].on, [op |-> "model", of |-> t, to |-> Candidates[i]])
                ELSE chat' = [chat EXCEPT ![t].tried = @ \cup {Candidates[i]}] /\ UNCHANGED pi
        BY <1>3 DEF Continue
    <2>2. /\ incident' = incident /\ ~chat[t].seen.worked /\ Candidates[i] \in Models
        BY <1>3, <2>1 DEF Continue, Attempts, Outcome, Left, Models
    <2>3. PICK p \in Procs : p = chat[t].on
        BY <1>1
    <2>4. PICK q \in Request : q = [op |-> "model", of |-> t, to |-> Candidates[i]]
        BY <2>2 DEF Request
    <2>5. /\ chat' \in [Turns -> Message] /\ \A u \in Turns \ {t} : chat'[u] = chat[u]
          /\ chat'[t].on = chat[t].on /\ chat'[t].aborted = chat[t].aborted
          /\ chat'[t].st \in {"switching", "settled"} /\ chat'[t].seen = chat[t].seen
        <3>1. CASE Writable(p)
            <4>1. chat' = [chat EXCEPT ![t].st = "switching", ![t].to = Candidates[i]]
                BY <2>1, <2>3, <3>1
            <4>2. [chat[t] EXCEPT !.st = "switching", !.to = Candidates[i]] \in Message
                <5>1. "switching" \in Stages
                    BY DEF Stages
                <5>. QED BY <1>1, <2>2, <5>1 DEF Message
            <4>. QED BY <1>1, <4>1, <4>2 DEF Message
        <3>2. CASE ~Writable(p)
            <4>1. chat' = [chat EXCEPT ![t].tried = @ \cup {Candidates[i]}]
                BY <2>1, <2>3, <3>2
            <4>2. [chat[t] EXCEPT !.tried = @ \cup {Candidates[i]}] \in Message
                BY <1>1, <2>2 DEF Message
            <4>. QED BY <1>1, <4>1, <4>2 DEF Message
        <3>. QED BY <3>1, <3>2
    <2>6. /\ pi' \in [Procs -> Process]
          /\ \A o \in Procs : pi'[o].st = pi[o].st /\ (pi[o].st # "up" => pi'[o] = pi[o])
          /\ \A u \in Turns \ crossed : \A o \in Procs : Same(u, o)
        <3>1. CASE Writable(p)
            <4>1. pi' = Write(p, q) /\ pi[p].st = "up" /\ q.op = "model"
                BY <2>1, <2>3, <2>4, <3>1 DEF Writable
            <4>. QED BY <4>1, WriteOf, SameAfterWrite DEF GatewayInv
        <3>2. CASE ~Writable(p)
            <4>1. pi' = pi
                BY <2>1, <2>3, <3>2
            <4>. QED BY <4>1, SameUntouched DEF GatewayInv, GatewayTypes
        <3>. QED BY <3>1, <3>2
    <2>7. GatewayTypes'
        BY <1>1, <2>2, <2>5, <2>6 DEF GatewayInv, GatewayTypes
    <2>8. Placed'
        <3>1. /\ \A u \in Turns : chat'[u].on = chat[u].on
              /\ \A u \in Turns : chat'[u].st \in {"asked", "settled", "switching"} =>
                    chat[u].st \in {"asked", "settled", "switching"}
            BY <1>1, <2>5
        <3>. QED BY <1>1, <2>6, <2>7, <3>1, PlacedKept
    <2>9. Marked'
        <3>1. /\ \A u \in Turns : chat'[u].aborted => chat[u].aborted
              /\ \A u \in Turns : chat'[u].st \in {"unposted", "policy"} => chat[u].st \in {"unposted", "policy"}
            BY <2>5
        <3>. QED BY <2>2, <3>1, MarkedKept
    <2>10. ASSUME NEW u \in Turns \ crossed PROVE Going(u)
        <3>1. Alone(u) /\ chat[u].on \in Procs \cup {0}
            BY DEF GatewayInv, Alones, GatewayTypes, Message
        <3>2. CASE u # t
            BY <2>5, <2>6, <3>1, <3>2, GoingUntouched
        <3>3. CASE u = t
            <4>1. works[u] # 1
                BY <1>1, <2>2, <3>1, <3>3 DEF Alone
            <4>. QED BY <1>1, <2>5, <3>3, <4>1 DEF Going
        <3>. QED BY <3>2, <3>3
    <2>11. Alones'
        BY <1>1, <2>6, <2>10, AlonesKept
    <2>. QED BY <2>7, <2>8, <2>9, <2>11 DEF GatewayInv
<1>. QED BY <1>2, <1>3

-----------------------------------------------------------------------------
(* The agent process.                                                       *)

\* A prompt or a steering message begins a run.
LEMMA RunBegins ==
    ASSUME GatewayInv, NEW p \in Procs, pi[p].st = "up", pi[p].stdin # <<>>, pi[p].run = Idle,
           Head(pi[p].stdin).op \in {"prompt", "steer"},
           pi' = [Taken(p) EXCEPT ![p].run = [of |-> Head(pi[p].stdin).of, worked |-> FALSE]],
           UNCHANGED <<client, currentAgent, chat, replacing, incident, works, crossed>>
    PROVE  GatewayInv'
<1>1. /\ Taken(p) \in [Procs -> Process] /\ \A o \in Procs \ {p} : Taken(p)[o] = pi[o]
      /\ Taken(p)[p].st = "up" /\ Taken(p)[p].stdin = Tail(pi[p].stdin)
      /\ pi[p].stdin \in Seq(Request) /\ Head(pi[p].stdin) \in Request
    BY TakenOf DEF GatewayInv
<1>2. PICK v \in Turns : v = Head(pi[p].stdin).of
    BY <1>1 DEF Request
<1>3. [of |-> v, worked |-> FALSE] \in Run
    BY DEF Run
<1>4. /\ pi' \in [Procs -> Process] /\ \A o \in Procs \ {p} : pi'[o] = pi[o]
      /\ pi'[p].st = "up" /\ pi'[p].stdin = Tail(pi[p].stdin)
      /\ pi'[p].run.of = v
    BY <1>1, <1>2, <1>3 DEF Process
<1>5. GatewayTypes' /\ Marked'
    BY <1>4 DEF GatewayInv, GatewayTypes, Marked
<1>6. Placed'
    BY <1>4, <1>5, PlacedKept
<1>7. \A u \in Turns : pi[p].run.of # u
    BY Constants
<1>8. /\ \A u \in Turns : PromptsOf(pi'[p].stdin, u) # {} => PromptsOf(pi[p].stdin, u) # {}
      /\ PromptsOf(pi[p].stdin, v) # {}
    <2>1. \A u \in Turns : PromptsOf(pi'[p].stdin, u) # {} => PromptsOf(pi[p].stdin, u) # {}
        BY <1>1, <1>4, PromptsAfterTail
    <2>2. Head(pi[p].stdin).op # "model"
        OBVIOUS
    <2>3. PromptsOf(pi[p].stdin, v) # {}
        BY <1>1, <1>2, <2>2, PromptsAfterTail
    <2>. QED BY <2>1, <2>3
<1>9. Held(v, p) /\ \A u \in Turns : Held(u, p)' => Held(u, p)
    BY <1>4, <1>8 DEF Held
<1>10. ASSUME NEW u \in Turns \ crossed PROVE Alone(u)'
    <2>1. Alone(u) /\ chat[u].on \in Procs \cup {0} /\ (chat[u].st = "asked" => chat[u].on # 0)
        BY DEF GatewayInv, Alones, GatewayTypes, Placed, Message
    <2>2. CASE u # v
        <3>1. ~Held(u, p)
            BY <1>9, <2>1, <2>2 DEF Alone
        <3>2. Same(u, p)
            <4>1. PromptsOf(pi[p].stdin, u) = {}
                BY <3>1 DEF Held
            <4>2. PromptsOf(pi'[p].stdin, u) = {}
                BY <1>1, <1>4, <4>1, PromptsAfterTail
            <4>. QED BY <1>4, <1>7, <2>2, <3>1, <4>1, <4>2 DEF Same, OneAtMost
        <3>3. Going(u)
            BY <1>4, <2>1, GoingUntouched
        <3>. QED BY <1>4, <3>2, <3>3, SameUntouched, AloneKept
    <2>3. CASE u = v
        <3>1. p = chat[u].on /\ chat[u].st \in {"asked", "failed"} /\ \A w \in Turns : Held(w, p) => w = u
            BY <1>9, <2>1, <2>3 DEF Alone
        <3>2. PromptsOf(pi'[p].stdin, u) = {} /\ PromptsOf(pi[p].stdin, u) # {}
            <4>1. OneAtMost(PromptsOf(pi[p].stdin, u))
                BY <2>1 DEF Alone
            <4>. QED BY <1>1, <1>2, <1>4, <2>3, <4>1, PromptsAfterTail
        <3>3. works[u] # 1
            BY <2>1, <3>2 DEF Alone
        <3>4. \A o \in Procs \ {p} : ~Held(u, o)
            BY <2>1, <3>1 DEF Alone
        <3>5. \A o \in Procs \ {p} : ~Held(u, o)'
            BY <1>4, <3>4 DEF Held
        <3>6. \A o \in Procs \ {p} : pi'[o].run.of # u /\ PromptsOf(pi'[o].stdin, u) = {}
            BY <3>5 DEF Held
        <3>7. \A o \in Procs : PromptsOf(pi'[o].stdin, u) = {}
            BY <3>2, <3>6
        <3>8. \A o \in Procs : Held(u, o)' =>
                  /\ o = chat'[u].on /\ pi'[o].st = "up" /\ chat'[u].st \in {"asked", "failed"}
                  /\ \A w \in Turns : Held(w, o)' => w = u
            BY <1>4, <1>9, <3>1, <3>5
        <3>9. chat'[u].st = "asked" /\ pi'[chat'[u].on].st = "up" => Held(u, chat[u].on)'
            <4>1. Held(u, p)'
                BY <1>4, <2>3 DEF Held
            <4>. QED BY <3>1, <4>1
        <3>10. works'[u] <= 1 /\ works'[u] # 1
            BY <2>1, <3>3 DEF Alone
        <3>. QED BY <3>7, <3>8, <3>9, <3>10 DEF Alone, OneAtMost
    <2>. QED BY <2>2, <2>3
<1>11. Alones'
    BY <1>10 DEF Alones
<1>. QED BY <1>5, <1>6, <1>11 DEF GatewayInv

\* A run goes on: who is next in stdin shares the process with it.
LEMMA NextIsCrossed ==
    ASSUME GatewayInv, NEW p \in Procs, pi[p].st = "up", pi[p].stdin # <<>>, pi[p].run # Idle,
           Head(pi[p].stdin).op \in {"prompt", "steer"}
    PROVE  /\ Head(pi[p].stdin).of \in crossed
           /\ Taken(p) \in [Procs -> Process]
           /\ \A o \in Procs : /\ Taken(p)[o].st = pi[o].st
                               /\ pi[o].st # "up" => Taken(p)[o] = pi[o]
<1>1. /\ Taken(p) \in [Procs -> Process]
      /\ \A o \in Procs : Taken(p)[o].st = pi[o].st /\ (pi[o].st # "up" => Taken(p)[o] = pi[o])
      /\ pi[p].stdin \in Seq(Request) /\ Head(pi[p].stdin) \in Request
    BY TakenOf DEF GatewayInv
<1>2. PICK v \in Turns : v = Head(pi[p].stdin).of
    BY <1>1 DEF Request
<1>3. PICK u \in Turns : u = pi[p].run.of
    BY DEF GatewayInv, GatewayTypes, Process, Run
<1>4. PromptsOf(pi[p].stdin, v) # {} /\ Held(v, p) /\ Held(u, p)
    <2>1. Head(pi[p].stdin).op # "model"
        OBVIOUS
    <2>2. PromptsOf(pi[p].stdin, v) # {}
        BY <1>1, <1>2, <2>1, PromptsAfterTail
    <2>. QED BY <1>3, <2>2 DEF Held
<1>5. v \in crossed
    <2>1. SUFFICES ASSUME v \notin crossed PROVE FALSE
        OBVIOUS
    <2>2. Alone(v)
        BY <2>1 DEF GatewayInv, Alones
    <2>3. u = v
        BY <1>4, <2>2 DEF Alone
    <2>. QED BY <1>3, <1>4, <2>2, <2>3 DEF Alone
<1>. QED BY <1>1, <1>2, <1>5

LEMMA TakesSteerStep == ASSUME GatewayInv, NEW p \in Procs, TakesSteer(p) PROVE GatewayInv'
<1>1. /\ pi[p].st = "up" /\ pi[p].stdin # <<>> /\ Head(pi[p].stdin).op = "steer"
      /\ UNCHANGED <<client, currentAgent, chat, replacing, incident, works, crossed>>
    BY DEF TakesSteer, Takes, selectionVars, historyVars
<1>2. CASE pi[p].run = Idle
    BY <1>1, <1>2, RunBegins DEF TakesSteer
<1>3. CASE pi[p].run # Idle
    <2>1. pi' = Taken(p)
        BY <1>3 DEF TakesSteer
    <2>2. \A u \in Turns \ crossed : \A o \in Procs : Same(u, o)
        BY <1>1, <1>3, <2>1, NextIsCrossed, SameAfterTaking
    <2>. QED BY <1>1, <1>3, <2>1, <2>2, NextIsCrossed, EndedStep
<1>. QED BY <1>2, <1>3

LEMMA TakesPromptStep == ASSUME GatewayInv, NEW p \in Procs, TakesPrompt(p) PROVE GatewayInv'
<1>1. /\ pi[p].st = "up" /\ pi[p].stdin # <<>> /\ Head(pi[p].stdin).op = "prompt"
      /\ UNCHANGED <<client, currentAgent, replacing, works, crossed>>
    BY DEF TakesPrompt, Takes, historyVars
<1>2. CASE pi[p].run = Idle
    BY <1>1, <1>2, RunBegins DEF TakesPrompt
<1>3. CASE pi[p].run # Idle
    <2>1. pi' = Taken(p)
        BY <1>3 DEF TakesPrompt
    <2>2. \A u \in Turns \ crossed : \A o \in Procs : Same(u, o)
        BY <1>1, <1>3, <2>1, NextIsCrossed, SameAfterTaking
    <2>3. Head(pi[p].stdin).of \in Turns
        BY <1>1, <1>3, NextIsCrossed DEF GatewayInv, GatewayTypes
    <2>4. chat' = chat \/ \E t \in Turns : Ended(t)
        BY <1>3, <2>3 DEF TakesPrompt, Listens, Ended
    <2>5. incident' \in {incident, Unknown}
        BY <1>3, FinishedOf DEF TakesPrompt
    <2>. QED BY <1>1, <1>3, <2>1, <2>2, <2>4, <2>5, NextIsCrossed, EndedStep
<1>. QED BY <1>2, <1>3

LEMMA TakesModelStep == ASSUME GatewayInv, NEW p \in Procs, TakesModel(p) PROVE GatewayInv'
<1>1. /\ pi[p].st = "up" /\ pi[p].stdin # <<>> /\ Head(pi[p].stdin).op = "model"
      /\ UNCHANGED <<client, currentAgent, replacing, works>>
    BY DEF TakesModel, Takes
<1>2. /\ Taken(p) \in [Procs -> Process] /\ \A o \in Procs \ {p} : Taken(p)[o] = pi[o]
      /\ Taken(p)[p].st = pi[p].st /\ Taken(p)[p].run = pi[p].run /\ Taken(p)[p].stdin = Tail(pi[p].stdin)
      /\ pi[p].stdin \in Seq(Request) /\ Head(pi[p].stdin) \in Request
    BY <1>1, TakenOf DEF GatewayInv
<1>3. PICK r \in Request : r = Head(pi[p].stdin)
    BY <1>2
<1>4. PICK t \in Turns : t = r.of
    BY <1>1, <1>3 DEF Request
<1>5. r.to \in Models
    BY <1>1, <1>3 DEF Request
<1>6. /\ chat \in [Turns -> Message] /\ chat[t] \in Message
    BY DEF GatewayInv, GatewayTypes
<1>7. CASE pi' = Taken(p) /\ UNCHANGED crossed /\ incident' \in {incident, Unknown}
           /\ (chat' = chat \/ Ended(t))
    <2>1. \A u \in Turns \ crossed : \A o \in Procs : Same(u, o)
        BY <1>1, <1>7, SameAfterTaking
    <2>2. /\ pi' \in [Procs -> Process]
          /\ \A o \in Procs : pi'[o].st = pi[o].st /\ (pi[o].st # "up" => pi'[o] = pi[o])
        BY <1>1, <1>2, <1>7
    <2>. QED BY <1>1, <1>7, <2>1, <2>2, EndedStep
<1>8. CASE /\ chat[t].st = "switching" /\ chat[t].on = p /\ UNCHANGED incident
           /\ Ask(t, p, [chat[t] EXCEPT !.tried = @ \cup {r.to}], Taken(p))
    <2>1. PICK c \in Message : c = [chat[t] EXCEPT !.tried = @ \cup {r.to}]
        BY <1>5, <1>6 DEF Message
    <2>2. c.on = p /\ c.aborted = chat[t].aborted
        BY <1>6, <1>8, <2>1 DEF Message
    <2>3. PICK q \in Request : q = [op |-> IF c.kind = "steer" THEN "steer" ELSE "prompt", of |-> t, ask |-> c.asks + 1]
        <3>1. c.asks + 1 \in Nat
            BY DEF Message
        <3>. QED BY <3>1 DEF Request
    <2>4. /\ chat' = [chat EXCEPT ![t] = Asked(c)] /\ Meets(t, p)
          /\ pi' = [Taken(p) EXCEPT ![p].stdin = Append(@, q)]
        BY <1>1, <1>8, <2>1, <2>3 DEF Ask, Writable
    <2>5. /\ chat' \in [Turns -> Message] /\ \A u \in Turns \ {t} : chat'[u] = chat[u]
          /\ chat'[t].st = "asked" /\ chat'[t].on = p /\ chat'[t].aborted = chat[t].aborted
        BY <1>6, <2>2, <2>4, AskedOf
    <2>6. PICK s \in Seq(Request) : s = Tail(pi[p].stdin)
        BY <1>1, <1>2, PromptsAfterTail
    <2>7. Append(s, q) \in Seq(Request)
        OBVIOUS
    <2>8. /\ pi' \in [Procs -> Process] /\ \A o \in Procs \ {p} : pi'[o] = pi[o]
          /\ pi'[p].st = "up" /\ pi'[p].run = pi[p].run /\ pi'[p].stdin = Append(s, q)
        BY <1>1, <1>2, <2>4, <2>6, <2>7 DEF Process
    <2>9. \A u \in Turns : /\ PromptsOf(s, u) = {} <=> PromptsOf(pi[p].stdin, u) = {}
                           /\ OneAtMost(PromptsOf(pi[p].stdin, u)) => OneAtMost(PromptsOf(s, u))
        BY <1>1, <1>2, <2>6, PromptsAfterTail
    <2>10. q.of = t /\ q.op \in {"prompt", "steer"}
        BY <2>3
    <2>11. GatewayTypes'
        <3>1. crossed' \subseteq Turns
            BY <2>4 DEF Meets, Others, GatewayInv, GatewayTypes
        <3>. QED BY <1>1, <1>8, <2>5, <2>8, <3>1 DEF GatewayInv, GatewayTypes
    <2>12. Placed'
        <3>1. /\ \A o \in Procs : pi'[o].st = pi[o].st /\ (pi[o].st # "up" => pi'[o] = pi[o])
              /\ \A u \in Turns : chat'[u].on = chat[u].on
              /\ \A u \in Turns : chat'[u].st \in {"asked", "settled", "switching"} =>
                    chat[u].st \in {"asked", "settled", "switching"}
            BY <1>1, <1>8, <2>5, <2>8
        <3>. QED BY <1>1, <2>11, <3>1, PlacedKept
    <2>13. Marked'
        <3>1. /\ \A u \in Turns : chat'[u].aborted => chat[u].aborted
              /\ \A u \in Turns : chat'[u].st \in {"unposted", "policy"} => chat[u].st \in {"unposted", "policy"}
            BY <2>5
        <3>. QED BY <1>8, <3>1, MarkedKept
    <2>14. Alones'
        BY <1>1, <1>8, <2>4, <2>5, <2>8, <2>9, <2>10, AskAlones
    <2>. QED BY <2>11, <2>12, <2>13, <2>14 DEF GatewayInv
<1>9. \/ pi' = Taken(p) /\ UNCHANGED crossed /\ incident' \in {incident, Unknown} /\ (chat' = chat \/ Ended(t))
      \/ /\ chat[t].st = "switching" /\ chat[t].on = p /\ UNCHANGED incident
         /\ Ask(t, p, [chat[t] EXCEPT !.tried = @ \cup {r.to}], Taken(p))
    BY <1>3, <1>4, FinishedOf DEF TakesModel, Ended
<1>. QED BY <1>7, <1>8, <1>9

\* A run is over.  A turn that is alone and listens is the one the run was for.
LEMMA RunOver ==
    ASSUME GatewayInv, NEW p \in Procs, NEW CONSTANT s \in Seq(Request), NEW end \in {"stop", "error", "conflict", "aborted"},
           pi[p].st = "up", pi[p].run # Idle, RunEnds(p, end),
           pi' \in [Procs -> Process], \A o \in Procs \ {p} : pi'[o] = pi[o],
           pi'[p].st = "up", pi'[p].run = Idle, pi'[p].stdin = s,
           \A u \in Turns : /\ PromptsOf(s, u) = {} <=> PromptsOf(pi[p].stdin, u) = {}
                            /\ OneAtMost(PromptsOf(pi[p].stdin, u)) => OneAtMost(PromptsOf(s, u)),
           UNCHANGED <<client, currentAgent, replacing, incident, works, crossed>>
    PROVE  GatewayInv'
<1>1. \A u \in Turns : chat[u] \in Message
    BY DEF GatewayInv, GatewayTypes
<1> DEFINE Heard(c) == [c EXCEPT !.st = "settled", !.seen = EndedBy(@, end)]
<1>2. ASSUME NEW c \in Message
      PROVE  /\ Heard(c) \in Message /\ Heard(c).st = "settled" /\ Heard(c).on = c.on
             /\ Heard(c).aborted = c.aborted /\ Heard(c).seen.worked = c.seen.worked
    <2>1. "settled" \in Stages
        BY DEF Stages
    <2>2. PICK e \in Seen : e = EndedBy(c.seen, end) /\ e.worked = c.seen.worked
        <3>1. c.seen \in Seen
            BY DEF Message
        <3>. QED BY <3>1, SeenOf
    <2>3. Heard(c) = [c EXCEPT !.st = "settled", !.seen = e]
        BY <2>2
    <2>4. [c EXCEPT !.st = "settled", !.seen = e] \in Message
        <3>1. e \in Seen
            OBVIOUS
        <3>. QED BY <2>1, <3>1 DEF Message
    <2>5. /\ Heard(c).st = "settled" /\ Heard(c).on = c.on /\ Heard(c).aborted = c.aborted
          /\ Heard(c).seen = e
        BY <2>3 DEF Message
    <2>. QED BY <2>2, <2>3, <2>4, <2>5
<1>3. /\ chat' \in [Turns -> Message]
      /\ \A u \in Turns : /\ chat'[u].on = chat[u].on /\ chat'[u].aborted = chat[u].aborted
                          /\ chat'[u].seen.worked = chat[u].seen.worked
                          /\ IF Listens(u, p) THEN chat'[u].st = "settled" ELSE chat'[u] = chat[u]
    <2>1. chat' = [u \in Turns |-> IF Listens(u, p) THEN Heard(chat[u]) ELSE chat[u]]
        BY DEF RunEnds
    <2> HIDE DEF Heard
    <2>. QED BY <1>1, <1>2, <2>1
<1> HIDE DEF Heard
<1>4. GatewayTypes'
    BY <1>3 DEF GatewayInv, GatewayTypes
<1>5. Placed'
    <2>1. /\ \A o \in Procs : pi'[o].st = pi[o].st /\ (pi[o].st # "up" => pi'[o] = pi[o])
          /\ \A u \in Turns : chat'[u].st \in {"asked", "settled", "switching"} =>
                chat[u].st \in {"asked", "settled", "switching"}
        BY <1>3 DEF Listens
    <2>. QED BY <1>3, <1>4, <2>1, PlacedKept
<1>6. Marked'
    <2>1. \A u \in Turns : chat'[u].st \in {"unposted", "policy"} => chat[u].st \in {"unposted", "policy"}
        BY <1>3 DEF Listens
    <2>. QED BY <1>3, <2>1, MarkedKept
<1>7. PICK w \in Turns : w = pi[p].run.of
    BY DEF GatewayInv, GatewayTypes, Process, Run
<1>8. ASSUME NEW u \in Turns \ crossed PROVE Alone(u)'
    <2>1. Alone(u) /\ chat[u].on \in Procs \cup {0}
        BY DEF GatewayInv, Alones, GatewayTypes, Message
    <2>2. CASE Held(u, p)
        <3>1. /\ p = chat[u].on /\ chat[u].st \in {"asked", "failed"} /\ w = u
              /\ \A o \in Procs \ {p} : ~Held(u, o)
            <4>1. Held(w, p)
                BY <1>7 DEF Held
            <4>. QED BY <2>1, <2>2, <4>1 DEF Alone
        <3>2. PromptsOf(pi[p].stdin, u) = {}
            BY <1>7, <2>1, <3>1 DEF Alone
        <3>3. \A o \in Procs : pi'[o].run.of # u /\ PromptsOf(pi'[o].stdin, u) = {}
            <4>1. \A o \in Procs \ {p} : pi'[o].run.of # u /\ PromptsOf(pi'[o].stdin, u) = {}
                BY <3>1 DEF Held
            <4>2. pi'[p].run.of # u /\ PromptsOf(pi'[p].stdin, u) = {}
                BY <3>2, Constants
            <4>. QED BY <4>1, <4>2
        <3>4. \A o \in Procs : ~Held(u, o)'
            BY <3>3 DEF Held
        <3>5. chat'[u].st \in {"settled", "failed"} /\ chat'[u].seen.worked = chat[u].seen.worked
              /\ (chat'[u].st = "settled" => chat[u].st = "asked")
            BY <1>3, <3>1 DEF Listens
        <3>6. works'[u] <= 1 /\ (works'[u] = 1 /\ chat'[u].st = "settled" => chat'[u].seen.worked)
            BY <2>1, <3>5 DEF Alone
        <3>. QED BY <3>3, <3>4, <3>5, <3>6 DEF Alone, OneAtMost
    <2>3. CASE ~Held(u, p)
        <3>1. ~Listens(u, p)
            BY <2>1, <2>3 DEF Listens, Alone
        <3>2. Same(u, p)
            BY <2>3, Constants DEF Same, Held
        <3>3. Going(u)
            BY <1>3, <2>1, <3>1, GoingUntouched
        <3>. QED BY <3>2, <3>3, SameUntouched, AloneKept
    <2>. QED BY <2>2, <2>3
<1>9. Alones'
    BY <1>8 DEF Alones
<1>. QED BY <1>4, <1>5, <1>6, <1>9 DEF GatewayInv

LEMMA SettlesStep == ASSUME GatewayInv, NEW p \in Procs, Settles(p) PROVE GatewayInv'
<1>1. /\ pi[p].st = "up" /\ pi[p].run # Idle /\ pi' = [pi EXCEPT ![p].run = Idle]
      /\ UNCHANGED <<client, currentAgent, replacing, incident, works, crossed>>
    BY DEF Settles, selectionVars
<1>2. PICK end \in {"stop", "error", "conflict", "aborted"} : RunEnds(p, end)
    BY DEF Settles
<1>3. pi \in [Procs -> Process] /\ pi[p] \in Process /\ pi[p].stdin \in Seq(Request)
    BY DEF GatewayInv, GatewayTypes, Process
<1>4. [pi[p] EXCEPT !.run = Idle] \in Process
    BY <1>3, Constants DEF Process
<1>5. /\ pi' \in [Procs -> Process] /\ \A o \in Procs \ {p} : pi'[o] = pi[o]
      /\ pi'[p].st = "up" /\ pi'[p].run = Idle /\ pi'[p].stdin = pi[p].stdin
    BY <1>1, <1>3, <1>4 DEF Process
<1>6. PICK s \in Seq(Request) : s = pi[p].stdin
    BY <1>3
<1>. QED BY <1>1, <1>2, <1>5, <1>6, RunOver

LEMMA TakesAbortStep == ASSUME GatewayInv, NEW p \in Procs, TakesAbort(p) PROVE GatewayInv'
<1>1. /\ pi[p].st = "up" /\ pi[p].stdin # <<>> /\ Head(pi[p].stdin).op = "abort"
      /\ pi' = [Taken(p) EXCEPT ![p].run = Idle]
      /\ UNCHANGED <<client, currentAgent, replacing, incident, works, crossed>>
    BY DEF TakesAbort, Takes, selectionVars
<1>2. /\ Taken(p) \in [Procs -> Process] /\ \A o \in Procs \ {p} : Taken(p)[o] = pi[o]
      /\ Taken(p)[p].st = "up" /\ Taken(p)[p].stdin = Tail(pi[p].stdin)
      /\ pi[p].stdin \in Seq(Request) /\ Head(pi[p].stdin) \in Request
    BY <1>1, TakenOf DEF GatewayInv
<1>3. PICK s \in Seq(Request) : s = Tail(pi[p].stdin)
    BY <1>1, <1>2, TailOf
<1>4. /\ pi' \in [Procs -> Process] /\ \A o \in Procs \ {p} : pi'[o] = pi[o]
      /\ pi'[p].st = "up" /\ pi'[p].run = Idle /\ pi'[p].stdin = s
    BY <1>1, <1>2, <1>3, Constants DEF Process
<1>5. Head(pi[p].stdin).of = Unknown
    BY <1>1, <1>2 DEF Request
<1>6. \A u \in Turns : /\ PromptsOf(s, u) = {} <=> PromptsOf(pi[p].stdin, u) = {}
                       /\ OneAtMost(PromptsOf(pi[p].stdin, u)) => OneAtMost(PromptsOf(s, u))
    <2>1. \A u \in Turns : Head(pi[p].stdin).of # u
        BY <1>5, Constants
    <2>. QED BY <1>1, <1>2, <1>3, <2>1, PromptsAfterTail
<1>7. CASE pi[p].run # Idle
    BY <1>1, <1>4, <1>6, <1>7, RunOver DEF TakesAbort
<1>8. CASE pi[p].run = Idle
    <2>1. chat' = chat
        BY <1>8 DEF TakesAbort
    <2>2. \A o \in Procs : pi'[o].st = pi[o].st /\ (pi[o].st # "up" => pi'[o] = pi[o])
        BY <1>1, <1>4
    <2>3. ASSUME NEW u \in Turns \ crossed PROVE \A o \in Procs : Same(u, o)
        <3>1. \A o \in Procs \ {p} : Same(u, o)
            BY <1>4, SameUntouched
        <3>2. \A v \in Turns : Held(v, p)' => Held(v, p)
            BY <1>4, <1>6, Constants DEF Held
        <3>3. Same(u, p)
            <4>1. Alone(u)
                BY DEF GatewayInv, Alones
            <4>. QED BY <1>4, <1>6, <1>8, <3>2, <4>1 DEF Same, Alone
        <3>. QED BY <3>1, <3>3
    <2>. QED BY <1>1, <1>4, <2>1, <2>2, <2>3, EndedStep
<1>. QED BY <1>7, <1>8

\* Work is done once: the turn that waits for it, and is alone, sees it.
LEMMA WorksStep == ASSUME GatewayInv, NEW p \in Procs, Works(p) PROVE GatewayInv'
<1>1. /\ pi[p].st = "up" /\ pi[p].run # Idle /\ ~pi[p].run.worked
      /\ UNCHANGED <<client, currentAgent, replacing, incident, crossed>>
      /\ pi' = [pi EXCEPT ![p].run.worked = TRUE] /\ works' = [works EXCEPT ![pi[p].run.of] = @ + 1]
      /\ chat' = [t \in Turns |-> IF Listens(t, p) THEN [chat[t] EXCEPT !.seen = Shown(@)] ELSE chat[t]]
    BY DEF Works, selectionVars
<1>2. /\ pi \in [Procs -> Process] /\ pi[p] \in Process /\ chat \in [Turns -> Message] /\ works \in [Turns -> Nat]
    BY DEF GatewayInv, GatewayTypes
<1>3. PICK w \in Turns : w = pi[p].run.of
    BY <1>1, <1>2 DEF Process, Run
<1>4. pi[p].run \in [of : Turns, worked : BOOLEAN]
    BY <1>1, <1>2 DEF Process, Run
<1>5. PICK run \in Run : run = [pi[p].run EXCEPT !.worked = TRUE] /\ run.of = w /\ run.worked
    BY <1>3, <1>4, RunWorks
<1>6. /\ pi' \in [Procs -> Process] /\ \A o \in Procs \ {p} : pi'[o] = pi[o]
      /\ pi'[p].st = "up" /\ pi'[p].run = run /\ pi'[p].stdin = pi[p].stdin
    <2>1. PICK o \in Process : /\ o = [pi[p] EXCEPT !.run = run]
                               /\ o.st = pi[p].st /\ o.run = run /\ o.stdin = pi[p].stdin
        BY <1>2, RunsOf
    <2>2. pi' = [pi EXCEPT ![p] = [pi[p] EXCEPT !.run = run]]
        BY <1>1, <1>2, <1>5
    <2>. QED BY <1>1, <1>2, <2>1, <2>2
<1>7. /\ chat' \in [Turns -> Message]
      /\ \A u \in Turns : /\ chat'[u].on = chat[u].on /\ chat'[u].aborted = chat[u].aborted
                          /\ chat'[u].st = chat[u].st
                          /\ IF Listens(u, p) THEN chat'[u].seen.worked ELSE chat'[u] = chat[u]
    <2> DEFINE Heard(c) == [c EXCEPT !.seen = Shown(@)]
    <2>1. ASSUME NEW c \in Message
          PROVE  /\ Heard(c) \in Message /\ Heard(c).st = c.st /\ Heard(c).on = c.on
                 /\ Heard(c).aborted = c.aborted /\ Heard(c).seen.worked
        <3>1. c.seen \in Seen
            BY DEF Message
        <3>2. PICK e \in Seen : e = Shown(c.seen) /\ e.worked
            BY <3>1, SeenOf
        <3>3. Heard(c) = [c EXCEPT !.seen = e]
            BY <3>2
        <3>4. [c EXCEPT !.seen = e] \in Message
            BY DEF Message
        <3>5. /\ Heard(c).st = c.st /\ Heard(c).on = c.on /\ Heard(c).aborted = c.aborted /\ Heard(c).seen = e
            BY <3>3 DEF Message
        <3>. QED BY <3>2, <3>3, <3>4, <3>5
    <2>2. chat' = [u \in Turns |-> IF Listens(u, p) THEN Heard(chat[u]) ELSE chat[u]]
        BY <1>1
    <2> HIDE DEF Heard
    <2>. QED BY <1>2, <2>1, <2>2
<1>8. works' \in [Turns -> Nat] /\ works'[w] = works[w] + 1 /\ \A u \in Turns \ {w} : works'[u] = works[u]
    BY <1>1, <1>2, <1>3
<1>9. GatewayTypes' /\ Marked'
    BY <1>1, <1>6, <1>7, <1>8 DEF GatewayInv, GatewayTypes, Marked
<1>10. Placed'
    <2>1. /\ \A o \in Procs : pi'[o].st = pi[o].st /\ (pi[o].st # "up" => pi'[o] = pi[o])
        BY <1>1, <1>6
    <2>. QED BY <1>1, <1>7, <1>9, <2>1, PlacedKept
<1>11. \A u \in Turns, o \in Procs : Held(u, o)' <=> Held(u, o)
    <2>1. \A u \in Turns : Held(u, p)' <=> Held(u, p)
        BY <1>3, <1>5, <1>6 DEF Held
    <2>2. \A u \in Turns, o \in Procs \ {p} : Held(u, o)' <=> Held(u, o)
        BY <1>6 DEF Held
    <2>. QED BY <2>1, <2>2
<1>12. ASSUME NEW u \in Turns \ crossed PROVE Alone(u)'
    <2>1. Alone(u) /\ chat[u].on \in Procs \cup {0} /\ (chat[u].st = "asked" => chat[u].on # 0) /\ Held(w, p)
        BY <1>3 DEF GatewayInv, Alones, GatewayTypes, Placed, Message, Held
    <2>2. CASE u # w
        <3>1. ~Held(u, p) /\ ~Listens(u, p)
            BY <1>1, <2>1, <2>2 DEF Listens, Alone
        <3>2. chat'[u] = chat[u] /\ works'[u] = works[u] /\ \A o \in Procs : pi'[o].st = pi[o].st
            BY <1>1, <1>6, <1>7, <1>8, <2>2, <3>1
        <3>3. Same(u, p)
            BY <1>3, <1>5, <1>6, <2>2, <3>1 DEF Same, Held
        <3>4. Going(u)
            BY <2>1, <3>2, GoingUntouched
        <3>. QED BY <1>6, <3>2, <3>3, <3>4, SameUntouched, AloneKept
    <2>3. CASE u = w
        <3>1. /\ p = chat[u].on /\ chat[u].st \in {"asked", "failed"} /\ \A v \in Turns : Held(v, p) => v = u
              /\ \A o \in Procs \ {p} : ~Held(u, o)
            BY <2>1, <2>3 DEF Alone
        <3>2. PromptsOf(pi[p].stdin, u) = {} /\ works[u] # 1 /\ works[u] <= 1
            BY <1>1, <1>3, <2>1, <2>3 DEF Alone
        <3>3. works'[u] = 1
            BY <1>2, <1>8, <2>3, <3>2
        <3>4. \A o \in Procs : Held(u, o)' =>
                  /\ o = chat'[u].on /\ pi'[o].st = "up" /\ chat'[u].st \in {"asked", "failed"}
                  /\ \A v \in Turns : Held(v, o)' => v = u
            BY <1>6, <1>7, <1>11, <3>1
        <3>5. \A o \in Procs : PromptsOf(pi'[o].stdin, u) = {}
            <4>1. \A o \in Procs \ {p} : PromptsOf(pi[o].stdin, u) = {}
                BY <3>1 DEF Held
            <4>. QED BY <1>6, <3>2, <4>1
        <3>6. \A o \in Procs : pi'[o].run.of = u => pi'[o].run.worked
            <4>1. \A o \in Procs \ {p} : pi[o].run.of # u
                BY <3>1 DEF Held
            <4>. QED BY <1>5, <1>6, <4>1
        <3>7. Held(u, p)'
            BY <1>11, <2>1, <2>3
        <3>8. chat'[u].on = p
            BY <1>7, <3>1
        <3>9. chat'[u].st = "asked" => chat'[u].seen.worked
            BY <1>7, <3>1 DEF Listens
        <3>10. chat'[u].st \in {"asked", "failed"} /\ works'[u] <= 1
            BY <1>7, <3>1, <3>3
        <3>11. \A o \in Procs : OneAtMost(PromptsOf(pi'[o].stdin, u))
            BY <3>5 DEF OneAtMost
        <3>. QED BY <3>4, <3>5, <3>6, <3>7, <3>8, <3>9, <3>10, <3>11 DEF Alone
    <2>. QED BY <2>2, <2>3
<1>13. Alones'
    BY <1>1, <1>12 DEF Alones
<1>. QED BY <1>9, <1>10, <1>13 DEF GatewayInv

-----------------------------------------------------------------------------
(* Processes begin and end.                                                 *)

\* A process that has done nothing yet is started, or could not be.
LEMMA UnusedKeeps ==
    ASSUME GatewayInv, NEW p \in Procs, pi[p].st \in {"none", "starting"}, pi'[p].st # "up",
           pi'[p].stdin = pi[p].stdin, pi'[p].run = pi[p].run,
           \A o \in Procs \ {p} : pi'[o] = pi[o],
           UNCHANGED <<chat, works, crossed>>
    PROVE  Alones'
<1>1. SUFFICES ASSUME NEW u \in Turns \ crossed PROVE Going(u) /\ \A o \in Procs : Same(u, o)
    BY AlonesKept
<1>2. Alone(u) /\ chat[u].on \in Procs \cup {0}
    BY DEF GatewayInv, Alones, GatewayTypes, Message
<1>3. Going(u)
    BY <1>2, GoingUntouched
<1>4. ~Held(u, p)
    BY <1>2 DEF Alone
<1>5. Same(u, p)
    BY <1>4 DEF Same
<1>. QED BY <1>3, <1>5, SameUntouched

LEMMA BeginReplaceStep ==
    ASSUME GatewayInv, NEW a \in Team, BeginReplace(a),
           UNCHANGED <<client, currentAgent, chat, incident, works, crossed>>
    PROVE  GatewayInv'
<1>1. PICK p \in Procs :
          /\ pi[p].st = "none"
          /\ pi' = [pi EXCEPT ![p].st = "starting", ![p].agent = a]
          /\ replacing' = replacing \cup {[old |-> client, new |-> p, switch |-> a # currentAgent]}
    BY DEF BeginReplace
<1>2. pi \in [Procs -> Process] /\ pi[p] \in Process
    BY DEF GatewayInv, GatewayTypes
<1>3. [pi[p] EXCEPT !.st = "starting", !.agent = a] \in Process
    BY <1>2 DEF Process
<1>4. /\ pi' \in [Procs -> Process] /\ \A o \in Procs \ {p} : pi'[o] = pi[o]
      /\ pi'[p].st = "starting" /\ pi'[p].run = pi[p].run /\ pi'[p].stdin = pi[p].stdin
    <2>1. pi' = [pi EXCEPT ![p] = [pi[p] EXCEPT !.st = "starting", !.agent = a]]
        BY <1>1, <1>2
    <2>. QED BY <1>2, <1>3, <2>1 DEF Process
<1>5. GatewayTypes' /\ Marked'
    <2>1. [old |-> client, new |-> p, switch |-> a # currentAgent] \in [old : Procs, new : Procs, switch : BOOLEAN]
        BY DEF GatewayInv, GatewayTypes
    <2>. QED BY <1>1, <1>4, <2>1 DEF GatewayInv, GatewayTypes, Marked
<1>6. Placed'
    <2>1. client # p /\ client \in Procs /\ \A t \in Turns : chat[t].on # p /\ chat[t].on \in Procs \cup {0}
        BY <1>1, Constants DEF GatewayInv, Placed, GatewayTypes, Message
    <2>2. \A r \in replacing : r.new # p /\ r.old # p /\ r.new \in Procs /\ r.old \in Procs
        BY <1>1 DEF GatewayInv, Placed, GatewayTypes
    <2>3. \A r \in replacing' : /\ pi'[r.new].st = "starting"
                                /\ pi'[r.old].st \in {"up", "exited", "stopped"}
        BY <1>1, <1>4, <2>1, <2>2 DEF GatewayInv, Placed
    <2>4. \A r, s \in replacing' : r.new = s.new => r = s
        BY <1>1, <2>2 DEF GatewayInv, Placed
    <2>5. \A o \in Procs : pi'[o].st # "up" => pi'[o].stdin = <<>> /\ pi'[o].run = Idle
        BY <1>1, <1>4 DEF GatewayInv, Placed
    <2>6. \A t \in Turns : chat[t].on # 0 => pi'[chat[t].on].st \in {"up", "exited", "stopped"}
        BY <1>4, <2>1 DEF GatewayInv, Placed
    <2>. QED BY <1>4, <2>1, <2>3, <2>4, <2>5, <2>6 DEF GatewayInv, Placed
<1>7. Alones'
    BY <1>1, <1>4, UnusedKeeps
<1>. QED BY <1>5, <1>6, <1>7 DEF GatewayInv

LEMMA ReplaceFailsStep == ASSUME GatewayInv, NEW r \in replacing, ReplaceFails(r) PROVE GatewayInv'
<1>1. /\ pi' = [pi EXCEPT ![r.new].st = "exited"] /\ replacing' = replacing \ {r}
      /\ UNCHANGED <<client, currentAgent, chat, incident, works, crossed>>
    BY DEF ReplaceFails, selectionVars, historyVars
<1>2. /\ pi \in [Procs -> Process] /\ client \in Procs
      /\ \A x \in replacing : x.new \in Procs /\ x.old \in Procs
    BY DEF GatewayInv, GatewayTypes
<1>3. PICK p \in Procs : p = r.new /\ pi[p].st = "starting"
    BY <1>2 DEF GatewayInv, Placed
<1>4. [pi[p] EXCEPT !.st = "exited"] \in Process /\ pi[p] \in Process
    BY <1>2 DEF Process
<1>5. /\ pi' \in [Procs -> Process] /\ \A o \in Procs \ {p} : pi'[o] = pi[o]
      /\ pi'[p].st = "exited" /\ pi'[p].run = pi[p].run /\ pi'[p].stdin = pi[p].stdin
    BY <1>1, <1>2, <1>3, <1>4 DEF Process
<1>6. GatewayTypes' /\ Marked'
    BY <1>1, <1>5 DEF GatewayInv, GatewayTypes, Marked
<1>7. Placed'
    <2>1. client # p /\ \A t \in Turns : chat[t].on # p /\ chat[t].on \in Procs \cup {0}
        BY <1>3, Constants DEF GatewayInv, Placed, GatewayTypes, Message
    <2>2. \A x \in replacing' : x.new # p /\ x.old # p
        BY <1>1, <1>3 DEF GatewayInv, Placed
    <2>3. \A x \in replacing' : /\ pi'[x.new].st = "starting"
                                /\ pi'[x.old].st \in {"up", "exited", "stopped"}
        BY <1>1, <1>2, <1>5, <2>2 DEF GatewayInv, Placed
    <2>4. \A x, y \in replacing' : x.new = y.new => x = y
        BY <1>1 DEF GatewayInv, Placed
    <2>5. \A o \in Procs : pi'[o].st # "up" => pi'[o].stdin = <<>> /\ pi'[o].run = Idle
        BY <1>3, <1>5 DEF GatewayInv, Placed
    <2>6. \A t \in Turns : chat[t].on # 0 => pi'[chat[t].on].st \in {"up", "exited", "stopped"}
        BY <1>5, <2>1 DEF GatewayInv, Placed
    <2>. QED BY <1>1, <1>2, <1>5, <2>1, <2>3, <2>4, <2>5, <2>6 DEF GatewayInv, Placed
<1>8. Alones'
    BY <1>1, <1>3, <1>5, UnusedKeeps
<1>. QED BY <1>6, <1>7, <1>8 DEF GatewayInv

\* A process is gone: what it has not answered is rejected.
MayReject(t, p) ==
    \/ chat'[t] = chat[t]
    \/ /\ chat[t].on = p /\ chat[t].st \in {"asked", "switching"}
       /\ chat'[t].st \in {"settled", "failed"}
       /\ chat'[t].st = "settled" => chat[t].st = "switching"
       /\ chat'[t].on = p /\ chat'[t].aborted = chat[t].aborted /\ chat'[t].asks = chat[t].asks

LEMMA GoneTurns ==
    ASSUME GatewayInv, NEW p \in Procs, NEW st, NEW told, NEW processes, Gone(p, st, told, processes)
    PROVE  /\ chat' \in [Turns -> Message]
           /\ pi' = [processes EXCEPT ![p].st = st, ![p].stdin = <<>>, ![p].run = Idle]
           /\ \A t \in Turns : MayReject(t, p)
<1>1. PICK lost \in SUBSET Turns :
          /\ chat' = [t \in Turns |-> IF t \in lost THEN Rejected(chat[t]) ELSE chat[t]]
          /\ \A t \in lost : chat[t].on = p /\ chat[t].st \in {"asked", "switching"}
    <2> DEFINE L == {t \in Turns : chat[t].on = p /\ Unanswered(t, p)}
    <2>1. \A t \in L : chat[t].on = p /\ chat[t].st \in {"asked", "switching"}
        BY DEF Unanswered
    <2>2. chat' = [t \in Turns |-> IF t \in L THEN Rejected(chat[t]) ELSE chat[t]]
        BY DEF Gone
    <2> HIDE DEF L
    <2>3. L \in SUBSET Turns
        BY DEF L
    <2>. QED BY <2>1, <2>2, <2>3
<1>2. \A t \in Turns : chat[t] \in Message
    BY DEF GatewayInv, GatewayTypes
<1>3. pi' = [processes EXCEPT ![p].st = st, ![p].stdin = <<>>, ![p].run = Idle]
    BY DEF Gone
<1>4. chat' \in [Turns -> Message]
    BY <1>1, <1>2, RejectedOf
<1>5. ASSUME NEW t \in lost
      PROVE  /\ chat'[t].st \in {"settled", "failed"}
             /\ chat'[t].st = "settled" => chat[t].st = "switching"
             /\ chat'[t].on = p /\ chat'[t].aborted = chat[t].aborted /\ chat'[t].asks = chat[t].asks
    <2>1. chat'[t] = Rejected(chat[t]) /\ chat[t] \in Message
        BY <1>1, <1>2
    <2>. QED BY <1>1, <2>1, RejectedOf
<1>6. \A t \in Turns : MayReject(t, p)
    BY <1>1, <1>5 DEF MayReject
<1>. QED BY <1>3, <1>4, <1>6

LEMMA GoneAlones ==
    ASSUME GatewayInv, NEW p \in Procs, UNCHANGED <<works, crossed>>,
           pi'[p].st # "up", pi'[p].stdin = <<>>, pi'[p].run = Idle,
           \A o \in Procs \ {p} :
              \/ pi'[o] = pi[o]
              \/ (pi[o].st = "starting" /\ pi'[o].stdin = pi[o].stdin /\ pi'[o].run = pi[o].run),
           \A t \in Turns : MayReject(t, p)
    PROVE  Alones'
<1>1. /\ \A u \in Turns, o \in Procs \ {p} : Held(u, o)' <=> Held(u, o)
      /\ \A u \in Turns : ~Held(u, p)'
      /\ \A u \in Turns : pi'[p].run.of # u /\ PromptsOf(pi'[p].stdin, u) = {}
    <2>1. \A u \in Turns, o \in Procs \ {p} : Held(u, o)' <=> Held(u, o)
        BY DEF Held
    <2>2. \A u \in Turns : pi'[p].run.of # u /\ PromptsOf(pi'[p].stdin, u) = {}
        BY Constants DEF PromptsOf
    <2>. QED BY <2>1, <2>2 DEF Held
<1>2. SUFFICES ASSUME NEW u \in Turns \ crossed PROVE Alone(u)'
    BY DEF Alones
<1>3. /\ Alone(u) /\ chat[u].on \in Procs \cup {0} /\ (chat[u].st = "asked" => chat[u].on # 0)
      /\ chat'[u].on = chat[u].on
    BY DEF GatewayInv, Alones, GatewayTypes, Placed, Message, MayReject
<1>4. ASSUME NEW o \in Procs, Held(u, o)'
      PROVE  /\ o = chat'[u].on /\ pi'[o].st = "up" /\ chat'[u].st \in {"asked", "failed"}
             /\ \A v \in Turns : Held(v, o)' => v = u
    <2>1. o # p /\ Held(u, o)
        BY <1>1, <1>4
    <2>2. o = chat[u].on /\ pi[o].st = "up" /\ chat[u].st \in {"asked", "failed"} /\ \A v \in Turns : Held(v, o) => v = u
        BY <1>3, <2>1 DEF Alone
    <2>3. chat'[u] = chat[u] /\ pi'[o] = pi[o]
        BY <2>1, <2>2 DEF MayReject
    <2>. QED BY <1>1, <2>1, <2>2, <2>3
<1>5. chat'[u].st = "asked" /\ pi'[chat'[u].on].st = "up" => Held(u, chat[u].on)'
    <2>1. SUFFICES ASSUME chat'[u].st = "asked", pi'[chat'[u].on].st = "up" PROVE Held(u, chat[u].on)'
        OBVIOUS
    <2>2. chat'[u] = chat[u] /\ chat[u].on \in Procs /\ chat[u].on # p
        BY <1>3, <2>1 DEF MayReject
    <2>3. PICK o \in Procs \ {p} : o = chat[u].on
        BY <2>2
    <2>4. pi[o].st # "starting"
        BY <2>2, <2>3, Constants DEF GatewayInv, Placed
    <2>5. Held(u, o)
        BY <1>3, <2>1, <2>2, <2>3, <2>4 DEF Alone
    <2>. QED BY <1>1, <2>2, <2>3, <2>5
<1>6. \A o \in Procs : /\ pi'[o].run.of = u => PromptsOf(pi'[o].stdin, u) = {}
                       /\ OneAtMost(PromptsOf(pi'[o].stdin, u))
    <2>1. \A o \in Procs \ {p} : /\ pi'[o].run.of = u => PromptsOf(pi'[o].stdin, u) = {}
                                 /\ OneAtMost(PromptsOf(pi'[o].stdin, u))
        BY <1>3 DEF Alone
    <2>. QED BY <1>1, <2>1 DEF OneAtMost
<1>7. ASSUME works'[u] = 1
      PROVE  /\ chat'[u].st \in {"asked", "settled", "failed", "done"}
             /\ chat'[u].st \in {"asked", "settled"} => chat'[u].seen.worked
             /\ \A o \in Procs : /\ PromptsOf(pi'[o].stdin, u) = {}
                                 /\ pi'[o].run.of = u => pi'[o].run.worked
    <2>1. /\ chat[u].st \in {"asked", "settled", "failed", "done"}
          /\ chat[u].st \in {"asked", "settled"} => chat[u].seen.worked
          /\ \A o \in Procs : /\ PromptsOf(pi[o].stdin, u) = {}
                              /\ pi[o].run.of = u => pi[o].run.worked
        BY <1>3, <1>7 DEF Alone
    <2>2. /\ chat'[u].st \in {"asked", "settled", "failed", "done"}
          /\ chat'[u].st \in {"asked", "settled"} => chat'[u].seen.worked
        BY <2>1 DEF MayReject
    <2>3. \A o \in Procs \ {p} : /\ PromptsOf(pi'[o].stdin, u) = {}
                                 /\ pi'[o].run.of = u => pi'[o].run.worked
        BY <2>1
    <2>. QED BY <1>1, <2>2, <2>3
<1>8. works'[u] <= 1
    BY <1>3 DEF Alone
<1>. QED BY <1>3, <1>4, <1>5, <1>6, <1>7, <1>8 DEF Alone

LEMMA ExitsStep == ASSUME GatewayInv, NEW p \in Procs, Exits(p) PROVE GatewayInv'
<1>1. /\ pi[p].st = "up" /\ incident' \in {incident, Unknown}
      /\ UNCHANGED <<client, currentAgent, replacing, works, crossed>>
    BY DEF Exits, historyVars
<1>2. PICK told : Gone(p, "exited", told, pi)
    BY DEF Exits
<1>3. /\ chat' \in [Turns -> Message]
      /\ pi' = [pi EXCEPT ![p].st = "exited", ![p].stdin = <<>>, ![p].run = Idle]
      /\ \A t \in Turns : MayReject(t, p)
    BY <1>2, GoneTurns
<1>4. /\ pi \in [Procs -> Process] /\ client \in Procs /\ \A r \in replacing : r.new \in Procs /\ r.old \in Procs
      /\ \A t \in Turns : chat[t].on \in Procs \cup {0}
    BY DEF GatewayInv, GatewayTypes, Message
<1>5. PICK o \in Process : /\ o = [pi[p] EXCEPT !.st = "exited", !.stdin = <<>>, !.run = Idle]
                           /\ o.st = "exited" /\ o.stdin = <<>> /\ o.run = Idle
    BY <1>4, ProcessGone
<1>6. /\ pi' \in [Procs -> Process] /\ \A q \in Procs \ {p} : pi'[q] = pi[q]
      /\ pi'[p].st = "exited" /\ pi'[p].stdin = <<>> /\ pi'[p].run = Idle
    <2>1. pi' = [pi EXCEPT ![p] = o]
        BY <1>3, <1>4, <1>5
    <2>. QED BY <1>4, <1>5, <2>1
<1>7. GatewayTypes'
    BY <1>1, <1>3, <1>6 DEF GatewayInv, GatewayTypes
<1>8. Placed'
    <2> DEFINE Ran == {"up", "exited", "stopped"}
    <2>1. \A q \in Procs : /\ pi[q].st \in Ran => pi'[q].st \in Ran
                           /\ pi[q].st = "starting" => pi'[q].st = "starting"
        BY <1>1, <1>6
    <2>2. \A t \in Turns : chat'[t].on = chat[t].on /\ (chat'[t].st \in {"asked", "settled", "switching"} =>
              chat[t].st \in {"asked", "settled", "switching"})
        BY <1>3 DEF MayReject
    <2>8. /\ pi[client].st \in Ran /\ \A t \in Turns : chat[t].on # 0 => pi[chat[t].on].st \in Ran
          /\ \A r \in replacing : pi[r.new].st = "starting" /\ pi[r.old].st \in Ran
        BY DEF GatewayInv, Placed
    <2> HIDE DEF Ran
    <2>3. pi'[client].st \in Ran
        BY <1>4, <2>1, <2>8
    <2>4. \A q \in Procs : pi'[q].st # "up" => pi'[q].stdin = <<>> /\ pi'[q].run = Idle
        BY <1>6 DEF GatewayInv, Placed
    <2>5. \A t \in Turns : chat'[t].on # 0 => pi'[chat'[t].on].st \in Ran
        BY <1>4, <2>1, <2>2, <2>8
    <2>6. \A t \in Turns : chat'[t].st \in {"asked", "settled", "switching"} => chat'[t].on # 0
        BY <2>2 DEF GatewayInv, Placed
    <2>7. \A r \in replacing : pi'[r.new].st = "starting" /\ pi'[r.old].st \in Ran
        BY <1>4, <2>1, <2>8
    <2>. QED BY <1>1, <2>3, <2>4, <2>5, <2>6, <2>7 DEF GatewayInv, Placed, Ran
<1>9. Marked'
    <2>1. /\ \A u \in Turns : chat'[u].aborted => chat[u].aborted
          /\ \A u \in Turns : chat'[u].st \in {"unposted", "policy"} => chat[u].st \in {"unposted", "policy"}
        BY <1>3 DEF MayReject
    <2>. QED BY <1>1, <2>1, MarkedKept
<1>10. Alones'
    BY <1>1, <1>3, <1>6, GoneAlones
<1>. QED BY <1>7, <1>8, <1>9, <1>10 DEF GatewayInv

\* The new process takes over, and the one it replaces is stopped.
LEMMA ReplaceStep == ASSUME GatewayInv, NEW r \in replacing, Replace(r) PROVE GatewayInv'
<1>1. /\ replacing' = replacing \ {r} /\ client' = r.new /\ incident' = Unknown
      /\ currentAgent' = IF r.switch THEN pi[r.new].agent ELSE currentAgent
      /\ UNCHANGED <<works, crossed>>
    BY DEF Replace, historyVars
<1>2. PICK told : Gone(r.old, "stopped", told, [pi EXCEPT ![r.new].st = "up"])
    BY DEF Replace, StopClient
<1>3. /\ pi \in [Procs -> Process] /\ currentAgent \in Team
      /\ \A x \in replacing : x.new \in Procs /\ x.old \in Procs
      /\ \A t \in Turns : chat[t].on \in Procs \cup {0}
    BY DEF GatewayInv, GatewayTypes, Message
<1>4. PICK p \in Procs : p = r.old
    BY <1>3
<1>5. PICK n \in Procs : n = r.new
    BY <1>3
<1>6. p # n /\ pi[n].st = "starting" /\ pi[p].st \in {"up", "exited", "stopped"}
    BY <1>4, <1>5 DEF GatewayInv, Placed
<1>7. /\ chat' \in [Turns -> Message]
      /\ pi' = [[pi EXCEPT ![n].st = "up"] EXCEPT ![p].st = "stopped", ![p].stdin = <<>>, ![p].run = Idle]
      /\ \A t \in Turns : MayReject(t, p)
    <2>1. PICK processes : processes = [pi EXCEPT ![n].st = "up"]
        OBVIOUS
    <2>2. Gone(p, "stopped", told, processes)
        BY <1>2, <1>4, <1>5, <2>1
    <2>. QED BY <2>1, <2>2, GoneTurns
<1>8. PICK o \in Process : /\ o = [pi[p] EXCEPT !.st = "stopped", !.stdin = <<>>, !.run = Idle]
                           /\ o.st = "stopped" /\ o.stdin = <<>> /\ o.run = Idle
    BY <1>3, ProcessGone
<1>9. PICK m \in Process : /\ m = [pi[n] EXCEPT !.st = "up"]
                           /\ m.st = "up" /\ m.stdin = pi[n].stdin /\ m.run = pi[n].run
    BY <1>3, ProcessUp
<1>10. /\ pi' \in [Procs -> Process] /\ \A q \in Procs \ {p, n} : pi'[q] = pi[q]
       /\ pi'[p].st = "stopped" /\ pi'[p].stdin = <<>> /\ pi'[p].run = Idle
       /\ pi'[n].st = "up" /\ pi'[n].stdin = pi[n].stdin /\ pi'[n].run = pi[n].run
    <2>1. pi' = [[pi EXCEPT ![n] = m] EXCEPT ![p] = o]
        BY <1>3, <1>6, <1>7, <1>8, <1>9
    <2>. QED BY <1>3, <1>6, <1>8, <1>9, <2>1
<1>11. GatewayTypes'
    <2>1. client' \in Procs /\ incident' \in Turns \cup {Unknown}
        BY <1>1, <1>5
    <2>2. currentAgent' \in Team
        BY <1>1, <1>3, <1>5 DEF Process
    <2>. QED BY <1>1, <1>7, <1>10, <2>1, <2>2 DEF GatewayInv, GatewayTypes
<1>12. Placed'
    <2> DEFINE Ran == {"up", "exited", "stopped"}
    <2>1. \A q \in Procs : /\ pi[q].st \in Ran => pi'[q].st \in Ran
                           /\ pi[q].st = "starting" /\ q # n => pi'[q].st = "starting"
        BY <1>6, <1>10
    <2>2. \A t \in Turns : chat'[t].on = chat[t].on /\ (chat'[t].st \in {"asked", "settled", "switching"} =>
              chat[t].st \in {"asked", "settled", "switching"})
        BY <1>7 DEF MayReject
    <2>9. /\ \A t \in Turns : chat[t].on # 0 => pi[chat[t].on].st \in Ran
          /\ \A x \in replacing : pi[x.new].st = "starting" /\ pi[x.old].st \in Ran
        BY DEF GatewayInv, Placed
    <2>3. pi'[client'].st \in Ran
        BY <1>1, <1>5, <1>10
    <2>4. \A q \in Procs : pi'[q].st # "up" => pi'[q].stdin = <<>> /\ pi'[q].run = Idle
        BY <1>10 DEF GatewayInv, Placed
    <2> HIDE DEF Ran
    <2>5. \A t \in Turns : chat'[t].on # 0 => pi'[chat'[t].on].st \in Ran
        BY <1>3, <2>1, <2>2, <2>9
    <2>6. \A t \in Turns : chat'[t].st \in {"asked", "settled", "switching"} => chat'[t].on # 0
        BY <2>2 DEF GatewayInv, Placed
    <2>7. \A x \in replacing' : pi'[x.new].st = "starting" /\ pi'[x.old].st \in Ran
        <3>1. \A x \in replacing' : x.new # n /\ x \in replacing
            BY <1>1, <1>5 DEF GatewayInv, Placed
        <3>. QED BY <1>3, <2>1, <2>9, <3>1
    <2>8. \A x, y \in replacing' : x.new = y.new => x = y
        BY <1>1 DEF GatewayInv, Placed
    <2>. QED BY <2>3, <2>4, <2>5, <2>6, <2>7, <2>8 DEF Placed, Ran
<1>13. Marked'
    <2>1. /\ \A u \in Turns : chat'[u].aborted => chat[u].aborted
          /\ \A u \in Turns : chat'[u].st \in {"unposted", "policy"} => chat[u].st \in {"unposted", "policy"}
        BY <1>7 DEF MayReject
    <2>. QED BY <1>1, <2>1, MarkedKept
<1>14. Alones'
    <2>1. \A q \in Procs \ {p} :
              \/ pi'[q] = pi[q]
              \/ pi[q].st = "starting" /\ pi'[q].stdin = pi[q].stdin /\ pi'[q].run = pi[q].run
        BY <1>6, <1>10
    <2>. QED BY <1>1, <1>7, <1>10, <2>1, GoneAlones
<1>. QED BY <1>11, <1>12, <1>13, <1>14 DEF GatewayInv

LEMMA GatewayStep == GatewayInv /\ [GatewayChatNext]_gatewayChatVars => GatewayInv'
<1> SUFFICES ASSUME GatewayInv, [GatewayChatNext]_gatewayChatVars PROVE GatewayInv'
    OBVIOUS
<1>1. ASSUME NEW t \in Turns, NEW kind \in AllKinds, PostChat(t, kind) \/ PostCompletion(t, kind) PROVE GatewayInv'
    BY <1>1, PostChatStep, PostCompletionStep
<1>2. ASSUME NEW t \in Turns, TurnStep(t) \/ WholeTimesOut(t) \/ ResponseTimesOut(t) \/ Attach(t) PROVE GatewayInv'
    BY <1>2, PolicyReadStep, ContinueStep, WholeTimesOutStep, ResponseTimesOutStep, AttachStep DEF TurnStep
<1>3. ASSUME NEW p \in Procs, ProcessStep(p) \/ Works(p) \/ Exits(p) PROVE GatewayInv'
    BY <1>3, TakesPromptStep, TakesSteerStep, TakesModelStep, SelectionStep, TakesAbortStep, SettlesStep,
       WorksStep, ExitsStep DEF ProcessStep
<1>4. CASE PostAbort
    BY <1>4, PostAbortStep
<1>5. ASSUME NEW auto \in BOOLEAN, PostModel(auto) PROVE GatewayInv'
    BY <1>5, PostModelStep
<1>6. CASE NewConversation
    <2>1. /\ BeginReplace(currentAgent) /\ currentAgent \in Team
          /\ UNCHANGED <<client, currentAgent, chat, incident, works, crossed>>
        BY <1>6 DEF NewConversation, selectionVars, historyVars, GatewayInv, GatewayTypes
    <2>2. PICK a \in Team : a = currentAgent
        BY <2>1
    <2>. QED BY <2>1, <2>2, BeginReplaceStep
<1>7. ASSUME NEW a \in Team, SwitchTo(a) PROVE GatewayInv'
    <2>1. BeginReplace(a) /\ UNCHANGED <<client, currentAgent, chat, incident, works, crossed>>
        BY <1>7 DEF SwitchTo, selectionVars, historyVars
    <2>. QED BY <2>1, BeginReplaceStep
<1>8. ASSUME NEW r \in replacing, Replace(r) \/ ReplaceFails(r) PROVE GatewayInv'
    BY <1>8, ReplaceStep, ReplaceFailsStep
<1>9. CASE UNCHANGED gatewayChatVars
    BY <1>9, NothingAsked DEF gatewayChatVars, selectionVars, boundVars, historyVars
<1>10. \A t \in Turns : Kinds[t] \subseteq AllKinds
    BY Constants
<1>. QED BY <1>1, <1>2, <1>3, <1>4, <1>5, <1>6, <1>7, <1>8, <1>9, <1>10 DEF GatewayChatNext

LEMMA GatewayIsSound == GatewayChatSpec => []GatewayInv
BY GatewayStarts, GatewayStep, PTL DEF GatewayChatSpec

\* However a message is posted, aborted, answered late or continued on another model: the
\* agent does work for it once at most, unless another message shared the process with it.
THEOREM WorksOnce == GatewayChatSpec => []OncePerMessage
<1>1. GatewayInv => OncePerMessage
    BY DEF GatewayInv, Alones, Alone, OncePerMessage
<1>. QED BY <1>1, GatewayIsSound, PTL

\* Where a turn is not asked, it has been asked as often as before.
LEMMA NotAsked ==
    ASSUME GatewayInv, \/ chat' = chat
                       \/ \E t \in Turns : Ended(t)
    PROVE  \A t \in Turns : chat'[t].asks = chat[t].asks
<1>1. chat \in [Turns -> Message]
    BY DEF GatewayInv, GatewayTypes
<1>2. ASSUME NEW t \in Turns, Ended(t) PROVE \A u \in Turns : chat'[u].asks = chat[u].asks
    BY <1>1, <1>2, EndedOf
<1>. QED BY <1>2

LEMMA NotAskedByAgent ==
    ASSUME GatewayInv, NEW p \in Procs, TakesPrompt(p) \/ TakesSteer(p) \/ TakesSelection(p) \/ TakesAbort(p)
                                            \/ Settles(p) \/ Works(p) \/ Exits(p)
    PROVE  \A t \in Turns : chat'[t].asks = chat[t].asks
<1>1. \A t \in Turns : chat[t] \in Message
    BY DEF GatewayInv, GatewayTypes
<1>2. CASE TakesPrompt(p)
    <2>1. chat' = chat \/ Ended(Head(pi[p].stdin).of)
        BY <1>2 DEF TakesPrompt, Listens, Ended
    <2>2. Head(pi[p].stdin) \in Request /\ Head(pi[p].stdin).op = "prompt"
        BY <1>2, TakenOf DEF TakesPrompt, Takes, GatewayInv
    <2>3. PICK t \in Turns : t = Head(pi[p].stdin).of
        BY <2>2 DEF Request
    <2>. QED BY <2>1, <2>3, NotAsked
<1>3. CASE TakesSteer(p) \/ TakesSelection(p)
    BY <1>3 DEF TakesSteer, TakesSelection
<1>4. CASE TakesAbort(p) \/ Settles(p)
    <2>1. chat' = chat \/ \E end \in {"aborted", "stop", "error", "conflict"} : RunEnds(p, end)
        BY <1>4 DEF TakesAbort, Settles
    <2>2. ASSUME NEW end, RunEnds(p, end), NEW t \in Turns PROVE chat'[t].asks = chat[t].asks
        <3>1. chat'[t] = IF Listens(t, p) THEN [chat[t] EXCEPT !.st = "settled", !.seen = EndedBy(@, end)] ELSE chat[t]
            BY <2>2 DEF RunEnds
        <3>. QED BY <1>1, <3>1 DEF Message
    <2>. QED BY <2>1, <2>2
<1>5. CASE Works(p)
    <2>1. SUFFICES ASSUME NEW t \in Turns PROVE chat'[t].asks = chat[t].asks
        OBVIOUS
    <2>2. chat'[t] = IF Listens(t, p) THEN [chat[t] EXCEPT !.seen = Shown(@)] ELSE chat[t]
        BY <1>5 DEF Works
    <2>. QED BY <1>1, <2>2 DEF Message
<1>6. CASE Exits(p)
    <2>1. PICK told : Gone(p, "exited", told, pi)
        BY <1>6 DEF Exits
    <2>. QED BY <2>1, GoneTurns DEF MayReject
<1>. QED BY <1>2, <1>3, <1>4, <1>5, <1>6

\* Only Ask asks; what it asks has not read its policy, or was not aborted when its model
\* was set.
LEMMA AbortStep ==
    ASSUME GatewayInv, [GatewayChatNext]_gatewayChatVars, NEW t \in Turns, chat[t].aborted
    PROVE  chat'[t].asks = chat[t].asks
<1>1. \A u \in Turns : chat[u] \in Message
    BY DEF GatewayInv, GatewayTypes
<1>2. chat[t].st \notin {"unposted", "policy"}
    BY DEF GatewayInv, Marked
<1>3. ASSUME NEW u \in Turns, NEW kind, PostChat(u, kind) PROVE chat'[t].asks = chat[t].asks
    <2>1. u # t /\ chat \in [Turns -> Message]
        BY <1>2, <1>3 DEF PostChat, GatewayInv, GatewayTypes
    <2>. QED BY <1>3, <2>1 DEF PostChat, Ask
<1>4. ASSUME NEW u \in Turns, NEW kind, PostCompletion(u, kind) PROVE chat'[t].asks = chat[t].asks
    <2>1. u # t /\ chat \in [Turns -> Message]
        BY <1>2, <1>4 DEF PostCompletion, GatewayInv, GatewayTypes
    <2>. QED BY <1>4, <2>1 DEF PostCompletion
<1>5. ASSUME NEW u \in Turns, PolicyRead(u) PROVE chat'[t].asks = chat[t].asks
    <2>1. u # t /\ chat \in [Turns -> Message]
        BY <1>2, <1>5 DEF PolicyRead, GatewayInv, GatewayTypes
    <2>2. \E c, processes : Ask(u, client, c, processes)
        BY <1>5 DEF PolicyRead
    <2>. QED BY <2>1, <2>2 DEF Ask
<1>6. ASSUME NEW u \in Turns, Continue(u) PROVE chat'[t].asks = chat[t].asks
    <2>1. CASE Attempts(u)
        <3>1. PICK m : \/ chat' = [chat EXCEPT ![u].st = "switching", ![u].to = m]
                       \/ chat' = [chat EXCEPT ![u].tried = @ \cup {m}]
            BY <1>6, <2>1 DEF Continue
        <3>2. chat \in [Turns -> Message] /\ chat[u] \in Message
            BY DEF GatewayInv, GatewayTypes
        <3>. QED BY <3>1, <3>2 DEF Message
    <2>2. CASE ~Attempts(u)
        BY <1>6, <2>2, NotAsked DEF Continue, Ended
    <2>. QED BY <2>1, <2>2
<1>7. ASSUME NEW u \in Turns, WholeTimesOut(u) \/ ResponseTimesOut(u) \/ Attach(u) PROVE chat'[t].asks = chat[t].asks
    BY <1>7, NotAsked DEF WholeTimesOut, ResponseTimesOut, Attach, Unanswered, Ended
<1>8. ASSUME NEW p \in Procs, TakesModel(p) PROVE chat'[t].asks = chat[t].asks
    <2>1. Head(pi[p].stdin) \in Request /\ Head(pi[p].stdin).op = "model"
        BY <1>8, TakenOf DEF TakesModel, Takes, GatewayInv
    <2>2. PICK u \in Turns : u = Head(pi[p].stdin).of
        BY <2>1 DEF Request
    <2>3. \/ chat' = chat \/ Ended(u)
          \/ ~chat[u].aborted /\ \E c, processes : Ask(u, p, c, processes)
        BY <1>8, <2>2 DEF TakesModel, CancelledMeanwhile, Ended
    <2>4. ASSUME ~chat[u].aborted, NEW c, NEW processes, Ask(u, p, c, processes) PROVE chat'[t].asks = chat[t].asks
        <3>1. u # t /\ chat \in [Turns -> Message]
            BY <2>4 DEF GatewayInv, GatewayTypes
        <3>. QED BY <2>4, <3>1 DEF Ask
    <2>. QED BY <2>3, <2>4, NotAsked
<1>9. CASE PostAbort
    <2>1. chat \in [Turns -> Message] /\ (incident # Unknown => incident \in Turns)
        BY DEF GatewayInv, GatewayTypes
    <2>2. CASE incident = Unknown
        BY <1>9, <2>2 DEF PostAbort
    <2>3. CASE incident # Unknown
        <3>1. chat' = [chat EXCEPT ![incident].aborted = TRUE] /\ chat[incident] \in Message
            BY <1>1, <1>9, <2>1, <2>3 DEF PostAbort
        <3>. QED BY <2>1, <3>1 DEF Message
    <2>. QED BY <2>2, <2>3
<1>10. ASSUME NEW r \in replacing, Replace(r) PROVE chat'[t].asks = chat[t].asks
    <2>1. PICK told, processes : Gone(r.old, "stopped", told, processes)
        BY <1>10 DEF Replace, StopClient
    <2>2. r.old \in Procs
        BY DEF GatewayInv, GatewayTypes
    <2>. QED BY <2>1, <2>2, GoneTurns DEF MayReject
<1>11. CASE \/ \E auto \in BOOLEAN : PostModel(auto)
            \/ NewConversation
            \/ \E a \in Team : SwitchTo(a)
            \/ \E r \in replacing : ReplaceFails(r)
            \/ UNCHANGED gatewayChatVars
    <2>1. chat' = chat
        BY <1>11 DEF PostModel, NewConversation, SwitchTo, ReplaceFails, gatewayChatVars
    <2>. QED BY <2>1
<1>. QED BY <1>3, <1>4, <1>5, <1>6, <1>7, <1>8, <1>9, <1>10, <1>11, NotAskedByAgent
         DEF GatewayChatNext, TurnStep, ProcessStep

\* Once an incident is marked as aborted, its message is not sent again, whether its run or
\* the change of its model was under way.
THEOREM AbortsAreFinal == GatewayChatSpec => AbortFinal
<1>1. GatewayInv /\ [GatewayChatNext]_gatewayChatVars =>
          [\A t \in Turns : chat[t].aborted => chat'[t].asks = chat[t].asks]_gatewayChatVars
    BY AbortStep
<1>. QED BY <1>1, GatewayIsSound, PTL DEF GatewayChatSpec, AbortFinal
=============================================================================
