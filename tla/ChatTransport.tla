----------------------------- MODULE ChatTransport -----------------------------
(***************************************************************************)
(* A chat transport: the process `piren telegram` or `piren discord`.      *)
(*                                                                         *)
(* Telegram is polled with an offset, which also tells its server what     *)
(* need not be sent again.  Discord sends over one socket, which is        *)
(* connected again when it drops; what is sent meanwhile is lost.  Both    *)
(* handle one message at a time, in the order of arrival.  A prompt goes   *)
(* to the chat's agent process, which is started by the first one, and is  *)
(* waited for with a timer; if the provider fails, the next model is       *)
(* tried.  The agent works on its own: it may settle after the timer, or   *)
(* exit.                                                                   *)
(*                                                                         *)
(* Sources: telegram-transport.ts, discord-transport.ts,                   *)
(* transport-session-manager.ts, gateway-rpc.ts,                           *)
(* model-fallback-transport.ts, model-fallback-rotation.ts.  The agent     *)
(* process and the two chat services are external.                         *)
(***************************************************************************)
EXTENDS Naturals, Sequences

CONSTANTS
    Updates,        \* 1..n, the messages of the allowed chats in their order
    What,           \* [Updates -> {"prompt", "abort", "switch"}]
    Chat,           \* [Updates -> Chats]
    Chats,
    Services,       \* which of the two transports are started: "telegram", "discord"
    Agents,
    DefaultAgent,
    To,             \* [Updates -> Agents], the agent a "switch" names
    Fallbacks,      \* fallback models after the primary; 0: no policy
    MaxClients,     \* bound on agent processes
    MaxExits,       \* bound on agents that exit by themselves or do not start
    MaxDrops,       \* bound on failures of the Discord connection
    MaxCrashes      \* bound on crashes of the Telegram process

Clients == 1..MaxClients
Gens    == 1..2 * MaxDrops + 1

ASSUME ChatAssumption ==
    /\ Updates \subseteq Nat \ {0}
    /\ What \in [Updates -> {"prompt", "abort", "switch"}]
    /\ Chat \in [Updates -> Chats] /\ To \in [Updates -> Agents]
    /\ Services \subseteq {"telegram", "discord"} /\ DefaultAgent \in Agents
    /\ {Fallbacks, MaxClients, MaxExits, MaxDrops, MaxCrashes} \subseteq Nat

VARIABLES
    service,    \* the transport that was started
    up,         \* up, stopping, stopped
    arrived,    \* the last message sent to the chat service
    handled,    \* messages whose handler has returned or thrown
    queue,      \* messages in the process, not yet begun: the batch, or the chain
    offset,     \* Telegram: the offset of the next poll
    confirmed,  \* Telegram's server: messages it does not send again
    crashes

\* The Discord connection.
VARIABLES
    gen,        \* generation
    opening,    \* connections being opened, by generation
    socket,     \* the generation of the socket in use, or 0
    ready,      \* identified, with a heartbeat
    sockets,    \* sockets that are open
    timer       \* a reconnect is due

\* The handler, and the sessions.
VARIABLES
    at,         \* where the handler is
    now,        \* the message it handles, or 0
    using,      \* the client it uses, or 0
    tried,      \* attemptedModelIds
    said,       \* said[u]: the prompt whose end answered u, or "none", "failed", "timeout"
    session,    \* sessions: the client of each chat, or 0
    life,       \* life[c]: none, starting, live, exited, stopped
    agentOf,    \* agentOf[c]: the agent it runs
    flagged,    \* abortRequested
    exits

\* The agent processes and their pipes.
VARIABLES
    cmd,        \* a prompt in stdin, or 0
    turn,       \* the prompt the agent works on, or 0
    out         \* stdout, as a sequence of <<what, prompt>>

feedVars    == <<arrived, offset, confirmed, crashes>>
connVars    == <<gen, opening, socket, ready, sockets, timer>>
tableVars   == <<session, life, agentOf>>
pipeVars    == <<cmd, turn, out>>
vars == <<service, up, feedVars, queue, handled, connVars, at, now, using, tried, said,
          tableVars, flagged, exits, pipeVars>>

-----------------------------------------------------------------------------

Init ==
    /\ service \in Services /\ up = "up"
    /\ arrived = 0 /\ handled = {} /\ queue = <<>>
    /\ offset = 0 /\ confirmed = 0 /\ crashes = 0
    /\ gen = 1 /\ opening = IF service = "discord" THEN {1} ELSE {}
    /\ socket = 0 /\ ready = FALSE /\ sockets = {} /\ timer = FALSE
    /\ at = "idle" /\ now = 0 /\ using = 0 /\ tried = 0
    /\ said = [u \in Updates |-> <<"none", 0>>]
    /\ session = [k \in Chats |-> 0]
    /\ life = [c \in Clients |-> "none"] /\ agentOf = [c \in Clients |-> DefaultAgent]
    /\ flagged = [c \in Clients |-> FALSE] /\ exits = 0
    /\ cmd = [c \in Clients |-> 0] /\ turn = [c \in Clients |-> 0]
    /\ out = [c \in Clients |-> <<>>]

Unseen(from) == [i \in 1..(arrived - from) |-> from + i]

-----------------------------------------------------------------------------
(* Where messages come from.                                                *)

\* A user writes.  Discord sends it now or never, and a process that stops
\* ignores it; Telegram keeps it.
Arrive ==
    /\ arrived + 1 \in Updates
    /\ arrived' = arrived + 1
    /\ queue' = IF service = "discord" /\ up = "up" /\ ready THEN Append(queue, arrived + 1)
                                                              ELSE queue
    /\ UNCHANGED <<service, up, offset, confirmed, crashes, handled, connVars, at, now, using,
                   tried, said, tableVars, flagged, exits, pipeVars>>

\* getUpdates, when the last batch is done: the offset confirms what is before it.
Poll ==
    /\ service = "telegram" /\ up = "up" /\ at = "idle" /\ queue = <<>>
    /\ LET from == IF offset = 0 THEN confirmed ELSE offset - 1
       IN  confirmed' = from /\ queue' = Unseen(from)
    /\ UNCHANGED <<service, up, arrived, offset, crashes, handled, connVars, at, now, using,
                   tried, said, tableVars, flagged, exits, pipeVars>>

\* The process dies and is started again; its agents see their pipes closed.
Crash ==
    /\ service = "telegram" /\ up = "up" /\ crashes < MaxCrashes
    /\ crashes' = crashes + 1
    /\ queue' = <<>> /\ offset' = 0 /\ at' = "idle" /\ now' = 0 /\ using' = 0 /\ tried' = 0
    /\ session' = [k \in Chats |-> 0]
    /\ life' = [c \in Clients |-> IF life[c] = "none" THEN "none" ELSE "stopped"]
    /\ cmd' = [c \in Clients |-> 0] /\ turn' = [c \in Clients |-> 0]
    /\ out' = [c \in Clients |-> <<>>]
    /\ UNCHANGED <<service, up, arrived, confirmed, handled, connVars, said, agentOf, flagged,
                   exits>>

-----------------------------------------------------------------------------
(* The Discord connection.                                                  *)

othersOfConn == <<service, up, feedVars, queue, handled, at, now, using, tried, said, tableVars,
                  flagged, exits, pipeVars>>

\* connect.
Connect ==
    /\ gen' = gen + 1 /\ opening' = opening \cup {gen + 1}
    /\ ready' = FALSE

\* The socket opens: too late if the transport was closed or connected anew.
Opened(g) ==
    /\ g \in opening /\ opening' = opening \ {g}
    /\ IF up = "up" /\ g = gen
       THEN socket' = g /\ sockets' = sockets \cup {g}
       ELSE UNCHANGED <<socket, sockets>>
    /\ UNCHANGED <<gen, ready, timer, othersOfConn>>

\* At most one reconnect is due (scheduleReconnect).
Schedule == timer' = (up = "up")

OpenFails(g) ==
    /\ g \in opening /\ opening' = opening \ {g} /\ gen <= 2 * MaxDrops - 1
    /\ Schedule
    /\ UNCHANGED <<gen, socket, ready, sockets, othersOfConn>>

\* HELLO: heartbeat and identify.
Hello ==
    /\ socket # 0 /\ ~ready /\ up = "up"
    /\ ready' = TRUE
    /\ UNCHANGED <<gen, opening, socket, sockets, timer, othersOfConn>>

\* Mutant: the reconnect is left to the next failure.
DropOnly ==
    /\ socket # 0 /\ up = "up" /\ gen <= 2 * MaxDrops - 1
    /\ gen' = gen + 1 /\ ready' = FALSE
    /\ socket' = 0 /\ sockets' = sockets \ {socket}
    /\ UNCHANGED <<opening, timer, othersOfConn>>

\* The socket closes or fails (handleDisconnect); while the transport is closing
\* that is left to its teardown.
Drop ==
    /\ socket # 0 /\ up = "up" /\ gen <= 2 * MaxDrops - 1
    /\ gen' = gen + 1 /\ ready' = FALSE
    /\ socket' = 0 /\ sockets' = sockets \ {socket}
    /\ Schedule
    /\ UNCHANGED <<opening, othersOfConn>>

Reconnect ==
    /\ timer /\ timer' = FALSE
    /\ Connect
    /\ UNCHANGED <<socket, sockets, othersOfConn>>

-----------------------------------------------------------------------------
(* One message at a time.                                                   *)

\* Mutant: the offset moves past the whole batch.
BeginBatch ==
    /\ at = "idle" /\ queue # <<>>
    /\ now' = Head(queue) /\ queue' = Tail(queue)
    /\ offset' = IF service = "telegram" THEN queue[Len(queue)] + 1 ELSE offset
    /\ at' = What[Head(queue)] /\ tried' = 0
    /\ UNCHANGED <<service, up, arrived, confirmed, crashes, handled, connVars, using, said,
                   tableVars, flagged, exits, pipeVars>>

\* The next message.  Telegram's offset moves on before the handler runs.
Begin ==
    /\ at = "idle" /\ queue # <<>>
    /\ now' = Head(queue) /\ queue' = Tail(queue)
    /\ offset' = IF service = "telegram" THEN Head(queue) + 1 ELSE offset
    /\ at' = What[Head(queue)] /\ tried' = 0
    /\ UNCHANGED <<service, up, arrived, confirmed, crashes, handled, connVars, using, said,
                   tableVars, flagged, exits, pipeVars>>

\* The handler returns, or it throws: then Telegram drops the rest of the batch,
\* to poll it again; Discord's chain goes on.
Return == /\ at' = "idle" /\ now' = 0 /\ using' = 0 /\ tried' = 0
          /\ handled' = handled \cup {now} /\ UNCHANGED queue

Throw == /\ at' = "idle" /\ now' = 0 /\ using' = 0 /\ tried' = 0
         /\ handled' = handled \cup {now}
         /\ queue' = IF service = "telegram" THEN <<>> ELSE queue

Say(what, p) == said' = [said EXCEPT ![now] = <<what, p>>]

\* A client is built and its process spawned.
Spawn(a) ==
    \E c \in Clients :
        /\ life[c] = "none" /\ \A b \in Clients : life[b] = "none" => c <= b
        /\ life' = [life EXCEPT ![c] = "starting"]
        /\ agentOf' = [agentOf EXCEPT ![c] = a]
        /\ using' = c

\* getSession: the chat's client as it is, alive or not; or a new one.
GetSession ==
    /\ at = "prompt"
    /\ \/ /\ session[Chat[now]] # 0
          /\ using' = session[Chat[now]] /\ at' = "prompting"
          /\ flagged' = [flagged EXCEPT ![session[Chat[now]]] = FALSE]
          /\ UNCHANGED tableVars
       \/ /\ session[Chat[now]] = 0
          /\ Spawn(DefaultAgent) /\ at' = "starting"
          /\ UNCHANGED <<session, flagged>>
    /\ UNCHANGED <<service, up, feedVars, queue, handled, connVars, now, tried, said, exits,
                   pipeVars>>

\* switchAgent: nothing to do for the agent the chat has.
SwitchAgent ==
    /\ at = "switch"
    /\ LET old  == session[Chat[now]]
           same == old # 0 /\ agentOf[old] = To[now]
       IN  \/ /\ same
              /\ Return /\ UNCHANGED <<tableVars>>
           \/ /\ ~same
              /\ Spawn(To[now]) /\ at' = "starting"
              /\ UNCHANGED <<session, now, tried, handled, queue>>
    /\ UNCHANGED <<service, up, feedVars, connVars, said, flagged, exits, pipeVars>>

\* The process runs.  The session is replaced, and a client it had is stopped.
Started ==
    /\ at = "starting"
    /\ session' = [session EXCEPT ![Chat[now]] = using]
    /\ LET old == session[Chat[now]]
       IN  /\ life' = [life EXCEPT ![using] = "live"]
           /\ IF What[now] = "prompt"
              THEN at' = "prompting" /\ UNCHANGED using
              ELSE at' = "replacing" /\ using' = old
    /\ UNCHANGED <<service, up, feedVars, queue, handled, connVars, now, tried, said, agentOf,
                   flagged, exits, pipeVars>>

StartFails ==
    /\ at = "starting" /\ exits < MaxExits /\ exits' = exits + 1
    /\ life' = [life EXCEPT ![using] = "stopped"]
    /\ Say("failed", 0) /\ Throw
    /\ UNCHANGED <<service, up, feedVars, connVars, session, agentOf, flagged, pipeVars>>

\* stop: the process is terminated, and what it held is forgotten.
Stopped(cs) ==
    /\ life' = [c \in Clients |-> IF c \in cs THEN "stopped" ELSE life[c]]
    /\ cmd'  = [c \in Clients |-> IF c \in cs THEN 0 ELSE cmd[c]]
    /\ turn' = [c \in Clients |-> IF c \in cs THEN 0 ELSE turn[c]]
    /\ out'  = [c \in Clients |-> IF c \in cs THEN <<>> ELSE out[c]]

\* Mutant: the client the chat had is left alone.
ReplacedOnly ==
    /\ at = "replacing"
    /\ Return
    /\ UNCHANGED <<service, up, feedVars, connVars, said, tableVars, flagged, exits, pipeVars>>

Replaced ==
    /\ at = "replacing"
    /\ Stopped({using} \ {0}) /\ Return
    /\ UNCHANGED <<service, up, feedVars, connVars, said, session, agentOf, flagged, exits>>

\* /abort: a flag, and a request to the agent, which settles if it works.
Abort ==
    /\ at = "abort"
    /\ LET c == session[Chat[now]]
       IN  \/ /\ c = 0 /\ Return /\ UNCHANGED <<flagged, pipeVars>>
           \/ /\ c # 0 /\ flagged' = [flagged EXCEPT ![c] = TRUE]
              /\ IF life[c] = "live"
                 THEN /\ Return /\ turn' = [turn EXCEPT ![c] = 0]
                      /\ out' = [out EXCEPT ![c] = IF turn[c] = 0 THEN @ ELSE Append(@, <<"settled", turn[c]>>)]
                      /\ UNCHANGED cmd
                 ELSE Throw /\ UNCHANGED pipeVars
    /\ UNCHANGED <<service, up, feedVars, connVars, said, tableVars, exits>>

\* promptAndWait: a client whose process has exited refuses.
Prompt ==
    /\ at = "prompting" /\ cmd[using] = 0
    /\ IF life[using] = "live"
       THEN /\ cmd' = [cmd EXCEPT ![using] = now] /\ at' = "waiting"
            /\ UNCHANGED <<now, using, tried, handled, queue, said>>
       ELSE Say("failed", 0) /\ Throw /\ UNCHANGED cmd
    /\ UNCHANGED <<service, up, feedVars, connVars, tableVars, flagged, exits, turn, out>>

\* The next line of the agent, to the prompt that waits: the first agent_settled
\* after it was sent ends it, whichever prompt that was the end of.
Line ==
    /\ at = "waiting" /\ out[using] # <<>>
    /\ out' = [out EXCEPT ![using] = Tail(@)]
    /\ LET what == Head(out[using])[1]
           p    == Head(out[using])[2]
       IN  \/ /\ what = "settled"
              /\ Say("answer", p) /\ Return
           \/ /\ what = "settled" /\ ~flagged[using] /\ Fallbacks > 0
              /\ IF tried < Fallbacks
                 THEN at' = "modelling" /\ UNCHANGED <<now, using, tried, handled, queue, said>>
                 ELSE Say("failed", 0) /\ Return
           \/ /\ what = "rejected" /\ p = now
              /\ Say("failed", 0) /\ Throw
    /\ UNCHANGED <<service, up, feedVars, connVars, tableVars, flagged, exits, cmd, turn>>

\* A line nobody waits for.
Unread(c) ==
    /\ out[c] # <<>> /\ ~(at = "waiting" /\ using = c)
    /\ out' = [out EXCEPT ![c] = Tail(@)]
    /\ UNCHANGED <<service, up, feedVars, queue, handled, connVars, at, now, using, tried, said,
                   tableVars, flagged, exits, cmd, turn>>

\* set_model, and the prompt again; a model that cannot be set is passed over.
SetModel ==
    /\ at = "modelling"
    /\ \/ tried' = tried + 1 /\ at' = "prompting"
          /\ UNCHANGED <<now, using, handled, queue, said>>
       \/ /\ tried + 1 < Fallbacks /\ tried' = tried + 1
          /\ UNCHANGED <<at, now, using, handled, queue, said>>
       \/ tried + 1 = Fallbacks /\ Say("failed", 0) /\ Return
    /\ UNCHANGED <<service, up, feedVars, connVars, tableVars, flagged, exits, pipeVars>>

\* The 30 s of promptAndWait.
Timeout ==
    /\ at = "waiting"
    /\ Say("timeout", 0) /\ Throw
    /\ UNCHANGED <<service, up, feedVars, connVars, tableVars, flagged, exits, pipeVars>>

-----------------------------------------------------------------------------
(* The agent process.                                                       *)

othersOfPi == <<service, up, feedVars, connVars, tried, session, agentOf, flagged>>

\* It takes a prompt, or rejects it while it works.
PiReads(c) ==
    /\ life[c] = "live" /\ cmd[c] # 0 /\ cmd' = [cmd EXCEPT ![c] = 0]
    /\ IF turn[c] = 0
       THEN turn' = [turn EXCEPT ![c] = cmd[c]] /\ UNCHANGED out
       ELSE out' = [out EXCEPT ![c] = Append(@, <<"rejected", cmd[c]>>)] /\ UNCHANGED turn
    /\ UNCHANGED <<othersOfPi, queue, handled, at, now, using, said, life, exits>>

PiSettles(c) ==
    /\ life[c] = "live" /\ turn[c] # 0 /\ turn' = [turn EXCEPT ![c] = 0]
    /\ out' = [out EXCEPT ![c] = Append(@, <<"settled", turn[c]>>)]
    /\ UNCHANGED <<othersOfPi, queue, handled, at, now, using, said, life, exits, cmd>>

\* It exits.  Only a prompt that is not yet acknowledged is rejected; a prompt at
\* work is left to its timer.
PiExits(c) ==
    /\ life[c] = "live" /\ exits < MaxExits /\ exits' = exits + 1
    /\ life' = [life EXCEPT ![c] = "exited"]
    /\ cmd' = [cmd EXCEPT ![c] = 0] /\ turn' = [turn EXCEPT ![c] = 0]
    /\ UNCHANGED <<service, up, feedVars, connVars, session, agentOf, flagged, out>>
    /\ IF at = "waiting" /\ using = c /\ cmd[c] # 0
       THEN Say("failed", 0) /\ Throw
       ELSE UNCHANGED <<tried, queue, handled, at, now, using, said>>

-----------------------------------------------------------------------------
(* The end.                                                                 *)

\* SIGTERM: the Discord transport takes no more and drops its reconnect.
Stop ==
    /\ up = "up" /\ up' = "stopping"
    /\ timer' = FALSE /\ ready' = FALSE
    /\ UNCHANGED <<service, feedVars, queue, handled, gen, opening, socket, sockets, at, now,
                   using, tried, said, tableVars, flagged, exits, pipeVars>>

\* What is in the process is handled first; then the socket is closed, and with
\* closeAll every session.
Teardown ==
    /\ up = "stopping" /\ at = "idle" /\ queue = <<>>
    /\ up' = "stopped"
    /\ socket' = 0 /\ sockets' = sockets \ {socket}
    /\ session' = [k \in Chats |-> 0]
    /\ Stopped({session[k] : k \in Chats} \ {0})
    /\ UNCHANGED <<service, feedVars, queue, handled, gen, opening, ready, timer, at, now, using,
                   tried, said, agentOf, flagged, exits>>

Handler ==
    \/ Begin \/ GetSession \/ SwitchAgent \/ Started \/ Replaced \/ Abort \/ Prompt \/ Line
    \/ SetModel \/ Teardown

Connection == \/ \E g \in Gens : Opened(g)
              \/ Hello \/ Reconnect

Next ==
    \/ Arrive \/ Poll \/ Crash
    \/ Connection \/ (\E g \in Gens : OpenFails(g)) \/ Drop
    \/ Handler \/ StartFails \/ Timeout
    \/ \E c \in Clients : Unread(c) \/ PiReads(c) \/ PiSettles(c) \/ PiExits(c)
    \/ Stop

Spec == Init /\ [][Next]_vars

\* The process runs; its timers fire; an agent reads what it is sent.  Whether it
\* ever settles is its own affair.
FairSpec ==
    /\ Spec
    /\ WF_vars(Handler) /\ WF_vars(Timeout) /\ WF_vars(Connection) /\ WF_vars(Poll)
    /\ WF_vars(\E c \in Clients : PiReads(c))

-----------------------------------------------------------------------------
(* Properties.                                                              *)

TypeOK ==
    /\ service \in Services /\ up \in {"up", "stopping", "stopped"}
    /\ arrived \in Updates \cup {0} /\ handled \subseteq Updates
    /\ queue \in Seq(Updates) /\ offset \in Nat /\ confirmed \in Updates \cup {0}
    /\ gen \in Gens /\ opening \subseteq Gens /\ socket \in Gens \cup {0}
    /\ ready \in BOOLEAN /\ timer \in BOOLEAN /\ sockets \subseteq Gens
    /\ at \in {"idle", "prompt", "abort", "switch", "starting", "replacing", "prompting",
               "waiting", "modelling"}
    /\ now \in Updates \cup {0} /\ using \in Clients \cup {0} /\ tried \in 0..Fallbacks
    /\ session \in [Chats -> Clients \cup {0}]
    /\ life \in [Clients -> {"none", "starting", "live", "exited", "stopped"}]
    /\ agentOf \in [Clients -> Agents] /\ flagged \in [Clients -> BOOLEAN]
    /\ cmd \in [Clients -> Updates \cup {0}] /\ turn \in [Clients -> Updates \cup {0}]
    /\ out \in [Clients -> Seq({"settled", "rejected"} \X Updates)]
    /\ said \in [Updates -> {"none", "answer", "failed", "timeout"} \X (Updates \cup {0})]
    /\ crashes \in 0..MaxCrashes /\ exits \in 0..MaxExits

\* No agent process and no socket is left behind: a running agent belongs to a
\* chat or is about to be stopped, the open socket is the one in use, and a
\* transport that has stopped has none, whatever was starting or connecting when
\* it was told to.
NothingLeftBehind ==
    /\ \A c \in Clients : life[c] = "live" =>
           (\E k \in Chats : session[k] = c) \/ (at = "replacing" /\ using = c)
    /\ sockets \subseteq {socket} \ {0}
    /\ up = "stopped" => sockets = {} /\ \A c \in Clients : life[c] # "live"

\* What Telegram is told not to send again has been handled, though the process
\* may crash, or a handler throw, in the middle of a batch.
NoUpdateSkipped ==
    service = "telegram" => \A u \in Updates : u <= confirmed => u \in handled

\* The transport comes back to rest: what it was sent is handled, and all that
\* Telegram keeps for it; Discord is connected again after its failures; and a
\* transport told to stop stops.
ComesToRest ==
    []<>( /\ at = "idle" /\ queue = <<>>
          /\ \/ up = "stopped"
             \/ /\ up = "up" /\ (service = "discord" => ready)
                /\ service = "telegram" => 1..arrived \subseteq handled )
=============================================================================
