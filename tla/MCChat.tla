-------------------------------- MODULE MCChat --------------------------------
(***************************************************************************)
(* The two ways to chat with an agent, each explored on its own: a chat    *)
(* transport with one chat and two agents (a prompt, an abort, the same    *)
(* change of the agent twice, and another prompt), and the chat routes of  *)
(* the gateway with two messages.                                          *)
(***************************************************************************)
EXTENDS ChatTransport, GatewayChat

CONSTANTS k1, a1, a2, m1, m2, f1

Mixed == [u \in Updates |-> CASE u = 2 -> "abort" [] u \in {3, 4} -> "switch" [] OTHER -> "prompt"]
OneChat == [u \in Updates |-> k1]
Second == [u \in Updates |-> a2]

MCKinds == [t \in Turns |-> IF t = m1 THEN {"prompt"} ELSE {"whole", "steer"}]
MCCandidates == <<f1>>

VARIABLE way

chatVars == <<vars, gatewayChatVars, way>>

ChatInit == way \in {"transport", "gateway"} /\ Init /\ GatewayChatInit
                /\ (way = "gateway" => service = "telegram")

Transport(A) == way = "transport" /\ A /\ UNCHANGED <<gatewayChatVars, way>>
Gateway(A)   == way = "gateway" /\ A /\ UNCHANGED <<vars, way>>

ChatNext ==
    /\ UNCHANGED way
    /\ \/ way = "transport" /\ Next /\ UNCHANGED gatewayChatVars
       \/ way = "gateway" /\ GatewayChatNext /\ UNCHANGED vars

(* What FairSpec asks of the transports, and that the chat goes on.         *)
ChatSpec ==
    /\ ChatInit /\ [][ChatNext]_chatVars
    /\ WF_chatVars(Transport(Handler)) /\ WF_chatVars(Transport(Timeout))
    /\ WF_chatVars(Transport(Connection)) /\ WF_chatVars(Transport(Poll))
    /\ WF_chatVars(Transport(\E c \in Clients : PiReads(c)))
    /\ WF_chatVars(Gateway(ChatStep))

ChatRaces == ChatInit /\ [][ChatNext]_chatVars
=============================================================================
