------------------------ MODULE MCConversationBroker ------------------------
(* Instances of ConversationBroker: two agents, a mention of one of them and *)
(* a plain start of the other.  There are runs enough for every request and  *)
(* every handoff.                                                            *)
EXTENDS ConversationBroker

CONSTANTS a1, a2, mention, begin

Request == [q \in Requests |-> IF q = mention THEN a1 ELSE a2]
Mention == [q \in Requests |-> q = mention]
OneFallback == [a \in Agents |-> IF a = a2 THEN 1 ELSE 0]
RunsEnough == Cardinality(Requests) + MaxHandoffs
=============================================================================
