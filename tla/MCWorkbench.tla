----------------------------- MODULE MCWorkbench -----------------------------
(***************************************************************************)
(* The two views of the Workbench and the routes behind its messages, each *)
(* explored on its own: which conversation is shown and with which facts,  *)
(* the timeline of the conversation shown, and the gateway's conversation  *)
(* routes.                                                                 *)
(***************************************************************************)
EXTENDS WorkbenchSelection, WorkbenchTimeline, ConversationRoutes, TLC

CONSTANTS c1, c2, a1, a2, q1, q2, r1, r2

MCFounder == [c \in Conversations |-> a1]

Line(tokens) == [quote |-> FALSE, fence |-> NoFence, bare |-> FALSE, tokens |-> tokens]
Fence(f) == [Line(<<>>) EXCEPT !.fence = f, !.bare = TRUE]
Name(a) == [is |-> "mention", who |-> a]
Ticks(n) == [is |-> "ticks", n |-> n]

\* a2 alone: a1 is quoted, in a block of code that three ticks do not close, or in
\* a code span.
ToOne ==
    <<[Line(<<Name(a1)>>) EXCEPT !.quote = TRUE],
      Fence(<<"tick", 4>>), Line(<<Name(a1)>>), Fence(<<"tick", 3>>), Line(<<Name(a1)>>), Fence(<<"tick", 4>>),
      Line(<<Ticks(2), Name(a1), Ticks(1)>>), Line(<<Ticks(2), Name(a2)>>)>>

\* Both agents, one of them twice; nobody; an agent of another machine; and one.
MCTexts ==
    { <<Line(<<Name(a1), Name(a2), Name(a1)>>)>>,
      <<Line(<<[is |-> "word"]>>)>>,
      <<Line(<<Name(Foreign)>>)>>,
      ToOne }

MCWants ==
    {[op |-> "message", text |-> t] : t \in MCTexts}
    \cup {[op |-> "create", text |-> ToOne]}
    \cup {[op |-> "start", who |-> a1], [op |-> "attach"]}
    \cup {[op |-> "archive"], [op |-> "reopen"], [op |-> "rename", title |-> "new"]}
    \cup {[op |-> "budget", expected |-> n] : n \in 0..1}
    \cup {[op |-> "start_peer", peers |-> p] : p \in {<<a1, a2>>, <<a1, a1>>}}

MCSymmetry == Permutations(Posts) \cup Permutations(Conversations)

VARIABLE part

workbenchVars == <<vars, timelineVars, routeVars, part>>

WorkbenchInit ==
    /\ part \in {"selection", "timeline", "routes"}
    /\ Init /\ TimelineInit /\ RoutesInit
    /\ a1 \in room[Earlier].members /\ (part # "routes" => Foreign \notin room[Earlier].members)

WorkbenchNext ==
    /\ UNCHANGED part
    /\ \/ part = "selection" /\ Next /\ UNCHANGED <<timelineVars, routeVars>>
       \/ part = "timeline" /\ TimelineNext /\ UNCHANGED <<vars, routeVars>>
       \/ part = "routes" /\ RoutesNext /\ UNCHANGED <<vars, timelineVars>>

WorkbenchSpec == WorkbenchInit /\ [][WorkbenchNext]_workbenchVars
=============================================================================
