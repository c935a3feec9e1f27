-------------------------- MODULE ConversationRecord --------------------------
(***************************************************************************)
(* What a conversation promises to keep.  It has members, who never leave, *)
(* a status, a title, and a history to which entries are added one at a    *)
(* time and from which nothing is ever taken.  A step changes one of these *)
(* and nothing else, and what continues the work is entered only while the *)
(* conversation is open.                                                   *)
(***************************************************************************)
EXTENDS Naturals

CONSTANTS Agents, Titles, Statuses, Slots, Blank, Open, IsWork(_)

VARIABLES members, status, title, history

record == <<members, status, title, history>>

Init ==
    /\ members \subseteq Agents
    /\ status \in Statuses
    /\ title \in Titles
    /\ \E n \in Slots : \A s \in Slots : (history[s] = Blank) <=> (s > n)

Join ==
    /\ members \subseteq members'
    /\ members' \subseteq Agents
    /\ UNCHANGED <<status, title, history>>

Turn ==
    /\ status' \in Statuses
    /\ UNCHANGED <<members, title, history>>

Retitle ==
    /\ title' \in Titles
    /\ UNCHANGED <<members, status, history>>

\* The new entry goes to the first blank slot.
Enter ==
    /\ \E s \in Slots :
          /\ \A r \in Slots : (history[r] = Blank) <=> (r >= s)
          /\ history'[s] # Blank
          /\ IsWork(history'[s]) => status = Open
          /\ history' = [history EXCEPT ![s] = history'[s]]
    /\ UNCHANGED <<members, status, title>>

Next == Join \/ Turn \/ Retitle \/ Enter

Spec == Init /\ [][Next]_record
=============================================================================
