------------------------ MODULE ConversationLifecycle ------------------------
(***************************************************************************)
(* What live chat promises of its conversations, seen from the database    *)
(* row alone: a conversation waits, is attached to one agent with room to  *)
(* spare, may go back to waiting when that agent is lost, and ends once,   *)
(* for one reason, with nothing happening to it afterwards.                *)
(*                                                                         *)
(* This is the abstract specification of the chat desk.  The detailed one, *)
(* in which every handler is a sequence of Redis and database calls, is    *)
(* ChatDesk.                                                               *)
(***************************************************************************)
EXTENDS ConversationRow

Init == row = [c \in Conversations |-> NotStarted]

Start(c) ==
  /\ row[c].state = "NONE"
  /\ row' = [row EXCEPT ![c].state = "WAITING"]

Assign(c, a) ==
  /\ row[c].state = "WAITING"
  /\ Cardinality(Held(a)) < Capacity
  /\ row' = [row EXCEPT ![c].state = "ACTIVE", ![c].agent = a]

Requeue(c) ==
  /\ row[c].state = "ACTIVE"
  /\ row' = [row EXCEPT ![c].state = "WAITING", ![c].agent = Nobody]

End(c, why) ==
  /\ Open(c)
  /\ row' = [row EXCEPT ![c].state = "ENDED", ![c].reason = why]

Next ==
  \E c \in Conversations :
    \/ Start(c)
    \/ \E a \in Agents : Assign(c, a)
    \/ Requeue(c)
    \/ \E why \in EndReasons : End(c, why)

Spec == Init /\ [][Next]_row
=============================================================================
