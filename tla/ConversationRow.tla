--------------------------- MODULE ConversationRow ---------------------------
(***************************************************************************)
(* The conversation table: the columns state, assigned_to and end_reason   *)
(* of apps/chat/models.py, and who holds what according to it.             *)
(***************************************************************************)
EXTENDS Naturals, FiniteSets

CONSTANTS Conversations,  \* the conversations that may be started
          Agents,         \* accounts with a role that takes conversations
          Nobody,         \* assigned_to IS NULL
          Capacity        \* CHAT_DEFAULT_AGENT_CAPACITY

ASSUME CapacityAssumption == Capacity \in Nat \ {0}
ASSUME NobodyAssumption == Nobody \notin Agents

VARIABLE row

\* RESOLVED and ENDED_BY_AGENT are one reason here: the agent clicked end.
EndReasons == {"ENDED_BY_AGENT", "ENDED_BY_VISITOR", "VISITOR_DISCONNECTED",
               "IDLE_TIMEOUT", "DESK_CLOSED"}

States == {"NONE", "WAITING", "ACTIVE", "ENDED"}

Row == [state: States, agent: Agents \cup {Nobody}, reason: EndReasons \cup {""}]

\* No such row yet.
NotStarted == [state |-> "NONE", agent |-> Nobody, reason |-> ""]

Open(c) == row[c].state \in {"WAITING", "ACTIVE"}

Held(a) == {c \in Conversations : row[c].state = "ACTIVE" /\ row[c].agent = a}
-----------------------------------------------------------------------------
(* What is asked of the rows. *)

\* A row is ACTIVE only with an agent on it, and WAITING only without one, at
\* every point of every handler: assign and requeue write the two columns together.
RowConsistent ==
  \A c \in Conversations :
    /\ row[c].state = "ACTIVE" => row[c].agent # Nobody
    /\ row[c].state \in {"NONE", "WAITING"} => row[c].agent = Nobody

\* The row lock's guarantee (assignment.py): a conversation on one agent never
\* passes to another except by being requeued first, however assignments interleave.
NeverStolen ==
  [][\A c \in Conversations :
       row[c].agent # Nobody => row'[c].agent \in {row[c].agent, Nobody}]_row

\* FR-012: nobody holds more conversations than their capacity.
WithinCapacity == \A a \in Agents : Cardinality(Held(a)) <= Capacity

\* Two endings of one conversation: the first keeps its reason.
FirstEndingStands ==
  [][\A c \in Conversations :
       row[c].state = "ENDED" /\ row'[c].state = "ENDED" => row'[c] = row[c]]_row

\* ENDED is the last state of a conversation.
EndedIsFinal ==
  [][\A c \in Conversations : row[c].state = "ENDED" => row'[c].state = "ENDED"]_row
=============================================================================
