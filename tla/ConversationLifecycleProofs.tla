--------------------- MODULE ConversationLifecycleProofs ---------------------
(***************************************************************************)
(* What an implementation of ConversationLifecycle inherits, for every set *)
(* of conversations and agents and every capacity.                         *)
(***************************************************************************)
EXTENDS ConversationLifecycle, FiniteSetTheorems, TLAPS

RowsTyped == row \in [Conversations -> Row]

\* Capacity counts a finite set at every point of every behaviour.
HeldBounded ==
  \A a \in Agents : IsFiniteSet(Held(a)) /\ Cardinality(Held(a)) <= Capacity

LifecycleInv == RowsTyped /\ RowConsistent /\ HeldBounded

\* A step on one row leaves every other row alone.
LEMMA OneRowChanges ==
  ASSUME RowsTyped, NEW c \in Conversations, NEW r \in Row, row' = [row EXCEPT ![c] = r]
  PROVE  /\ RowsTyped'
         /\ row'[c] = r
         /\ \A d \in Conversations \ {c} : row'[d] = row[d]
BY DEF RowsTyped

\* Nobody's conversations grow but those of an agent with room for one more.
LEMMA HeldChanges ==
  ASSUME HeldBounded, NEW c \in Conversations,
         \A d \in Conversations \ {c} : row'[d] = row[d],
         \A a \in Agents : row'[c].state = "ACTIVE" /\ row'[c].agent = a
                             => Cardinality(Held(a)) < Capacity
  PROVE  HeldBounded'
<1> SUFFICES ASSUME NEW a \in Agents
             PROVE  IsFiniteSet(Held(a)') /\ Cardinality(Held(a)') <= Capacity
  BY DEF HeldBounded
<1>1. IsFiniteSet(Held(a)) /\ Cardinality(Held(a)) <= Capacity
  BY DEF HeldBounded
<1>2. Cardinality(Held(a)) \in Nat
  BY <1>1, FS_CardinalityType
<1>3. CASE row'[c].state = "ACTIVE" /\ row'[c].agent = a
  <2>1. Held(a)' = Held(a) \cup {c}
    BY <1>3 DEF Held
  <2>2. Cardinality(Held(a)) < Capacity
    BY <1>3
  <2>3. /\ IsFiniteSet(Held(a) \cup {c})
        /\ Cardinality(Held(a) \cup {c}) =
             IF c \in Held(a) THEN Cardinality(Held(a)) ELSE Cardinality(Held(a)) + 1
    BY <1>1, FS_AddElement
  <2>4. Cardinality(Held(a) \cup {c}) <= Capacity
    BY <1>2, <2>2, <2>3, CapacityAssumption
  <2> QED BY <2>1, <2>3, <2>4
<1>4. CASE ~(row'[c].state = "ACTIVE" /\ row'[c].agent = a)
  <2>1. Held(a)' \in SUBSET Held(a)
    BY <1>4 DEF Held
  <2>2. IsFiniteSet(Held(a)') /\ Cardinality(Held(a)') <= Cardinality(Held(a))
    BY <1>1, <2>1, FS_Subset
  <2>3. Cardinality(Held(a)') \in Nat
    BY <2>2, FS_CardinalityType
  <2> QED BY <1>1, <1>2, <2>2, <2>3, CapacityAssumption
<1> QED BY <1>3, <1>4

LEMMA InitLifecycleInv == Init => LifecycleInv
<1> SUFFICES ASSUME Init PROVE LifecycleInv
  OBVIOUS
<1>1. NotStarted \in Row
  BY DEF NotStarted, Row, States
<1>2. NotStarted.state = "NONE" /\ NotStarted.agent = Nobody
  BY DEF NotStarted
<1>3. \A c \in Conversations : row[c] = NotStarted
  BY DEF Init
<1>4. RowsTyped
  BY <1>1 DEF Init, RowsTyped
<1>5. \A c \in Conversations : row[c].state = "NONE" /\ row[c].agent = Nobody
  BY <1>2, <1>3, Zenon
<1>6. RowConsistent
  BY <1>5 DEF RowConsistent
<1>7. ASSUME NEW a \in Agents
      PROVE  IsFiniteSet(Held(a)) /\ Cardinality(Held(a)) <= Capacity
  <2>1. Held(a) = {}
    BY <1>5 DEF Held
  <2> QED BY <2>1, FS_EmptySet, CapacityAssumption
<1> QED BY <1>4, <1>6, <1>7 DEF LifecycleInv, HeldBounded

LEMMA NextLifecycleInv == LifecycleInv /\ [Next]_row => LifecycleInv'
<1> SUFFICES ASSUME LifecycleInv, [Next]_row PROVE LifecycleInv'
  OBVIOUS
<1>0. CASE UNCHANGED row
  BY <1>0 DEF LifecycleInv, RowsTyped, RowConsistent, HeldBounded, Held
<1> SUFFICES ASSUME NEW c \in Conversations, NEW r \in Row,
                    row' = [row EXCEPT ![c] = r],
                    \/ r.state \in {"WAITING"} /\ r.agent = Nobody
                    \/ /\ r.state = "ACTIVE" /\ r.agent \in Agents
                       /\ Cardinality(Held(r.agent)) < Capacity
                    \/ r.state = "ENDED"
             PROVE  LifecycleInv'
  <2>1. ASSUME NEW c \in Conversations, Start(c) PROVE LifecycleInv'
    <3> DEFINE r == [row[c] EXCEPT !.state = "WAITING"]
    <3>1. row[c] \in Row /\ row[c].agent = Nobody
      BY <2>1 DEF LifecycleInv, RowsTyped, RowConsistent, Start
    <3>2. r \in Row /\ r.state = "WAITING" /\ r.agent = Nobody
      BY <3>1 DEF Row, States
    <3>3. row' = [row EXCEPT ![c] = r]
      BY <2>1 DEF Start
    <3> HIDE DEF r
    <3> QED BY <3>2, <3>3
  <2>2. ASSUME NEW c \in Conversations, NEW a \in Agents, Assign(c, a) PROVE LifecycleInv'
    <3> DEFINE r == [row[c] EXCEPT !.state = "ACTIVE", !.agent = a]
    <3>1. row[c] \in Row
      BY DEF LifecycleInv, RowsTyped
    <3>2. r \in Row /\ r.state = "ACTIVE" /\ r.agent = a
      BY <3>1 DEF Row, States
    <3>3. row' = [row EXCEPT ![c] = r] /\ Cardinality(Held(a)) < Capacity
      BY <2>2 DEF Assign
    <3> HIDE DEF r
    <3> QED BY <3>2, <3>3
  <2>3. ASSUME NEW c \in Conversations, Requeue(c) PROVE LifecycleInv'
    <3> DEFINE r == [row[c] EXCEPT !.state = "WAITING", !.agent = Nobody]
    <3>1. row[c] \in Row
      BY DEF LifecycleInv, RowsTyped
    <3>2. r \in Row /\ r.state = "WAITING" /\ r.agent = Nobody
      BY <3>1 DEF Row, States
    <3>3. row' = [row EXCEPT ![c] = r]
      BY <2>3 DEF Requeue
    <3> HIDE DEF r
    <3> QED BY <3>2, <3>3
  <2>4. ASSUME NEW c \in Conversations, NEW why \in EndReasons, End(c, why)
        PROVE  LifecycleInv'
    <3> DEFINE r == [row[c] EXCEPT !.state = "ENDED", !.reason = why]
    <3>1. row[c] \in Row
      BY DEF LifecycleInv, RowsTyped
    <3>2. r \in Row /\ r.state = "ENDED"
      BY <3>1 DEF Row, States
    <3>3. row' = [row EXCEPT ![c] = r]
      BY <2>4 DEF End
    <3> HIDE DEF r
    <3> QED BY <3>2, <3>3
  <2> QED BY <1>0, <2>1, <2>2, <2>3, <2>4 DEF Next
<1>1. RowsTyped' /\ row'[c] = r /\ \A d \in Conversations \ {c} : row'[d] = row[d]
  BY OneRowChanges DEF LifecycleInv
<1>2. RowConsistent'
  BY <1>1, NobodyAssumption DEF LifecycleInv, RowConsistent
<1>3. HeldBounded'
  BY <1>1, HeldChanges DEF LifecycleInv
<1> QED BY <1>1, <1>2, <1>3 DEF LifecycleInv

\* FR-012 follows from the lifecycle alone.
THEOREM LifecycleWithinCapacity == Spec => []WithinCapacity
<1>1. LifecycleInv => WithinCapacity
  BY DEF LifecycleInv, HeldBounded, WithinCapacity
<1> QED BY <1>1, InitLifecycleInv, NextLifecycleInv, PTL DEF Spec

\* An ended conversation never comes back.
THEOREM LifecycleEndsOnce == Spec => EndedIsFinal
<1>1. LifecycleInv /\ [Next]_row =>
        [\A c \in Conversations : row[c].state = "ENDED" => row'[c].state = "ENDED"]_row
  <2> SUFFICES ASSUME RowsTyped, NEW c \in Conversations,
                      \/ Start(c)
                      \/ \E a \in Agents : Assign(c, a)
                      \/ Requeue(c)
                      \/ \E why \in EndReasons : End(c, why)
               PROVE  \A d \in Conversations : row[d].state = "ENDED" => row'[d] = row[d]
    BY DEF Next, LifecycleInv
  <2> QED BY DEF RowsTyped, Start, Assign, Requeue, End, Open
<1> QED BY <1>1, InitLifecycleInv, NextLifecycleInv, PTL DEF Spec, EndedIsFinal
=============================================================================
