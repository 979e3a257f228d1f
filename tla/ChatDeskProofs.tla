--------------------------- MODULE ChatDeskProofs ---------------------------
(***************************************************************************)
(* The chat desk, for every number of conversations, agents and workers    *)
(* and every capacity: its types, the consistency of its rows and the      *)
(* guarantee of the row lock, whatever interleaves and whatever dies.      *)
(*                                                                         *)
(* Then the desk whose handlers come one after another: of MCChatDesk,     *)
(* AloneSpec and FairServiceSpec with exactly one worker: slots, queue,    *)
(* capacity and dismissal, the refinement of ConversationLifecycle, and    *)
(* the order of service.  Handlers that race break these, as the runs that *)
(* expect a violation show.                                                *)
(***************************************************************************)
EXTENDS MCChatDesk, FiniteSetTheorems, SequenceTheorems, TLAPS

\* What the label of a frame says of its registers.
Coherent(f) ==
  /\ f.pc \in OnConversation => f.copy \in Copy
  /\ f.pc \in {"take", "attach", "release", "give", "offline", "gather"} => f.agent \in Agents
  /\ f.pc = "take" => f.seen < Capacity

WorkCoherent == \A w \in Workers : Coherent(work[w])

TypeInv == TypeOK /\ WorkCoherent
-----------------------------------------------------------------------------
(* The helpers that build a frame build a coherent one.                    *)

\* A fresh frame at a label that uses no register.
LEMMA EnteredOK ==
  ASSUME NEW task \in Tasks, NEW label \in {"look", "desk", "drain", "each", "idle"}
  PROVE  Entered(task, label) \in Frame /\ Coherent(Entered(task, label))
BY CapacityAssumption DEF Entered, Frame, Coherent, Labels, Returns, EndReasons, OnConversation

LEMMA IdleOK == Idle \in Frame /\ Coherent(Idle)
BY EnteredOK DEF Idle, Tasks

\* A handler done with one conversation.
LEMMA FinishedOK ==
  ASSUME NEW f \in Frame
  PROVE  Finished(f) \in Frame /\ Coherent(Finished(f))
<1>1. CASE f.rest = {}
  BY <1>1, IdleOK DEF Finished
<1>2. CASE f.rest # {}
  <2>1. f.task \in Tasks /\ f.rest \in SUBSET Copy
    BY DEF Frame
  <2>2. Finished(f) = [Entered(f.task, "each") EXCEPT !.rest = f.rest]
    BY <1>2 DEF Finished
  <2> DEFINE e == Entered(f.task, "each")
  <2>3. e \in Frame /\ Coherent(e)
    BY <2>1, EnteredOK
  <2>4. e.pc = "each"
    BY DEF Entered
  <2> HIDE DEF e
  <2>5. [e EXCEPT !.rest = f.rest] \in Frame /\ Coherent([e EXCEPT !.rest = f.rest])
    BY <2>1, <2>3, <2>4 DEF Frame, Coherent, OnConversation
  <2> QED BY <2>2, <2>5 DEF e
<1> QED BY <1>1, <1>2

\* assign returned None, for a handler that was assigning.
LEMMA NobodyFreeOK ==
  ASSUME NEW f \in Frame, f.copy \in Copy
  PROVE  NobodyFree(f) \in Frame /\ Coherent(NobodyFree(f))
<1>1. CASE f.task = "start"
  BY <1>1 DEF NobodyFree, Frame, Coherent, Labels, OnConversation
<1>2. CASE f.task # "start"
  BY <1>2, FinishedOK DEF NobodyFree
<1> QED BY <1>1, <1>2

\* The handler goes on after a slot operation.
LEMMA ResumedOK ==
  ASSUME NEW f \in Frame, f.copy \in Copy
  PROVE  Resumed(f) \in Frame /\ Coherent(Resumed(f))
<1> DEFINE g == [f EXCEPT !.agent = Nobody, !.seen = 0, !.then = "abort"]
<1>1. g \in Frame /\ g.copy \in Copy
  <2>1. 0 \in 0..Capacity
    BY CapacityAssumption
  <2>2. "abort" \in Returns
    BY DEF Returns
  <2> QED BY <2>1, <2>2 DEF Frame
<1>2. CASE f.then = "lost"
  <2>1. Resumed(f) = NobodyFree(g)
    BY <1>2 DEF Resumed
  <2> QED BY <2>1, <1>1, NobodyFreeOK
<1>3. CASE f.then = "abort"
  <2>1. Resumed(f) = Idle
    BY <1>3 DEF Resumed
  <2> QED BY <2>1, IdleOK
<1>4. CASE f.then \in {"unqueue", "save_waiting"}
  <2>1. Resumed(f) = [g EXCEPT !.pc = f.then]
    BY <1>4 DEF Resumed
  <2> HIDE DEF g
  <2> QED BY <2>1, <1>1, <1>4 DEF Frame, Coherent, Labels, OnConversation
<1> QED BY <1>2, <1>3, <1>4 DEF Frame, Returns

\* assignment.release leads to the slot, or straight on when there is none.
LEMMA ReleasingOK ==
  ASSUME NEW f \in Frame, f.copy \in Copy, NEW next \in {"unqueue", "save_waiting"}
  PROVE  Releasing(f, next) \in Frame /\ Coherent(Releasing(f, next))
BY NobodyAssumption DEF Releasing, Frame, Coherent, Copy, Labels, OnConversation, Returns

LEMMA EndingOK ==
  ASSUME NEW f \in Frame, NEW copy \in Copy, NEW why \in EndReasons
  PROVE  Ending(f, copy, why) \in Frame /\ Coherent(Ending(f, copy, why))
<1> DEFINE g == [f EXCEPT !.copy = copy, !.reason = why]
<1>1. g \in Frame /\ g.copy \in Copy
  BY DEF Frame
<1> HIDE DEF g
<1>2. Releasing(g, "unqueue") \in Frame /\ Coherent(Releasing(g, "unqueue"))
  BY <1>1, ReleasingOK
<1> QED BY <1>2 DEF Ending, g

LEMMA RequeueingOK ==
  ASSUME NEW f \in Frame, NEW copy \in Copy
  PROVE  Requeueing(f, copy) \in Frame /\ Coherent(Requeueing(f, copy))
<1> DEFINE g == [f EXCEPT !.copy = copy, !.barred = {copy.agent} \ {Nobody}]
<1>1. g \in Frame /\ g.copy \in Copy
  BY DEF Frame, Copy
<1> HIDE DEF g
<1>2. Releasing(g, "save_waiting") \in Frame /\ Coherent(Releasing(g, "save_waiting"))
  BY <1>1, ReleasingOK
<1> QED BY <1>2 DEF Requeueing, g

\* A handler that moves to a coherent frame leaves every frame coherent.
LEMMA GotoOK ==
  ASSUME work \in [Workers -> Frame], WorkCoherent, NEW w \in Workers,
         NEW f \in Frame, Coherent(f), Goto(w, f)
  PROVE  work' \in [Workers -> Frame] /\ WorkCoherent'
BY DEF Goto, WorkCoherent, Coherent
-----------------------------------------------------------------------------
(* Copies, presence and the queue keep their types.                        *)

LEMMA CopyOfOK ==
  ASSUME row \in [Conversations -> Row], NEW c \in Conversations
  PROVE  CopyOf(c) \in Copy
BY DEF CopyOf, Copy, Row

LEMMA NewCopyOK ==
  ASSUME NEW c \in Conversations
  PROVE  NewCopy(c) \in Copy
BY DEF NewCopy, Copy, States

LEMMA SetActiveOK ==
  ASSUME presence \in [Agents -> Presence], NEW a \in Agents, NEW n \in 0..Capacity,
         SetActive(a, n)
  PROVE  presence' \in [Agents -> Presence]
BY DEF SetActive, Presence

LEMMA OfflineOK == Offline \in Presence
BY CapacityAssumption DEF Offline, Presence

LEMMA WaitingOK ==
  ASSUME queue \in Seq(Conversations)
  PROVE  Waiting \subseteq Conversations
BY DEF Waiting

LEMMA JoinedOK ==
  ASSUME queue \in Seq(Conversations), NEW c \in Conversations
  PROVE  Joined(c) \in Seq(Conversations)
BY DEF Joined

LEMMA LeftOK ==
  ASSUME queue \in Seq(Conversations), NEW c
  PROVE  Left(c) \in Seq(Conversations)
<1>1. CASE c \notin Waiting
  BY <1>1 DEF Left
<1>2. CASE c \in Waiting
  <2> DEFINE i == CHOOSE k \in 1..Len(queue) : queue[k] = c
  <2>1. i \in 1..Len(queue)
    BY <1>2 DEF Waiting
  <2>2. Left(c) = SubSeq(queue, 1, i - 1) \o SubSeq(queue, i + 1, Len(queue))
    BY <1>2 DEF Left
  <2> HIDE DEF i
  <2>3. Len(queue) \in Nat /\ \A k \in 1..Len(queue) : queue[k] \in Conversations
    OBVIOUS
  <2>4. SubSeq(queue, 1, i - 1) \in Seq(Conversations)
    BY <2>1, <2>3, SubSeqProperties
  <2>5. SubSeq(queue, i + 1, Len(queue)) \in Seq(Conversations)
    BY <2>1, <2>3, SubSeqProperties
  <2> QED BY <2>2, <2>4, <2>5, ConcatProperties
<1> QED BY <1>1, <1>2
-----------------------------------------------------------------------------
(* Type correctness.                                                       *)

LEMMA InitTypeInv == Init => TypeInv
<1> SUFFICES ASSUME Init PROVE TypeInv
  OBVIOUS
<1>1. row \in [Conversations -> Row]
  BY DEF Init, NotStarted, Row, States
<1>2. presence \in [Agents -> Presence]
  BY OfflineOK DEF Init
<1>3. work \in [Workers -> Frame] /\ WorkCoherent
  BY IdleOK DEF Init, WorkCoherent
<1>4. /\ employed \in SUBSET Agents
      /\ queue \in Seq(Conversations)
      /\ socket \in [Conversations -> Copy \cup {Nobody}]
  BY DEF Init
<1> QED BY <1>1, <1>2, <1>3, <1>4 DEF TypeInv, TypeOK

\* Handlers that are one call.
LEMMA OneCallTypeInv ==
  ASSUME TypeInv,
         \/ \E a \in Agents : GoOnline(a) \/ PresenceExpires(a)
         \/ \E c \in Conversations : LeaveQueue(c) \/ VisitorConnects(c)
  PROVE  TypeInv'
<1>1. ASSUME NEW a \in Agents, GoOnline(a) PROVE TypeInv'
  <2>1. [online |-> TRUE, room |-> Capacity, active |-> 0] \in Presence
    BY CapacityAssumption DEF Presence
  <2>2. presence' \in [Agents -> Presence]
    BY <1>1, <2>1 DEF GoOnline, TypeInv, TypeOK
  <2> QED BY <1>1, <2>2 DEF GoOnline, TypeInv, TypeOK, WorkCoherent
<1>2. ASSUME NEW a \in Agents, PresenceExpires(a) PROVE TypeInv'
  <2>1. presence' \in [Agents -> Presence]
    BY <1>2, OfflineOK DEF PresenceExpires, TypeInv, TypeOK
  <2> QED BY <1>2, <2>1 DEF PresenceExpires, TypeInv, TypeOK, WorkCoherent
<1>3. ASSUME NEW c \in Conversations, LeaveQueue(c) PROVE TypeInv'
  <2>1. queue' \in Seq(Conversations)
    BY <1>3, LeftOK DEF LeaveQueue, TypeInv, TypeOK
  <2> QED BY <1>3, <2>1 DEF LeaveQueue, TypeInv, TypeOK, WorkCoherent
<1>4. ASSUME NEW c \in Conversations, VisitorConnects(c) PROVE TypeInv'
  <2>1. socket' \in [Conversations -> Copy \cup {Nobody}]
    BY <1>4, CopyOfOK DEF VisitorConnects, TypeInv, TypeOK
  <2> QED BY <1>4, <2>1 DEF VisitorConnects, TypeInv, TypeOK, WorkCoherent
<1> QED BY <1>1, <1>2, <1>3, <1>4

\* Where a handler begins, and where it dies.
LEMMA BeginTypeInv ==
  ASSUME TypeInv, NEW w \in Workers, BeginStaff(w) \/ BeginVisitor(w) \/ Dies(w)
  PROVE  TypeInv'
<1> USE DEF TypeInv, TypeOK
<1>1. ASSUME NEW c \in Conversations, BeginStart(w, c) PROVE TypeInv'
  <2> DEFINE e == Entered("start", "choose")
             g == [e EXCEPT !.copy = NewCopy(c)]
  <2>1. NewCopy(c) \in Copy
    BY NewCopyOK
  <2>2. e \in Frame /\ e.pc = "choose"
    BY CapacityAssumption
    DEF Entered, Frame, Labels, Returns, EndReasons, OnConversation, Tasks
  <2> HIDE DEF e
  <2>3. g \in Frame /\ Coherent(g)
    BY <2>1, <2>2 DEF Frame, Coherent
  <2> USE DEF e
  <2>4. row' \in [Conversations -> Row]
    BY <1>1 DEF BeginStart, Row, States
  <2>5. Goto(w, g)
    BY <1>1 DEF BeginStart, Begin
  <2> HIDE DEF g
  <2>6. work' \in [Workers -> Frame] /\ WorkCoherent'
    BY <2>3, <2>5, GotoOK
  <2> QED BY <1>1, <2>4, <2>6 DEF BeginStart
<1>2. ASSUME NEW c \in Conversations, BeginAgentClose(w, c) PROVE TypeInv'
  <2> DEFINE e == Entered("close", "each")
             g == Ending(e, CopyOf(c), "ENDED_BY_AGENT")
  <2>1. e \in Frame
    BY EnteredOK DEF Tasks
  <2>2. g \in Frame /\ Coherent(g)
    BY <2>1, CopyOfOK, EndingOK DEF EndReasons
  <2>3. Goto(w, g)
    BY <1>2 DEF BeginAgentClose, Begin
  <2> HIDE DEF g
  <2>4. work' \in [Workers -> Frame] /\ WorkCoherent'
    BY <2>2, <2>3, GotoOK
  <2> QED BY <1>2, <2>4 DEF BeginAgentClose
<1>3. ASSUME NEW c \in Conversations, BeginVisitorClose(w, c) PROVE TypeInv'
  <2> DEFINE e == Entered("visitor", "each")
             g == Ending(e, socket[c], "ENDED_BY_VISITOR")
  <2>1. e \in Frame
    BY EnteredOK DEF Tasks
  <2>2. socket[c] \in Copy
    BY <1>3 DEF BeginVisitorClose
  <2>3. g \in Frame /\ Coherent(g)
    BY <2>1, <2>2, EndingOK DEF EndReasons
  <2>4. Goto(w, g)
    BY <1>3 DEF BeginVisitorClose, Begin
  <2> HIDE DEF g
  <2>5. work' \in [Workers -> Frame] /\ WorkCoherent'
    BY <2>3, <2>4, GotoOK
  <2> QED BY <1>3, <2>5 DEF BeginVisitorClose
<1>4. ASSUME NEW task \in {"interrupted", "idle"}, BeginSweep(w, task) PROVE TypeInv'
  <2> DEFINE active == {c \in Conversations : row[c].state = "ACTIVE"}
             copies == {CopyOf(c) : c \in active}
             e == Entered(task, "each")
             g == [e EXCEPT !.rest = copies]
  <2>1. e \in Frame /\ Coherent(e) /\ e.pc = "each"
    BY EnteredOK DEF Tasks, Entered
  <2>2. copies \in SUBSET Copy
    BY CopyOfOK
  <2>3. Goto(w, g)
    BY <1>4 DEF BeginSweep, Begin
  <2> HIDE DEF e, copies
  <2>4. g \in Frame /\ Coherent(g)
    BY <2>1, <2>2 DEF Frame, Coherent, OnConversation
  <2>5. work' \in [Workers -> Frame] /\ WorkCoherent'
    BY <2>3, <2>4, GotoOK
  <2> QED BY <1>4, <2>5 DEF BeginSweep
<1>5. ASSUME BeginDeskSweep(w) PROVE TypeInv'
  <2>1. Entered("desk", "desk") \in Frame /\ Coherent(Entered("desk", "desk"))
    BY EnteredOK DEF Tasks
  <2>2. Goto(w, Entered("desk", "desk"))
    BY <1>5 DEF BeginDeskSweep, Begin
  <2>3. work' \in [Workers -> Frame] /\ WorkCoherent'
    BY <2>1, <2>2, GotoOK
  <2> QED BY <1>5, <2>3 DEF BeginDeskSweep
<1>6. ASSUME NEW task \in {"desk", "dismissal"}, NEW a \in Agents
      PROVE  LET g == [Entered(task, "offline") EXCEPT !.agent = a]
             IN  g \in Frame /\ Coherent(g)
  BY CapacityAssumption
  DEF Entered, Frame, Coherent, Labels, Returns, EndReasons, OnConversation, Tasks
<1>7. ASSUME NEW a \in Agents, BeginGoOffline(w, a) PROVE TypeInv'
  <2> DEFINE g == [Entered("desk", "offline") EXCEPT !.agent = a]
  <2>1. g \in Frame /\ Coherent(g)
    BY <1>6
  <2>2. Goto(w, g)
    BY <1>7 DEF BeginGoOffline, Begin
  <2> HIDE DEF g
  <2>3. work' \in [Workers -> Frame] /\ WorkCoherent'
    BY <2>1, <2>2, GotoOK
  <2> QED BY <1>7, <2>3 DEF BeginGoOffline
<1>8. ASSUME NEW a \in Agents, BeginDeactivate(w, a) PROVE TypeInv'
  <2> DEFINE g == [Entered("dismissal", "offline") EXCEPT !.agent = a]
  <2>1. g \in Frame /\ Coherent(g)
    BY <1>6
  <2>2. Goto(w, g)
    BY <1>8 DEF BeginDeactivate, Begin
  <2> HIDE DEF g
  <2>3. work' \in [Workers -> Frame] /\ WorkCoherent'
    BY <2>1, <2>2, GotoOK
  <2> QED BY <1>8, <2>3 DEF BeginDeactivate
<1>9. ASSUME Dies(w) PROVE TypeInv'
  <2>1. Goto(w, Idle)
    BY <1>9 DEF Dies
  <2>2. work' \in [Workers -> Frame] /\ WorkCoherent'
    BY <2>1, IdleOK, GotoOK
  <2> QED BY <1>9, <2>2 DEF Dies
<1> QED
  BY <1>1, <1>2, <1>3, <1>4, <1>5, <1>7, <1>8, <1>9 DEF BeginStaff, BeginVisitor

\* The steps of a handler, one per action.
LEMMA HandleTypeInv ==
  ASSUME TypeInv, NEW w \in Workers, Handle(w) \/ AttachFails(w)
  PROVE  TypeInv'
<1> DEFINE f == work[w]
<1> USE DEF TypeInv, TypeOK
<1>1. f \in Frame /\ Coherent(f)
  BY DEF WorkCoherent
<1>2. ASSUME NEW g \in Frame, Coherent(g), Goto(w, g)
      PROVE  work' \in [Workers -> Frame] /\ WorkCoherent'
  BY <1>2, GotoOK
<1>3. ASSUME GoOffline(w) PROVE TypeInv'
  <2> DEFINE g == IF f.task = "desk" THEN Entered("desk", "desk") ELSE [f EXCEPT !.pc = "gather"]
  <2>1. f.agent \in Agents
    BY <1>1, <1>3 DEF GoOffline, At, Coherent
  <2>2. [f EXCEPT !.pc = "gather"] \in Frame /\ Coherent([f EXCEPT !.pc = "gather"])
    BY <1>1, <2>1 DEF Frame, Coherent, Labels, OnConversation
  <2>3. Entered("desk", "desk") \in Frame /\ Coherent(Entered("desk", "desk"))
    BY EnteredOK DEF Tasks
  <2>4. g \in Frame /\ Coherent(g)
    BY <2>2, <2>3
  <2>5. Goto(w, g)
    BY <1>3 DEF GoOffline
  <2> HIDE DEF g
  <2>6. work' \in [Workers -> Frame] /\ WorkCoherent'
    BY <1>2, <2>4, <2>5
  <2>7. presence' \in [Agents -> Presence]
    BY <1>3, <2>1, OfflineOK DEF GoOffline
  <2> QED BY <1>3, <2>6, <2>7 DEF GoOffline
<1>4. ASSUME GatherHeld(w) PROVE TypeInv'
  <2> DEFINE copies == {CopyOf(c) : c \in Held(f.agent)}
             g == [f EXCEPT !.rest = copies]
  <2>1. copies \in SUBSET Copy
    BY CopyOfOK DEF Held
  <2>2. Goto(w, Finished(g))
    BY <1>4 DEF GatherHeld
  <2> HIDE DEF copies
  <2>3. g \in Frame
    BY <1>1, <2>1 DEF Frame
  <2>4. work' \in [Workers -> Frame] /\ WorkCoherent'
    BY <1>2, <2>2, <2>3, FinishedOK
  <2> QED BY <1>4, <2>4 DEF GatherHeld
<1>5. ASSUME CloseDeskIfEmpty(w) PROVE TypeInv'
  <2> DEFINE g == IF AnyoneOnline THEN Idle ELSE [f EXCEPT !.pc = "drain"]
  <2>1. [f EXCEPT !.pc = "drain"] \in Frame /\ Coherent([f EXCEPT !.pc = "drain"])
    BY <1>1 DEF Frame, Coherent, Labels, OnConversation
  <2>2. g \in Frame /\ Coherent(g)
    BY <2>1, IdleOK
  <2>3. Goto(w, g)
    BY <1>5 DEF CloseDeskIfEmpty
  <2> HIDE DEF g
  <2>4. work' \in [Workers -> Frame] /\ WorkCoherent'
    BY <1>2, <2>2, <2>3
  <2> QED BY <1>5, <2>4 DEF CloseDeskIfEmpty
<1>6. ASSUME Drain(w) PROVE TypeInv'
  <2> DEFINE copies == {NewCopy(c) : c \in Waiting}
             g == [f EXCEPT !.rest = copies]
  <2>1. copies \in SUBSET Copy
    BY NewCopyOK, WaitingOK
  <2>2. Goto(w, Finished(g)) /\ queue' = <<>>
    BY <1>6 DEF Drain
  <2> HIDE DEF copies
  <2>3. g \in Frame
    BY <1>1, <2>1 DEF Frame
  <2>4. work' \in [Workers -> Frame] /\ WorkCoherent'
    BY <1>2, <2>2, <2>3, FinishedOK
  <2> QED BY <1>6, <2>2, <2>4 DEF Drain
<1>7. ASSUME NEW copy \in f.rest, NextOfLoop(w, copy) PROVE TypeInv'
  <2> DEFINE g == [f EXCEPT !.rest = @ \ {copy}]
  <2>1. g \in Frame /\ copy \in Copy /\ copy.conv \in Conversations
    BY <1>1, <1>7 DEF Frame, Copy
  <2>2. \/ Goto(w, Ending(g, copy, "VISITOR_DISCONNECTED"))
        \/ Goto(w, Requeueing(g, copy))
        \/ Goto(w, Ending(g, copy, "IDLE_TIMEOUT"))
        \/ Goto(w, Finished(g))
        \/ Goto(w, Ending(g, CopyOf(copy.conv), "DESK_CLOSED"))
    BY <1>7 DEF NextOfLoop
  <2> HIDE DEF g
  <2>3. CopyOf(copy.conv) \in Copy
    BY <2>1, CopyOfOK
  <2>4. work' \in [Workers -> Frame] /\ WorkCoherent'
    <3>1. ASSUME NEW x \in Copy, NEW why \in EndReasons, Goto(w, Ending(g, x, why))
          PROVE  work' \in [Workers -> Frame] /\ WorkCoherent'
      BY <1>2, <2>1, <3>1, EndingOK
    <3>2. CASE Goto(w, Requeueing(g, copy))
      BY <1>2, <2>1, <3>2, RequeueingOK
    <3>3. CASE Goto(w, Finished(g))
      BY <1>2, <2>1, <3>3, FinishedOK
    <3> QED BY <2>1, <2>2, <2>3, <3>1, <3>2, <3>3 DEF EndReasons
  <2> QED BY <1>7, <2>4 DEF NextOfLoop
<1>8. ASSUME ChooseAgents(w) PROVE TypeInv'
  <2> DEFINE g == [f EXCEPT !.pc = "claim", !.free = CandidateAgents]
  <2>1. CandidateAgents \in SUBSET Agents
    BY DEF CandidateAgents
  <2>2. f.copy \in Copy
    BY <1>1, <1>8 DEF ChooseAgents, At, Coherent, OnConversation
  <2>3. g \in Frame /\ Coherent(g)
    BY <1>1, <2>1, <2>2 DEF Frame, Coherent, Labels, OnConversation
  <2>4. Goto(w, g)
    BY <1>8 DEF ChooseAgents
  <2> HIDE DEF g
  <2>5. work' \in [Workers -> Frame] /\ WorkCoherent'
    BY <1>2, <2>3, <2>4
  <2> QED BY <1>8, <2>5 DEF ChooseAgents
<1>9. ASSUME ClaimRead(w) PROVE TypeInv'
  <2>1. f.copy \in Copy
    BY <1>1, <1>9 DEF ClaimRead, At, Coherent, OnConversation
  <2>2. CASE Goto(w, NobodyFree(f))
    <3>1. work' \in [Workers -> Frame] /\ WorkCoherent'
      BY <1>1, <1>2, <2>1, <2>2, NobodyFreeOK
    <3> QED BY <1>9, <3>1 DEF ClaimRead
  <2>3. ASSUME NEW a \in f.free, HasCapacity(a),
               Goto(w, [f EXCEPT !.pc = "take", !.agent = a, !.seen = presence[a].active])
        PROVE  TypeInv'
    <3> DEFINE n == presence[a].active
               g == [f EXCEPT !.pc = "take", !.agent = a, !.seen = n]
    <3>1. a \in Agents /\ presence[a] \in Presence
      BY <1>1, <2>3 DEF Frame
    <3>2. n \in 0..Capacity /\ n < Capacity
      BY <2>3, <3>1, CapacityAssumption DEF HasCapacity, Presence
    <3>3. Goto(w, g)
      BY <2>3
    <3> HIDE DEF n
    <3>4. g \in Frame /\ Coherent(g)
      BY <1>1, <2>1, <3>1, <3>2 DEF Frame, Coherent, Labels, OnConversation
    <3> HIDE DEF g
    <3>5. work' \in [Workers -> Frame] /\ WorkCoherent'
      BY <1>2, <3>3, <3>4
    <3> QED BY <1>9, <3>5 DEF ClaimRead
  <2>4. ASSUME NEW a \in f.free, Goto(w, [f EXCEPT !.free = @ \ {a}])
        PROVE  TypeInv'
    <3> DEFINE g == [f EXCEPT !.free = @ \ {a}]
    <3>1. g \in Frame /\ Coherent(g)
      BY <1>1 DEF Frame, Coherent
    <3>2. Goto(w, g)
      BY <2>4
    <3> HIDE DEF g
    <3>3. work' \in [Workers -> Frame] /\ WorkCoherent'
      BY <1>2, <3>1, <3>2
    <3> QED BY <1>9, <3>3 DEF ClaimRead
  <2> QED BY <1>9, <2>2, <2>3, <2>4 DEF ClaimRead
<1>10. ASSUME ClaimWrite(w) PROVE TypeInv'
  <2> DEFINE g == [f EXCEPT !.pc = "attach", !.seen = 0]
  <2>1. f.copy \in Copy /\ f.agent \in Agents /\ f.seen < Capacity
    BY <1>1, <1>10 DEF ClaimWrite, At, Coherent, OnConversation
  <2>2. 0 \in 0..Capacity /\ f.seen + 1 \in 0..Capacity
    BY <1>1, <2>1, CapacityAssumption DEF Frame
  <2>3. g \in Frame /\ Coherent(g)
    BY <1>1, <2>1, <2>2 DEF Frame, Coherent, Labels, OnConversation
  <2>4. Goto(w, g) /\ SetActive(f.agent, f.seen + 1)
    BY <1>10 DEF ClaimWrite
  <2> HIDE DEF g
  <2>5. work' \in [Workers -> Frame] /\ WorkCoherent'
    BY <1>2, <2>3, <2>4
  <2>6. presence' \in [Agents -> Presence]
    BY <2>1, <2>2, <2>4, SetActiveOK
  <2> QED BY <1>10, <2>5, <2>6 DEF ClaimWrite
<1>11. ASSUME NEW then \in {"lost", "abort"}, f.pc = "attach"
       PROVE  LET g == [f EXCEPT !.pc = "release", !.then = then]
              IN  g \in Frame /\ Coherent(g)
  BY <1>1, <1>11 DEF Frame, Coherent, Labels, OnConversation, Returns
<1>12. ASSUME Attach(w) PROVE TypeInv'
  <2> DEFINE c == f.copy.conv
  <2>1. f.pc = "attach" /\ f.copy \in Copy /\ f.agent \in Agents /\ c \in Conversations
    BY <1>1, <1>12 DEF Attach, At, Coherent, OnConversation, Copy
  <2>2. CASE row[c].agent # Nobody
    <3> DEFINE g == [f EXCEPT !.pc = "release", !.then = "lost"]
    <3>1. g \in Frame /\ Coherent(g)
      BY <1>11, <2>1
    <3>2. Goto(w, g) /\ UNCHANGED row
      BY <1>12, <2>2 DEF Attach
    <3> HIDE DEF g
    <3>3. work' \in [Workers -> Frame] /\ WorkCoherent'
      BY <1>2, <3>1, <3>2
    <3> QED BY <1>12, <3>2, <3>3 DEF Attach
  <2>3. CASE row[c].agent = Nobody
    <3> DEFINE h == [f EXCEPT !.pc = "serve", !.agent = Nobody]
               g == IF f.task = "start" THEN Idle ELSE h
    <3>1. h \in Frame /\ Coherent(h)
      BY <1>1, <2>1 DEF Frame, Coherent, Labels, OnConversation
    <3>2. g \in Frame /\ Coherent(g)
      BY <3>1, IdleOK
    <3>3. Goto(w, g) /\ row' = [row EXCEPT ![c].state = "ACTIVE", ![c].agent = f.agent]
      BY <1>12, <2>3 DEF Attach
    <3> HIDE DEF g
    <3>4. work' \in [Workers -> Frame] /\ WorkCoherent'
      BY <1>2, <3>2, <3>3
    <3>5. \A r \in Row : [r EXCEPT !.state = "ACTIVE", !.agent = f.agent] \in Row
      BY <2>1 DEF Row, States
    <3>6. row' = [row EXCEPT ![c] = [row[c] EXCEPT !.state = "ACTIVE", !.agent = f.agent]]
      BY <2>1, <3>3
    <3>7. row' \in [Conversations -> Row]
      BY <2>1, <3>5, <3>6
    <3> QED BY <1>12, <3>4, <3>7 DEF Attach
  <2> QED BY <2>2, <2>3
<1>13. ASSUME AttachFails(w) PROVE TypeInv'
  <2> DEFINE g == [f EXCEPT !.pc = "release", !.then = "abort"]
  <2>1. f.pc = "attach"
    BY <1>13 DEF AttachFails, At
  <2>2. g \in Frame /\ Coherent(g)
    BY <1>11, <2>1
  <2>3. Goto(w, g)
    BY <1>13 DEF AttachFails
  <2> HIDE DEF g
  <2>4. work' \in [Workers -> Frame] /\ WorkCoherent'
    BY <1>2, <2>2, <2>3
  <2> QED BY <1>13, <2>4 DEF AttachFails
<1>14. ASSUME JoinQueue(w) PROVE TypeInv'
  <2>1. f.copy.conv \in Conversations
    BY <1>1, <1>14 DEF JoinQueue, At, Coherent, OnConversation, Copy
  <2>2. queue' \in Seq(Conversations)
    BY <1>14, <2>1, JoinedOK DEF JoinQueue
  <2>3. work' \in [Workers -> Frame] /\ WorkCoherent'
    BY <1>2, <1>14, IdleOK DEF JoinQueue
  <2> QED BY <1>14, <2>2, <2>3 DEF JoinQueue
<1>15. ASSUME ReleaseRead(w) PROVE TypeInv'
  <2> DEFINE n == presence[f.agent].active
             h == [f EXCEPT !.pc = "give", !.seen = n]
             g == IF presence[f.agent].online THEN h ELSE Resumed(f)
  <2>1. f.copy \in Copy /\ f.agent \in Agents
    BY <1>1, <1>15 DEF ReleaseRead, At, Coherent, OnConversation
  <2>2. n \in 0..Capacity
    BY <2>1 DEF Presence
  <2> HIDE DEF n
  <2>3. h \in Frame /\ Coherent(h)
    BY <1>1, <2>1, <2>2 DEF Frame, Coherent, Labels, OnConversation
  <2> USE DEF n
  <2>4. g \in Frame /\ Coherent(g)
    BY <1>1, <2>1, <2>3, ResumedOK
  <2>5. Goto(w, g)
    BY <1>15 DEF ReleaseRead
  <2> HIDE DEF g
  <2>6. work' \in [Workers -> Frame] /\ WorkCoherent'
    BY <1>2, <2>4, <2>5
  <2> QED BY <1>15, <2>6 DEF ReleaseRead
<1>16. ASSUME ReleaseWrite(w) PROVE TypeInv'
  <2> DEFINE n == IF f.seen = 0 THEN 0 ELSE f.seen - 1
  <2>1. f.copy \in Copy /\ f.agent \in Agents
    BY <1>1, <1>16 DEF ReleaseWrite, At, Coherent, OnConversation
  <2>2. n \in 0..Capacity
    BY <1>1, CapacityAssumption DEF Frame
  <2>3. SetActive(f.agent, n) /\ Goto(w, Resumed(f))
    BY <1>16 DEF ReleaseWrite
  <2> HIDE DEF n
  <2>4. work' \in [Workers -> Frame] /\ WorkCoherent'
    BY <1>1, <1>2, <2>1, <2>3, ResumedOK
  <2>5. presence' \in [Agents -> Presence]
    BY <2>1, <2>2, <2>3, SetActiveOK
  <2> QED BY <1>16, <2>4, <2>5 DEF ReleaseWrite
<1>17. ASSUME f.pc \in OnConversation,
              NEW label \in {"save_ended", "rejoin", "look", "claim", "drop"}
       PROVE  LET g == [f EXCEPT !.pc = label]
              IN  g \in Frame /\ Coherent(g)
  BY <1>1, <1>17 DEF Frame, Coherent, Labels, OnConversation
<1>18. ASSUME EndLeavesQueue(w) PROVE TypeInv'
  <2>1. f.pc \in OnConversation /\ Goto(w, [f EXCEPT !.pc = "save_ended"])
    BY <1>18 DEF EndLeavesQueue, At, OnConversation
  <2>2. work' \in [Workers -> Frame] /\ WorkCoherent'
    BY <1>2, <1>17, <2>1
  <2>3. queue' \in Seq(Conversations)
    BY <1>18, LeftOK DEF EndLeavesQueue
  <2> QED BY <1>18, <2>2, <2>3 DEF EndLeavesQueue
<1>19. ASSUME EndSaves(w) PROVE TypeInv'
  <2> DEFINE c == f.copy.conv
  <2>1. /\ f.pc \in OnConversation /\ Goto(w, [f EXCEPT !.pc = "look"])
        /\ f.copy \in Copy /\ c \in Conversations /\ f.reason \in EndReasons
    BY <1>1, <1>19 DEF EndSaves, At, OnConversation, Coherent, Copy, Frame
  <2>2. work' \in [Workers -> Frame] /\ WorkCoherent'
    BY <1>2, <1>17, <2>1
  <2>3. row' \in [Conversations -> Row]
    <3>1. row' = [row EXCEPT ![c] = [@ EXCEPT !.state = "ENDED", !.reason = f.reason]]
      BY <1>19 DEF EndSaves
    <3>2. row[c] \in Row
      BY <2>1
    <3>3. [row[c] EXCEPT !.state = "ENDED", !.reason = f.reason] \in Row
      BY <2>1, <3>2 DEF Row, States
    <3> QED BY <2>1, <3>1, <3>3
  <2>4. [f.copy EXCEPT !.state = "ENDED"] \in Copy
    BY <2>1 DEF Copy, States
  <2>5. socket' \in [Conversations -> Copy \cup {Nobody}]
    BY <1>19, <2>1, <2>4 DEF EndSaves
  <2> QED BY <1>19, <2>2, <2>3, <2>5 DEF EndSaves
<1>20. ASSUME RequeueSaves(w) PROVE TypeInv'
  <2>1. /\ f.pc \in OnConversation /\ Goto(w, [f EXCEPT !.pc = "rejoin"])
        /\ f.copy.conv \in Conversations
    BY <1>1, <1>20 DEF RequeueSaves, At, OnConversation, Coherent, Copy
  <2>2. work' \in [Workers -> Frame] /\ WorkCoherent'
    BY <1>2, <1>17, <2>1
  <2>3. row' \in [Conversations -> Row]
    BY <1>20, <2>1 DEF RequeueSaves, Row, States
  <2> QED BY <1>20, <2>2, <2>3 DEF RequeueSaves
<1>21. ASSUME RequeueJoins(w) PROVE TypeInv'
  <2>1. /\ f.pc \in OnConversation /\ Goto(w, [f EXCEPT !.pc = "look"])
        /\ f.copy.conv \in Conversations
    BY <1>1, <1>21 DEF RequeueJoins, At, OnConversation, Coherent, Copy
  <2>2. work' \in [Workers -> Frame] /\ WorkCoherent'
    BY <1>2, <1>17, <2>1
  <2>3. queue' \in Seq(Conversations)
    BY <1>21, <2>1, JoinedOK DEF RequeueJoins
  <2> QED BY <1>21, <2>2, <2>3 DEF RequeueJoins
<1>22. ASSUME Look(w) PROVE TypeInv'
  <2> DEFINE free == CandidateAgents \ f.barred
             copy == NewCopy(Head(queue))
             h == [f EXCEPT !.pc = "load", !.free = free, !.copy = copy]
  <2>1. CASE Goto(w, Finished(f))
    <3>1. work' \in [Workers -> Frame] /\ WorkCoherent'
      BY <1>1, <1>2, <2>1, FinishedOK
    <3> QED BY <1>22, <3>1 DEF Look
  <2>2. CASE queue # <<>> /\ Goto(w, h)
    <3>1. free \in SUBSET Agents
      BY DEF CandidateAgents
    <3>2. copy \in Copy
      BY <2>2, NewCopyOK, HeadTailProperties
    <3> HIDE DEF free, copy
    <3>3. h \in Frame /\ Coherent(h)
      BY <1>1, <3>1, <3>2 DEF Frame, Coherent, Labels, OnConversation
    <3>4. work' \in [Workers -> Frame] /\ WorkCoherent'
      BY <1>2, <2>2, <3>3
    <3> QED BY <1>22, <3>4 DEF Look
  <2> QED BY <1>22, <2>1, <2>2 DEF Look
<1>23. ASSUME LoadWaiting(w) PROVE TypeInv'
  <2>1. PICK label \in {"claim", "drop"} : Goto(w, [f EXCEPT !.pc = label])
    BY <1>23 DEF LoadWaiting
  <2>2. f.pc \in OnConversation
    BY <1>23 DEF LoadWaiting, At, OnConversation
  <2>3. work' \in [Workers -> Frame] /\ WorkCoherent'
    BY <1>2, <1>17, <2>1, <2>2
  <2> QED BY <1>23, <2>3 DEF LoadWaiting
<1>24. ASSUME LeaveAndLookAgain(w) PROVE TypeInv'
  <2> DEFINE g == [f EXCEPT !.pc = "look", !.free = {}]
  <2>1. g \in Frame /\ Coherent(g)
    BY <1>1 DEF Frame, Coherent, Labels, OnConversation
  <2>2. Goto(w, g)
    BY <1>24 DEF LeaveAndLookAgain
  <2> HIDE DEF g
  <2>3. work' \in [Workers -> Frame] /\ WorkCoherent'
    BY <1>2, <2>1, <2>2
  <2>4. queue' \in Seq(Conversations)
    BY <1>24, LeftOK DEF LeaveAndLookAgain
  <2> QED BY <1>24, <2>3, <2>4 DEF LeaveAndLookAgain
<1> QED
  BY <1>3, <1>4, <1>5, <1>6, <1>7, <1>8, <1>9, <1>10, <1>12, <1>13, <1>14, <1>15,
     <1>16, <1>18, <1>19, <1>20, <1>21, <1>22, <1>23, <1>24 DEF Handle

\* Every step of the desk preserves the invariant.
LEMMA NextTypeInv == TypeInv /\ [Next]_vars => TypeInv'
<1> SUFFICES ASSUME TypeInv, [Next]_vars PROVE TypeInv'
  OBVIOUS
<1>1. CASE UNCHANGED vars
  BY <1>1 DEF TypeInv, TypeOK, WorkCoherent, vars
<1>2. CASE Next
  BY <1>2, OneCallTypeInv, BeginTypeInv, HandleTypeInv DEF Next
<1> QED BY <1>1, <1>2

\* Every variable keeps its type, the slot counts their bound included, however
\* many workers race.
THEOREM TypeCorrect == Spec => []TypeOK
<1>1. TypeInv => TypeOK
  BY DEF TypeInv
<1> QED BY <1>1, InitTypeInv, NextTypeInv, PTL DEF Spec
-----------------------------------------------------------------------------
(* The rows.                                                               *)

\* What may happen to a row in one step of the desk: it is created, it is attached to
\* an agent when it has none, it ends, or it goes back to waiting.
Started(c) == row[c].state = "NONE" /\ row' = [row EXCEPT ![c].state = "WAITING"]

Attached(c, a) ==
  /\ row[c].agent = Nobody
  /\ row' = [row EXCEPT ![c].state = "ACTIVE", ![c].agent = a]

Closed(c, why) == row' = [row EXCEPT ![c].state = "ENDED", ![c].reason = why]

PutBack(c) == row' = [row EXCEPT ![c].state = "WAITING", ![c].agent = Nobody]

RowStep ==
  \/ UNCHANGED row
  \/ \E c \in Conversations :
       \/ Started(c)
       \/ \E a \in Agents : Attached(c, a)
       \/ \E why \in EndReasons : Closed(c, why)
       \/ PutBack(c)

\* The rows change in four places.
LEMMA RowKept ==
  ASSUME [Next]_vars,
         \A w \in Workers : /\ ~Attach(w) /\ ~EndSaves(w) /\ ~RequeueSaves(w)
                            /\ \A c \in Conversations : ~BeginStart(w, c)
  PROVE  UNCHANGED row
<1>1. CASE \/ \E a \in Agents : GoOnline(a) \/ PresenceExpires(a)
           \/ \E c \in Conversations : LeaveQueue(c) \/ VisitorConnects(c)
           \/ UNCHANGED vars
  BY <1>1 DEF GoOnline, PresenceExpires, LeaveQueue, VisitorConnects, vars
<1>2. ASSUME NEW w \in Workers, BeginStaff(w) \/ BeginVisitor(w) \/ Dies(w)
      PROVE  UNCHANGED row
  BY <1>2 DEF BeginStaff, BeginVisitor, Dies, BeginAgentClose, BeginVisitorClose, BeginSweep,
     BeginDeskSweep, BeginGoOffline, BeginDeactivate
<1>3. ASSUME NEW w \in Workers, Handle(w) \/ AttachFails(w) PROVE UNCHANGED row
  <2>1. CASE \/ GoOffline(w) \/ GatherHeld(w) \/ CloseDeskIfEmpty(w) \/ Drain(w)
             \/ \E copy \in work[w].rest : NextOfLoop(w, copy)
    BY <2>1 DEF GoOffline, GatherHeld, CloseDeskIfEmpty, Drain, NextOfLoop
  <2>2. CASE \/ ChooseAgents(w) \/ ClaimRead(w) \/ ClaimWrite(w) \/ AttachFails(w)
             \/ JoinQueue(w) \/ ReleaseRead(w) \/ ReleaseWrite(w)
    BY <2>2 DEF ChooseAgents, ClaimRead, ClaimWrite, AttachFails, JoinQueue, ReleaseRead,
       ReleaseWrite
  <2>3. CASE \/ EndLeavesQueue(w) \/ RequeueJoins(w) \/ Look(w) \/ LoadWaiting(w)
             \/ LeaveAndLookAgain(w)
    BY <2>3 DEF EndLeavesQueue, RequeueJoins, Look, LoadWaiting, LeaveAndLookAgain
  <2> QED BY <1>3, <2>1, <2>2, <2>3 DEF Handle
<1> QED BY <1>1, <1>2, <1>3 DEF Next

LEMMA NextRowStep ==
  ASSUME TypeInv, [Next]_vars
  PROVE  RowStep
<1>1. ASSUME NEW w \in Workers, work[w].pc \in OnConversation
      PROVE  work[w].copy.conv \in Conversations
  BY <1>1 DEF TypeInv, WorkCoherent, Coherent, Copy
<1>2. ASSUME NEW w \in Workers, NEW c \in Conversations, BeginStart(w, c) PROVE RowStep
  BY <1>2 DEF BeginStart, RowStep, Started
<1>3. ASSUME NEW w \in Workers, Attach(w) PROVE RowStep
  <2> DEFINE c == work[w].copy.conv
             a == work[w].agent
  <2>1. c \in Conversations /\ a \in Agents
    BY <1>1, <1>3 DEF Attach, At, OnConversation, TypeInv, WorkCoherent, Coherent
  <2>2. UNCHANGED row \/ Attached(c, a)
    BY <1>3 DEF Attach, Attached
  <2> QED BY <2>1, <2>2 DEF RowStep
<1>4. ASSUME NEW w \in Workers, EndSaves(w) PROVE RowStep
  <2>1. work[w].copy.conv \in Conversations
    BY <1>1, <1>4 DEF EndSaves, At, OnConversation
  <2>2. work[w].reason \in EndReasons
    BY DEF TypeInv, TypeOK, Frame
  <2>3. Closed(work[w].copy.conv, work[w].reason)
    BY <1>4 DEF EndSaves, Closed
  <2> QED BY <2>1, <2>2, <2>3 DEF RowStep
<1>5. ASSUME NEW w \in Workers, RequeueSaves(w) PROVE RowStep
  <2>1. work[w].copy.conv \in Conversations
    BY <1>1, <1>5 DEF RequeueSaves, At, OnConversation
  <2>2. PutBack(work[w].copy.conv)
    BY <1>5 DEF RequeueSaves, PutBack
  <2> QED BY <2>1, <2>2 DEF RowStep
<1> QED BY <1>2, <1>3, <1>4, <1>5, RowKept DEF RowStep

LEMMA InitRowConsistent == Init => RowConsistent
<1> SUFFICES ASSUME Init, NEW c \in Conversations
             PROVE  row[c].state = "NONE" /\ row[c].agent = Nobody
  BY DEF RowConsistent
<1>1. row[c] = NotStarted
  BY DEF Init
<1>2. NotStarted.state = "NONE" /\ NotStarted.agent = Nobody
  BY DEF NotStarted
<1> QED BY <1>1, <1>2, Zenon

LEMMA NextRowConsistent == TypeInv /\ RowConsistent /\ [Next]_vars => RowConsistent'
<1> SUFFICES ASSUME TypeInv, RowConsistent, RowStep PROVE RowConsistent'
  BY NextRowStep
<1> USE DEF TypeInv, TypeOK, RowConsistent
<1>1. CASE UNCHANGED row
  BY <1>1
<1>2. ASSUME NEW c \in Conversations, Started(c) PROVE RowConsistent'
  BY <1>2 DEF Started, Row
<1>3. ASSUME NEW c \in Conversations, NEW a \in Agents, Attached(c, a)
      PROVE  RowConsistent'
  <2>1. row' = [row EXCEPT ![c] = [row[c] EXCEPT !.state = "ACTIVE", !.agent = a]]
    BY <1>3 DEF Attached
  <2>2. row'[c].state = "ACTIVE" /\ row'[c].agent = a /\ a # Nobody
    BY <2>1, NobodyAssumption DEF Row
  <2>3. \A d \in Conversations \ {c} : row'[d] = row[d]
    BY <2>1
  <2> QED BY <2>2, <2>3
<1>4. ASSUME NEW c \in Conversations, NEW why \in EndReasons, Closed(c, why)
      PROVE  RowConsistent'
  BY <1>4 DEF Closed, Row
<1>5. ASSUME NEW c \in Conversations, PutBack(c) PROVE RowConsistent'
  BY <1>5 DEF PutBack, Row
<1> QED BY <1>1, <1>2, <1>3, <1>4, <1>5 DEF RowStep

\* However the handlers interleave, die or fail, a row is ACTIVE only with an agent on
\* it and waits only without one.
THEOREM RowsConsistent == Spec => []RowConsistent
BY InitRowConsistent, NextRowConsistent, InitTypeInv, NextTypeInv, PTL DEF Spec

\* However assignments interleave, an agent keeps a conversation until it is put back:
\* nobody else is given it under them.
THEOREM NoConversationStolen == Spec => NeverStolen
<1> DEFINE Kept ==
      \A c \in Conversations :
        row[c].agent # Nobody => row'[c].agent \in {row[c].agent, Nobody}
<1>1. TypeInv /\ [Next]_vars => [Kept]_row
  <2> SUFFICES ASSUME TypeInv, RowStep PROVE Kept
    BY NextRowStep
  <2> USE DEF TypeInv, TypeOK
  <2>1. CASE UNCHANGED row
    BY <2>1
  <2>2. ASSUME NEW c \in Conversations, Started(c) PROVE Kept
    BY <2>2 DEF Started, Row
  <2>3. ASSUME NEW c \in Conversations, NEW a \in Agents, Attached(c, a) PROVE Kept
    BY <2>3 DEF Attached, Row
  <2>4. ASSUME NEW c \in Conversations, NEW why \in EndReasons, Closed(c, why) PROVE Kept
    BY <2>4 DEF Closed, Row
  <2>5. ASSUME NEW c \in Conversations, PutBack(c) PROVE Kept
    BY <2>5 DEF PutBack, Row
  <2> QED BY <2>1, <2>2, <2>3, <2>4, <2>5 DEF RowStep
<1> QED BY <1>1, InitTypeInv, NextTypeInv, PTL DEF Spec, NeverStolen
-----------------------------------------------------------------------------
(* One handler after another.  The inductive invariant says, label by      *)
(* label, how far the presence keys and the queue are behind the rows.     *)

\* The slot of a failed attach is being given back.
GivingUp(f) == f.pc \in {"release", "give"} /\ f.then = "abort"

\* The conversation is being taken from whoever has it, to end or to wait again.
Parting(f) ==
  \/ f.pc \in {"unqueue", "save_ended", "save_waiting"}
  \/ f.pc \in {"release", "give"} /\ f.then # "abort"

\* ... to wait again.
Returning(f) ==
  \/ f.pc = "save_waiting"
  \/ f.pc \in {"release", "give"} /\ f.then = "save_waiting"

\* Which handlers can be where.
Placed(f) ==
  /\ f.pc # "drop"
  /\ f.pc \in {"release", "give"} => f.then # "lost"
  /\ f.task = "start" => f.pc \in {"idle", "choose", "claim", "take", "attach", "join"}
  /\ f.task = "desk" =>
       f.pc \in {"offline", "desk", "drain", "each", "unqueue", "save_ended", "look"}
  /\ f.task = "dismissal" =>
       /\ f.pc \notin {"unqueue", "save_ended"}
       /\ f.pc \in {"release", "give"} => f.then = "save_waiting"
  /\ f.pc \in {"idle", "choose", "join"} => f.task = "start"
  /\ f.pc \in {"desk", "drain"} => f.task = "desk"
  /\ f.pc = "offline" => f.task \in {"desk", "dismissal"}
  /\ f.pc = "gather" => f.task = "dismissal"
  /\ f.pc = "each" => f.task \in {"interrupted", "idle", "dismissal", "desk"}
  /\ f.task \in {"start", "close", "visitor"} \/ f.pc \in {"offline", "gather", "desk", "drain"} =>
       f.rest = {}

\* Copies to come are of the rows as they are; the one being taken away names who is
\* attached, or, if a visitor's socket read it earlier, nobody.
CopiesTrue(f) ==
  /\ \A copy \in f.rest :
       /\ copy = CopyOf(copy.conv)
       /\ copy.state = IF f.task = "desk" THEN "WAITING" ELSE "ACTIVE"
  /\ Parting(f) => /\ Open(f.copy.conv) /\ f.copy.agent \in {Nobody, row[f.copy.conv].agent}
                   /\ \A copy \in f.rest : copy.conv # f.copy.conv
                   /\ f.task = "desk" => row[f.copy.conv].state = "WAITING"
  /\ Returning(f) => /\ row[f.copy.conv].state = "ACTIVE"
                     /\ f.copy.agent = row[f.copy.conv].agent
  /\ f.pc \in {"choose", "load", "claim", "take", "attach", "join", "rejoin"} =>
       row[f.copy.conv].state = "WAITING"
  /\ f.pc = "serve" => row[f.copy.conv].state = "ACTIVE"

\* A conversation that waits is in the handler's hands instead of the queue.
InHand(f, c) ==
  \/ f.task = "desk" /\ \E copy \in f.rest : copy.conv = c
  \/ /\ \/ f.pc \in {"save_ended", "rejoin"}
        \/ f.task = "start" /\ f.pc # "idle"
        \/ f.task = "desk" /\ f.pc = "unqueue"
     /\ f.copy.conv = c

\* Whoever has left the queue stays out of it, until the conversation ends.
QueueTrue(f) ==
  /\ \A c \in Conversations :
       row[c].state = "WAITING" => (c \in Waiting <=> ~InHand(f, c) /\ c \notin gone)
  /\ \A c \in Waiting : row[c].state = "WAITING" \/ (f.pc = "serve" /\ f.copy.conv = c)
  /\ \A c \in Conversations : c \in gone => row[c].state \in {"WAITING", "ENDED"}
  /\ f.pc \in {"choose", "load", "claim", "take", "attach", "join", "rejoin"} =>
       f.copy.conv \notin gone
  /\ f.task = "desk" /\ f.pc \in {"each", "unqueue", "save_ended", "look"} => queue = <<>>

\* What an online agent's count stands for.
Charged(a) == Cardinality(Held(a)) + lost[a]

\* What is between a slot and the row it is for.
Claimed(f, a) == IF (f.pc = "attach" \/ GivingUp(f)) /\ f.agent = a THEN 1 ELSE 0

Freed(f, a) ==
  IF f.pc \in {"unqueue", "save_ended", "save_waiting"} /\ f.copy.agent = a THEN 1 ELSE 0

SlotsTrue(f) ==
  /\ \A a \in Agents : presence[a].online =>
       presence[a].active + Freed(f, a) = Charged(a) + Claimed(f, a)
  /\ f.pc \in {"take", "attach", "give"} \/ GivingUp(f) => presence[f.agent].online
  /\ f.pc \in {"take", "give"} => f.seen = presence[f.agent].active
  /\ f.pc \in {"release", "give"} /\ f.then # "abort" => f.agent = f.copy.agent

\* Whoever is dismissed holds only what their own dismissal has still to hand on.
DismissedTrue(f) ==
  /\ f.pc \in {"load", "claim", "take", "attach"} => f.free \subseteq employed
  /\ f.pc \in {"take", "attach"} => f.agent \in employed
  /\ \A a \in Agents \ employed, c \in Conversations : c \in Held(a) =>
       /\ f.task = "dismissal"
       /\ \/ f.pc \in {"offline", "gather"} /\ f.agent = a
          \/ \E copy \in f.rest : copy.conv = c
          \/ f.pc \in {"release", "give", "save_waiting"} /\ f.copy.conv = c

HandlerTrue(f) ==
  Placed(f) /\ CopiesTrue(f) /\ QueueTrue(f) /\ SlotsTrue(f) /\ DismissedTrue(f)

\* Nobody is in the queue twice.
QueuedOnce == \A i, j \in 1..Len(queue) : queue[i] = queue[j] => i = j

HeldBounded ==
  \A a \in Agents : IsFiniteSet(Held(a)) /\ Cardinality(Held(a)) <= Capacity

\* Going offline clears what an agent has lost.
Tallied == lost \in [Agents -> Nat] /\ \A a \in Agents : ~presence[a].online => lost[a] = 0

\* A step that records nothing: nobody loses a slot or leaves the queue.
Carried ==
  /\ \A a \in Agents : presence'[a].online => lost'[a] = lost[a]
  /\ gone' = gone

\* Strong enough to be kept by every step of AloneSpec.
AloneInv ==
  /\ TypeInv /\ RowConsistent /\ QueuedOnce /\ Tallied /\ HeldBounded
  /\ \A w \in Workers : HandlerTrue(work[w])
-----------------------------------------------------------------------------
(* The queue, which nobody is in twice.                                    *)

LEMMA LeftWaiting ==
  ASSUME queue \in Seq(Conversations), QueuedOnce, NEW c, queue' = Left(c)
  PROVE  QueuedOnce' /\ Waiting' = Waiting \ {c}
<1>1. CASE c \notin Waiting
  <2>1. queue' = queue
    BY <1>1 DEF Left
  <2> QED BY <1>1, <2>1 DEF QueuedOnce, Waiting
<1>2. CASE c \in Waiting
  <2> DEFINE i == CHOOSE k \in 1..Len(queue) : queue[k] = c
             front == SubSeq(queue, 1, i - 1)
             back == SubSeq(queue, i + 1, Len(queue))
  <2>1. i \in 1..Len(queue) /\ queue[i] = c
    BY <1>2 DEF Waiting
  <2>2. queue' = front \o back
    BY <1>2 DEF Left
  <2> HIDE DEF i
  <2>3. Len(queue) \in Nat /\ i \in Nat /\ \A k \in 1..Len(queue) : queue[k] \in Conversations
    BY <2>1
  <2>4. front \in Seq(Conversations) /\ Len(front) = i - 1 /\ \A k \in 1..i-1 : front[k] = queue[k]
    BY <2>1, <2>3, SubSeqProperties
  <2>5. /\ back \in Seq(Conversations) /\ Len(back) = Len(queue) - i
        /\ \A k \in 1..Len(queue)-i : back[k] = queue[i + k]
    BY <2>1, <2>3, SubSeqProperties
  <2> HIDE DEF front, back
  <2>6. /\ Len(queue') = Len(queue) - 1
        /\ \A k \in 1..Len(queue)-1 : queue'[k] = IF k < i THEN queue[k] ELSE queue[k + 1]
    <3>1. Len(queue') = Len(queue) - 1
      BY <2>1, <2>2, <2>3, <2>4, <2>5, ConcatProperties
    <3>2. ASSUME NEW k \in 1..Len(queue)-1
          PROVE  queue'[k] = IF k < i THEN queue[k] ELSE queue[k + 1]
      <4>0. k \in 1 .. Len(front) + Len(back)
        BY <2>1, <2>3, <2>4, <2>5
      <4>1. queue'[k] = IF k <= Len(front) THEN front[k] ELSE back[k - Len(front)]
        BY <2>2, <2>4, <2>5, <4>0, ConcatProperties
      <4>2. CASE k < i
        BY <2>1, <2>3, <2>4, <4>1, <4>2
      <4>3. CASE k >= i
        <5> DEFINE m == k - Len(front)
        <5>1. m \in 1..Len(queue)-i /\ i + m = k + 1
          BY <2>1, <2>3, <2>4, <4>3
        <5>2. ~(k <= Len(front)) /\ ~(k < i)
          BY <2>1, <2>3, <2>4, <4>3
        <5>3. queue'[k] = back[m]
          BY <4>1, <5>2
        <5> HIDE DEF m
        <5>4. back[m] = queue[i + m]
          BY <2>5, <5>1
        <5> QED BY <5>1, <5>2, <5>3, <5>4
      <4> QED BY <2>1, <4>2, <4>3
    <3> QED BY <3>1, <3>2
  <2>7. QueuedOnce'
    BY <2>1, <2>3, <2>6 DEF QueuedOnce
  <2>8. ASSUME NEW d \in Waiting' PROVE d \in Waiting \ {c}
    <3>1. PICK k \in 1..Len(queue)-1 : queue'[k] = d
      BY <2>6 DEF Waiting
    <3>2. CASE k < i
      BY <2>1, <2>3, <2>6, <3>1, <3>2 DEF QueuedOnce, Waiting
    <3>3. CASE k >= i
      <4>1. k + 1 \in 1..Len(queue) /\ k + 1 # i /\ queue[k + 1] = d
        BY <2>1, <2>3, <2>6, <3>1, <3>3
      <4> QED BY <2>1, <4>1 DEF QueuedOnce, Waiting
    <3> QED BY <2>1, <3>2, <3>3
  <2>9. ASSUME NEW d \in Waiting, d # c PROVE d \in Waiting'
    <3>1. PICK k \in 1..Len(queue) : queue[k] = d
      BY DEF Waiting
    <3>2. CASE k < i
      BY <2>1, <2>3, <2>6, <3>1, <3>2 DEF Waiting
    <3>3. CASE k > i
      <4>1. k - 1 \in 1..Len(queue') /\ queue'[k - 1] = d
        BY <2>1, <2>3, <2>6, <3>1, <3>3
      <4> QED BY <4>1 DEF Waiting
    <3> QED BY <2>1, <2>3, <2>9, <3>1, <3>2, <3>3
  <2> QED BY <2>7, <2>8, <2>9
<1> QED BY <1>1, <1>2

LEMMA JoinedWaiting ==
  ASSUME queue \in Seq(Conversations), QueuedOnce, NEW c \in Conversations, queue' = Joined(c)
  PROVE  QueuedOnce' /\ Waiting' = Waiting \cup {c}
<1>1. CASE c \in Waiting
  <2>1. queue' = queue
    BY <1>1 DEF Joined
  <2> QED BY <1>1, <2>1 DEF QueuedOnce, Waiting
<1>2. CASE c \notin Waiting
  <2>1. queue' = Append(queue, c)
    BY <1>2 DEF Joined
  <2>2. /\ Len(queue') = Len(queue) + 1 /\ Len(queue) \in Nat /\ queue'[Len(queue) + 1] = c
        /\ \A k \in 1..Len(queue) : queue'[k] = queue[k]
    BY <2>1
  <2>3. QueuedOnce'
    <3> SUFFICES ASSUME NEW i \in 1..Len(queue)+1, NEW j \in 1..Len(queue)+1,
                        queue'[i] = queue'[j]
                 PROVE  i = j
      BY <2>2 DEF QueuedOnce
    <3>1. \A k \in 1..Len(queue) : queue'[k] # c
      BY <1>2, <2>2 DEF Waiting
    <3>2. CASE i \in 1..Len(queue) /\ j \in 1..Len(queue)
      BY <2>2, <3>2 DEF QueuedOnce
    <3>3. CASE i = Len(queue) + 1 \/ j = Len(queue) + 1
      BY <2>2, <3>1, <3>3
    <3> QED BY <2>2, <3>2, <3>3
  <2>4. ASSUME NEW d \in Waiting' PROVE d \in Waiting \cup {c}
    <3>1. PICK k \in 1..Len(queue)+1 : queue'[k] = d
      BY <2>2 DEF Waiting
    <3> QED BY <2>2, <3>1 DEF Waiting
  <2>5. ASSUME NEW d \in Waiting PROVE d \in Waiting'
    <3>1. PICK k \in 1..Len(queue) : queue[k] = d
      BY DEF Waiting
    <3>2. k \in 1..Len(queue') /\ queue'[k] = d
      BY <2>2, <3>1
    <3> QED BY <3>2 DEF Waiting
  <2>6. c \in Waiting'
    <3>1. Len(queue) + 1 \in 1..Len(queue')
      BY <2>2
    <3> QED BY <2>2, <3>1 DEF Waiting
  <2> QED BY <2>3, <2>4, <2>5, <2>6
<1> QED BY <1>1, <1>2

LEMMA NobodyWaiting == ASSUME queue = <<>> PROVE QueuedOnce /\ Waiting = {}
BY DEF QueuedOnce, Waiting

LEMMA SomebodyWaiting ==
  ASSUME queue \in Seq(Conversations), queue # <<>>
  PROVE  Head(queue) \in Waiting
<1>1. Len(queue) \in Nat \ {0} /\ Head(queue) = queue[1]
  OBVIOUS
<1>2. 1 \in 1..Len(queue)
  BY <1>1
<1> QED BY <1>1, <1>2 DEF Waiting
-----------------------------------------------------------------------------
(* Who holds what.                                                         *)

LEMMA AttachedHeld ==
  ASSUME TypeOK, NEW c \in Conversations, NEW a \in Agents, Attached(c, a),
         row[c].state # "ACTIVE"
  PROVE  /\ Held(a)' = Held(a) \cup {c} /\ c \notin Held(a)
         /\ \A b \in Agents \ {a} : Held(b)' = Held(b)
<1>1. row'[c].state = "ACTIVE" /\ row'[c].agent = a
  BY DEF Attached, TypeOK, Row
<1>2. \A d \in Conversations \ {c} : row'[d] = row[d]
  BY DEF Attached, TypeOK
<1> QED BY <1>1, <1>2 DEF Held

LEMMA TakenHeld ==
  ASSUME TypeOK, NEW c \in Conversations,
         PutBack(c) \/ \E why \in EndReasons : Closed(c, why)
  PROVE  \A b \in Agents : Held(b)' = Held(b) \ {c}
<1>1. row'[c].state # "ACTIVE"
  BY DEF PutBack, Closed, TypeOK, Row
<1>2. \A d \in Conversations \ {c} : row'[d] = row[d]
  BY DEF PutBack, Closed, TypeOK
<1> QED BY <1>1, <1>2 DEF Held

LEMMA StartedHeld ==
  ASSUME TypeOK, NEW c \in Conversations, Started(c)
  PROVE  \A b \in Agents : Held(b)' = Held(b)
<1>1. row[c].state = "NONE" /\ row'[c].state # "ACTIVE"
  BY DEF Started, TypeOK, Row
<1>2. \A d \in Conversations \ {c} : row'[d] = row[d]
  BY DEF Started, TypeOK
<1> QED BY <1>1, <1>2 DEF Held


\* With nothing between a slot and its row, an agent's count is exact.
Exact == \A a \in Agents : presence[a].online => presence[a].active = Charged(a)

InBetween == {"attach", "release", "give", "unqueue", "save_ended", "save_waiting"}

LEMMA PresenceNumbers ==
  ASSUME TypeInv, NEW a \in Agents
  PROVE  presence[a].active \in 0..Capacity /\ presence[a].active \in Nat
<1>1. presence[a].active \in 0..Capacity
  BY DEF TypeInv, TypeOK, Presence
<1> QED BY <1>1, CapacityAssumption

LEMMA ChargedNumbers ==
  ASSUME Tallied, HeldBounded, NEW a \in Agents
  PROVE  Charged(a) \in Nat /\ Cardinality(Held(a)) \in Nat /\ lost[a] \in Nat
<1>1. lost[a] \in Nat /\ IsFiniteSet(Held(a))
  BY DEF Tallied, HeldBounded
<1>2. Cardinality(Held(a)) \in Nat
  BY <1>1, FS_CardinalityType
<1> QED BY <1>1, <1>2 DEF Charged

\* Of whoever is online afterwards, a step that records nothing and leaves what they
\* hold changes nothing that their count stands for.
LEMMA ChargedKept ==
  ASSUME Carried, NEW a \in Agents, presence'[a].online, Held(a)' = Held(a)
  PROVE  Charged(a)' = Charged(a)
BY DEF Charged, Carried

LEMMA ExactSlots ==
  ASSUME TypeInv, Tallied, HeldBounded, NEW f, f.pc \notin InBetween
  PROVE  /\ SlotsTrue(f) => Exact
         /\ Exact /\ f.pc # "take" => SlotsTrue(f)
<1>1. \A a \in Agents : Freed(f, a) = 0 /\ Claimed(f, a) = 0
  BY DEF Freed, Claimed, GivingUp, InBetween
<1>2. \A a \in Agents : presence[a].active \in Nat /\ Charged(a) \in Nat
  BY PresenceNumbers, ChargedNumbers
<1>3. \A a \in Agents : presence[a].active + Freed(f, a) = Charged(a) + Claimed(f, a)
        <=> presence[a].active = Charged(a)
  BY <1>1, <1>2
<1> QED BY <1>3 DEF SlotsTrue, Exact, GivingUp, InBetween
-----------------------------------------------------------------------------
(* What is said of the frame a handler goes to is true of it there, where  *)
(* what it is about has not changed.                                       *)

LEMMA PlacedNext ==
  ASSUME NEW w, NEW g, work'[w] = g, Placed(g)
  PROVE  Placed(work[w])'
BY DEF Placed

LEMMA CopiesNext ==
  ASSUME NEW w, NEW g, work'[w] = g, UNCHANGED row, CopiesTrue(g)
  PROVE  CopiesTrue(work[w])'
BY DEF CopiesTrue, CopyOf, Open, Parting, Returning

LEMMA QueueNext ==
  ASSUME NEW w, NEW g, work'[w] = g, UNCHANGED <<row, queue>>, Carried, QueueTrue(g)
  PROVE  QueueTrue(work[w])'
<1>1. Waiting' = Waiting
  BY DEF Waiting
<1> QED BY <1>1 DEF QueueTrue, InHand, Carried

LEMMA SlotsNext ==
  ASSUME NEW w, NEW g, work'[w] = g, UNCHANGED <<row, presence>>, Carried, SlotsTrue(g)
  PROVE  SlotsTrue(work[w])'
<1>1. \A a \in Agents : Held(a)' = Held(a)
  BY DEF Held
<1>2. \A a \in Agents : Freed(work[w], a)' = Freed(g, a) /\ Claimed(work[w], a)' = Claimed(g, a)
  BY DEF Freed, Claimed, GivingUp
<1>3. \A a \in Agents : presence'[a].online =>
        presence'[a].active + Freed(work[w], a)' = Charged(a)' + Claimed(work[w], a)'
  BY <1>1, <1>2, ChargedKept DEF SlotsTrue
<1> QED BY <1>3 DEF SlotsTrue, GivingUp

LEMMA DismissedNext ==
  ASSUME NEW w, NEW g, work'[w] = g, UNCHANGED <<row, employed>>, DismissedTrue(g)
  PROVE  DismissedTrue(work[w])'
<1>1. \A a \in Agents : Held(a)' = Held(a)
  BY DEF Held
<1> QED BY <1>1 DEF DismissedTrue

LEMMA HandlerNext ==
  ASSUME NEW w \in Workers, \A v \in Workers : v = w,
         TypeInv', RowConsistent', QueuedOnce', Tallied', HeldBounded',
         Placed(work[w])', CopiesTrue(work[w])', QueueTrue(work[w])', SlotsTrue(work[w])',
         DismissedTrue(work[w])'
  PROVE  AloneInv'
<1>1. HandlerTrue(work[w])'
  BY DEF HandlerTrue
<1>2. ASSUME NEW v \in Workers PROVE HandlerTrue(work[v])'
  BY <1>1
<1> QED BY <1>2 DEF AloneInv

\* A step that changes nothing but the handler's frame.
LEMMA GoingOn ==
  ASSUME AloneInv, NEW w \in Workers, \A v \in Workers : v = w, TypeInv',
         Tallied', Carried, NEW g, Goto(w, g), UNCHANGED <<row, employed, presence, queue>>,
         HandlerTrue(g)
  PROVE  AloneInv'
<1>1. work'[w] = g
  BY DEF Goto, AloneInv, TypeInv, TypeOK
<1>2. RowConsistent' /\ QueuedOnce'
  BY DEF AloneInv, RowConsistent, QueuedOnce
<1>3. HeldBounded'
  <2>1. \A a \in Agents : Held(a)' = Held(a)
    BY DEF Held
  <2> QED BY <2>1 DEF AloneInv, HeldBounded
<1> QED
  BY <1>1, <1>2, <1>3, PlacedNext, CopiesNext, QueueNext, SlotsNext, DismissedNext, HandlerNext
     DEF HandlerTrue
-----------------------------------------------------------------------------
(* Between two conversations.                                              *)

\* Nothing is in hand but what the loop has still to come to.
Between(f) ==
  /\ f.rest = {} \/ f.task \in {"interrupted", "idle", "dismissal", "desk"}
  /\ \A copy \in f.rest :
       /\ copy = CopyOf(copy.conv)
       /\ copy.state = IF f.task = "desk" THEN "WAITING" ELSE "ACTIVE"
  /\ \A c \in Conversations :
       row[c].state = "WAITING" =>
         (c \in Waiting <=>
            ~(f.task = "desk" /\ \E copy \in f.rest : copy.conv = c) /\ c \notin gone)
  /\ \A c \in Waiting : row[c].state = "WAITING"
  /\ \A c \in Conversations : c \in gone => row[c].state \in {"WAITING", "ENDED"}
  /\ f.task = "desk" /\ f.rest # {} => queue = <<>>
  /\ Exact
  /\ \A a \in Agents \ employed, c \in Conversations : c \in Held(a) =>
       f.task = "dismissal" /\ \E copy \in f.rest : copy.conv = c

LEMMA FinishedFields ==
  ASSUME NEW f \in Frame
  PROVE  /\ f.rest = {} => Finished(f).pc = "idle" /\ Finished(f).task = "start"
         /\ f.rest # {} => Finished(f).pc = "each" /\ Finished(f).task = f.task
         /\ Finished(f).rest = f.rest
BY DEF Finished, Idle, Entered, Frame

LEMMA FinishedTrue ==
  ASSUME TypeInv, Tallied, HeldBounded, NEW f \in Frame, Between(f)
  PROVE  HandlerTrue(Finished(f))
<1> DEFINE g == Finished(f)
<1>1. /\ f.rest = {} => g.pc = "idle" /\ g.task = "start"
      /\ f.rest # {} => g.pc = "each" /\ g.task = f.task
      /\ g.rest = f.rest
  BY FinishedFields
<1> HIDE DEF g
<1>2. Placed(g)
  BY <1>1 DEF Placed, Between
<1>3. CopiesTrue(g)
  BY <1>1 DEF CopiesTrue, Parting, Returning, Between
<1>4. QueueTrue(g)
  BY <1>1 DEF QueueTrue, InHand, Between
<1>5. SlotsTrue(g)
  BY <1>1, ExactSlots DEF Between, InBetween
<1>6. DismissedTrue(g)
  BY <1>1 DEF DismissedTrue, Between
<1> QED BY <1>2, <1>3, <1>4, <1>5, <1>6 DEF HandlerTrue, g

LEMMA BetweenTrue ==
  ASSUME TypeInv, Tallied, HeldBounded, NEW f \in Frame, HandlerTrue(f),
         f.pc \in {"look", "each", "desk", "drain", "idle"} \/ (f.pc = "claim" /\ f.task # "start")
  PROVE  Between(f)
<1>1. f.rest = {} \/ f.task \in {"interrupted", "idle", "dismissal", "desk"}
  BY DEF HandlerTrue, Placed, Frame, Tasks
<1>2. Exact
  BY ExactSlots DEF HandlerTrue, InBetween
<1>3. /\ \A c \in Conversations :
           row[c].state = "WAITING" =>
             (c \in Waiting <=>
                ~(f.task = "desk" /\ \E copy \in f.rest : copy.conv = c) /\ c \notin gone)
      /\ \A c \in Waiting : row[c].state = "WAITING"
      /\ \A c \in Conversations : c \in gone => row[c].state \in {"WAITING", "ENDED"}
      /\ f.task = "desk" /\ f.rest # {} => queue = <<>>
  BY DEF HandlerTrue, QueueTrue, InHand, Placed
<1>4. \A copy \in f.rest :
        /\ copy = CopyOf(copy.conv)
        /\ copy.state = IF f.task = "desk" THEN "WAITING" ELSE "ACTIVE"
  BY DEF HandlerTrue, CopiesTrue
<1>5. \A a \in Agents \ employed, c \in Conversations : c \in Held(a) =>
        f.task = "dismissal" /\ \E copy \in f.rest : copy.conv = c
  BY DEF HandlerTrue, DismissedTrue
<1> QED BY <1>1, <1>2, <1>3, <1>4, <1>5 DEF Between

LEMMA IdleFields == Idle.pc = "idle" /\ Idle.task = "start" /\ Idle.rest = {}
BY DEF Idle, Entered

LEMMA IdleTrue ==
  ASSUME TypeInv, Tallied, HeldBounded, NEW f \in Frame, Between(f), f.rest = {}
  PROVE  HandlerTrue(Idle)
<1>1. Finished(f) = Idle
  BY DEF Finished
<1> QED BY <1>1, FinishedTrue
-----------------------------------------------------------------------------
(* Taking a conversation away.                                             *)

\* The handler comes to c, with the others of its loop still to come.
Ready(f, c) ==
  /\ c \in Conversations /\ Open(c)
  /\ \/ f.task \in {"close", "visitor"} /\ f.rest = {}
     \/ f.task \in {"interrupted", "idle", "dismissal", "desk"}
  /\ \A copy \in f.rest :
       /\ copy = CopyOf(copy.conv) /\ copy.conv # c
       /\ copy.state = IF f.task = "desk" THEN "WAITING" ELSE "ACTIVE"
  /\ \A d \in Conversations :
       row[d].state = "WAITING" =>
         (d \in Waiting <=>
            ~(f.task = "desk" /\ (d = c \/ \E copy \in f.rest : copy.conv = d)) /\ d \notin gone)
  /\ \A d \in Waiting : row[d].state = "WAITING"
  /\ \A d \in Conversations : d \in gone => row[d].state \in {"WAITING", "ENDED"}
  /\ f.task = "desk" => queue = <<>> /\ row[c].state = "WAITING"
  /\ Exact
  /\ \A a \in Agents \ employed, d \in Conversations : d \in Held(a) =>
       f.task = "dismissal" /\ (d = c \/ \E copy \in f.rest : copy.conv = d)

LEMMA CopyFields ==
  ASSUME NEW c
  PROVE  /\ CopyOf(c).conv = c /\ CopyOf(c).state = row[c].state
         /\ CopyOf(c).agent = row[c].agent
BY DEF CopyOf

LEMMA ReleasingFields ==
  ASSUME NEW f \in Frame, f.copy \in Copy, NEW next \in {"unqueue", "save_waiting"}
  PROVE  LET g == Releasing(f, next)
         IN  /\ g.copy = f.copy /\ g.task = f.task /\ g.rest = f.rest
             /\ f.copy.agent = Nobody => g.pc = next
             /\ f.copy.agent # Nobody => g.pc = "release" /\ g.then = next
                                         /\ g.agent = f.copy.agent
BY DEF Releasing, Frame

\* Taken away, to end or to wait again, with a copy k that names its agent or nobody.
LEMMA TakingTrue ==
  ASSUME TypeInv, RowConsistent, Tallied, HeldBounded, NEW f \in Frame, NEW c, Ready(f, c),
         NEW next \in {"unqueue", "save_waiting"},
         NEW k, k.conv = c, k.agent \in {Nobody, row[c].agent},
         IF next = "unqueue" THEN f.task # "dismissal"
         ELSE row[c].state = "ACTIVE" /\ k.agent = row[c].agent /\ f.task \notin {"close", "visitor"},
         NEW g, g.copy = k, g.task = f.task, g.rest = f.rest,
         k.agent = Nobody => g.pc = next,
         k.agent # Nobody => g.pc = "release" /\ g.then = next /\ g.agent = k.agent
  PROVE  HandlerTrue(g)
<1>1. /\ c \in Conversations /\ row[c].state \in {"WAITING", "ACTIVE"}
      /\ row[c].state = "WAITING" <=> row[c].agent = Nobody
  BY DEF Ready, Open, RowConsistent
<1>2. g.copy.conv = c /\ g.copy.agent = k.agent
  OBVIOUS
<1>3. g.pc \in {"unqueue", "release"} /\ (g.pc = "release" => g.then = next)
      /\ (g.pc = "unqueue" => next = "unqueue" /\ k.agent = Nobody)
      /\ (g.task = "desk" => g.pc = "unqueue")
  BY <1>1 DEF Ready
<1>4. Placed(g)
  BY <1>3 DEF Placed, Ready
<1>5. CopiesTrue(g)
  BY <1>1, <1>2, <1>3 DEF CopiesTrue, Parting, Returning, Ready
<1>6. QueueTrue(g)
  BY <1>2, <1>3 DEF QueueTrue, InHand, Ready
<1>7. SlotsTrue(g)
  <2>1. \A a \in Agents : Freed(g, a) = 0 /\ Claimed(g, a) = 0
    BY <1>2, <1>3, NobodyAssumption DEF Freed, Claimed, GivingUp
  <2>2. \A a \in Agents : presence[a].active \in Nat /\ Charged(a) \in Nat
    BY PresenceNumbers, ChargedNumbers
  <2>3. \A a \in Agents : presence[a].online =>
          presence[a].active + Freed(g, a) = Charged(a) + Claimed(g, a)
    BY <2>1, <2>2 DEF Ready, Exact
  <2> QED BY <1>2, <1>3, <2>3 DEF SlotsTrue, GivingUp
<1>8. DismissedTrue(g)
  <2> SUFFICES ASSUME NEW a \in Agents \ employed, NEW d \in Conversations, d \in Held(a)
               PROVE  /\ g.task = "dismissal"
                      /\ \/ \E copy \in g.rest : copy.conv = d
                         \/ g.pc \in {"release", "give", "save_waiting"} /\ g.copy.conv = d
    BY <1>3 DEF DismissedTrue
  <2> QED BY <1>2, <1>3 DEF Ready
<1> QED BY <1>4, <1>5, <1>6, <1>7, <1>8 DEF HandlerTrue

LEMMA EndingTrue ==
  ASSUME TypeInv, RowConsistent, Tallied, HeldBounded, NEW f \in Frame, NEW c, Ready(f, c),
         f.task # "dismissal", NEW why \in EndReasons,
         NEW k \in Copy, k.conv = c, k.agent \in {Nobody, row[c].agent}
  PROVE  HandlerTrue(Ending(f, k, why))
<1> DEFINE h == [f EXCEPT !.copy = k, !.reason = why]
           g == Releasing(h, "unqueue")
<1>2. h \in Frame /\ h.copy = k /\ h.task = f.task /\ h.rest = f.rest
  BY DEF Frame
<1> HIDE DEF h
<1>3. /\ g.copy = k /\ g.task = f.task /\ g.rest = f.rest
      /\ k.agent = Nobody => g.pc = "unqueue"
      /\ k.agent # Nobody => g.pc = "release" /\ g.then = "unqueue" /\ g.agent = k.agent
  BY <1>2, ReleasingFields
<1> HIDE DEF g
<1>4. HandlerTrue(g)
  BY <1>3, TakingTrue
<1> QED BY <1>4 DEF g, h, Ending

LEMMA RequeueingTrue ==
  ASSUME TypeInv, RowConsistent, Tallied, HeldBounded, NEW f \in Frame, NEW c, Ready(f, c),
         f.task \notin {"close", "visitor"}, row[c].state = "ACTIVE"
  PROVE  HandlerTrue(Requeueing(f, CopyOf(c)))
<1> DEFINE h == [f EXCEPT !.copy = CopyOf(c), !.barred = {CopyOf(c).agent} \ {Nobody}]
           g == Releasing(h, "save_waiting")
<1>1. CopyOf(c) \in Copy /\ CopyOf(c).agent = row[c].agent /\ CopyOf(c).conv = c
  BY CopyOfOK, CopyFields DEF Ready, TypeInv, TypeOK
<1>2. h \in Frame /\ h.copy = CopyOf(c) /\ h.task = f.task /\ h.rest = f.rest
  BY <1>1 DEF Frame, Copy
<1> HIDE DEF h
<1>3. /\ g.copy = CopyOf(c) /\ g.task = f.task /\ g.rest = f.rest
      /\ row[c].agent = Nobody => g.pc = "save_waiting"
      /\ row[c].agent # Nobody =>
           g.pc = "release" /\ g.then = "save_waiting" /\ g.agent = row[c].agent
  BY <1>1, <1>2, ReleasingFields
<1> HIDE DEF g
<1>4. HandlerTrue(g)
  BY <1>1, <1>3, TakingTrue
<1> QED BY <1>4 DEF g, h, Requeueing

\* A turn of the loop, as far as what it is about to take is concerned.
LEMMA TurnReady ==
  ASSUME TypeInv, RowConsistent, Tallied, HeldBounded, NEW f \in Frame, HandlerTrue(f), f.pc = "each",
         NEW copy \in f.rest
  PROVE  LET g == [f EXCEPT !.rest = @ \ {copy}]
         IN  /\ g \in Frame /\ g.task = f.task /\ g.rest = f.rest \ {copy}
             /\ copy = CopyOf(copy.conv) /\ row[copy.conv].state = copy.state
             /\ copy.state = IF f.task = "desk" THEN "WAITING" ELSE "ACTIVE"
             /\ Ready(g, copy.conv)
             /\ f.task \in {"interrupted", "idle"} => Between(g)
<1> DEFINE g == [f EXCEPT !.rest = @ \ {copy}]
           c == copy.conv
<1>1. g \in Frame /\ g.task = f.task /\ g.rest = f.rest \ {copy}
  BY DEF Frame
<1>2. Between(f) /\ copy \in Copy /\ c \in Conversations
  <2>1. f.rest \subseteq Copy
    BY DEF Frame
  <2>2. c \in Conversations
    BY <2>1 DEF Copy
  <2>3. Between(f)
    BY BetweenTrue
  <2> QED BY <2>1, <2>2, <2>3
<1>3. copy = CopyOf(c) /\ copy.state = row[c].state
      /\ copy.state = IF f.task = "desk" THEN "WAITING" ELSE "ACTIVE"
  BY <1>2, CopyFields DEF Between
<1>4. \A r \in g.rest : r \in f.rest /\ r.conv # c
  BY <1>1, <1>2, <1>3 DEF Between
<1>5. \A d : (\E r \in f.rest : r.conv = d) <=> d = c \/ \E r \in g.rest : r.conv = d
  BY <1>1
<1> HIDE DEF g
<1>6. f.rest # {}
  OBVIOUS
<1>7. Ready(g, c)
  BY <1>1, <1>2, <1>3, <1>4, <1>5, <1>6 DEF Ready, Between, Open
<1>8. f.task \in {"interrupted", "idle"} => Between(g)
  BY <1>1, <1>2, <1>4 DEF Between
<1> QED BY <1>1, <1>3, <1>7, <1>8 DEF g
-----------------------------------------------------------------------------
(* The steps that change nothing but the handler's frame.                  *)

LEMMA GatherTrue ==
  ASSUME AloneInv, NEW w \in Workers, \A v \in Workers : v = w, TypeInv',
         Tallied', Carried, GatherHeld(w)
  PROVE  AloneInv'
<1> DEFINE f == work[w]
           g == [f EXCEPT !.rest = {CopyOf(c) : c \in Held(f.agent)}]
<1>1. /\ f.pc = "gather" /\ Goto(w, Finished(g)) /\ UNCHANGED <<row, employed, presence, queue>>
      /\ f \in Frame /\ HandlerTrue(f) /\ TypeInv /\ Tallied /\ HeldBounded
  BY DEF GatherHeld, At, AloneInv, TypeInv, TypeOK
<1>2. f.task = "dismissal" /\ f.rest = {}
  BY <1>1 DEF HandlerTrue, Placed
<1>3. \A c \in Held(f.agent) : /\ c \in Conversations /\ CopyOf(c) \in Copy
                              /\ CopyOf(c).conv = c /\ CopyOf(c).state = "ACTIVE"
  BY <1>1, CopyOfOK, CopyFields DEF Held, TypeInv, TypeOK
<1>4. g \in Frame /\ g.task = f.task /\ g.rest = {CopyOf(c) : c \in Held(f.agent)}
  BY <1>1, <1>3 DEF Frame
<1> HIDE DEF f, g
<1>5. Between(g)
  <2>1. \A copy \in g.rest : copy = CopyOf(copy.conv) /\ copy.state = "ACTIVE"
    BY <1>3, <1>4
  <2>2. \A a \in Agents \ employed, c \in Conversations : c \in Held(a) =>
          \E copy \in g.rest : copy.conv = c
    <3> SUFFICES ASSUME NEW a \in Agents \ employed, NEW c \in Conversations, c \in Held(a)
                 PROVE  \E copy \in g.rest : copy.conv = c
      OBVIOUS
    <3>1. f.agent = a
      BY <1>1, <1>2 DEF HandlerTrue, DismissedTrue
    <3> QED BY <1>3, <1>4, <3>1
  <2>3. Exact
    BY <1>1, ExactSlots DEF HandlerTrue, InBetween
  <2>4. /\ \A c \in Conversations :
             row[c].state = "WAITING" => (c \in Waiting <=> c \notin gone)
        /\ \A c \in Waiting : row[c].state = "WAITING"
        /\ \A c \in Conversations : c \in gone => row[c].state \in {"WAITING", "ENDED"}
    BY <1>1, <1>2 DEF HandlerTrue, QueueTrue, InHand
  <2> QED BY <1>2, <1>4, <2>1, <2>2, <2>3, <2>4 DEF Between
<1> QED BY <1>1, <1>4, <1>5, FinishedTrue, GoingOn

LEMMA DeskTrue ==
  ASSUME AloneInv, NEW w \in Workers, \A v \in Workers : v = w, TypeInv',
         Tallied', Carried, CloseDeskIfEmpty(w)
  PROVE  AloneInv'
<1> DEFINE f == work[w]
           g == [f EXCEPT !.pc = "drain"]
<1>1. /\ f.pc = "desk" /\ (Goto(w, Idle) \/ Goto(w, g))
      /\ UNCHANGED <<row, employed, presence, queue>>
      /\ f \in Frame /\ HandlerTrue(f) /\ TypeInv /\ Tallied /\ HeldBounded
  BY DEF CloseDeskIfEmpty, At, AloneInv, TypeInv, TypeOK
<1>2. f.task = "desk" /\ f.rest = {} /\ Between(f)
  <2>1. Between(f)
    BY <1>1, BetweenTrue
  <2> QED BY <1>1, <2>1 DEF HandlerTrue, Placed
<1>3. HandlerTrue(Idle)
  BY <1>1, <1>2, IdleTrue
<1>4. HandlerTrue(g)
  <2>1. g.pc = "drain" /\ g.task = "desk" /\ g.rest = {}
    BY <1>1, <1>2 DEF Frame
  <2> HIDE DEF g
  <2>2. Placed(g) /\ CopiesTrue(g)
    BY <2>1 DEF Placed, CopiesTrue, Parting, Returning
  <2>3. QueueTrue(g) /\ DismissedTrue(g)
    BY <1>2, <2>1 DEF Between, QueueTrue, DismissedTrue, InHand
  <2>4. SlotsTrue(g)
    BY <1>1, <1>2, <2>1, ExactSlots DEF Between, InBetween
  <2> QED BY <2>2, <2>3, <2>4 DEF HandlerTrue
<1> HIDE DEF f, g
<1> QED BY <1>1, <1>3, <1>4, GoingOn

LEMMA TurnTrue ==
  ASSUME AloneInv, NEW w \in Workers, \A v \in Workers : v = w, TypeInv',
         Tallied', Carried, NEW copy \in work[w].rest, NextOfLoop(w, copy)
  PROVE  AloneInv'
<1> DEFINE f == work[w]
           g == [f EXCEPT !.rest = @ \ {copy}]
           c == copy.conv
<1>1. /\ f.pc = "each" /\ UNCHANGED <<row, employed, presence, queue>>
      /\ f \in Frame /\ HandlerTrue(f) /\ TypeInv /\ RowConsistent /\ Tallied /\ HeldBounded
  BY DEF NextOfLoop, At, AloneInv, TypeInv, TypeOK
<1>2. /\ g \in Frame /\ g.task = f.task
      /\ copy = CopyOf(c) /\ row[c].state = copy.state
      /\ copy.state = IF f.task = "desk" THEN "WAITING" ELSE "ACTIVE"
      /\ Ready(g, c)
      /\ f.task \in {"interrupted", "idle"} => Between(g)
  BY <1>1, TurnReady
<1>3. \/ /\ f.task \in {"interrupted", "idle", "desk"}
         /\ \E why \in EndReasons : Goto(w, Ending(g, CopyOf(c), why))
      \/ /\ f.task \in {"interrupted", "dismissal"}
         /\ Goto(w, Requeueing(g, CopyOf(c)))
      \/ /\ f.task \in {"interrupted", "idle"}
         /\ Goto(w, Finished(g))
  BY <1>2 DEF NextOfLoop, EndReasons
<1> HIDE DEF f, g, c
<1>4. ASSUME NEW why \in EndReasons, Goto(w, Ending(g, CopyOf(c), why)),
             f.task \in {"interrupted", "idle", "desk"}
      PROVE  AloneInv'
  <2>1. CopyOf(c) \in Copy /\ CopyOf(c).conv = c /\ CopyOf(c).agent = row[c].agent
    BY <1>1, <1>2, CopyOfOK, CopyFields DEF Ready, TypeInv, TypeOK
  <2>2. HandlerTrue(Ending(g, CopyOf(c), why))
    BY <1>1, <1>2, <1>4, <2>1, EndingTrue
  <2> QED BY <1>1, <1>4, <2>2, GoingOn
<1>5. CASE f.task \in {"interrupted", "dismissal"} /\ Goto(w, Requeueing(g, CopyOf(c)))
  <2>1. HandlerTrue(Requeueing(g, CopyOf(c)))
    BY <1>1, <1>2, <1>5, RequeueingTrue
  <2> QED BY <1>1, <1>5, <2>1, GoingOn
<1>6. CASE f.task \in {"interrupted", "idle"} /\ Goto(w, Finished(g))
  BY <1>1, <1>2, <1>6, FinishedTrue, GoingOn
<1> QED BY <1>3, <1>4, <1>5, <1>6
-----------------------------------------------------------------------------
(* Assigning.                                                              *)

LEMMA ChooseTrue ==
  ASSUME AloneInv, NEW w \in Workers, \A v \in Workers : v = w, TypeInv',
         Tallied', Carried, ChooseAgents(w)
  PROVE  AloneInv'
<1> DEFINE f == work[w]
           g == [f EXCEPT !.pc = "claim", !.free = CandidateAgents]
<1>1. /\ f.pc = "choose" /\ Goto(w, g) /\ UNCHANGED <<row, employed, presence, queue>>
      /\ f \in Frame /\ HandlerTrue(f) /\ TypeInv /\ Tallied /\ HeldBounded
  BY DEF ChooseAgents, At, AloneInv, TypeInv, TypeOK
<1>2. /\ g.pc = "claim" /\ g.free \subseteq employed
      /\ g.task = f.task /\ g.rest = f.rest /\ g.copy = f.copy
  BY <1>1 DEF Frame, CandidateAgents
<1> HIDE DEF f, g
<1>3. Placed(g) /\ f.task = "start"
  BY <1>1, <1>2 DEF HandlerTrue, Placed
<1>4. CopiesTrue(g)
  BY <1>1, <1>2 DEF HandlerTrue, CopiesTrue, Parting, Returning
<1>5. QueueTrue(g)
  BY <1>1, <1>2, <1>3 DEF HandlerTrue, QueueTrue, InHand
<1>6. SlotsTrue(g)
  BY <1>1, <1>2, ExactSlots DEF HandlerTrue, InBetween
<1>7. DismissedTrue(g)
  BY <1>1, <1>2 DEF HandlerTrue, DismissedTrue
<1> QED BY <1>1, <1>3, <1>4, <1>5, <1>6, <1>7, GoingOn DEF HandlerTrue

LEMMA ClaimReadTrue ==
  ASSUME AloneInv, NEW w \in Workers, \A v \in Workers : v = w, TypeInv',
         Tallied', Carried, ClaimRead(w)
  PROVE  AloneInv'
<1> DEFINE f == work[w]
<1>1. /\ f.pc = "claim" /\ UNCHANGED <<row, employed, presence, queue>>
      /\ f \in Frame /\ HandlerTrue(f) /\ TypeInv /\ Tallied /\ HeldBounded
  BY DEF ClaimRead, At, AloneInv, TypeInv, TypeOK
<1>2. ASSUME NEW g, g.task = f.task, g.rest = f.rest, g.copy = f.copy,
             \/ g.pc = "join" /\ f.task = "start"
             \/ g.pc = "claim" /\ g.free \subseteq f.free
             \/ /\ g.pc = "take" /\ g.free = f.free /\ g.agent \in f.free
                /\ presence[g.agent].online /\ g.seen = presence[g.agent].active
      PROVE  HandlerTrue(g)
  <2>1. Placed(g)
    BY <1>1, <1>2 DEF HandlerTrue, Placed
  <2>2. CopiesTrue(g)
    BY <1>1, <1>2 DEF HandlerTrue, CopiesTrue, Parting, Returning
  <2>3. QueueTrue(g)
    BY <1>1, <1>2 DEF HandlerTrue, QueueTrue, InHand, Placed
  <2>4. SlotsTrue(g)
    <3>1. Exact
      BY <1>1, ExactSlots DEF HandlerTrue, InBetween
    <3>2. CASE g.pc # "take"
      BY <1>1, <1>2, <3>1, <3>2, ExactSlots DEF InBetween
    <3>3. CASE g.pc = "take"
      <4>1. \A a \in Agents : Freed(g, a) = 0 /\ Claimed(g, a) = 0
        BY <3>3 DEF Freed, Claimed, GivingUp
      <4>2. \A a \in Agents : presence[a].active \in Nat /\ Charged(a) \in Nat
        BY <1>1, PresenceNumbers, ChargedNumbers
      <4>3. \A a \in Agents : presence[a].online =>
              presence[a].active + Freed(g, a) = Charged(a) + Claimed(g, a)
        BY <3>1, <4>1, <4>2 DEF Exact
      <4> QED BY <1>2, <3>3, <4>3 DEF SlotsTrue, GivingUp
    <3> QED BY <3>2, <3>3
  <2>5. DismissedTrue(g)
    BY <1>1, <1>2 DEF HandlerTrue, DismissedTrue
  <2> QED BY <2>1, <2>2, <2>3, <2>4, <2>5 DEF HandlerTrue
<1>3. CASE f.free = {} /\ Goto(w, NobodyFree(f))
  <2>1. CASE f.task = "start"
    <3> DEFINE g == [f EXCEPT !.pc = "join"]
    <3>1. Goto(w, g) /\ g.pc = "join" /\ g.task = f.task /\ g.rest = f.rest /\ g.copy = f.copy
      BY <1>1, <1>3, <2>1 DEF NobodyFree, Frame
    <3> HIDE DEF f, g
    <3>2. HandlerTrue(g)
      BY <1>2, <2>1, <3>1
    <3> QED BY <1>1, <3>1, <3>2, GoingOn
  <2>2. CASE f.task # "start"
    <3>1. Goto(w, Finished(f))
      BY <1>3, <2>2 DEF NobodyFree
    <3>2. HandlerTrue(Finished(f))
      BY <1>1, <2>2, BetweenTrue, FinishedTrue
    <3> QED BY <1>1, <3>1, <3>2, GoingOn
  <2> QED BY <2>1, <2>2
<1>4. ASSUME NEW a \in f.free, HasCapacity(a),
             Goto(w, [f EXCEPT !.pc = "take", !.agent = a, !.seen = presence[a].active])
      PROVE  AloneInv'
  <2> DEFINE g == [f EXCEPT !.pc = "take", !.agent = a, !.seen = presence[a].active]
  <2>1. /\ g.task = f.task /\ g.rest = f.rest /\ g.copy = f.copy /\ g.free = f.free
        /\ g.pc = "take" /\ g.agent = a /\ g.seen = presence[a].active
    BY <1>1 DEF Frame
  <2>2. Goto(w, g) /\ presence[a].online
    BY <1>4 DEF HasCapacity
  <2> HIDE DEF f, g
  <2>3. HandlerTrue(g)
    BY <1>2, <2>1, <2>2
  <2> QED BY <1>1, <2>2, <2>3, GoingOn
<1>5. ASSUME NEW a \in f.free, Goto(w, [f EXCEPT !.free = @ \ {a}]) PROVE AloneInv'
  <2> DEFINE g == [f EXCEPT !.free = @ \ {a}]
  <2>1. /\ g.task = f.task /\ g.rest = f.rest /\ g.copy = f.copy /\ g.free \subseteq f.free
        /\ g.pc = "claim"
    BY <1>1 DEF Frame
  <2>2. Goto(w, g)
    BY <1>5
  <2> HIDE DEF f, g
  <2>3. HandlerTrue(g)
    BY <1>2, <2>1
  <2> QED BY <1>1, <2>2, <2>3, GoingOn
<1> QED BY <1>3, <1>4, <1>5 DEF ClaimRead

LEMMA ClaimWriteTrue ==
  ASSUME AloneInv, NEW w \in Workers, \A v \in Workers : v = w, TypeInv',
         Tallied', Carried, ClaimWrite(w)
  PROVE  AloneInv'
<1> DEFINE f == work[w]
           g == [f EXCEPT !.pc = "attach", !.seen = 0]
           n == f.seen + 1
<1>1. /\ f.pc = "take" /\ Goto(w, g) /\ SetActive(f.agent, n)
      /\ UNCHANGED <<row, employed, queue>>
      /\ f \in Frame /\ HandlerTrue(f) /\ Coherent(f)
      /\ TypeInv /\ Tallied /\ HeldBounded /\ QueuedOnce /\ RowConsistent
  BY DEF ClaimWrite, At, AloneInv, TypeInv, TypeOK, WorkCoherent
<1>2. /\ g.pc = "attach" /\ g.agent = f.agent /\ g.free = f.free
      /\ g.task = f.task /\ g.rest = f.rest /\ g.copy = f.copy /\ work'[w] = g
  BY <1>1 DEF Frame, Goto, TypeInv, TypeOK
<1>3. f.agent \in Agents /\ f.seen = presence[f.agent].active /\ presence[f.agent].online
  BY <1>1 DEF Coherent, HandlerTrue, SlotsTrue
<1> HIDE DEF f, g
<1>4. Placed(work[w])' /\ CopiesTrue(work[w])'
  <2>1. Placed(g) /\ CopiesTrue(g)
    BY <1>1, <1>2 DEF HandlerTrue, Placed, CopiesTrue, Parting, Returning
  <2> QED BY <1>1, <1>2, <2>1, PlacedNext, CopiesNext
<1>5. QueueTrue(work[w])' /\ DismissedTrue(work[w])'
  <2>1. QueueTrue(g)
    BY <1>1, <1>2 DEF HandlerTrue, QueueTrue, InHand, Placed
  <2>2. DismissedTrue(g)
    BY <1>1, <1>2 DEF HandlerTrue, DismissedTrue
  <2> QED BY <1>1, <1>2, <2>1, <2>2, QueueNext, DismissedNext
<1>6. QueuedOnce' /\ RowConsistent' /\ \A a \in Agents : Held(a)' = Held(a)
  BY <1>1 DEF QueuedOnce, RowConsistent, Held
<1>7. HeldBounded'
  BY <1>1, <1>6 DEF HeldBounded
<1>8. SlotsTrue(work[w])'
  <2>1. /\ presence'[f.agent].online /\ presence'[f.agent].active = n
        /\ \A a \in Agents \ {f.agent} : presence'[a] = presence[a]
    BY <1>1, <1>3 DEF SetActive, TypeInv, TypeOK
  <2>2. Exact
    <3>1. \A a \in Agents : Freed(f, a) = 0 /\ Claimed(f, a) = 0
      BY <1>1 DEF Freed, Claimed, GivingUp
    <3> QED BY <1>1, ExactSlots DEF HandlerTrue, InBetween
  <2>3. \A a \in Agents : Freed(work[w], a)' = 0
    BY <1>2 DEF Freed
  <2>4. \A a \in Agents : Claimed(work[w], a)' = IF a = f.agent THEN 1 ELSE 0
    BY <1>2 DEF Claimed
  <2>5. \A a \in Agents : presence[a].active \in Nat /\ Charged(a) \in Nat
    BY <1>1, PresenceNumbers, ChargedNumbers
  <2>6. ASSUME NEW a \in Agents, presence'[a].online
        PROVE  presence'[a].active + Freed(work[w], a)' = Charged(a)' + Claimed(work[w], a)'
    <3>0. Charged(a)' = Charged(a)
      BY <1>6, <2>6, ChargedKept
    <3>1. CASE a = f.agent
      <4>1. presence'[a].active = Charged(a) + 1
        BY <1>3, <2>1, <2>2, <3>1 DEF Exact
      <4> QED BY <2>3, <2>4, <2>5, <3>0, <3>1, <4>1
    <3>2. CASE a # f.agent
      <4>1. presence'[a].active = Charged(a)
        BY <2>1, <2>2, <2>6, <3>2 DEF Exact
      <4> QED BY <2>3, <2>4, <2>5, <3>0, <3>2, <4>1
    <3> QED BY <3>1, <3>2
  <2> QED BY <1>2, <2>1, <2>6 DEF SlotsTrue, GivingUp
<1> QED BY <1>4, <1>5, <1>6, <1>7, <1>8, HandlerNext

LEMMA AttachTrue ==
  ASSUME AloneInv, NEW w \in Workers, \A v \in Workers : v = w, TypeInv',
         Tallied', Carried, RowConsistent',
         Attach(w)
  PROVE  AloneInv'
<1> DEFINE f == work[w]
           c == f.copy.conv
           g == IF f.task = "start" THEN Idle ELSE [f EXCEPT !.pc = "serve", !.agent = Nobody]
<1>1. /\ f.pc = "attach" /\ UNCHANGED <<employed, presence, queue>>
      /\ f \in Frame /\ HandlerTrue(f) /\ Coherent(f)
      /\ TypeInv /\ Tallied /\ HeldBounded /\ QueuedOnce /\ RowConsistent
  BY DEF Attach, At, AloneInv, TypeInv, TypeOK, WorkCoherent
<1>0. PICK a \in Agents : a = f.agent
  BY <1>1 DEF Coherent
<1>2. /\ c \in Conversations /\ a = f.agent
      /\ row[c].state = "WAITING" /\ row[c].agent = Nobody
      /\ a \in employed /\ presence[a].online
  BY <1>0, <1>1 DEF Coherent, OnConversation, Copy, HandlerTrue, CopiesTrue, SlotsTrue, DismissedTrue,
              RowConsistent
<1>3. Attached(c, a) /\ Goto(w, g)
  BY <1>0, <1>2 DEF Attach, Attached
<1>4. \/ g.pc = "idle" /\ g.task = "start" /\ g.rest = {} /\ f.task = "start"
      \/ /\ g.pc = "serve" /\ g.task = f.task /\ g.rest = f.rest /\ g.copy = f.copy
         /\ f.task # "start"
  BY <1>1, IdleFields DEF Frame
<1>5. work'[w] = g
  BY <1>1, <1>3 DEF Goto, TypeInv, TypeOK
<1> HIDE DEF f, g, c
<1>6. /\ row'[c].state = "ACTIVE" /\ \A d \in Conversations \ {c} : row'[d] = row[d]
  BY <1>1, <1>2, <1>3 DEF Attached, TypeInv, TypeOK, Row
<1>7. /\ Held(a)' = Held(a) \cup {c} /\ c \notin Held(a)
      /\ \A b \in Agents \ {a} : Held(b)' = Held(b)
  <2>1. TypeOK /\ row[c].state # "ACTIVE"
    BY <1>1, <1>2 DEF TypeInv
  <2> QED BY <1>2, <1>3, <2>1, AttachedHeld
<1>8. Placed(work[w])'
  <2>1. Placed(g)
    BY <1>1, <1>4 DEF HandlerTrue, Placed
  <2> QED BY <1>5, <2>1, PlacedNext
<1>9. f.task # "desk"
  BY <1>1 DEF HandlerTrue, Placed
<1>10. CopiesTrue(work[w])'
  <2>1. \A copy \in g.rest : /\ copy = CopyOf(copy.conv) /\ copy.state = "ACTIVE"
                            /\ copy.conv \in Conversations
    <3>1. f.rest \subseteq Copy /\ g.rest \subseteq f.rest
      BY <1>1, <1>4 DEF Frame
    <3> QED BY <1>1, <1>9, <3>1 DEF HandlerTrue, CopiesTrue, Copy
  <2>2. ASSUME NEW copy \in g.rest PROVE copy = CopyOf(copy.conv)' /\ copy.state = "ACTIVE"
    <3>1. copy.conv # c
      BY <1>2, <2>1, CopyFields
    <3> QED BY <1>6, <2>1, <3>1 DEF CopyOf
  <2>3. g.task # "desk"
    BY <1>4, <1>9
  <2>4. g.pc = "serve" => row'[g.copy.conv].state = "ACTIVE"
    BY <1>4, <1>6 DEF c
  <2> QED BY <1>4, <1>5, <2>2, <2>3, <2>4 DEF CopiesTrue, Parting, Returning
<1>11. QueueTrue(work[w])'
  <2>1. Waiting' = Waiting /\ Waiting \subseteq Conversations
    BY <1>1, WaitingOK DEF Waiting, TypeInv, TypeOK
  <2>2. /\ \A d \in Conversations :
             row[d].state = "WAITING" =>
               (d \in Waiting <=> ~(f.task = "start" /\ c = d) /\ d \notin gone)
        /\ c \notin gone /\ gone' = gone
        /\ \A d \in Conversations : d \in gone => row[d].state \in {"WAITING", "ENDED"}
    BY <1>1, <1>9 DEF HandlerTrue, QueueTrue, InHand, c, Carried
  <2>3. \A d \in Waiting : row[d].state = "WAITING"
    BY <1>1 DEF HandlerTrue, QueueTrue
  <2>4. \A d : ~InHand(g, d)
    BY <1>4, <1>9 DEF InHand
  <2>5. ASSUME NEW d \in Conversations, row'[d].state = "WAITING"
        PROVE  d \in Waiting' <=> d \notin gone'
    BY <1>6, <2>1, <2>2, <2>5
  <2>9. \A d \in Conversations : d \in gone' => row'[d].state \in {"WAITING", "ENDED"}
    BY <1>6, <2>2
  <2>10. g.pc \notin {"choose", "load", "claim", "take", "attach", "join", "rejoin"}
    BY <1>4
  <2>6. ASSUME NEW d \in Waiting'
        PROVE  row'[d].state = "WAITING" \/ (g.pc = "serve" /\ g.copy.conv = d)
    <3>1. CASE d = c
      BY <1>2, <1>4, <2>1, <2>2, <2>6, <3>1 DEF c
    <3>2. CASE d # c
      BY <1>6, <2>1, <2>3, <2>6, <3>2
    <3> QED BY <3>1, <3>2
  <2>7. g.task # "desk"
    BY <1>4, <1>9
  <2>8. \A d : InHand(work[w], d)' <=> InHand(g, d)
    BY <1>5 DEF InHand
  <2> QED BY <1>5, <2>4, <2>5, <2>6, <2>7, <2>8, <2>9, <2>10 DEF QueueTrue
<1>12. /\ IsFiniteSet(Held(a)') /\ Cardinality(Held(a)') <= presence[a].active
       /\ Charged(a)' = presence[a].active
  <2>1. IsFiniteSet(Held(a)') /\ Cardinality(Held(a)') = Cardinality(Held(a)) + 1
    <3>1. IsFiniteSet(Held(a))
      BY <1>1, <1>2 DEF HeldBounded
    <3>2. /\ IsFiniteSet(Held(a) \cup {c})
          /\ Cardinality(Held(a) \cup {c}) = Cardinality(Held(a)) + 1
      BY <1>7, <3>1, FS_AddElement
    <3> QED BY <1>7, <3>2
  <2>2. Freed(f, a) = 0 /\ Claimed(f, a) = 1
    BY <1>1, <1>2 DEF Freed, Claimed
  <2>3. /\ presence[a].active \in Nat /\ Charged(a) \in Nat
        /\ Cardinality(Held(a)) \in Nat /\ lost[a] \in Nat
    BY <1>1, <1>2, PresenceNumbers, ChargedNumbers
  <2>4. presence[a].active = Charged(a) + 1
    BY <1>1, <1>2, <2>2, <2>3 DEF HandlerTrue, SlotsTrue
  <2>5. lost'[a] = lost[a]
    BY <1>1, <1>2 DEF Carried
  <2> QED BY <2>1, <2>3, <2>4, <2>5 DEF Charged
<1>13. HeldBounded'
  <2>1. Cardinality(Held(a)') <= Capacity
    <3>1. presence[a].active \in 0..Capacity /\ Cardinality(Held(a)') \in Nat
      BY <1>1, <1>2, <1>12, PresenceNumbers, FS_CardinalityType
    <3> QED BY <1>12, <3>1, CapacityAssumption
  <2>2. \A b \in Agents \ {a} : IsFiniteSet(Held(b)') /\ Cardinality(Held(b)') <= Capacity
    BY <1>1, <1>7 DEF HeldBounded
  <2>3. \A b \in Agents : IsFiniteSet(Held(b)') /\ Cardinality(Held(b)') <= Capacity
    BY <1>12, <2>1, <2>2
  <2> QED BY <2>3 DEF HeldBounded
<1>14. SlotsTrue(work[w])'
  <2>1. \A b \in Agents : Freed(f, b) = 0 /\ (b # a => Claimed(f, b) = 0)
    BY <1>1, <1>2 DEF Freed, Claimed, GivingUp
  <2>2. \A b \in Agents : Freed(work[w], b)' = 0 /\ Claimed(work[w], b)' = 0
    BY <1>4, <1>5 DEF Freed, Claimed, GivingUp
  <2>3. \A b \in Agents : presence[b].active \in Nat /\ Charged(b) \in Nat
    BY <1>1, PresenceNumbers, ChargedNumbers
  <2>4. ASSUME NEW b \in Agents, presence'[b].online
        PROVE  presence'[b].active + Freed(work[w], b)' = Charged(b)' + Claimed(work[w], b)'
    <3>1. CASE b = a
      <4>1. presence'[b].active = Charged(b)' /\ presence'[b].active \in Nat
        BY <1>1, <1>12, <2>3, <3>1
      <4> QED BY <2>2, <4>1
    <3>2. CASE b # a
      <4>1. Charged(b)' = Charged(b)
        BY <1>7, <2>4, <3>2, ChargedKept
      <4> QED BY <1>1, <2>1, <2>2, <2>3, <2>4, <3>2, <4>1 DEF HandlerTrue, SlotsTrue
    <3> QED BY <3>1, <3>2
  <2> QED BY <1>4, <1>5, <2>4 DEF SlotsTrue, GivingUp
<1>15. DismissedTrue(work[w])'
  <2>1. ASSUME NEW b \in Agents \ employed', NEW d \in Conversations, d \in Held(b)'
        PROVE  g.task = "dismissal" /\ \E copy \in g.rest : copy.conv = d
    <3>1. d \in Held(b)
      BY <1>1, <1>2, <1>7, <2>1
    <3>2. f.task = "dismissal" /\ \E copy \in f.rest : copy.conv = d
      BY <1>1, <2>1, <3>1 DEF HandlerTrue, DismissedTrue
    <3> QED BY <1>4, <3>2
  <2> QED BY <1>4, <1>5, <2>1 DEF DismissedTrue
<1>16. QueuedOnce'
  BY <1>1 DEF QueuedOnce
<1> QED BY <1>8, <1>10, <1>11, <1>13, <1>14, <1>15, <1>16, HandlerNext

LEMMA AttachFailsTrue ==
  ASSUME AloneInv, NEW w \in Workers, \A v \in Workers : v = w, TypeInv',
         Tallied', Carried, AttachFails(w),
         work[w].task \notin {"start", "dismissal"}
  PROVE  AloneInv'
<1> DEFINE f == work[w]
           g == [f EXCEPT !.pc = "release", !.then = "abort"]
<1>1. /\ f.pc = "attach" /\ Goto(w, g) /\ UNCHANGED <<row, employed, presence, queue>>
      /\ f \in Frame /\ HandlerTrue(f) /\ f.task \notin {"start", "dismissal"}
  BY DEF AttachFails, At, AloneInv, TypeInv, TypeOK
<1>2. /\ g.pc = "release" /\ g.then = "abort" /\ g.agent = f.agent
      /\ g.task = f.task /\ g.rest = f.rest /\ g.copy = f.copy
  BY <1>1 DEF Frame
<1> HIDE DEF f, g
<1>3. Placed(g)
  BY <1>1, <1>2 DEF HandlerTrue, Placed
<1>4. CopiesTrue(g)
  BY <1>1, <1>2 DEF HandlerTrue, CopiesTrue, Parting, Returning
<1>5. QueueTrue(g)
  BY <1>1, <1>2 DEF HandlerTrue, QueueTrue, InHand, Placed
<1>6. SlotsTrue(g)
  <2>1. \A a \in Agents : Freed(f, a) = Freed(g, a) /\ Claimed(f, a) = Claimed(g, a)
    BY <1>1, <1>2 DEF Freed, Claimed, GivingUp
  <2> QED BY <1>1, <1>2, <2>1 DEF HandlerTrue, SlotsTrue, GivingUp
<1>7. DismissedTrue(g)
  BY <1>1, <1>2 DEF HandlerTrue, DismissedTrue
<1> QED BY <1>1, <1>3, <1>4, <1>5, <1>6, <1>7, GoingOn DEF HandlerTrue

LEMMA JoinTrue ==
  ASSUME AloneInv, NEW w \in Workers, \A v \in Workers : v = w, TypeInv',
         Tallied', Carried, JoinQueue(w)
  PROVE  AloneInv'
<1> DEFINE f == work[w]
           c == f.copy.conv
<1>1. /\ f.pc = "join" /\ Goto(w, Idle) /\ queue' = Joined(c)
      /\ UNCHANGED <<row, employed, presence>>
      /\ f \in Frame /\ HandlerTrue(f) /\ Coherent(f)
      /\ TypeInv /\ Tallied /\ HeldBounded /\ QueuedOnce /\ RowConsistent
  BY DEF JoinQueue, At, AloneInv, TypeInv, TypeOK, WorkCoherent
<1>2. /\ c \in Conversations /\ row[c].state = "WAITING"
      /\ f.task = "start"
  BY <1>1 DEF Coherent, OnConversation, Copy, HandlerTrue, CopiesTrue, Placed
<1>3. work'[w] = Idle
  BY <1>1 DEF Goto, TypeInv, TypeOK
<1>4. QueuedOnce' /\ Waiting' = Waiting \cup {c}
  BY <1>1, <1>2, JoinedWaiting DEF TypeInv, TypeOK
<1>5. /\ \A d \in Conversations :
           row[d].state = "WAITING" => (d \in Waiting <=> d # c /\ d \notin gone)
      /\ \A d \in Waiting : row[d].state = "WAITING"
      /\ \A d \in Conversations : d \in gone => row[d].state \in {"WAITING", "ENDED"}
      /\ c \notin gone /\ gone' = gone
  BY <1>1, <1>2 DEF HandlerTrue, QueueTrue, InHand, Carried
<1> HIDE DEF f, c
<1>6. Placed(Idle) /\ CopiesTrue(Idle)
  BY IdleFields DEF Placed, CopiesTrue, Parting, Returning
<1>7. Placed(work[w])' /\ CopiesTrue(work[w])'
  BY <1>1, <1>3, <1>6, PlacedNext, CopiesNext
<1>8. QueueTrue(work[w])'
  <2>1. \A d : ~InHand(work[w], d)'
    BY <1>3, IdleFields DEF InHand
  <2> QED BY <1>1, <1>2, <1>3, <1>4, <1>5, <2>1, IdleFields DEF QueueTrue
<1>9. SlotsTrue(Idle)
  BY <1>1, ExactSlots, IdleFields DEF HandlerTrue, InBetween
<1>10. DismissedTrue(Idle)
  BY <1>1, <1>2, IdleFields DEF HandlerTrue, DismissedTrue
<1>11. HeldBounded' /\ RowConsistent'
  BY <1>1 DEF HeldBounded, Held, RowConsistent
<1> QED BY <1>1, <1>3, <1>4, <1>7, <1>8, <1>9, <1>10, <1>11, SlotsNext, DismissedNext, HandlerNext
-----------------------------------------------------------------------------
(* Giving a slot back.                                                     *)

LEMMA ResumedFields ==
  ASSUME NEW f \in Frame
  PROVE  /\ f.then = "abort" => Resumed(f) = Idle
         /\ f.then \in {"unqueue", "save_waiting"} =>
              /\ Resumed(f).pc = f.then /\ Resumed(f).task = f.task
              /\ Resumed(f).rest = f.rest /\ Resumed(f).copy = f.copy
BY DEF Resumed, Frame

\* Back from the release, the conversation is still being taken away.
LEMMA ResumedTrue ==
  ASSUME NEW f, HandlerTrue(f), f.pc \in {"release", "give"}, f.then # "abort",
         NEW g, g.pc = f.then, g.task = f.task, g.rest = f.rest, g.copy = f.copy,
         f.then \in {"unqueue", "save_waiting"}
  PROVE  Placed(g) /\ CopiesTrue(g) /\ QueueTrue(g) /\ DismissedTrue(g)
<1>1. f.task \notin {"start", "desk"}
  BY DEF HandlerTrue, Placed
<1>2. Placed(g)
  BY <1>1 DEF HandlerTrue, Placed
<1>3. CopiesTrue(g)
  BY DEF HandlerTrue, CopiesTrue, Parting, Returning
<1>4. QueueTrue(g)
  BY <1>1 DEF HandlerTrue, QueueTrue, InHand
<1>5. DismissedTrue(g)
  <2>1. g.pc \notin {"load", "claim", "take", "attach"}
    OBVIOUS
  <2>2. f.task = "dismissal" => g.pc = "save_waiting"
    BY DEF HandlerTrue, Placed
  <2>3. ASSUME NEW a \in Agents \ employed, NEW c \in Conversations, c \in Held(a)
        PROVE  /\ g.task = "dismissal"
               /\ \/ \E copy \in g.rest : copy.conv = c
                  \/ g.pc \in {"release", "give", "save_waiting"} /\ g.copy.conv = c
    <3>1. /\ f.task = "dismissal"
          /\ (\E copy \in f.rest : copy.conv = c) \/ f.copy.conv = c
      BY <2>3 DEF HandlerTrue, DismissedTrue
    <3> QED BY <2>2, <3>1
  <2> QED BY <2>1, <2>3 DEF DismissedTrue
<1> QED BY <1>2, <1>3, <1>4, <1>5

LEMMA ReleaseReadTrue ==
  ASSUME AloneInv, NEW w \in Workers, \A v \in Workers : v = w, TypeInv',
         Tallied', Carried, ReleaseRead(w)
  PROVE  AloneInv'
<1> DEFINE f == work[w]
           g == [f EXCEPT !.pc = "give", !.seen = presence[f.agent].active]
<1>1. /\ f.pc = "release" /\ UNCHANGED <<row, employed, presence, queue>>
      /\ f \in Frame /\ HandlerTrue(f) /\ Coherent(f)
  BY DEF ReleaseRead, At, AloneInv, TypeInv, TypeOK, WorkCoherent
<1>2. CASE presence[f.agent].online
  <2>1. /\ Goto(w, g) /\ g.pc = "give" /\ g.then = f.then /\ g.agent = f.agent
        /\ g.seen = presence[f.agent].active
        /\ g.task = f.task /\ g.rest = f.rest /\ g.copy = f.copy
    BY <1>1, <1>2 DEF ReleaseRead, Frame
  <2> HIDE DEF f, g
  <2>2. Placed(g)
    BY <1>1, <2>1 DEF HandlerTrue, Placed
  <2>3. CopiesTrue(g)
    BY <1>1, <2>1 DEF HandlerTrue, CopiesTrue, Parting, Returning
  <2>4. QueueTrue(g)
    BY <1>1, <2>1 DEF HandlerTrue, QueueTrue, InHand
  <2>5. SlotsTrue(g)
    <3>1. \A a \in Agents : Freed(f, a) = Freed(g, a) /\ Claimed(f, a) = Claimed(g, a)
      BY <1>1, <2>1 DEF Freed, Claimed, GivingUp
    <3> QED BY <1>1, <1>2, <2>1, <3>1 DEF HandlerTrue, SlotsTrue, GivingUp
  <2>6. DismissedTrue(g)
    BY <1>1, <2>1 DEF HandlerTrue, DismissedTrue
  <2> QED BY <1>1, <2>1, <2>2, <2>3, <2>4, <2>5, <2>6, GoingOn DEF HandlerTrue
<1>3. CASE ~presence[f.agent].online
  <2> DEFINE h == Resumed(f)
  <2>1. Goto(w, h)
    BY <1>1, <1>3 DEF ReleaseRead
  <2>2. f.then \in {"unqueue", "save_waiting"}
    <3>1. f.then # "abort"
      BY <1>1, <1>3 DEF HandlerTrue, SlotsTrue, GivingUp
    <3>2. f.then # "lost" /\ f.then \in Returns
      BY <1>1 DEF HandlerTrue, Placed, Frame
    <3> QED BY <3>1, <3>2 DEF Returns
  <2>3. h.pc = f.then /\ h.task = f.task /\ h.rest = f.rest /\ h.copy = f.copy
    BY <1>1, <2>2, ResumedFields
  <2>4. f.agent = f.copy.agent
    BY <1>1, <2>2 DEF HandlerTrue, SlotsTrue
  <2> HIDE DEF f, h
  <2>5. Placed(h) /\ CopiesTrue(h) /\ QueueTrue(h) /\ DismissedTrue(h)
    BY <1>1, <2>2, <2>3, ResumedTrue
  <2>6. SlotsTrue(h)
    <3>1. \A a \in Agents : presence[a].online =>
            /\ Freed(f, a) = Freed(h, a) /\ Claimed(f, a) = Claimed(h, a)
      BY <1>1, <1>3, <2>2, <2>3, <2>4 DEF Freed, Claimed, GivingUp
    <3> QED BY <1>1, <2>2, <2>3, <3>1 DEF HandlerTrue, SlotsTrue, GivingUp
  <2> QED BY <1>1, <2>1, <2>5, <2>6, GoingOn DEF HandlerTrue
<1> QED BY <1>2, <1>3

LEMMA ReleaseWriteTrue ==
  ASSUME AloneInv, NEW w \in Workers, \A v \in Workers : v = w, TypeInv',
         Tallied', Carried, ReleaseWrite(w)
  PROVE  AloneInv'
<1> DEFINE f == work[w]
           g == Resumed(f)
<1>1. /\ f.pc = "give" /\ Goto(w, g) /\ UNCHANGED <<row, employed, queue>>
      /\ SetActive(f.agent, IF f.seen = 0 THEN 0 ELSE f.seen - 1)
      /\ f \in Frame /\ HandlerTrue(f) /\ Coherent(f)
      /\ TypeInv /\ Tallied /\ HeldBounded /\ QueuedOnce /\ RowConsistent
  BY DEF ReleaseWrite, At, AloneInv, TypeInv, TypeOK, WorkCoherent
<1>2. PICK a \in Agents : a = f.agent
  BY <1>1 DEF Coherent
<1>3. f.then \in {"unqueue", "save_waiting", "abort"} /\ f.task \notin {"start", "desk"}
  BY <1>1 DEF HandlerTrue, Placed, Frame, Returns
<1>4. /\ f.then = "abort" => g.pc = "idle" /\ g.task = "start" /\ g.rest = {}
      /\ f.then # "abort" => /\ g.pc = f.then /\ g.task = f.task
                             /\ g.rest = f.rest /\ g.copy = f.copy
  BY <1>1, <1>3, ResumedFields, IdleFields
<1>5. work'[w] = g
  BY <1>1 DEF Goto, TypeInv, TypeOK
<1>6. /\ presence[a].online /\ f.seen = presence[a].active
      /\ f.then # "abort" => a = f.copy.agent
  BY <1>1, <1>2 DEF HandlerTrue, SlotsTrue
<1>7. /\ presence'[a].online
      /\ presence'[a].active = IF f.seen = 0 THEN 0 ELSE f.seen - 1
      /\ \A b \in Agents \ {a} : presence'[b] = presence[b]
  BY <1>1, <1>2 DEF SetActive, TypeInv, TypeOK
<1> HIDE DEF f, g
<1>8. QueuedOnce' /\ RowConsistent' /\ \A b \in Agents : Held(b)' = Held(b)
  BY <1>1 DEF QueuedOnce, RowConsistent, Held
<1>9. HeldBounded'
  BY <1>1, <1>8 DEF HeldBounded
<1>10. Placed(g) /\ CopiesTrue(g) /\ QueueTrue(g) /\ DismissedTrue(g)
  <2>1. CASE f.then = "abort"
    <3>1. Placed(g) /\ CopiesTrue(g)
      BY <1>4, <2>1 DEF Placed, CopiesTrue, Parting, Returning
    <3>2. QueueTrue(g)
      BY <1>1, <1>3, <1>4, <2>1 DEF HandlerTrue, QueueTrue, InHand
    <3>3. f.task # "dismissal"
      BY <1>1, <2>1 DEF HandlerTrue, Placed
    <3>4. DismissedTrue(g)
      BY <1>1, <1>4, <2>1, <3>3 DEF HandlerTrue, DismissedTrue
    <3> QED BY <3>1, <3>2, <3>4
  <2>2. CASE f.then # "abort"
    BY <1>1, <1>3, <1>4, <2>2, ResumedTrue
  <2> QED BY <2>1, <2>2
<1>11. \A b \in Agents : presence[b].active \in Nat /\ Charged(b) \in Nat
  BY <1>1, PresenceNumbers, ChargedNumbers
<1>12. presence'[a].active + Freed(g, a) = Charged(a)
  <2>1. presence[a].active + Freed(f, a) = Charged(a) + Claimed(f, a)
    BY <1>1, <1>6 DEF HandlerTrue, SlotsTrue
  <2>2. Freed(f, a) = 0
    BY <1>1 DEF Freed
  <2>3. CASE f.then = "abort"
    <3>1. Claimed(f, a) = 1 /\ Freed(g, a) = 0
      BY <1>1, <1>2, <1>4, <2>3 DEF Claimed, GivingUp, Freed
    <3> QED BY <1>6, <1>7, <1>11, <2>1, <2>2, <3>1
  <2>4. CASE f.then # "abort"
    <3> DEFINE c == f.copy.conv
    <3>1. Claimed(f, a) = 0 /\ Freed(g, a) = 1
      BY <1>1, <1>3, <1>4, <1>6, <2>4 DEF Claimed, GivingUp, Freed
    <3>2. f.copy.agent \in {Nobody, row[c].agent} /\ Open(c) /\ c \in Conversations
      BY <1>1, <2>4 DEF HandlerTrue, CopiesTrue, Parting, Coherent, OnConversation, Copy
    <3>3. row[c].agent = a
      BY <1>6, <2>4, <3>2, NobodyAssumption
    <3>4. c \in Held(a)
      BY <1>1, <3>2, <3>3, NobodyAssumption DEF Held, Open, RowConsistent
    <3>5. Charged(a) # 0
      <4>1. Cardinality(Held(a)) # 0
        BY <1>1, <3>4, FS_EmptySet DEF HeldBounded
      <4>2. Cardinality(Held(a)) \in Nat /\ lost[a] \in Nat
        BY <1>1, ChargedNumbers
      <4> QED BY <4>1, <4>2 DEF Charged
    <3> QED BY <1>6, <1>7, <1>11, <2>1, <2>2, <3>1, <3>5
  <2> QED BY <2>3, <2>4
<1>13. SlotsTrue(work[w])'
  <2>1. \A b \in Agents : /\ Freed(work[w], b)' = Freed(g, b)
                          /\ Claimed(work[w], b)' = 0
    BY <1>3, <1>4, <1>5 DEF Freed, Claimed, GivingUp
  <2>2. \A b \in Agents \ {a} : Freed(g, b) = 0 /\ Freed(f, b) = 0 /\ Claimed(f, b) = 0
    BY <1>1, <1>2, <1>3, <1>4, <1>6 DEF Freed, Claimed, GivingUp
  <2>3. ASSUME NEW b \in Agents, presence'[b].online
        PROVE  presence'[b].active + Freed(work[w], b)' = Charged(b)' + Claimed(work[w], b)'
    <3>0. Charged(b)' = Charged(b)
      BY <1>8, <2>3, ChargedKept
    <3>1. CASE b = a
      BY <1>11, <1>12, <2>1, <3>0, <3>1
    <3>2. CASE b # a
      <4>1. presence[b].active + Freed(f, b) = Charged(b) + Claimed(f, b)
        BY <1>1, <1>7, <2>3, <3>2 DEF HandlerTrue, SlotsTrue
      <4> QED BY <1>7, <1>11, <2>1, <2>2, <3>0, <3>2, <4>1
    <3> QED BY <3>1, <3>2
  <2> QED BY <1>3, <1>4, <1>5, <2>3 DEF SlotsTrue, GivingUp
<1> QED
  BY <1>1, <1>5, <1>8, <1>9, <1>10, <1>13, PlacedNext, CopiesNext, QueueNext, DismissedNext,
     HandlerNext
-----------------------------------------------------------------------------
(* Ending and requeueing, once the slot is free.                           *)

LEMMA ExactNext ==
  ASSUME NEW w, NEW g, work'[w] = g, TypeInv', Tallied', HeldBounded', Exact',
         g.pc \notin InBetween \cup {"take"}
  PROVE  SlotsTrue(work[w])'
<1>1. \A a \in Agents : Freed(work[w], a)' = 0 /\ Claimed(work[w], a)' = 0
  BY DEF Freed, Claimed, GivingUp, InBetween
<1>2. \A a \in Agents : presence'[a].active \in Nat /\ Charged(a)' \in Nat
  <2>1. \A a \in Agents : presence'[a].active \in 0..Capacity
    BY DEF TypeInv, TypeOK, Presence
  <2>2. \A a \in Agents : Cardinality(Held(a)') \in Nat /\ lost'[a] \in Nat
    BY FS_CardinalityType DEF HeldBounded, Tallied
  <2> QED BY <2>1, <2>2, CapacityAssumption DEF Charged
<1>3. \A a \in Agents : presence'[a].online =>
        presence'[a].active + Freed(work[w], a)' = Charged(a)' + Claimed(work[w], a)'
  BY <1>1, <1>2 DEF Exact
<1> QED BY <1>3 DEF SlotsTrue, GivingUp, InBetween

\* The row catches up with the slot that was freed, or the slot is lost.
LEMMA TakenSlots ==
  ASSUME TypeInv, RowConsistent, Tallied, HeldBounded, NEW f, SlotsTrue(f), CopiesTrue(f),
         f.pc \in {"save_ended", "save_waiting"},
         NEW c \in Conversations, c = f.copy.conv, UNCHANGED presence,
         \A b \in Agents : Held(b)' = Held(b) \ {c},
         \A b \in Agents : presence'[b].online =>
           lost'[b] = IF f.copy.agent = Nobody /\ row[c].agent = b THEN lost[b] + 1 ELSE lost[b]
  PROVE  HeldBounded' /\ Exact'
<1>1. f.copy.agent \in {Nobody, row[c].agent} /\ row[c].state \in {"WAITING", "ACTIVE"}
  BY DEF CopiesTrue, Parting, Open
<1>2. \A b \in Agents : c \in Held(b) <=> row[c].agent = b
  BY <1>1, NobodyAssumption DEF Held, RowConsistent
<1>3. \A b \in Agents : /\ presence[b].active \in Nat
                        /\ IsFiniteSet(Held(b)) /\ Cardinality(Held(b)) \in Nat
                        /\ lost[b] \in Nat
  BY PresenceNumbers, ChargedNumbers DEF HeldBounded
<1>4. \A b \in Agents :
        /\ IsFiniteSet(Held(b)')
        /\ Cardinality(Held(b)') =
             IF row[c].agent = b THEN Cardinality(Held(b)) - 1 ELSE Cardinality(Held(b))
  BY <1>2, <1>3, FS_RemoveElement
<1>5. HeldBounded'
  <2>1. \A b \in Agents : IsFiniteSet(Held(b)') /\ Cardinality(Held(b)') <= Capacity
    BY <1>3, <1>4, CapacityAssumption DEF HeldBounded
  <2> QED BY <2>1 DEF HeldBounded
<1>6. ASSUME NEW b \in Agents, presence'[b].online
      PROVE  presence'[b].active = Charged(b)'
  <2>1. presence[b].active + Freed(f, b) = Cardinality(Held(b)) + lost[b] + Claimed(f, b)
    BY <1>6 DEF SlotsTrue, Charged
  <2>2. /\ Claimed(f, b) = 0
        /\ Freed(f, b) = IF f.copy.agent = b THEN 1 ELSE 0
    BY DEF Claimed, GivingUp, Freed
  <2>3. lost'[b] = IF f.copy.agent = Nobody /\ row[c].agent = b THEN lost[b] + 1 ELSE lost[b]
    BY <1>6
  <2>4. presence'[b].active = Cardinality(Held(b)') + lost'[b]
    <3>1. CASE row[c].agent = b /\ f.copy.agent = b
      BY <1>3, <1>4, <2>1, <2>2, <2>3, <3>1, NobodyAssumption
    <3>2. CASE row[c].agent = b /\ f.copy.agent = Nobody
      BY <1>3, <1>4, <2>1, <2>2, <2>3, <3>2, NobodyAssumption
    <3>3. CASE row[c].agent # b
      <4>1. f.copy.agent # b
        BY <1>1, <3>3, NobodyAssumption
      <4> QED BY <1>3, <1>4, <2>1, <2>2, <2>3, <3>3, <4>1
    <3> QED BY <1>1, <3>1, <3>2, <3>3
  <2> QED BY <2>4 DEF Charged
<1> QED BY <1>5, <1>6 DEF Exact

LEMMA EndLeavesTrue ==
  ASSUME AloneInv, NEW w \in Workers, \A v \in Workers : v = w, TypeInv',
         Tallied', Carried, EndLeavesQueue(w)
  PROVE  AloneInv'
<1> DEFINE f == work[w]
           g == [f EXCEPT !.pc = "save_ended"]
<1>1. /\ f.pc = "unqueue" /\ Goto(w, g) /\ queue' = Left(f.copy.conv)
      /\ UNCHANGED <<row, employed, presence>>
      /\ f \in Frame /\ HandlerTrue(f) /\ Coherent(f)
      /\ TypeInv /\ Tallied /\ HeldBounded /\ QueuedOnce /\ RowConsistent
  BY DEF EndLeavesQueue, At, AloneInv, TypeInv, TypeOK, WorkCoherent
<1>2. PICK c \in Conversations : c = f.copy.conv
  BY <1>1 DEF Coherent, OnConversation, Copy
<1>3. /\ g.pc = "save_ended" /\ g.task = f.task /\ g.rest = f.rest /\ g.copy = f.copy
      /\ work'[w] = g
  BY <1>1 DEF Frame, Goto, TypeInv, TypeOK
<1> HIDE DEF f, g
<1>4. QueuedOnce' /\ Waiting' = Waiting \ {c}
  BY <1>1, <1>2, LeftWaiting DEF TypeInv, TypeOK
<1>5. f.task \notin {"start", "dismissal"}
  BY <1>1 DEF HandlerTrue, Placed
<1>6. Placed(g) /\ CopiesTrue(g)
  <2>1. Placed(g)
    BY <1>1, <1>3, <1>5 DEF HandlerTrue, Placed
  <2>2. CopiesTrue(g)
    BY <1>1, <1>3 DEF HandlerTrue, CopiesTrue, Parting, Returning
  <2> QED BY <2>1, <2>2
<1>7. QueueTrue(work[w])'
  <2>1. \A d : InHand(work[w], d)' <=>
               (f.task = "desk" /\ \E copy \in f.rest : copy.conv = d) \/ d = c
    BY <1>2, <1>3, <1>5 DEF InHand
  <2>2. \A d : InHand(f, d) <=>
               f.task = "desk" /\ (d = c \/ \E copy \in f.rest : copy.conv = d)
    BY <1>1, <1>2, <1>5 DEF InHand
  <2>3. /\ \A d \in Conversations :
             row[d].state = "WAITING" => (d \in Waiting <=> ~InHand(f, d) /\ d \notin gone)
        /\ \A d \in Waiting : row[d].state = "WAITING"
        /\ \A d \in Conversations : d \in gone => row[d].state \in {"WAITING", "ENDED"}
        /\ f.task = "desk" => queue = <<>>
        /\ gone' = gone
    BY <1>1 DEF HandlerTrue, QueueTrue, Carried
  <2>4. f.task = "desk" => queue' = <<>>
    BY <1>1, <2>3, NobodyWaiting DEF Left
  <2>5. \A d \in Conversations : row'[d].state = "WAITING" =>
          (d \in Waiting' <=> ~InHand(work[w], d)' /\ d \notin gone')
    BY <1>1, <1>4, <2>1, <2>2, <2>3
  <2>6. \A d \in Waiting' : row'[d].state = "WAITING"
    BY <1>1, <1>4, <2>3
  <2>7. \A d \in Conversations : d \in gone' => row'[d].state \in {"WAITING", "ENDED"}
    BY <1>1, <2>3
  <2> QED BY <1>3, <2>4, <2>5, <2>6, <2>7 DEF QueueTrue
<1>8. SlotsTrue(g)
  <2>1. \A a \in Agents : Freed(f, a) = Freed(g, a) /\ Claimed(f, a) = Claimed(g, a)
    BY <1>1, <1>3 DEF Freed, Claimed, GivingUp
  <2> QED BY <1>1, <1>3, <2>1 DEF HandlerTrue, SlotsTrue, GivingUp
<1>9. DismissedTrue(g)
  BY <1>1, <1>3, <1>5 DEF HandlerTrue, DismissedTrue
<1>10. HeldBounded' /\ RowConsistent'
  BY <1>1 DEF HeldBounded, Held, RowConsistent
<1> QED
  BY <1>1, <1>3, <1>4, <1>6, <1>7, <1>8, <1>9, <1>10, PlacedNext, CopiesNext, SlotsNext,
     DismissedNext, HandlerNext

LEMMA EndSavesTrue ==
  ASSUME AloneInv, NEW w \in Workers, \A v \in Workers : v = w, TypeInv', Tallied', RowConsistent',
         EndSaves(w), gone' = gone,
         \A b \in Agents : presence'[b].online =>
           lost'[b] = IF work[w].copy.agent = Nobody /\ row[work[w].copy.conv].agent = b
                      THEN lost[b] + 1 ELSE lost[b]
  PROVE  AloneInv'
<1> DEFINE f == work[w]
           g == [f EXCEPT !.pc = "look"]
<1>1. /\ f.pc = "save_ended" /\ Goto(w, g) /\ UNCHANGED <<employed, presence, queue>>
      /\ f \in Frame /\ HandlerTrue(f) /\ Coherent(f)
      /\ TypeInv /\ TypeOK /\ Tallied /\ HeldBounded /\ QueuedOnce /\ RowConsistent
  BY DEF EndSaves, At, AloneInv, TypeInv, TypeOK, WorkCoherent
<1>2. PICK c \in Conversations : c = f.copy.conv
  BY <1>1 DEF Coherent, OnConversation, Copy
<1>3. Closed(c, f.reason) /\ f.reason \in EndReasons
  BY <1>1, <1>2 DEF EndSaves, Closed, Frame
<1>14. \A b \in Agents : presence'[b].online =>
         lost'[b] = IF f.copy.agent = Nobody /\ row[c].agent = b THEN lost[b] + 1 ELSE lost[b]
  BY <1>2
<1>4. /\ g.pc = "look" /\ g.task = f.task /\ g.rest = f.rest /\ g.copy = f.copy
      /\ work'[w] = g
  BY <1>1 DEF Frame, Goto, TypeOK
<1>5. f.task \notin {"start", "dismissal"} /\ Placed(g)
  BY <1>1, <1>4 DEF HandlerTrue, Placed
<1> HIDE DEF f, g
<1>6. row'[c].state = "ENDED" /\ \A d \in Conversations \ {c} : row'[d] = row[d]
  BY <1>1, <1>3 DEF Closed, TypeOK, Row
<1>7. \A b \in Agents : Held(b)' = Held(b) \ {c}
  BY <1>1, <1>3, TakenHeld
<1>8. HeldBounded' /\ Exact'
  BY <1>1, <1>2, <1>7, <1>14, TakenSlots DEF HandlerTrue
<1>9. SlotsTrue(work[w])'
  BY <1>4, <1>8, ExactNext DEF InBetween
<1>10. CopiesTrue(work[w])'
  <2>1. \A copy \in f.rest : /\ copy = CopyOf(copy.conv) /\ copy.conv \in Conversations \ {c}
                            /\ copy.state = IF f.task = "desk" THEN "WAITING" ELSE "ACTIVE"
    <3>1. f.rest \subseteq Copy
      BY <1>1 DEF Frame
    <3> QED BY <1>1, <1>2, <3>1 DEF HandlerTrue, CopiesTrue, Parting, Copy
  <2>2. \A copy \in f.rest : copy = CopyOf(copy.conv)'
    BY <1>6, <2>1 DEF CopyOf
  <2> QED BY <1>4, <2>1, <2>2 DEF CopiesTrue, Parting, Returning
<1>11. QueueTrue(work[w])'
  <2>1. \A d : InHand(work[w], d)' <=> f.task = "desk" /\ \E copy \in f.rest : copy.conv = d
    BY <1>4, <1>5 DEF InHand
  <2>2. \A d : InHand(f, d) <=>
               (f.task = "desk" /\ \E copy \in f.rest : copy.conv = d) \/ d = c
    BY <1>1, <1>2, <1>5 DEF InHand
  <2>3. /\ \A d \in Conversations :
             row[d].state = "WAITING" => (d \in Waiting <=> ~InHand(f, d) /\ d \notin gone)
        /\ \A d \in Waiting : row[d].state = "WAITING"
        /\ \A d \in Conversations : d \in gone => row[d].state \in {"WAITING", "ENDED"}
        /\ f.task = "desk" => queue = <<>>
    BY <1>1 DEF HandlerTrue, QueueTrue
  <2>4. Waiting' = Waiting /\ Waiting \subseteq Conversations
    BY <1>1, WaitingOK DEF Waiting, TypeOK
  <2>5. c \notin Waiting
    BY <2>2, <2>3
  <2>6. \A d \in Conversations : row'[d].state = "WAITING" =>
          (d \in Waiting' <=> ~InHand(work[w], d)' /\ d \notin gone')
    BY <1>6, <2>1, <2>2, <2>3, <2>4
  <2>7. \A d \in Waiting' : row'[d].state = "WAITING"
    BY <1>6, <2>3, <2>4, <2>5
  <2>8. \A d \in Conversations : d \in gone' => row'[d].state \in {"WAITING", "ENDED"}
    BY <1>6, <2>3
  <2> QED BY <1>1, <1>4, <2>3, <2>6, <2>7, <2>8 DEF QueueTrue
<1>12. DismissedTrue(work[w])'
  <2>1. \A a \in Agents \ employed, d \in Conversations : d \notin Held(a)
    BY <1>1, <1>5 DEF HandlerTrue, DismissedTrue
  <2>2. \A a \in Agents \ employed', d \in Conversations : d \notin Held(a)'
    BY <1>1, <1>7, <2>1
  <2> QED BY <1>4, <2>2 DEF DismissedTrue
<1>13. QueuedOnce'
  BY <1>1 DEF QueuedOnce
<1> QED BY <1>4, <1>5, <1>8, <1>9, <1>10, <1>11, <1>12, <1>13, PlacedNext, HandlerNext

LEMMA RequeueSavesTrue ==
  ASSUME AloneInv, NEW w \in Workers, \A v \in Workers : v = w, TypeInv',
         Tallied', Carried, RowConsistent',
         RequeueSaves(w)
  PROVE  AloneInv'
<1> DEFINE f == work[w]
           g == [f EXCEPT !.pc = "rejoin"]
<1>1. /\ f.pc = "save_waiting" /\ Goto(w, g) /\ UNCHANGED <<employed, presence, queue>>
      /\ f \in Frame /\ HandlerTrue(f) /\ Coherent(f)
      /\ TypeInv /\ TypeOK /\ Tallied /\ HeldBounded /\ QueuedOnce /\ RowConsistent
  BY DEF RequeueSaves, At, AloneInv, TypeInv, TypeOK, WorkCoherent
<1>2. PICK c \in Conversations : c = f.copy.conv
  BY <1>1 DEF Coherent, OnConversation, Copy
<1>3. PutBack(c)
  BY <1>1, <1>2 DEF RequeueSaves, PutBack
<1>4. /\ g.pc = "rejoin" /\ g.task = f.task /\ g.rest = f.rest /\ g.copy = f.copy
      /\ work'[w] = g
  BY <1>1 DEF Frame, Goto, TypeOK
<1>5. f.task \notin {"start", "desk"} /\ Placed(g)
  BY <1>1, <1>4 DEF HandlerTrue, Placed
<1> HIDE DEF f, g
<1>6. row'[c].state = "WAITING" /\ \A d \in Conversations \ {c} : row'[d] = row[d]
  BY <1>1, <1>3 DEF PutBack, TypeOK, Row
<1>7. \A b \in Agents : Held(b)' = Held(b) \ {c}
  BY <1>1, <1>3, TakenHeld
<1>8. HeldBounded' /\ Exact'
  <2>1. row[c].state = "ACTIVE" /\ f.copy.agent = row[c].agent /\ row[c].agent # Nobody
    BY <1>1, <1>2 DEF HandlerTrue, CopiesTrue, Returning, RowConsistent
  <2>2. \A b \in Agents : presence'[b].online =>
          lost'[b] = IF f.copy.agent = Nobody /\ row[c].agent = b THEN lost[b] + 1 ELSE lost[b]
    BY <2>1 DEF Carried
  <2> QED BY <1>1, <1>2, <1>7, <2>2, TakenSlots DEF HandlerTrue
<1>9. SlotsTrue(work[w])'
  BY <1>4, <1>8, ExactNext DEF InBetween
<1>10. CopiesTrue(work[w])'
  <2>1. \A copy \in f.rest : /\ copy = CopyOf(copy.conv) /\ copy.conv \in Conversations \ {c}
                            /\ copy.state = "ACTIVE"
    <3>1. f.rest \subseteq Copy
      BY <1>1 DEF Frame
    <3> QED BY <1>1, <1>2, <1>5, <3>1 DEF HandlerTrue, CopiesTrue, Parting, Copy
  <2>2. \A copy \in f.rest : copy = CopyOf(copy.conv)'
    BY <1>6, <2>1 DEF CopyOf
  <2> QED BY <1>2, <1>4, <1>5, <1>6, <2>1, <2>2 DEF CopiesTrue, Parting, Returning
<1>11. QueueTrue(work[w])'
  <2>1. \A d : InHand(work[w], d)' <=> d = c
    BY <1>2, <1>4, <1>5 DEF InHand
  <2>2. \A d : ~InHand(f, d)
    BY <1>1, <1>5 DEF InHand
  <2>3. /\ \A d \in Conversations :
             row[d].state = "WAITING" => (d \in Waiting <=> d \notin gone)
        /\ \A d \in Waiting : row[d].state = "WAITING"
        /\ \A d \in Conversations : d \in gone => row[d].state \in {"WAITING", "ENDED"}
        /\ gone' = gone
    BY <1>1, <2>2 DEF HandlerTrue, QueueTrue, Carried
  <2>4. Waiting' = Waiting /\ Waiting \subseteq Conversations
    BY <1>1, WaitingOK DEF Waiting, TypeOK
  <2>5. c \notin Waiting /\ c \notin gone
    <3>1. row[c].state = "ACTIVE"
      BY <1>1, <1>2 DEF HandlerTrue, CopiesTrue, Returning
    <3> QED BY <2>3, <3>1
  <2>6. \A d \in Conversations : row'[d].state = "WAITING" =>
          (d \in Waiting' <=> ~InHand(work[w], d)' /\ d \notin gone')
    BY <1>6, <2>1, <2>3, <2>4, <2>5
  <2>7. \A d \in Waiting' : row'[d].state = "WAITING"
    BY <1>6, <2>3, <2>4, <2>5
  <2>8. \A d \in Conversations : d \in gone' => row'[d].state \in {"WAITING", "ENDED"}
    BY <1>6, <2>3
  <2>9. g.copy.conv \notin gone'
    BY <1>2, <1>4, <2>3, <2>5
  <2> QED BY <1>4, <1>5, <2>6, <2>7, <2>8, <2>9 DEF QueueTrue
<1>12. DismissedTrue(work[w])'
  <2>1. ASSUME NEW a \in Agents \ employed', NEW d \in Conversations, d \in Held(a)'
        PROVE  g.task = "dismissal" /\ \E copy \in g.rest : copy.conv = d
    <3>1. d \in Held(a) /\ d # c /\ a \in Agents \ employed
      BY <1>1, <1>7, <2>1
    <3>2. f.task = "dismissal" /\ \E copy \in f.rest : copy.conv = d
      BY <1>1, <1>2, <3>1 DEF HandlerTrue, DismissedTrue
    <3> QED BY <1>4, <3>2
  <2> QED BY <1>4, <2>1 DEF DismissedTrue
<1>13. QueuedOnce'
  BY <1>1 DEF QueuedOnce
<1> QED BY <1>4, <1>5, <1>8, <1>9, <1>10, <1>11, <1>12, <1>13, PlacedNext, HandlerNext

LEMMA RequeueJoinsTrue ==
  ASSUME AloneInv, NEW w \in Workers, \A v \in Workers : v = w, TypeInv',
         Tallied', Carried, RequeueJoins(w)
  PROVE  AloneInv'
<1> DEFINE f == work[w]
           g == [f EXCEPT !.pc = "look"]
<1>1. /\ f.pc = "rejoin" /\ Goto(w, g) /\ queue' = Joined(f.copy.conv)
      /\ UNCHANGED <<row, employed, presence>>
      /\ f \in Frame /\ HandlerTrue(f) /\ Coherent(f)
      /\ TypeInv /\ Tallied /\ HeldBounded /\ QueuedOnce /\ RowConsistent
  BY DEF RequeueJoins, At, AloneInv, TypeInv, TypeOK, WorkCoherent
<1>2. PICK c \in Conversations : c = f.copy.conv
  BY <1>1 DEF Coherent, OnConversation, Copy
<1>3. /\ g.pc = "look" /\ g.task = f.task /\ g.rest = f.rest /\ g.copy = f.copy
      /\ work'[w] = g
  BY <1>1 DEF Frame, Goto, TypeInv, TypeOK
<1> HIDE DEF f, g
<1>4. QueuedOnce' /\ Waiting' = Waiting \cup {c}
  BY <1>1, <1>2, JoinedWaiting DEF TypeInv, TypeOK
<1>5. f.task \notin {"start", "desk"} /\ row[c].state = "WAITING"
  BY <1>1, <1>2 DEF HandlerTrue, Placed, CopiesTrue
<1>6. Placed(g) /\ CopiesTrue(g)
  <2>1. Placed(g)
    BY <1>1, <1>3, <1>5 DEF HandlerTrue, Placed
  <2>2. CopiesTrue(g)
    BY <1>1, <1>3 DEF HandlerTrue, CopiesTrue, Parting, Returning
  <2> QED BY <2>1, <2>2
<1>7. QueueTrue(work[w])'
  <2>1. \A d : ~InHand(work[w], d)'
    BY <1>3, <1>5 DEF InHand
  <2>2. \A d : InHand(f, d) <=> d = c
    BY <1>1, <1>2, <1>5 DEF InHand
  <2>3. /\ \A d \in Conversations :
             row[d].state = "WAITING" => (d \in Waiting <=> d # c /\ d \notin gone)
        /\ \A d \in Waiting : row[d].state = "WAITING"
        /\ \A d \in Conversations : d \in gone => row[d].state \in {"WAITING", "ENDED"}
        /\ c \notin gone /\ gone' = gone
    BY <1>1, <1>2, <2>2 DEF HandlerTrue, QueueTrue, Carried
  <2> QED BY <1>1, <1>3, <1>4, <1>5, <2>1, <2>3 DEF QueueTrue
<1>8. SlotsTrue(g)
  BY <1>1, <1>3, ExactSlots DEF HandlerTrue, InBetween
<1>9. DismissedTrue(g)
  BY <1>1, <1>3 DEF HandlerTrue, DismissedTrue
<1>10. HeldBounded' /\ RowConsistent'
  BY <1>1 DEF HeldBounded, Held, RowConsistent
<1> QED
  BY <1>1, <1>3, <1>4, <1>6, <1>7, <1>8, <1>9, <1>10, PlacedNext, CopiesNext, SlotsNext,
     DismissedNext, HandlerNext
-----------------------------------------------------------------------------
(* connect_next_waiting's loop.                                            *)

LEMMA LookTrue ==
  ASSUME AloneInv, NEW w \in Workers, \A v \in Workers : v = w, TypeInv',
         Tallied', Carried, Look(w)
  PROVE  AloneInv'
<1> DEFINE f == work[w]
           c == Head(queue)
           g == [f EXCEPT !.pc = "load", !.free = CandidateAgents \ f.barred, !.copy = NewCopy(c)]
<1>1. /\ f.pc = "look" /\ UNCHANGED <<row, employed, presence, queue>>
      /\ f \in Frame /\ HandlerTrue(f) /\ TypeInv /\ Tallied /\ HeldBounded
      /\ Goto(w, Finished(f)) \/ (queue # <<>> /\ Goto(w, g))
  BY DEF Look, At, AloneInv, TypeInv, TypeOK
<1>2. CASE Goto(w, Finished(f))
  <2>1. HandlerTrue(Finished(f))
    BY <1>1, BetweenTrue, FinishedTrue
  <2> QED BY <1>1, <1>2, <2>1, GoingOn
<1>3. CASE queue # <<>> /\ Goto(w, g)
  <2>1. /\ g.pc = "load" /\ g.free \subseteq employed /\ g.copy.conv = c
        /\ g.task = f.task /\ g.rest = f.rest
    BY <1>1 DEF Frame, CandidateAgents, NewCopy
  <2>2. c \in Waiting
    BY <1>1, <1>3, SomebodyWaiting DEF TypeInv, TypeOK
  <2> HIDE DEF f, g, c
  <2>3. f.task \notin {"start", "desk"} /\ row[c].state = "WAITING" /\ c \notin gone
    <3>1. c \in Conversations
      BY <1>1, <2>2, WaitingOK DEF TypeInv, TypeOK
    <3> QED BY <1>1, <1>3, <2>2, <3>1 DEF HandlerTrue, Placed, QueueTrue
  <2>4. Placed(g)
    BY <1>1, <2>1, <2>3 DEF HandlerTrue, Placed
  <2>5. CopiesTrue(g)
    BY <1>1, <2>1, <2>3 DEF HandlerTrue, CopiesTrue, Parting, Returning
  <2>6. QueueTrue(g)
    BY <1>1, <2>1, <2>3 DEF HandlerTrue, QueueTrue, InHand
  <2>7. SlotsTrue(g)
    BY <1>1, <2>1, ExactSlots DEF HandlerTrue, InBetween
  <2>8. DismissedTrue(g)
    BY <1>1, <2>1 DEF HandlerTrue, DismissedTrue
  <2> QED BY <1>1, <1>3, <2>4, <2>5, <2>6, <2>7, <2>8, GoingOn DEF HandlerTrue
<1> QED BY <1>1, <1>2, <1>3

LEMMA LoadTrue ==
  ASSUME AloneInv, NEW w \in Workers, \A v \in Workers : v = w, TypeInv',
         Tallied', Carried, LoadWaiting(w)
  PROVE  AloneInv'
<1> DEFINE f == work[w]
           g == [f EXCEPT !.pc = "claim"]
<1>1. /\ f.pc = "load" /\ UNCHANGED <<row, employed, presence, queue>>
      /\ f \in Frame /\ HandlerTrue(f) /\ TypeInv /\ Tallied /\ HeldBounded
  BY DEF LoadWaiting, At, AloneInv, TypeInv, TypeOK
<1>2. row[f.copy.conv].state = "WAITING"
  BY <1>1 DEF HandlerTrue, CopiesTrue
<1>3. Goto(w, g)
  BY <1>2 DEF LoadWaiting
<1>4. /\ g.pc = "claim" /\ g.free = f.free /\ g.copy = f.copy
      /\ g.task = f.task /\ g.rest = f.rest
  BY <1>1 DEF Frame
<1> HIDE DEF f, g
<1>5. f.task \notin {"start", "desk"}
  BY <1>1 DEF HandlerTrue, Placed
<1>6. Placed(g)
  BY <1>1, <1>4, <1>5 DEF HandlerTrue, Placed
<1>7. CopiesTrue(g)
  BY <1>1, <1>2, <1>4 DEF HandlerTrue, CopiesTrue, Parting, Returning
<1>8. QueueTrue(g)
  BY <1>1, <1>4, <1>5 DEF HandlerTrue, QueueTrue, InHand
<1>9. SlotsTrue(g)
  BY <1>1, <1>4, ExactSlots DEF HandlerTrue, InBetween
<1>10. DismissedTrue(g)
  BY <1>1, <1>4 DEF HandlerTrue, DismissedTrue
<1> QED BY <1>1, <1>3, <1>6, <1>7, <1>8, <1>9, <1>10, GoingOn DEF HandlerTrue

LEMMA LeaveTrue ==
  ASSUME AloneInv, NEW w \in Workers, \A v \in Workers : v = w, TypeInv',
         Tallied', Carried, LeaveAndLookAgain(w)
  PROVE  AloneInv'
<1> DEFINE f == work[w]
           g == [f EXCEPT !.pc = "look", !.free = {}]
<1>1. /\ f.pc \in {"drop", "serve"} /\ Goto(w, g) /\ queue' = Left(f.copy.conv)
      /\ UNCHANGED <<row, employed, presence>>
      /\ f \in Frame /\ HandlerTrue(f) /\ Coherent(f)
      /\ TypeInv /\ Tallied /\ HeldBounded /\ QueuedOnce /\ RowConsistent
  BY DEF LeaveAndLookAgain, At, AloneInv, TypeInv, TypeOK, WorkCoherent
<1>2. PICK c \in Conversations : c = f.copy.conv
  BY <1>1 DEF Coherent, OnConversation, Copy
<1>3. /\ g.pc = "look" /\ g.task = f.task /\ g.rest = f.rest /\ g.copy = f.copy
      /\ work'[w] = g
  BY <1>1 DEF Frame, Goto, TypeInv, TypeOK
<1> HIDE DEF f, g
<1>4. QueuedOnce' /\ Waiting' = Waiting \ {c}
  BY <1>1, <1>2, LeftWaiting DEF TypeInv, TypeOK
<1>5. f.pc = "serve" /\ f.task \notin {"start", "desk"} /\ row[c].state = "ACTIVE"
  BY <1>1, <1>2 DEF HandlerTrue, Placed, CopiesTrue
<1>6. Placed(g) /\ CopiesTrue(g)
  <2>1. Placed(g)
    BY <1>1, <1>3, <1>5 DEF HandlerTrue, Placed
  <2>2. CopiesTrue(g)
    BY <1>1, <1>3 DEF HandlerTrue, CopiesTrue, Parting, Returning
  <2> QED BY <2>1, <2>2
<1>7. QueueTrue(work[w])'
  <2>1. \A d : ~InHand(work[w], d)'
    BY <1>3, <1>5 DEF InHand
  <2>2. \A d : ~InHand(f, d)
    BY <1>5 DEF InHand
  <2>3. /\ \A d \in Conversations :
             row[d].state = "WAITING" => (d \in Waiting <=> d \notin gone)
        /\ \A d \in Waiting : row[d].state = "WAITING" \/ c = d
        /\ \A d \in Conversations : d \in gone => row[d].state \in {"WAITING", "ENDED"}
        /\ gone' = gone
    BY <1>1, <1>2, <2>2 DEF HandlerTrue, QueueTrue, Carried
  <2> QED BY <1>1, <1>3, <1>4, <1>5, <2>1, <2>3 DEF QueueTrue
<1>8. SlotsTrue(g)
  BY <1>3, <1>5, <1>1, ExactSlots DEF HandlerTrue, InBetween
<1>9. DismissedTrue(g)
  BY <1>1, <1>3, <1>5 DEF HandlerTrue, DismissedTrue
<1>10. HeldBounded' /\ RowConsistent'
  BY <1>1 DEF HeldBounded, Held, RowConsistent
<1> QED
  BY <1>1, <1>3, <1>4, <1>6, <1>7, <1>8, <1>9, <1>10, PlacedNext, CopiesNext, SlotsNext,
     DismissedNext, HandlerNext
-----------------------------------------------------------------------------
(* Going offline, and the desk that is left empty.                         *)

LEMMA OfflineTrue ==
  ASSUME AloneInv, NEW w \in Workers, \A v \in Workers : v = w, TypeInv',
         Tallied', Carried, GoOffline(w)
  PROVE  AloneInv'
<1> DEFINE f == work[w]
           g == IF f.task = "desk" THEN Entered("desk", "desk") ELSE [f EXCEPT !.pc = "gather"]
<1>1. /\ f.pc = "offline" /\ Goto(w, g) /\ UNCHANGED <<row, employed, queue>>
      /\ presence' = [presence EXCEPT ![f.agent] = Offline]
      /\ f \in Frame /\ HandlerTrue(f) /\ Coherent(f)
      /\ TypeInv /\ Tallied /\ HeldBounded /\ QueuedOnce /\ RowConsistent
  BY DEF GoOffline, At, AloneInv, TypeInv, TypeOK, WorkCoherent
<1>2. /\ f.task \in {"desk", "dismissal"} /\ f.rest = {}
  BY <1>1 DEF HandlerTrue, Placed
<1>3. /\ g.task = f.task /\ g.rest = {} /\ work'[w] = g
      /\ f.task = "desk" => g.pc = "desk"
      /\ f.task = "dismissal" => g.pc = "gather" /\ g.agent = f.agent
  BY <1>1, <1>2 DEF Frame, Entered, Goto, TypeInv, TypeOK
<1> HIDE DEF f, g
<1>4. Placed(g) /\ CopiesTrue(g)
  <2>1. Placed(g)
    BY <1>2, <1>3 DEF Placed
  <2>2. CopiesTrue(g)
    BY <1>2, <1>3 DEF CopiesTrue, Parting, Returning
  <2> QED BY <2>1, <2>2
<1>5. QueueTrue(g)
  BY <1>1, <1>2, <1>3 DEF HandlerTrue, QueueTrue, InHand
<1>6. HeldBounded' /\ RowConsistent' /\ QueuedOnce'
  BY <1>1 DEF HeldBounded, Held, RowConsistent, QueuedOnce
<1>7. Exact'
  <2>1. Exact
    BY <1>1, ExactSlots DEF HandlerTrue, InBetween
  <2>2. \A a \in Agents : Held(a)' = Held(a)
    BY <1>1 DEF Held
  <2>3. \A a \in Agents : presence'[a].online =>
          presence[a].online /\ presence'[a].active = presence[a].active
    BY <1>1 DEF TypeInv, TypeOK, Offline
  <2> QED BY <2>1, <2>2, <2>3, ChargedKept DEF Exact
<1>8. SlotsTrue(work[w])'
  BY <1>2, <1>3, <1>6, <1>7, ExactNext DEF InBetween
<1>9. DismissedTrue(g)
  <2>1. \A a \in Agents \ employed, c \in Conversations : c \in Held(a) =>
          f.task = "dismissal" /\ f.agent = a
    BY <1>1, <1>2 DEF HandlerTrue, DismissedTrue
  <2> QED BY <1>2, <1>3, <2>1 DEF DismissedTrue
<1> QED
  BY <1>1, <1>3, <1>4, <1>5, <1>6, <1>8, <1>9, PlacedNext, CopiesNext, QueueNext,
     DismissedNext, HandlerNext

LEMMA DrainTrue ==
  ASSUME AloneInv, NEW w \in Workers, \A v \in Workers : v = w, TypeInv',
         Tallied', Carried, Drain(w)
  PROVE  AloneInv'
<1> DEFINE f == work[w]
           h == [f EXCEPT !.rest = {NewCopy(c) : c \in Waiting}]
           g == Finished(h)
<1>1. /\ f.pc = "drain" /\ Goto(w, g) /\ queue' = <<>> /\ UNCHANGED <<row, employed, presence>>
      /\ f \in Frame /\ HandlerTrue(f)
      /\ TypeInv /\ Tallied /\ HeldBounded /\ QueuedOnce /\ RowConsistent
  BY DEF Drain, At, AloneInv, TypeInv, TypeOK
<1>2. /\ f.task = "desk" /\ f.rest = {}
  BY <1>1 DEF HandlerTrue, Placed
<1>3. Waiting \subseteq Conversations
  BY <1>1, WaitingOK DEF TypeInv, TypeOK
<1>4. h \in Frame /\ h.task = "desk" /\ h.rest = {NewCopy(c) : c \in Waiting}
  BY <1>1, <1>2, <1>3, NewCopyOK DEF Frame
<1> HIDE DEF h
<1>5. /\ g.rest = {NewCopy(c) : c \in Waiting} /\ work'[w] = g
      /\ g.rest = {} => g.pc = "idle" /\ g.task = "start"
      /\ g.rest # {} => g.pc = "each" /\ g.task = "desk"
  BY <1>1, <1>4, FinishedFields DEF Goto, TypeInv, TypeOK
<1> HIDE DEF f, g
<1>6. /\ \A d \in Conversations : row[d].state = "WAITING" => (d \in Waiting <=> d \notin gone)
      /\ \A d \in Waiting : row[d].state = "WAITING"
      /\ \A d \in Conversations : d \in gone => row[d].state \in {"WAITING", "ENDED"}
      /\ gone' = gone
  BY <1>1, <1>2 DEF HandlerTrue, QueueTrue, InHand, Carried
<1>7. \A d \in Waiting : /\ NewCopy(d) = CopyOf(d)
                        /\ NewCopy(d).conv = d /\ NewCopy(d).state = "WAITING"
  BY <1>1, <1>3, <1>6 DEF NewCopy, CopyOf, RowConsistent
<1>8. Placed(g)
  BY <1>5 DEF Placed
<1>9. CopiesTrue(g)
  <2>1. \A copy \in g.rest : copy = CopyOf(copy.conv) /\ copy.state = "WAITING"
    BY <1>5, <1>7
  <2> QED BY <1>5, <2>1 DEF CopiesTrue, Parting, Returning
<1>10. QueueTrue(work[w])'
  <2>1. QueuedOnce' /\ Waiting' = {}
    BY <1>1 DEF QueuedOnce, Waiting
  <2>2. ASSUME NEW d \in Conversations, row'[d].state = "WAITING", d \notin gone'
        PROVE  InHand(work[w], d)'
    <3>1. d \in Waiting
      BY <1>1, <1>6, <2>2
    <3>2. NewCopy(d) \in g.rest /\ NewCopy(d).conv = d
      BY <1>5, <1>7, <3>1
    <3> QED BY <1>5, <3>2 DEF InHand
  <2>3. g.pc \in {"idle", "each"}
    BY <1>5
  <2> QED BY <1>1, <1>5, <1>6, <2>1, <2>2, <2>3 DEF QueueTrue
<1>11. SlotsTrue(g)
  <2>1. Exact
    BY <1>1, ExactSlots DEF HandlerTrue, InBetween
  <2> QED BY <1>1, <1>5, <2>1, ExactSlots DEF InBetween
<1>12. DismissedTrue(g)
  BY <1>1, <1>2, <1>5 DEF HandlerTrue, DismissedTrue
<1>13. HeldBounded' /\ RowConsistent' /\ QueuedOnce'
  BY <1>1 DEF HeldBounded, Held, RowConsistent, QueuedOnce
<1> QED
  BY <1>1, <1>5, <1>8, <1>9, <1>10, <1>11, <1>12, <1>13, PlacedNext, CopiesNext, SlotsNext,
     DismissedNext, HandlerNext
-----------------------------------------------------------------------------
(* Where a handler begins.                                                 *)

\* With nothing running, the two stores agree, but for what has been lost and who is gone.
Agreed ==
  /\ \A c \in Conversations : c \in Waiting <=> row[c].state = "WAITING" /\ c \notin gone
  /\ \A c \in Conversations : c \in gone => row[c].state \in {"WAITING", "ENDED"}
  /\ Exact
  /\ \A a \in Agents \ employed : Held(a) = {}

LEMMA IdleAgreed ==
  ASSUME AloneInv, NEW w \in Workers, work[w] = Idle
  PROVE  /\ Agreed /\ Between(Idle) /\ Idle \in Frame
         /\ TypeInv /\ RowConsistent /\ QueuedOnce /\ Tallied /\ HeldBounded
<1>1. HandlerTrue(Idle) /\ TypeInv /\ RowConsistent /\ QueuedOnce /\ Tallied /\ HeldBounded
  BY DEF AloneInv
<1>2. Between(Idle) /\ Idle \in Frame
  BY <1>1, BetweenTrue, IdleOK, IdleFields
<1>3. Agreed
  <2>1. /\ \A c \in Conversations : c \in Waiting <=> row[c].state = "WAITING" /\ c \notin gone
        /\ \A c \in Conversations : c \in gone => row[c].state \in {"WAITING", "ENDED"}
    BY <1>2, IdleFields DEF Between
  <2>2. \A a \in Agents \ employed, c \in Conversations : c \notin Held(a)
    BY <1>2, IdleFields DEF Between
  <2>3. \A a \in Agents \ employed : Held(a) = {}
    BY <2>2 DEF Held
  <2> QED BY <1>2, <2>1, <2>3 DEF Agreed, Between
<1> QED BY <1>1, <1>2, <1>3

LEMMA StartTrue ==
  ASSUME AloneInv, NEW w \in Workers, \A v \in Workers : v = w, TypeInv',
         Tallied', Carried, RowConsistent',
         NEW c \in Conversations, BeginStart(w, c)
  PROVE  AloneInv'
<1> DEFINE g == [Entered("start", "choose") EXCEPT !.copy = NewCopy(c)]
<1>1. /\ work[w] = Idle /\ Goto(w, g) /\ Started(c)
      /\ UNCHANGED <<employed, presence, queue>>
  BY DEF BeginStart, Begin, Started
<1>2. /\ Agreed /\ TypeInv /\ TypeOK /\ RowConsistent /\ QueuedOnce /\ Tallied /\ HeldBounded
  BY <1>1, IdleAgreed DEF TypeInv
<1>3. /\ g.pc = "choose" /\ g.task = "start" /\ g.rest = {} /\ g.copy.conv = c /\ work'[w] = g
  BY <1>1, <1>2 DEF Entered, NewCopy, Goto, TypeOK
<1> HIDE DEF g
<1>4. /\ row[c].state = "NONE" /\ row'[c].state = "WAITING"
      /\ \A d \in Conversations \ {c} : row'[d] = row[d]
  BY <1>1, <1>2 DEF Started, TypeOK, Row
<1>5. \A a \in Agents : Held(a)' = Held(a)
  BY <1>1, <1>2, StartedHeld
<1>6. Placed(g)
  BY <1>3 DEF Placed
<1>7. CopiesTrue(work[w])'
  BY <1>3, <1>4 DEF CopiesTrue, Parting, Returning
<1>8. QueueTrue(work[w])'
  <2>1. \A d : InHand(work[w], d)' <=> d = c
    BY <1>3 DEF InHand
  <2>2. Waiting' = Waiting /\ Waiting \subseteq Conversations
    BY <1>1, <1>2, WaitingOK DEF Waiting, TypeOK
  <2>3. /\ \A d \in Conversations : d \in Waiting <=> row[d].state = "WAITING" /\ d \notin gone
        /\ \A d \in Conversations : d \in gone => row[d].state \in {"WAITING", "ENDED"}
        /\ gone' = gone
    BY <1>2 DEF Agreed, Carried
  <2>4. \A d \in Conversations :
          row'[d].state = "WAITING" => (d \in Waiting' <=> d # c /\ d \notin gone')
    BY <1>4, <2>2, <2>3
  <2>5. \A d \in Waiting' : row'[d].state = "WAITING"
    BY <1>4, <2>2, <2>3
  <2>6. c \notin gone' /\ \A d \in Conversations : d \in gone' => row'[d].state \in {"WAITING", "ENDED"}
    BY <1>4, <2>3
  <2> QED BY <1>3, <2>1, <2>4, <2>5, <2>6 DEF QueueTrue
<1>9. HeldBounded' /\ Exact' /\ QueuedOnce'
  <2>1. HeldBounded'
    BY <1>2, <1>5 DEF HeldBounded
  <2>2. Exact'
    BY <1>1, <1>2, <1>5, ChargedKept DEF Exact, Agreed
  <2> QED BY <1>1, <1>2, <2>1, <2>2 DEF QueuedOnce
<1>10. SlotsTrue(work[w])'
  BY <1>3, <1>9, ExactNext DEF InBetween
<1>11. DismissedTrue(work[w])'
  <2>1. \A a \in Agents \ employed', d \in Conversations : d \notin Held(a)'
    BY <1>1, <1>2, <1>5 DEF Agreed
  <2> QED BY <1>3, <2>1 DEF DismissedTrue
<1> QED BY <1>3, <1>6, <1>7, <1>8, <1>9, <1>10, <1>11, PlacedNext, HandlerNext

LEMMA CloseTrue ==
  ASSUME AloneInv, NEW w \in Workers, \A v \in Workers : v = w, TypeInv',
         Tallied', Carried, NEW c \in Conversations, BeginAgentClose(w, c)
  PROVE  AloneInv'
<1> DEFINE f == Entered("close", "each")
<1>1. /\ work[w] = Idle /\ Open(c) /\ Goto(w, Ending(f, CopyOf(c), "ENDED_BY_AGENT"))
      /\ UNCHANGED <<row, employed, presence, queue>>
  BY DEF BeginAgentClose, Begin
<1>2. Agreed /\ TypeInv /\ RowConsistent /\ Tallied /\ HeldBounded
  BY <1>1, IdleAgreed
<1>3. f \in Frame /\ f.task = "close" /\ f.rest = {}
  BY EnteredOK DEF Entered, Tasks
<1>4. Waiting \subseteq Conversations
  BY <1>2, WaitingOK DEF TypeInv, TypeOK
<1> HIDE DEF f
<1>5. Ready(f, c)
  BY <1>1, <1>2, <1>3, <1>4 DEF Ready, Agreed
<1>6. HandlerTrue(Ending(f, CopyOf(c), "ENDED_BY_AGENT"))
  <2>1. CopyOf(c) \in Copy /\ CopyOf(c).conv = c /\ CopyOf(c).agent = row[c].agent
    BY <1>2, CopyOfOK, CopyFields DEF TypeInv, TypeOK
  <2> QED BY <1>2, <1>3, <1>5, <2>1, EndingTrue DEF EndReasons
<1> QED BY <1>1, <1>6, GoingOn

\* The visitor closes through a copy that names who is attached, or nobody.
LEMMA VisitorClosesTrue ==
  ASSUME AloneInv, NEW w \in Workers, \A v \in Workers : v = w, TypeInv',
         Tallied', Carried, NEW c \in Conversations, VisitorCloses(w, c),
         socket[c] # Nobody => socket[c].conv = c
  PROVE  AloneInv'
<1> DEFINE f == Entered("visitor", "each")
           k == socket[c]
<1>1. /\ work[w] = Idle /\ Open(c) /\ Goto(w, Ending(f, k, "ENDED_BY_VISITOR"))
      /\ UNCHANGED <<row, employed, presence, queue>>
      /\ k # Nobody /\ k.agent \in {Nobody, row[c].agent}
  BY DEF VisitorCloses, BeginVisitorClose, Begin
<1>2. Agreed /\ TypeInv /\ RowConsistent /\ Tallied /\ HeldBounded
  BY <1>1, IdleAgreed
<1>3. f \in Frame /\ f.task = "visitor" /\ f.rest = {}
  BY EnteredOK DEF Entered, Tasks
<1>4. k \in Copy /\ k.conv = c
  BY <1>1, <1>2 DEF TypeInv, TypeOK
<1>7. Waiting \subseteq Conversations
  BY <1>2, WaitingOK DEF TypeInv, TypeOK
<1> HIDE DEF f, k
<1>5. Ready(f, c)
  BY <1>1, <1>2, <1>3, <1>7 DEF Ready, Agreed
<1>6. HandlerTrue(Ending(f, k, "ENDED_BY_VISITOR"))
  BY <1>1, <1>2, <1>3, <1>4, <1>5, EndingTrue DEF EndReasons
<1> QED BY <1>1, <1>6, GoingOn

LEMMA SweepTrue ==
  ASSUME AloneInv, NEW w \in Workers, \A v \in Workers : v = w, TypeInv',
         Tallied', Carried, NEW task \in {"interrupted", "idle"}, BeginSweep(w, task)
  PROVE  AloneInv'
<1> DEFINE R == {CopyOf(c) : c \in {d \in Conversations : row[d].state = "ACTIVE"}}
           f == [Entered(task, "each") EXCEPT !.rest = R]
<1>1. /\ work[w] = Idle /\ Goto(w, f) /\ UNCHANGED <<row, employed, presence, queue>>
  BY DEF BeginSweep, Begin
<1>2. Agreed /\ Between(Idle) /\ TypeInv /\ TypeOK /\ Tallied /\ HeldBounded
  BY <1>1, IdleAgreed DEF TypeInv
<1>3. f.pc = "each" /\ f.task = task /\ f.rest = R
  BY DEF Entered
<1>4. \A copy \in R : copy = CopyOf(copy.conv) /\ copy.state = "ACTIVE"
  BY CopyFields
<1> HIDE DEF f, R
<1>5. Placed(f)
  BY <1>3 DEF Placed
<1>6. CopiesTrue(f)
  BY <1>3, <1>4 DEF CopiesTrue, Parting, Returning
<1>7. QueueTrue(f)
  <2>1. \A d : ~InHand(f, d)
    BY <1>3 DEF InHand
  <2>2. \A d \in Waiting : row[d].state = "WAITING"
    BY <1>2 DEF Between
  <2> QED BY <1>2, <1>3, <2>1, <2>2 DEF QueueTrue, Agreed
<1>8. SlotsTrue(f)
  BY <1>2, <1>3, ExactSlots DEF Agreed, InBetween
<1>9. DismissedTrue(f)
  BY <1>2, <1>3 DEF DismissedTrue, Agreed
<1> QED BY <1>1, <1>5, <1>6, <1>7, <1>8, <1>9, GoingOn DEF HandlerTrue

\* A handler that begins with nothing but, perhaps, an agent who holds nothing.
LEMMA FreshTrue ==
  ASSUME AloneInv, NEW w \in Workers, \A v \in Workers : v = w, TypeInv',
         Tallied', Carried, work[w] = Idle,
         NEW f, Goto(w, f), UNCHANGED <<row, presence, queue>>, f.rest = {},
         \/ f.task = "desk" /\ f.pc \in {"desk", "offline"} /\ employed' = employed
         \/ /\ f.task = "dismissal" /\ f.pc = "offline"
            /\ \E a \in Agents : f.agent = a /\ employed' = employed \ {a}
  PROVE  AloneInv'
<1>1. /\ Agreed /\ Between(Idle)
      /\ TypeInv /\ TypeOK /\ RowConsistent /\ QueuedOnce /\ Tallied /\ HeldBounded
  BY IdleAgreed DEF TypeInv
<1>2. work'[w] = f
  BY <1>1 DEF Goto, TypeOK
<1>3. Placed(f)
  BY DEF Placed
<1>4. CopiesTrue(f)
  BY DEF CopiesTrue, Parting, Returning
<1>5. QueueTrue(f)
  <2>1. \A d : ~InHand(f, d)
    BY DEF InHand
  <2>2. \A d \in Waiting : row[d].state = "WAITING"
    BY <1>1 DEF Between
  <2> QED BY <1>1, <2>1, <2>2 DEF QueueTrue, Agreed
<1>6. SlotsTrue(f)
  BY <1>1, ExactSlots DEF Agreed, InBetween
<1>7. QueuedOnce' /\ RowConsistent' /\ HeldBounded' /\ \A a \in Agents : Held(a)' = Held(a)
  BY <1>1 DEF HeldBounded, Held, RowConsistent, QueuedOnce
<1>8. DismissedTrue(work[w])'
  <2>1. \A a \in Agents \ employed', c \in Conversations : c \in Held(a)' =>
          f.task = "dismissal" /\ f.pc = "offline" /\ f.agent = a
    BY <1>1, <1>7 DEF Agreed
  <2> QED BY <1>2, <2>1 DEF DismissedTrue
<1> QED
  BY <1>2, <1>3, <1>4, <1>5, <1>6, <1>7, <1>8, PlacedNext, CopiesNext, QueueNext, SlotsNext,
     HandlerNext

LEMMA StaffBeginsTrue ==
  ASSUME AloneInv, NEW w \in Workers, \A v \in Workers : v = w, TypeInv',
         Tallied', Carried, RowConsistent',
         BeginStaff(w)
  PROVE  AloneInv'
<1>1. CASE \E c \in Conversations : BeginStart(w, c) \/ BeginAgentClose(w, c)
  BY <1>1, StartTrue, CloseTrue
<1>2. CASE BeginSweep(w, "interrupted") \/ BeginSweep(w, "idle")
  BY <1>2, SweepTrue
<1>3. CASE BeginDeskSweep(w)
  <2> DEFINE f == Entered("desk", "desk")
  <2>1. /\ work[w] = Idle /\ Goto(w, f) /\ UNCHANGED <<row, employed, presence, queue>>
        /\ f.task = "desk" /\ f.pc = "desk" /\ f.rest = {}
    BY <1>3 DEF BeginDeskSweep, Begin, Entered
  <2> HIDE DEF f
  <2> QED BY <2>1, FreshTrue
<1>4. ASSUME NEW a \in Agents, BeginGoOffline(w, a) PROVE AloneInv'
  <2> DEFINE f == [Entered("desk", "offline") EXCEPT !.agent = a]
  <2>1. /\ work[w] = Idle /\ Goto(w, f) /\ UNCHANGED <<row, employed, presence, queue>>
        /\ f.task = "desk" /\ f.pc = "offline" /\ f.rest = {}
    BY <1>4 DEF BeginGoOffline, Begin, Entered
  <2> HIDE DEF f
  <2> QED BY <2>1, FreshTrue
<1>5. ASSUME NEW a \in Agents, BeginDeactivate(w, a) PROVE AloneInv'
  <2> DEFINE f == [Entered("dismissal", "offline") EXCEPT !.agent = a]
  <2>1. /\ work[w] = Idle /\ Goto(w, f) /\ UNCHANGED <<row, presence, queue>>
        /\ employed' = employed \ {a}
        /\ f.task = "dismissal" /\ f.pc = "offline" /\ f.rest = {} /\ f.agent = a
    BY <1>5 DEF BeginDeactivate, Begin, Entered
  <2> HIDE DEF f
  <2> QED BY <2>1, FreshTrue
<1> QED BY <1>1, <1>2, <1>3, <1>4, <1>5 DEF BeginStaff
-----------------------------------------------------------------------------
(* A shift starts; nothing happens.                                        *)

\* Whoever comes online holds nothing, and nothing is in hand for them.
LEMMA ShiftTrue ==
  ASSUME AloneInv, NEW w \in Workers, \A v \in Workers : v = w, TypeInv',
         Tallied', Carried, ShiftStarts
  PROVE  AloneInv'
<1> DEFINE f == work[w]
<1>1. PICK a \in Agents : ~presence[a].online /\ Held(a) = {} /\ GoOnline(a)
  BY DEF ShiftStarts
<1>2. /\ f \in Frame /\ HandlerTrue(f) /\ Coherent(f) /\ work'[w] = f
      /\ TypeInv /\ TypeOK /\ Tallied /\ HeldBounded /\ QueuedOnce /\ RowConsistent
      /\ UNCHANGED <<row, employed, queue>>
  BY <1>1 DEF GoOnline, AloneInv, TypeInv, TypeOK, WorkCoherent
<1>3. /\ presence'[a].active = 0
      /\ \A b \in Agents \ {a} : presence'[b] = presence[b]
  BY <1>1, <1>2 DEF GoOnline, TypeOK
<1> HIDE DEF f
<1>4. QueuedOnce' /\ RowConsistent' /\ HeldBounded' /\ \A b \in Agents : Held(b)' = Held(b)
  BY <1>2 DEF HeldBounded, Held, RowConsistent, QueuedOnce
<1>5. \A b \in Agents : /\ Freed(work[w], b)' = Freed(f, b)
                        /\ Claimed(work[w], b)' = Claimed(f, b)
  BY <1>2 DEF Freed, Claimed, GivingUp
<1>6. Claimed(f, a) = 0
  BY <1>1, <1>2 DEF Claimed, HandlerTrue, SlotsTrue
<1>7. Freed(f, a) = 0
  <2> SUFFICES ASSUME f.pc \in {"unqueue", "save_ended", "save_waiting"}, f.copy.agent = a
               PROVE  FALSE
    BY DEF Freed
  <2> DEFINE c == f.copy.conv
  <2>1. f.copy.agent \in {Nobody, row[c].agent} /\ Open(c) /\ c \in Conversations
    BY <1>2 DEF HandlerTrue, CopiesTrue, Parting, Coherent, OnConversation, Copy
  <2>2. row[c].agent = a
    BY <2>1, NobodyAssumption
  <2>3. c \in Held(a)
    BY <1>2, <2>1, <2>2, NobodyAssumption DEF Held, Open, RowConsistent
  <2> QED BY <1>1, <2>3
<1>8. SlotsTrue(work[w])'
  <2>1. ASSUME NEW b \in Agents, presence'[b].online
        PROVE  presence'[b].active + Freed(work[w], b)' = Charged(b)' + Claimed(work[w], b)'
    <3>0. Charged(b)' = Charged(b)
      BY <1>4, <2>1, ChargedKept
    <3>1. CASE b = a
      <4>1. Charged(a) = 0
        <5>1. Cardinality(Held(a)) = 0
          BY <1>1, FS_EmptySet
        <5>2. lost[a] = 0
          BY <1>1, <1>2 DEF Tallied
        <5> QED BY <5>1, <5>2 DEF Charged
      <4> QED BY <1>3, <1>5, <1>6, <1>7, <3>0, <3>1, <4>1
    <3>2. CASE b # a
      <4>1. presence[b].active + Freed(f, b) = Charged(b) + Claimed(f, b)
        BY <1>2, <1>3, <2>1, <3>2 DEF HandlerTrue, SlotsTrue
      <4> QED BY <1>3, <1>5, <3>0, <3>2, <4>1
    <3> QED BY <3>1, <3>2
  <2>2. f.pc \in {"take", "attach", "give"} \/ GivingUp(f) =>
          presence[f.agent].online /\ presence'[f.agent] = presence[f.agent]
    <3>1. f.pc \in {"take", "attach", "give"} \/ GivingUp(f) => f.agent \in Agents
      BY <1>2 DEF Coherent, GivingUp
    <3> QED BY <1>1, <1>2, <1>3, <3>1 DEF HandlerTrue, SlotsTrue
  <2>3. /\ f.pc \in {"take", "give"} => f.seen = presence[f.agent].active
        /\ f.pc \in {"release", "give"} /\ f.then # "abort" => f.agent = f.copy.agent
    BY <1>2 DEF HandlerTrue, SlotsTrue
  <2> QED BY <1>2, <2>1, <2>2, <2>3 DEF SlotsTrue, GivingUp
<1> QED
  BY <1>2, <1>4, <1>8, PlacedNext, CopiesNext, QueueNext, DismissedNext, HandlerNext
     DEF HandlerTrue

\* Nothing changes that the invariant is about.
LEMMA StillTrue ==
  ASSUME AloneInv, TypeInv', Tallied', Carried, UNCHANGED <<row, employed, presence, queue, work>>
  PROVE  AloneInv'
<1>1. \A a \in Agents : Held(a)' = Held(a)
  BY DEF Held
<1>2. RowConsistent' /\ QueuedOnce' /\ HeldBounded'
  BY <1>1 DEF AloneInv, RowConsistent, QueuedOnce, HeldBounded
<1>3. ASSUME NEW w \in Workers PROVE HandlerTrue(work[w])'
  <2>1. work'[w] = work[w] /\ HandlerTrue(work[w])
    BY DEF AloneInv
  <2> QED BY <2>1, PlacedNext, CopiesNext, QueueNext, SlotsNext, DismissedNext DEF HandlerTrue
<1> QED BY <1>2, <1>3 DEF AloneInv

\* The visitor leaves the queue between handlers, and `gone` names their conversation.
LEMMA LeavingTrue ==
  ASSUME AloneInv, NEW w \in Workers, \A v \in Workers : v = w, TypeInv', Tallied',
         work[w] = Idle, NEW c \in Conversations, LeaveQueue(c),
         \A a \in Agents : presence'[a].online => lost'[a] = lost[a],
         gone' = gone \cup (Waiting \ Waiting')
  PROVE  AloneInv'
<1>1. /\ Agreed /\ TypeInv /\ TypeOK /\ RowConsistent /\ QueuedOnce /\ Tallied /\ HeldBounded
      /\ HandlerTrue(Idle)
  BY IdleAgreed DEF TypeInv, AloneInv
<1>2. /\ c \in Waiting /\ queue' = Left(c) /\ work'[w] = Idle
      /\ UNCHANGED <<row, employed, presence>>
  BY DEF LeaveQueue
<1>3. QueuedOnce' /\ Waiting' = Waiting \ {c}
  BY <1>1, <1>2, LeftWaiting DEF TypeOK
<1>4. gone' = gone \cup {c}
  BY <1>2, <1>3
<1>5. Waiting \subseteq Conversations
  BY <1>1, WaitingOK DEF TypeOK
<1>6. QueueTrue(work[w])'
  <2>1. \A d : ~InHand(work[w], d)'
    BY <1>2, IdleFields DEF InHand
  <2>2. \A d \in Conversations : row'[d].state = "WAITING" =>
          (d \in Waiting' <=> d \notin gone')
    BY <1>1, <1>2, <1>3, <1>4 DEF Agreed
  <2>3. \A d \in Waiting' : row'[d].state = "WAITING"
    BY <1>1, <1>2, <1>3, <1>5 DEF Agreed
  <2>4. \A d \in Conversations : d \in gone' => row'[d].state \in {"WAITING", "ENDED"}
    BY <1>1, <1>2, <1>4 DEF Agreed
  <2> QED BY <1>2, <2>1, <2>2, <2>3, <2>4, IdleFields DEF QueueTrue
<1>7. RowConsistent' /\ HeldBounded' /\ \A a \in Agents : Held(a)' = Held(a)
  BY <1>1, <1>2 DEF HeldBounded, Held, RowConsistent
<1>8. Exact'
  BY <1>1, <1>2, <1>7 DEF Exact, Agreed, Charged
<1>9. SlotsTrue(work[w])'
  BY <1>2, <1>7, <1>8, IdleFields, ExactNext DEF InBetween
<1> QED
  BY <1>1, <1>2, <1>3, <1>6, <1>7, <1>9, PlacedNext, CopiesNext, DismissedNext, HandlerNext
     DEF HandlerTrue
-----------------------------------------------------------------------------
(* What Counted records.                                                   *)

LEMMA TalliedNext ==
  ASSUME Tallied, Counted
  PROVE  Tallied'
<1>1. lost \in [Agents -> Nat]
  BY DEF Tallied
<1>2. lost' = [a \in Agents |-> IF ~presence'[a].online THEN 0
                               ELSE IF Forfeits(a) THEN lost[a] + 1 ELSE lost[a]]
  BY DEF Counted
<1>3. \A a \in Agents : lost'[a] \in Nat /\ (~presence'[a].online => lost'[a] = 0)
  BY <1>1, <1>2
<1> QED BY <1>2, <1>3 DEF Tallied

\* Only an ending loses a slot, and only outside a handler is leaving the queue recorded.
LEMMA NothingRecorded ==
  ASSUME NEW w \in Workers, \A v \in Workers : v = w, Counted,
         work[w].pc # "save_ended" \/ work'[w] = work[w],
         work' # work \/ queue' = queue
  PROVE  Carried
<1>1. \A a \in Agents : ~Forfeits(a)
  BY DEF Forfeits, At
<1>2. \A a \in Agents : presence'[a].online => lost'[a] = lost[a]
  BY <1>1 DEF Counted
<1>3. gone' = gone
  BY DEF Counted, Waiting
<1> QED BY <1>2, <1>3 DEF Carried

LEMMA HandlingRecorded ==
  ASSUME AloneInv, NEW w \in Workers, \A v \in Workers : v = w, Counted,
         Handle(w) \/ AttachFails(w), ~EndSaves(w)
  PROVE  Carried
<1> DEFINE f == work[w]
<1>1. f \in Frame /\ work \in [Workers -> Frame]
  BY DEF AloneInv, TypeInv, TypeOK
<1>2. CASE GoOffline(w) \/ GatherHeld(w) \/ CloseDeskIfEmpty(w)
  BY <1>2, NothingRecorded DEF GoOffline, GatherHeld, CloseDeskIfEmpty, At
<1>3. CASE Drain(w)
  <2> DEFINE g == [f EXCEPT !.rest = {NewCopy(c) : c \in Waiting}]
  <2>1. f.pc = "drain" /\ work'[w] = Finished(g)
    BY <1>1, <1>3 DEF Drain, At, Goto
  <2>2. Finished(g).pc \in {"idle", "each"}
    BY DEF Finished, Idle, Entered
  <2> HIDE DEF f, g
  <2> QED BY <2>1, <2>2, NothingRecorded DEF f
<1>4. CASE \E copy \in work[w].rest : NextOfLoop(w, copy)
  BY <1>4, NothingRecorded DEF NextOfLoop, At
<1>5. CASE ChooseAgents(w) \/ ClaimRead(w) \/ ClaimWrite(w) \/ Attach(w) \/ AttachFails(w)
  BY <1>5, NothingRecorded DEF ChooseAgents, ClaimRead, ClaimWrite, Attach, AttachFails, At
<1>6. CASE JoinQueue(w)
  <2>1. f.pc = "join" /\ work'[w] = Idle
    BY <1>1, <1>6 DEF JoinQueue, At, Goto
  <2> QED BY <2>1, IdleFields, NothingRecorded
<1>7. CASE ReleaseRead(w) \/ ReleaseWrite(w)
  BY <1>7, NothingRecorded DEF ReleaseRead, ReleaseWrite, At
<1>8. CASE EndLeavesQueue(w)
  <2>1. f.pc = "unqueue" /\ work'[w].pc = "save_ended"
    BY <1>1, <1>8 DEF EndLeavesQueue, At, Goto, Frame
  <2> QED BY <2>1, NothingRecorded
<1>9. CASE RequeueSaves(w) \/ Look(w) \/ LoadWaiting(w)
  BY <1>9, NothingRecorded DEF RequeueSaves, Look, LoadWaiting, At
<1>10. CASE RequeueJoins(w)
  <2>1. f.pc = "rejoin" /\ work'[w].pc = "look"
    BY <1>1, <1>10 DEF RequeueJoins, At, Goto, Frame
  <2> QED BY <2>1, NothingRecorded
<1>11. CASE LeaveAndLookAgain(w)
  <2>1. f.pc \in {"drop", "serve"} /\ work'[w].pc = "look"
    BY <1>1, <1>11 DEF LeaveAndLookAgain, At, Goto, Frame
  <2> QED BY <2>1, NothingRecorded
<1> QED BY <1>2, <1>3, <1>4, <1>5, <1>6, <1>7, <1>8, <1>9, <1>10, <1>11 DEF Handle

\* The slot an ending on an old copy loses is the attached agent's.
LEMMA EndingRecorded ==
  ASSUME AloneInv, NEW w \in Workers, \A v \in Workers : v = w, Counted, EndSaves(w)
  PROVE  /\ gone' = gone
         /\ \A b \in Agents : presence'[b].online =>
              lost'[b] = IF work[w].copy.agent = Nobody /\ row[work[w].copy.conv].agent = b
                         THEN lost[b] + 1 ELSE lost[b]
<1>1. work[w] \in Frame /\ work \in [Workers -> Frame]
  BY DEF AloneInv, TypeInv, TypeOK
<1>2. At(w, "save_ended") /\ work'[w].pc = "look" /\ UNCHANGED queue
  BY <1>1 DEF EndSaves, At, Goto, Frame
<1>3. gone' = gone
  BY <1>2 DEF Counted, Waiting
<1>4. \A b \in Agents : Forfeits(b) <=>
        work[w].copy.agent = Nobody /\ row[work[w].copy.conv].agent = b
  BY <1>2 DEF Forfeits, At
<1>5. \A b \in Agents : presence'[b].online =>
        lost'[b] = IF Forfeits(b) THEN lost[b] + 1 ELSE lost[b]
  BY DEF Counted
<1> QED BY <1>3, <1>4, <1>5
-----------------------------------------------------------------------------
(* A socket's copy is of its own conversation.                             *)

SocketsOwn == \A c \in Conversations : socket[c] # Nobody => socket[c].conv = c

LEMMA SocketsKept ==
  ASSUME TypeInv, SocketsOwn, [Next]_vars
  PROVE  SocketsOwn'
<1>1. socket \in [Conversations -> Copy \cup {Nobody}] /\ work \in [Workers -> Frame]
  BY DEF TypeInv, TypeOK
<1>2. CASE UNCHANGED socket
  BY <1>2 DEF SocketsOwn
<1>3. ASSUME NEW c \in Conversations, VisitorConnects(c) PROVE SocketsOwn'
  <2>1. socket' = [socket EXCEPT ![c] = CopyOf(c)] /\ CopyOf(c).conv = c
    BY <1>3, CopyFields DEF VisitorConnects
  <2> QED BY <1>1, <2>1 DEF SocketsOwn
<1>4. ASSUME NEW w \in Workers, EndSaves(w), work[w].task = "visitor" PROVE SocketsOwn'
  <2> DEFINE k == work[w].copy
             n == [k EXCEPT !.state = "ENDED"]
  <2>1. k \in Copy
    BY <1>1, <1>4 DEF EndSaves, At, TypeInv, WorkCoherent, Coherent, OnConversation
  <2>2. n.conv = k.conv /\ k.conv \in Conversations
    BY <2>1 DEF Copy
  <2>3. socket' = [socket EXCEPT ![k.conv] = n]
    BY <1>4 DEF EndSaves
  <2> HIDE DEF k, n
  <2> QED BY <1>1, <2>2, <2>3 DEF SocketsOwn
<1>5. CASE \/ UNCHANGED vars \/ \E a \in Agents : GoOnline(a) \/ PresenceExpires(a)
           \/ \E c \in Conversations : LeaveQueue(c)
  BY <1>2, <1>5 DEF vars, GoOnline, PresenceExpires, LeaveQueue
<1>6. ASSUME NEW w \in Workers, BeginStaff(w) \/ BeginVisitor(w) \/ Dies(w) PROVE SocketsOwn'
  BY <1>2, <1>6 DEF BeginStaff, BeginVisitor, Dies, BeginStart, BeginAgentClose,
     BeginVisitorClose, BeginSweep, BeginDeskSweep, BeginGoOffline, BeginDeactivate
<1>7. ASSUME NEW w \in Workers, Handle(w) \/ AttachFails(w) PROVE SocketsOwn'
  <2>1. CASE \/ GoOffline(w) \/ GatherHeld(w) \/ CloseDeskIfEmpty(w) \/ Drain(w)
             \/ \E copy \in work[w].rest : NextOfLoop(w, copy)
    BY <1>2, <2>1 DEF GoOffline, GatherHeld, CloseDeskIfEmpty, Drain, NextOfLoop
  <2>2. CASE \/ ChooseAgents(w) \/ ClaimRead(w) \/ ClaimWrite(w) \/ Attach(w)
             \/ AttachFails(w) \/ JoinQueue(w) \/ ReleaseRead(w) \/ ReleaseWrite(w)
    BY <1>2, <2>2 DEF ChooseAgents, ClaimRead, ClaimWrite, Attach, AttachFails, JoinQueue,
       ReleaseRead, ReleaseWrite
  <2>3. CASE EndSaves(w)
    <3>1. CASE work[w].task # "visitor"
      BY <1>2, <2>3, <3>1 DEF EndSaves
    <3> QED BY <1>4, <2>3, <3>1
  <2>4. CASE \/ EndLeavesQueue(w) \/ RequeueSaves(w) \/ RequeueJoins(w)
             \/ Look(w) \/ LoadWaiting(w) \/ LeaveAndLookAgain(w)
    BY <1>2, <2>4 DEF EndLeavesQueue, RequeueSaves, RequeueJoins, Look, LoadWaiting,
       LeaveAndLookAgain
  <2> QED BY <1>7, <2>1, <2>2, <2>3, <2>4 DEF Handle
<1> QED BY <1>3, <1>5, <1>6, <1>7 DEF Next
-----------------------------------------------------------------------------
(* The invariant, step by step.                                            *)

LEMMA AloneIsDesk == AloneNext => Next
<1>1. ASSUME NEW w \in Workers, NEW c \in Conversations, VisitorCloses(w, c) PROVE BeginVisitor(w)
  BY <1>1 DEF VisitorCloses, BeginVisitor
<1> QED BY <1>1, CallersAssumption DEF AloneNext, ShiftStarts, Next

\* Every step of a desk with one worker preserves the invariant.
LEMMA AloneStep ==
  ASSUME NEW u, Workers = {u}, AloneInv, SocketsOwn, [AloneNext /\ Counted]_deskVars
  PROVE  AloneInv' /\ SocketsOwn'
<1>1. CASE UNCHANGED deskVars
  <2>1. UNCHANGED <<row, employed, presence, queue, socket, work, lost, gone>>
    BY <1>1 DEF deskVars, vars, history
  <2>2. TypeInv' /\ Tallied' /\ Carried /\ SocketsOwn'
    BY <2>1 DEF AloneInv, TypeInv, TypeOK, WorkCoherent, Tallied, Carried, SocketsOwn
  <2> QED BY <2>1, <2>2, StillTrue
<1> SUFFICES ASSUME AloneNext, Counted PROVE AloneInv' /\ SocketsOwn'
  BY <1>1
<1>2. TypeInv' /\ RowConsistent' /\ Tallied' /\ SocketsOwn'
  BY AloneIsDesk, NextTypeInv, NextRowConsistent, SocketsKept, TalliedNext DEF AloneInv
<1>3. u \in Workers /\ \A v \in Workers : v = u
  OBVIOUS
<1>4. CASE ShiftStarts
  <2>1. Carried
    BY <1>3, <1>4, NothingRecorded DEF ShiftStarts, GoOnline
  <2> QED BY <1>2, <1>3, <1>4, <2>1, ShiftTrue
<1>5. ASSUME NEW c \in Callers, VisitorConnects(c) PROVE AloneInv'
  <2>1. UNCHANGED <<row, employed, presence, queue, work>>
    BY <1>5 DEF VisitorConnects
  <2>2. Carried
    BY <1>3, <2>1, NothingRecorded
  <2> QED BY <1>2, <2>1, <2>2, StillTrue
<1>6. ASSUME NEW c \in Conversations, Quiet, LeaveQueue(c) PROVE AloneInv'
  <2>1. work[u] = Idle /\ work' = work
    BY <1>3, <1>6 DEF Quiet, LeaveQueue
  <2>2. \A a \in Agents : ~Forfeits(a)
    BY <2>1 DEF Forfeits
  <2>3. \A a \in Agents : presence'[a].online => lost'[a] = lost[a]
    BY <2>2 DEF Counted
  <2>4. gone' = gone \cup (Waiting \ Waiting')
    BY <2>1 DEF Counted
  <2> QED BY <1>2, <1>3, <1>6, <2>1, <2>3, <2>4, LeavingTrue
<1>7. ASSUME NEW w \in Workers, BeginStaff(w) PROVE AloneInv'
  <2>1. work[w] = Idle /\ UNCHANGED queue
    BY <1>7 DEF BeginStaff, Begin, BeginStart, BeginAgentClose, BeginSweep, BeginDeskSweep,
       BeginGoOffline, BeginDeactivate
  <2>2. Carried
    BY <1>3, <2>1, IdleFields, NothingRecorded
  <2> QED BY <1>2, <1>3, <1>7, <2>2, StaffBeginsTrue
<1>8. ASSUME NEW w \in Workers, NEW c \in Conversations, VisitorCloses(w, c) PROVE AloneInv'
  <2>1. work[w] = Idle /\ UNCHANGED queue
    BY <1>8 DEF VisitorCloses, BeginVisitorClose, Begin
  <2>2. Carried
    BY <1>3, <2>1, IdleFields, NothingRecorded
  <2> QED BY <1>2, <1>3, <1>8, <2>2, VisitorClosesTrue DEF SocketsOwn
<1>9. ASSUME NEW w \in Workers, EndSaves(w) PROVE AloneInv'
  <2>1. \A v \in Workers : v = w
    BY <1>3
  <2> QED BY <1>2, <1>9, <2>1, EndingRecorded, EndSavesTrue
<1>10. ASSUME NEW w \in Workers, Handle(w), ~EndSaves(w) PROVE AloneInv'
  <2>1. TypeInv' /\ RowConsistent' /\ Tallied' /\ \A v \in Workers : v = w
    BY <1>2, <1>3
  <2>2. Carried
    BY <1>10, <2>1, HandlingRecorded
  <2>3. CASE GoOffline(w) \/ GatherHeld(w) \/ CloseDeskIfEmpty(w) \/ Drain(w)
    BY <2>1, <2>2, <2>3, OfflineTrue, GatherTrue, DeskTrue, DrainTrue
  <2>4. CASE \E copy \in work[w].rest : NextOfLoop(w, copy)
    BY <2>1, <2>2, <2>4, TurnTrue
  <2>5. CASE ChooseAgents(w) \/ ClaimRead(w) \/ ClaimWrite(w) \/ Attach(w) \/ JoinQueue(w)
    BY <2>1, <2>2, <2>5, ChooseTrue, ClaimReadTrue, ClaimWriteTrue, AttachTrue, JoinTrue
  <2>6. CASE ReleaseRead(w) \/ ReleaseWrite(w)
    BY <2>1, <2>2, <2>6, ReleaseReadTrue, ReleaseWriteTrue
  <2>7. CASE EndLeavesQueue(w) \/ RequeueSaves(w) \/ RequeueJoins(w)
    BY <2>1, <2>2, <2>7, EndLeavesTrue, RequeueSavesTrue, RequeueJoinsTrue
  <2>8. CASE Look(w) \/ LoadWaiting(w) \/ LeaveAndLookAgain(w)
    BY <2>1, <2>2, <2>8, LookTrue, LoadTrue, LeaveTrue
  <2> QED BY <1>10, <2>3, <2>4, <2>5, <2>6, <2>7, <2>8 DEF Handle
<1>11. ASSUME NEW w \in Workers, AttachFails(w), work[w].task \notin {"start", "dismissal"}
      PROVE  AloneInv'
  <2>1. Carried
    <3>1. work[w].pc = "attach" /\ UNCHANGED queue
      BY <1>11 DEF AttachFails, At
    <3> QED BY <1>3, <3>1, NothingRecorded
  <2> QED BY <1>2, <1>3, <1>11, <2>1, AttachFailsTrue
<1> QED BY <1>2, <1>4, <1>5, <1>6, <1>7, <1>8, <1>9, <1>10, <1>11 DEF AloneNext

LEMMA AloneInit == DeskInit => AloneInv /\ SocketsOwn
<1> SUFFICES ASSUME DeskInit PROVE AloneInv /\ SocketsOwn
  OBVIOUS
<1>0. Init /\ lost = [a \in Agents |-> 0] /\ gone = {}
  BY DEF DeskInit
<1>1. TypeInv /\ RowConsistent
  BY <1>0, InitTypeInv, InitRowConsistent
<1>2. \A c \in Conversations : row[c].state = "NONE"
  BY <1>0 DEF Init, NotStarted
<1>3. \A a \in Agents : Held(a) = {} /\ ~presence[a].online
  BY <1>0, <1>2 DEF Init, Held, Offline
<1>4. QueuedOnce /\ Waiting = {}
  BY <1>0, NobodyWaiting DEF Init
<1>5. HeldBounded
  BY <1>3, FS_EmptySet, CapacityAssumption DEF HeldBounded
<1>6. Between(Idle) /\ Tallied
  BY <1>0, <1>2, <1>3, <1>4, IdleFields DEF Between, Exact, Tallied
<1>7. ASSUME NEW w \in Workers PROVE HandlerTrue(work[w])
  BY <1>0, <1>1, <1>5, <1>6, IdleOK, IdleFields, IdleTrue DEF Init
<1>8. SocketsOwn
  BY <1>0 DEF Init, SocketsOwn
<1> QED BY <1>1, <1>4, <1>5, <1>6, <1>7, <1>8 DEF AloneInv

\* With no handler running, the two stores agree.
LEMMA QuietAgreed ==
  ASSUME AloneInv, Quiet, Workers # {}
  PROVE  Agreed
<1>1. PICK w \in Workers : TRUE
  OBVIOUS
<1> QED BY <1>1, IdleAgreed DEF Quiet

\* Presence changes in five places.
LEMMA PresenceKept ==
  ASSUME [Next]_vars,
         \A a \in Agents : ~GoOnline(a) /\ ~PresenceExpires(a),
         \A w \in Workers : ~GoOffline(w) /\ ~ClaimWrite(w) /\ ~ReleaseWrite(w)
  PROVE  UNCHANGED presence
<1>1. CASE (\E c \in Conversations : LeaveQueue(c) \/ VisitorConnects(c)) \/ UNCHANGED vars
  BY <1>1 DEF LeaveQueue, VisitorConnects, vars
<1>2. ASSUME NEW w \in Workers, BeginStaff(w) \/ BeginVisitor(w) \/ Dies(w)
      PROVE  UNCHANGED presence
  BY <1>2 DEF BeginStaff, BeginVisitor, Dies, BeginStart, BeginAgentClose, BeginVisitorClose,
     BeginSweep, BeginDeskSweep, BeginGoOffline, BeginDeactivate
<1>3. ASSUME NEW w \in Workers, Handle(w) \/ AttachFails(w) PROVE UNCHANGED presence
  <2>1. CASE \/ GatherHeld(w) \/ CloseDeskIfEmpty(w) \/ Drain(w)
             \/ \E copy \in work[w].rest : NextOfLoop(w, copy)
    BY <2>1 DEF GatherHeld, CloseDeskIfEmpty, Drain, NextOfLoop
  <2>2. CASE \/ ChooseAgents(w) \/ ClaimRead(w) \/ Attach(w) \/ AttachFails(w)
             \/ JoinQueue(w) \/ ReleaseRead(w)
    BY <2>2 DEF ChooseAgents, ClaimRead, Attach, AttachFails, JoinQueue, ReleaseRead
  <2>3. CASE \/ EndLeavesQueue(w) \/ EndSaves(w) \/ RequeueSaves(w) \/ RequeueJoins(w)
             \/ Look(w) \/ LoadWaiting(w) \/ LeaveAndLookAgain(w)
    BY <2>3 DEF EndLeavesQueue, EndSaves, RequeueSaves, RequeueJoins, Look, LoadWaiting,
       LeaveAndLookAgain
  <2> QED BY <1>3, <2>1, <2>2, <2>3 DEF Handle
<1> QED BY <1>1, <1>2, <1>3 DEF Next
-----------------------------------------------------------------------------
(* What follows, for a desk whose handlers run one after the other.        *)

LEMMA AloneAlways ==
  ASSUME NEW u, Workers = {u}
  PROVE  AloneSpec => [](AloneInv /\ SocketsOwn)
<1>1. AloneInv /\ SocketsOwn /\ [AloneNext /\ Counted]_deskVars => AloneInv' /\ SocketsOwn'
  BY AloneStep
<1> QED BY <1>1, AloneInit, PTL DEF AloneSpec

\* One handler after another, the visitor's close among them: when none is running, every
\* online agent's count is what they hold, and the slots that visitors' closes have lost
\* them.  Each slot claimed and each other slot released has found its row.
THEOREM SlotsAreHeld ==
  ASSUME NEW u, Workers = {u}
  PROVE  AloneSpec => []SlotsMatchHeld
<1>1. AloneInv => SlotsMatchHeld
  BY QuietAgreed DEF SlotsMatchHeld, Agreed, Exact, Charged
<1> QED BY <1>1, AloneAlways, PTL

\* When no handler is running, the queue is the conversations that wait, but for those
\* whose visitor has left it: nobody else has been dropped from it, and nobody is left in
\* it who is served or ended.
THEOREM TheWaitingAreQueued ==
  ASSUME NEW u, Workers = {u}
  PROVE  AloneSpec => []QueueIsTheWaiting
<1>1. AloneInv => QueueIsTheWaiting
  <2> SUFFICES ASSUME AloneInv, Quiet
               PROVE  Waiting = {c \in Conversations : row[c].state = "WAITING"} \ gone
    BY DEF QueueIsTheWaiting
  <2>1. Waiting \subseteq Conversations
    BY WaitingOK DEF AloneInv, TypeInv, TypeOK
  <2> QED BY <2>1, QuietAgreed DEF Agreed
<1> QED BY <1>1, AloneAlways, PTL

\* Nobody ever holds more conversations than their capacity.
THEOREM CapacityIsKept ==
  ASSUME NEW u, Workers = {u}
  PROVE  AloneSpec => []WithinCapacity
<1>1. AloneInv => WithinCapacity
  BY DEF AloneInv, HeldBounded, WithinCapacity
<1> QED BY <1>1, AloneAlways, PTL

\* When no handler is running, whoever has been dismissed holds no live conversation.
THEOREM TheDismissedHoldNothing ==
  ASSUME NEW u, Workers = {u}
  PROVE  AloneSpec => []DismissedHoldsNothing
<1>1. AloneInv => DismissedHoldsNothing
  BY QuietAgreed DEF DismissedHoldsNothing, Agreed
<1> QED BY <1>1, AloneAlways, PTL

\* A slot is claimed or given back only for an agent who is online at that moment, so
\* that no write of a count brings an offline agent's presence back.
THEOREM OfflineIsOffline ==
  ASSUME NEW u, Workers = {u}
  PROVE  AloneSpec => StaysOffline
<1>1. ASSUME AloneInv, [AloneNext /\ Counted]_deskVars, NEW a \in Agents,
             ~presence[a].online, presence'[a].online
      PROVE  GoOnline(a)
  <2>1. [Next]_vars
    BY <1>1, AloneIsDesk DEF deskVars
  <2>2. ASSUME NEW b \in Agents, GoOnline(b) PROVE GoOnline(a)
    BY <1>1, <2>2 DEF GoOnline, AloneInv, TypeInv, TypeOK
  <2>3. ASSUME NEW b \in Agents, presence' = [presence EXCEPT ![b] = Offline] PROVE FALSE
    BY <1>1, <2>3 DEF Offline, AloneInv, TypeInv, TypeOK
  <2>4. ASSUME NEW w \in Workers, ClaimWrite(w) \/ ReleaseWrite(w) PROVE FALSE
    <3>1. presence[work[w].agent].online
      BY <1>1, <2>4 DEF ClaimWrite, ReleaseWrite, At, AloneInv, HandlerTrue, SlotsTrue
    <3>2. \E n : SetActive(work[w].agent, n)
      BY <2>4 DEF ClaimWrite, ReleaseWrite
    <3> QED BY <1>1, <3>1, <3>2 DEF SetActive, AloneInv, TypeInv, TypeOK
  <2>5. ASSUME NEW w \in Workers, GoOffline(w) PROVE FALSE
    <3>1. work[w].agent \in Agents
      BY <1>1, <2>5 DEF GoOffline, At, AloneInv, TypeInv, WorkCoherent, Coherent
    <3> QED BY <2>3, <2>5, <3>1 DEF GoOffline
  <2>6. \A b \in Agents : ~PresenceExpires(b)
    BY <2>3 DEF PresenceExpires
  <2>7. presence' # presence
    BY <1>1
  <2> SUFFICES ASSUME \A b \in Agents : ~GoOnline(b) PROVE FALSE
    BY <2>2
  <2> QED BY <2>1, <2>4, <2>5, <2>6, <2>7, PresenceKept
<1>2. AloneInv /\ [AloneNext /\ Counted]_deskVars =>
        [\A a \in Agents : ~presence[a].online /\ presence'[a].online => GoOnline(a)]_vars
  BY <1>1
<1> QED BY <1>2, AloneAlways, PTL DEF AloneSpec, StaysOffline

\* The chat desk, one handler after another, is the lifecycle that was promised: a
\* conversation is only attached while it waits, and to somebody with room, is only put
\* back from an agent, and only ends once.
THEOREM AloneImplementsLifecycle ==
  ASSUME NEW u, Workers = {u}
  PROVE  AloneSpec => ImplementsLifecycle
<1>1. DeskInit => Lifecycle!Init
  BY DEF DeskInit, Init, Lifecycle!Init, NotStarted, Lifecycle!NotStarted
<1>2. ASSUME AloneInv, [AloneNext /\ Counted]_deskVars PROVE [Lifecycle!Next]_row
  <2>1. [Next]_vars
    BY <1>2, AloneIsDesk DEF deskVars
  <2>2. ASSUME NEW w \in Workers, NEW c \in Conversations, BeginStart(w, c)
        PROVE  Lifecycle!Next
    BY <2>2 DEF BeginStart, Lifecycle!Next, Lifecycle!Start
  <2>3. /\ TypeInv /\ Tallied /\ HeldBounded /\ RowConsistent
        /\ \A w \in Workers : HandlerTrue(work[w]) /\ work[w] \in Frame /\ Coherent(work[w])
    BY <1>2 DEF AloneInv, TypeInv, TypeOK, WorkCoherent
  <2>4. ASSUME NEW w \in Workers, work[w].pc \in {"attach", "save_ended", "save_waiting"}
        PROVE  work[w].copy.conv \in Conversations
    BY <2>3, <2>4 DEF Coherent, OnConversation, Copy
  <2>5. ASSUME NEW w \in Workers, Attach(w) PROVE Lifecycle!Next
    <3> DEFINE f == work[w]
               c == f.copy.conv
               a == f.agent
    <3>1. f.pc = "attach"
      BY <2>5 DEF Attach, At
    <3>2. a \in Agents /\ c \in Conversations /\ row[c].state = "WAITING"
      BY <2>3, <2>4, <3>1 DEF Coherent, HandlerTrue, CopiesTrue
    <3>3. presence[a].active + Freed(f, a) = Cardinality(Held(a)) + lost[a] + Claimed(f, a)
      BY <2>3, <3>1, <3>2 DEF HandlerTrue, SlotsTrue, Charged
    <3>4. Freed(f, a) = 0 /\ Claimed(f, a) = 1
      BY <3>1 DEF Freed, Claimed
    <3>5. presence[a].active \in 0..Capacity /\ Cardinality(Held(a)) \in Nat /\ lost[a] \in Nat
      BY <2>3, <3>2, PresenceNumbers, ChargedNumbers
    <3>6. Cardinality(Held(a)) < Capacity
      <4> HIDE DEF f, a
      <4> QED BY <3>3, <3>4, <3>5, CapacityAssumption
    <3>7. row' = [row EXCEPT ![c].state = "ACTIVE", ![c].agent = a]
      BY <2>3, <2>5, <3>2 DEF Attach, RowConsistent
    <3> HIDE DEF f, c, a
    <3>8. Lifecycle!Held(a) = Held(a)
      BY DEF Lifecycle!Held, Held
    <3>9. Lifecycle!Assign(c, a)
      <4>1. Lifecycle!Cardinality(Held(a)) = Cardinality(Held(a))
        BY DEF Lifecycle!Cardinality, Cardinality
      <4> QED BY <3>2, <3>6, <3>7, <3>8, <4>1 DEF Lifecycle!Assign
    <3> QED BY <3>2, <3>9 DEF Lifecycle!Next
  <2>6. ASSUME NEW w \in Workers, EndSaves(w) PROVE Lifecycle!Next
    <3> DEFINE c == work[w].copy.conv
    <3>1. work[w].pc = "save_ended" /\ work[w].reason \in EndReasons
      BY <2>3, <2>6 DEF EndSaves, At, Frame
    <3>2. c \in Conversations /\ Open(c)
      BY <2>3, <2>4, <3>1 DEF HandlerTrue, CopiesTrue, Parting
    <3>3. row' = [row EXCEPT ![c].state = "ENDED", ![c].reason = work[w].reason]
      BY <2>6 DEF EndSaves
    <3> HIDE DEF c
    <3> QED BY <3>1, <3>2, <3>3
         DEF Lifecycle!Next, Lifecycle!End, Lifecycle!Open, Lifecycle!EndReasons, Open, EndReasons
  <2>7. ASSUME NEW w \in Workers, RequeueSaves(w) PROVE Lifecycle!Next
    <3> DEFINE c == work[w].copy.conv
    <3>1. work[w].pc = "save_waiting"
      BY <2>7 DEF RequeueSaves, At
    <3>2. c \in Conversations /\ row[c].state = "ACTIVE"
      BY <2>3, <2>4, <3>1, CopyFields DEF HandlerTrue, CopiesTrue, Parting, Returning
    <3>3. row' = [row EXCEPT ![c].state = "WAITING", ![c].agent = Nobody]
      BY <2>7 DEF RequeueSaves
    <3> HIDE DEF c
    <3> QED BY <3>2, <3>3 DEF Lifecycle!Next, Lifecycle!Requeue
  <2> QED BY <2>1, <2>2, <2>5, <2>6, <2>7, RowKept
<1> QED BY <1>1, <1>2, AloneAlways, PTL DEF AloneSpec, ImplementsLifecycle, Lifecycle!Spec
-----------------------------------------------------------------------------
(* A day of service, one handler after another.                            *)

\* Nobody waits behind capacity that exists, but behind an agent who came online beside
\* the queue and has not been offered it.
Filled == queue # <<>> /\ ~unpulled => CandidateAgents = {}

\* A new conversation, which has not queued, is given to somebody while nobody waits or
\* while such an agent is there; every other is the one at the head of the queue, for
\* somebody who has room.
Serving(f) ==
  /\ f.task \in {"start", "close", "idle", "desk"} /\ f.barred = {}
  /\ f.task = "start" => f.pc \in {"idle", "choose", "claim", "take", "attach", "join"}
  /\ f.pc \in {"release", "give"} => f.then = "unqueue"
  /\ f.pc \notin {"save_waiting", "rejoin"}
  /\ f.pc \in {"idle", "choose", "offline", "gather", "desk", "drain", "each"} => Filled
  /\ f.pc \in {"choose", "join"} => f.task = "start"
  /\ f.pc = "join" => CandidateAgents = {}
  /\ f.pc \in {"choose", "claim", "take", "attach", "join"} => row[f.copy.conv].state = "WAITING"
  /\ f.task = "start" =>
       /\ f.pc # "idle" => f.copy.conv \notin Waiting
       /\ f.pc = "claim" => f.free = CandidateAgents /\ Filled
       /\ f.pc \in {"take", "attach"} => queue = <<>> \/ unpulled
  /\ f.task # "start" =>
       /\ f.pc \in {"load", "claim", "take", "attach"} =>
            queue # <<>> /\ Head(queue) = f.copy.conv
       /\ f.pc \in {"load", "claim"} => f.free # {} /\ f.free \subseteq CandidateAgents

\* Whoever queues has started.
QueueStarted == QueuedOnce /\ \A c \in Waiting : row[c].state # "NONE"

ServiceInv ==
  TypeInv /\ RowConsistent /\ QueueStarted /\ \A w \in Workers : Serving(work[w])

\* The agent who came online beside the queue stays unoffered while anybody waits.
StaysUnpulled == unpulled => queue' = <<>> \/ unpulled'

\* Where nothing is asked of the desk.
Unasked == {"unqueue", "save_ended", "look", "drop", "serve"}

LEMMA UnaskedServing ==
  ASSUME NEW g, g.task \in {"close", "idle", "desk"}, g.barred = {},
         g.pc \in Unasked \/ (g.pc \in {"release", "give"} /\ g.then = "unqueue")
  PROVE  Serving(g)
BY DEF Serving, Unasked

LEMMA ServingNext ==
  ASSUME NEW w, NEW g, work'[w] = g, UNCHANGED <<row, employed, presence, queue>>,
         StaysUnpulled, Serving(g)
  PROVE  Serving(work[w])'
<1>1. CandidateAgents' = CandidateAgents /\ Waiting' = Waiting
  BY DEF CandidateAgents, HasCapacity, Waiting
<1>2. Filled => Filled'
  BY <1>1 DEF Filled, StaysUnpulled
<1>3. queue = <<>> \/ unpulled => queue' = <<>> \/ unpulled'
  BY DEF StaysUnpulled
<1> QED BY <1>1, <1>2, <1>3 DEF Serving

LEMMA UnaskedNext ==
  ASSUME NEW w, NEW g, work'[w] = g, g.task \in {"close", "idle", "desk"}, g.barred = {},
         g.pc \in Unasked \/ (g.pc \in {"release", "give"} /\ g.then = "unqueue")
  PROVE  Serving(work[w])'
BY DEF Serving, Unasked

LEMMA IdleServing == Filled => Serving(Idle)
BY DEF Serving, Idle, Entered

LEMMA FinishedServing ==
  ASSUME NEW f \in Frame, f.task \in {"close", "idle", "desk"}, Filled
  PROVE  Serving(Finished(f))
<1>1. CASE f.rest = {}
  BY <1>1, IdleServing DEF Finished
<1>2. CASE f.rest # {}
  <2> DEFINE g == Finished(f)
  <2>1. g.pc = "each" /\ g.task = f.task /\ g.barred = {}
    BY <1>2 DEF Finished, Entered
  <2> HIDE DEF g
  <2>2. Serving(g)
    BY <2>1 DEF Serving
  <2> QED BY <2>2 DEF g
<1> QED BY <1>1, <1>2

LEMMA EndingServing ==
  ASSUME NEW f \in Frame, f.task \in {"close", "idle", "desk"}, f.barred = {},
         NEW copy, NEW why
  PROVE  Serving(Ending(f, copy, why))
<1> DEFINE h == [f EXCEPT !.copy = copy, !.reason = why]
           g == Ending(f, copy, why)
<1>1. /\ h.task = f.task /\ h.barred = {}
      /\ g = IF h.copy.agent = Nobody THEN [h EXCEPT !.pc = "unqueue"]
             ELSE [h EXCEPT !.pc = "release", !.agent = h.copy.agent, !.then = "unqueue"]
  BY DEF Frame, Ending, Releasing
<1>2. DOMAIN h = DOMAIN f
  OBVIOUS
<1>3. DOMAIN f = {"pc", "task", "copy", "reason", "rest", "free", "barred", "agent", "seen", "then"}
  BY DEF Frame
<1>4. /\ g.task = f.task /\ g.barred = {}
      /\ g.pc = "unqueue" \/ (g.pc = "release" /\ g.then = "unqueue")
  <2> HIDE DEF h
  <2> QED BY <1>1, <1>2, <1>3
<1> HIDE DEF g
<1>5. Serving(g)
  BY <1>4, UnaskedServing DEF Unasked
<1> QED BY <1>5 DEF g

\* The step of a handler that changes nothing but its frame.
LEMMA ServingOn ==
  ASSUME NEW w \in Workers, \A v \in Workers : v = w, TypeInv, TypeInv', RowConsistent',
         QueueStarted', StaysUnpulled,
         NEW g, Goto(w, g), UNCHANGED <<row, employed, presence, queue>>, Serving(g)
  PROVE  ServiceInv'
<1>1. work'[w] = g
  BY DEF Goto, TypeInv, TypeOK
<1>2. Serving(work[w])'
  BY <1>1, ServingNext
<1>3. ASSUME NEW v \in Workers PROVE Serving(work[v])'
  BY <1>2
<1> QED BY <1>3 DEF ServiceInv

LEMMA ServiceBegins ==
  ASSUME ServiceInv, NEW w \in Workers, \A v \in Workers : v = w, TypeInv', RowConsistent', QueueStarted', StaysUnpulled,
         \/ \E c \in Conversations : BeginStart(w, c) \/ BeginAgentClose(w, c)
         \/ BeginSweep(w, "idle") \/ BeginDeskSweep(w)
         \/ \E a \in Agents : BeginGoOffline(w, a)
  PROVE  ServiceInv'
<1>1. TypeInv /\ TypeOK /\ Serving(work[w]) /\ QueueStarted
  BY DEF ServiceInv, TypeInv
<1>2. ASSUME work[w] = Idle PROVE Filled
  BY <1>1, <1>2, IdleFields DEF Serving
<1>3. ASSUME NEW c \in Conversations, BeginStart(w, c) PROVE ServiceInv'
  <2> DEFINE g == [Entered("start", "choose") EXCEPT !.copy = NewCopy(c)]
  <2>1. /\ work[w] = Idle /\ Goto(w, g) /\ row' = [row EXCEPT ![c].state = "WAITING"]
        /\ UNCHANGED <<employed, presence, queue>>
    BY <1>3 DEF BeginStart, Begin
  <2>2. /\ g.pc = "choose" /\ g.task = "start" /\ g.copy.conv = c /\ g.barred = {}
        /\ work'[w] = g
    BY <1>1, <2>1 DEF Entered, NewCopy, Goto, TypeOK
  <2> HIDE DEF g
  <2>3. row'[c].state = "WAITING"
    BY <1>1, <2>1 DEF TypeOK, Row
  <2>4. Filled'
    <3>1. CandidateAgents' = CandidateAgents
      BY <2>1 DEF CandidateAgents, HasCapacity
    <3> QED BY <1>2, <2>1, <3>1 DEF Filled, StaysUnpulled
  <2>7. c \notin Waiting'
    BY <1>1, <1>3, <2>1 DEF QueueStarted, BeginStart, Waiting
  <2>5. Serving(work[w])'
    BY <2>2, <2>3, <2>4, <2>7 DEF Serving
  <2>6. ASSUME NEW v \in Workers PROVE Serving(work[v])'
    BY <2>5
  <2> QED BY <2>6 DEF ServiceInv
<1>4. ASSUME NEW c \in Conversations, BeginAgentClose(w, c) PROVE ServiceInv'
  <2> DEFINE f == Entered("close", "each")
             g == Ending(f, CopyOf(c), "ENDED_BY_AGENT")
  <2>1. Goto(w, g) /\ UNCHANGED <<row, employed, presence, queue>>
    BY <1>4 DEF BeginAgentClose, Begin
  <2>2. f \in Frame /\ f.task = "close" /\ f.barred = {}
    BY EnteredOK DEF Entered, Tasks
  <2> HIDE DEF f
  <2>3. Serving(g)
    BY <2>2, EndingServing
  <2> HIDE DEF g
  <2> QED BY <1>1, <2>1, <2>3, ServingOn
<1>5. ASSUME NEW g, work[w] = Idle, Goto(w, g), UNCHANGED <<row, employed, presence, queue>>,
             g.task \in {"idle", "desk"}, g.pc \in {"each", "desk", "offline"}, g.barred = {}
      PROVE  ServiceInv'
  <2>1. Serving(g)
    BY <1>2, <1>5 DEF Serving
  <2> QED BY <1>1, <1>5, <2>1, ServingOn
<1>6. CASE BeginSweep(w, "idle")
  <2> DEFINE R == {CopyOf(c) : c \in {d \in Conversations : row[d].state = "ACTIVE"}}
             g == [Entered("idle", "each") EXCEPT !.rest = R]
  <2>1. /\ work[w] = Idle /\ Goto(w, g) /\ UNCHANGED <<row, employed, presence, queue>>
    BY <1>6 DEF BeginSweep, Begin
  <2>2. g.task = "idle" /\ g.pc = "each" /\ g.barred = {}
    BY DEF Entered
  <2> HIDE DEF g
  <2> QED BY <1>5, <2>1, <2>2
<1>7. CASE BeginDeskSweep(w)
  <2> DEFINE g == Entered("desk", "desk")
  <2>1. /\ work[w] = Idle /\ Goto(w, g) /\ UNCHANGED <<row, employed, presence, queue>>
        /\ g.task = "desk" /\ g.pc = "desk" /\ g.barred = {}
    BY <1>7 DEF BeginDeskSweep, Begin, Entered
  <2> HIDE DEF g
  <2> QED BY <1>5, <2>1
<1>8. ASSUME NEW a \in Agents, BeginGoOffline(w, a) PROVE ServiceInv'
  <2> DEFINE g == [Entered("desk", "offline") EXCEPT !.agent = a]
  <2>1. /\ work[w] = Idle /\ Goto(w, g) /\ UNCHANGED <<row, employed, presence, queue>>
        /\ g.task = "desk" /\ g.pc = "offline" /\ g.barred = {}
    BY <1>8 DEF BeginGoOffline, Begin, Entered
  <2> HIDE DEF g
  <2> QED BY <1>5, <2>1
<1> QED BY <1>3, <1>4, <1>6, <1>7, <1>8

\* What Pulled records: only the end of connect_next_waiting settles it.
LEMMA UnpulledKept ==
  ASSUME NEW w \in Workers, \A v \in Workers : v = w, Pulled,
         work[w].pc # "look" \/ work'[w] = work[w]
  PROVE  StaysUnpulled
<1>1. ~PullEnds
  BY DEF PullEnds, At
<1> QED BY <1>1 DEF Pulled, StaysUnpulled

\* A handler's steps that change the queue, the rows or the presence, and the end of
\* connect_next_waiting.
LEMMA ServiceChanges ==
  ASSUME ServiceInv, NEW w \in Workers, \A v \in Workers : v = w, TypeInv', RowConsistent', QueueStarted', Pulled,
         \/ GoOffline(w) \/ Drain(w) \/ ClaimWrite(w) \/ Attach(w) \/ JoinQueue(w)
         \/ ReleaseWrite(w) \/ EndLeavesQueue(w) \/ EndSaves(w) \/ RequeueSaves(w)
         \/ RequeueJoins(w) \/ LeaveAndLookAgain(w) \/ Look(w)
  PROVE  ServiceInv'
<1> DEFINE f == work[w]
<1>1. /\ TypeInv /\ TypeOK /\ RowConsistent /\ Serving(f) /\ f \in Frame /\ Coherent(f)
  BY DEF ServiceInv, TypeInv, TypeOK, WorkCoherent
<1>2. \A g : Goto(w, g) => work'[w] = g
  BY <1>1 DEF Goto, TypeOK
<1> SUFFICES Serving(work[w])'
  <2>1. ASSUME Serving(work[w])', NEW v \in Workers PROVE Serving(work[v])'
    BY <2>1
  <2> QED BY <2>1 DEF ServiceInv
<1>3. CASE GoOffline(w)
  <2> DEFINE g == IF f.task = "desk" THEN Entered("desk", "desk") ELSE [f EXCEPT !.pc = "gather"]
  <2>1. /\ f.pc = "offline" /\ Goto(w, g) /\ UNCHANGED <<row, employed, queue>>
        /\ presence' = [presence EXCEPT ![f.agent] = Offline]
    BY <1>3 DEF GoOffline, At
  <2>2. /\ g.task = f.task /\ g.pc \in {"desk", "gather"} /\ g.barred = {} /\ work'[w] = g
    BY <1>1, <1>2, <2>1 DEF Entered, Frame, Serving
  <2>3. CandidateAgents' \subseteq CandidateAgents
    <3>1. \A a \in Agents : presence'[a].online => presence'[a] = presence[a]
      BY <1>1, <2>1 DEF TypeOK, Offline
    <3> QED BY <1>1, <2>1, <3>1 DEF CandidateAgents, HasCapacity, TypeOK
  <2> HIDE DEF f, g
  <2>4. Filled' /\ f.task \in {"close", "idle", "desk"}
    <3>1. StaysUnpulled
      BY <2>1, UnpulledKept DEF f
    <3> QED BY <1>1, <2>1, <2>3, <3>1 DEF Filled, Serving, StaysUnpulled
  <2> QED BY <2>2, <2>4 DEF Serving
<1>4. CASE Drain(w)
  <2> DEFINE h == [f EXCEPT !.rest = {NewCopy(c) : c \in Waiting}]
             g == Finished(h)
  <2>1. f.pc = "drain" /\ Goto(w, g) /\ queue' = <<>> /\ f.task \in {"close", "idle", "desk"}
    BY <1>1, <1>4 DEF Drain, At, Serving
  <2>2. h \in Frame /\ h.task = f.task
    <3>1. Waiting \subseteq Conversations
      BY <1>1, WaitingOK DEF TypeOK
    <3> QED BY <1>1, <3>1, NewCopyOK DEF Frame
  <2>3. /\ g.pc \in {"idle", "each"} /\ g.barred = {}
        /\ g.task = "start" => g.pc = "idle"
        /\ g.task \in {"start", "close", "idle", "desk"}
    <3> HIDE DEF h
    <3> QED BY <2>1, <2>2 DEF Finished, Idle, Entered
  <2> HIDE DEF g
  <2>4. Filled' /\ work'[w] = g
    BY <1>2, <2>1 DEF Filled
  <2> QED BY <2>3, <2>4 DEF Serving
<1>5. CASE ClaimWrite(w)
  <2> DEFINE g == [f EXCEPT !.pc = "attach", !.seen = 0]
  <2>1. f.pc = "take" /\ work'[w] = g /\ UNCHANGED <<row, employed, queue>>
    BY <1>2, <1>5 DEF ClaimWrite, At
  <2>2. /\ g.pc = "attach" /\ g.task = f.task /\ g.copy = f.copy /\ g.barred = f.barred
    BY <1>1 DEF Frame
  <2>3. StaysUnpulled
    BY <2>1, UnpulledKept
  <2>4. queue = <<>> \/ unpulled => queue' = <<>> \/ unpulled'
    BY <2>1, <2>3 DEF StaysUnpulled
  <2>5. Waiting' = Waiting
    BY <2>1 DEF Waiting
  <2> HIDE DEF f, g
  <2> QED BY <1>1, <2>1, <2>2, <2>4, <2>5 DEF Serving
<1>6. CASE Attach(w)
  <2> DEFINE c == f.copy.conv
             g == IF f.task = "start" THEN Idle ELSE [f EXCEPT !.pc = "serve", !.agent = Nobody]
  <2>1. /\ f.pc = "attach" /\ c \in Conversations /\ row[c].state = "WAITING"
        /\ UNCHANGED <<employed, presence, queue>>
    BY <1>1, <1>6 DEF Attach, At, Serving, Coherent, OnConversation, Copy
  <2>2. Goto(w, g)
    BY <1>1, <1>6, <2>1 DEF Attach, RowConsistent
  <2>3. /\ work'[w] = g
        /\ f.task = "start" => g.pc = "idle" /\ g.task = "start" /\ g.barred = {}
        /\ f.task # "start" => g.pc = "serve" /\ g.task = f.task /\ g.barred = f.barred
    BY <1>1, <1>2, <2>2 DEF Frame, Idle, Entered
  <2>5. StaysUnpulled
    BY <2>1, UnpulledKept
  <2> HIDE DEF f, g, c
  <2>4. f.task = "start" => Filled'
    BY <1>1, <2>1, <2>5 DEF Serving, Filled, StaysUnpulled
  <2> QED BY <1>1, <2>3, <2>4 DEF Serving
<1>7. CASE JoinQueue(w)
  <2>1. f.pc = "join" /\ work'[w] = Idle /\ UNCHANGED <<row, employed, presence>>
    BY <1>2, <1>7 DEF JoinQueue, At
  <2>2. CandidateAgents' = {}
    BY <1>1, <2>1 DEF Serving, CandidateAgents, HasCapacity
  <2>3. Filled'
    BY <2>2 DEF Filled
  <2>4. Idle.pc = "idle" /\ Idle.task = "start" /\ Idle.barred = {}
    BY DEF Idle, Entered
  <2> QED BY <2>1, <2>3, <2>4 DEF Serving
<1>8. CASE ReleaseWrite(w)
  <2> DEFINE g == Resumed(f)
  <2>1. f.pc = "give" /\ work'[w] = g
    BY <1>2, <1>8 DEF ReleaseWrite, At
  <2>2. f.then = "unqueue" /\ f.task \in {"close", "idle", "desk"} /\ f.barred = {}
    BY <1>1, <2>1 DEF Serving
  <2>3. g.pc = "unqueue" /\ g.task = f.task /\ g.barred = {}
    BY <1>1, <2>2 DEF Resumed, Frame
  <2> HIDE DEF g
  <2> QED BY <2>1, <2>2, <2>3, UnaskedNext DEF Unasked
<1>9. ASSUME NEW label \in Unasked, work'[w] = [f EXCEPT !.pc = label],
             f.pc \in Unasked
      PROVE  Serving(work[w])'
  <2> DEFINE g == [f EXCEPT !.pc = label]
  <2>1. g.pc = label /\ g.task = f.task /\ g.barred = f.barred
    BY <1>1 DEF Frame
  <2>2. f.task \in {"close", "idle", "desk"} /\ f.barred = {}
    BY <1>1, <1>9 DEF Serving, Unasked
  <2> HIDE DEF g
  <2>3. work'[w] = g
    BY <1>9 DEF g
  <2> QED BY <2>1, <2>2, <2>3, UnaskedNext
<1>10. CASE EndLeavesQueue(w) \/ EndSaves(w) \/ RequeueSaves(w) \/ RequeueJoins(w)
  <2>0. f.pc \notin {"save_waiting", "rejoin"}
    BY <1>1 DEF Serving
  <2>1. f.pc \in Unasked /\ \E label \in Unasked : work'[w] = [f EXCEPT !.pc = label]
    BY <1>2, <1>10, <2>0 DEF EndLeavesQueue, EndSaves, RequeueSaves, RequeueJoins, At, Unasked
  <2> QED BY <1>9, <2>1
<1>11. CASE LeaveAndLookAgain(w)
  <2> DEFINE g == [f EXCEPT !.pc = "look", !.free = {}]
  <2>1. f.pc \in {"drop", "serve"} /\ work'[w] = g
    BY <1>2, <1>11 DEF LeaveAndLookAgain, At
  <2>2. g.pc = "look" /\ g.task = f.task /\ g.barred = f.barred
    BY <1>1 DEF Frame
  <2>3. f.task \in {"close", "idle", "desk"} /\ f.barred = {}
    BY <1>1, <2>1 DEF Serving
  <2> HIDE DEF g
  <2> QED BY <2>1, <2>2, <2>3, UnaskedNext DEF Unasked
<1>12. CASE Look(w)
  <2> DEFINE free == CandidateAgents \ f.barred
             g == [f EXCEPT !.pc = "load", !.free = free, !.copy = NewCopy(Head(queue))]
  <2>1. /\ f.pc = "look" /\ free = CandidateAgents
        /\ f.task \in {"close", "idle", "desk"} /\ f.barred = {}
        /\ Goto(w, IF free = {} \/ queue = <<>> THEN Finished(f) ELSE g)
        /\ UNCHANGED <<row, employed, presence, queue>>
    BY <1>1, <1>12 DEF Look, At, Serving
  <2>2. CandidateAgents' = CandidateAgents
    BY <2>1 DEF CandidateAgents, HasCapacity
  <2>3. CASE free = {} \/ queue = <<>>
    <3> DEFINE d == Finished(f)
    <3>1. work'[w] = d
      BY <1>2, <2>1, <2>3
    <3>2. /\ d.pc \in {"idle", "each"} /\ d.barred = {}
          /\ d.task = "start" => d.pc = "idle"
          /\ d.task \in {"start", "close", "idle", "desk"}
      BY <1>1, <2>1 DEF Finished, Idle, Entered
    <3> HIDE DEF d
    <3>3. Filled'
      BY <2>1, <2>2, <2>3 DEF Filled
    <3> QED BY <3>1, <3>2, <3>3 DEF Serving
  <2>4. CASE free # {} /\ queue # <<>>
    <3>1. /\ g.pc = "load" /\ g.task = f.task /\ g.barred = f.barred
          /\ g.free = CandidateAgents /\ g.copy.conv = Head(queue)
      BY <1>1, <2>1 DEF Frame, NewCopy
    <3>2. work'[w] = g /\ CandidateAgents # {}
      BY <1>2, <2>1, <2>4
    <3> HIDE DEF f, g
    <3> QED BY <2>1, <2>2, <2>4, <3>1, <3>2 DEF Serving
  <2> QED BY <2>3, <2>4
<1> QED BY <1>3, <1>4, <1>5, <1>6, <1>7, <1>8, <1>10, <1>11, <1>12

\* Its other steps.
LEMMA ServiceKeeps ==
  ASSUME ServiceInv, NEW w \in Workers, \A v \in Workers : v = w, TypeInv', RowConsistent', QueueStarted', StaysUnpulled,
         \/ GatherHeld(w) \/ CloseDeskIfEmpty(w)
         \/ \E copy \in work[w].rest : NextOfLoop(w, copy)
         \/ ChooseAgents(w) \/ ClaimRead(w) \/ ReleaseRead(w) \/ LoadWaiting(w)
  PROVE  ServiceInv'
<1> DEFINE f == work[w]
<1>1. /\ TypeInv /\ TypeOK /\ RowConsistent /\ Serving(f) /\ f \in Frame /\ Coherent(f)
  BY DEF ServiceInv, TypeInv, TypeOK, WorkCoherent
<1>2. UNCHANGED <<row, employed, presence, queue>>
  BY DEF GatherHeld, CloseDeskIfEmpty, NextOfLoop, ChooseAgents, ClaimRead, ReleaseRead,
     LoadWaiting
<1> SUFFICES \E g : Goto(w, g) /\ Serving(g)
  BY <1>1, <1>2, ServingOn
<1>3. CASE GatherHeld(w)
  <2> DEFINE h == [f EXCEPT !.rest = {CopyOf(c) : c \in Held(f.agent)}]
  <2>1. f.pc = "gather" /\ Goto(w, Finished(h))
    BY <1>3 DEF GatherHeld, At
  <2>2. h \in Frame /\ h.task = f.task
    <3>1. \A c \in Held(f.agent) : CopyOf(c) \in Copy
      BY <1>1, CopyOfOK DEF Held, TypeOK
    <3> QED BY <1>1, <3>1 DEF Frame
  <2> HIDE DEF h
  <2>3. h.task \in {"close", "idle", "desk"} /\ Filled
    BY <1>1, <2>1, <2>2 DEF Serving
  <2> QED BY <2>1, <2>2, <2>3, FinishedServing
<1>4. CASE CloseDeskIfEmpty(w)
  <2> DEFINE g == [f EXCEPT !.pc = "drain"]
  <2>1. f.pc = "desk" /\ (Goto(w, Idle) \/ Goto(w, g))
    BY <1>4 DEF CloseDeskIfEmpty, At
  <2>2. g.pc = "drain" /\ g.task = f.task /\ g.barred = f.barred
    BY <1>1 DEF Frame
  <2> HIDE DEF g
  <2>3. Serving(g) /\ Serving(Idle)
    BY <1>1, <2>1, <2>2, IdleServing DEF Serving
  <2> QED BY <2>1, <2>3
<1>5. ASSUME NEW copy \in f.rest, NextOfLoop(w, copy) PROVE \E g : Goto(w, g) /\ Serving(g)
  <2> DEFINE h == [f EXCEPT !.rest = @ \ {copy}]
  <2>1. f.pc = "each" /\ f.task \in {"close", "idle", "desk"} /\ f.barred = {} /\ Filled
    BY <1>1, <1>5 DEF NextOfLoop, At, Serving
  <2>2. h \in Frame /\ h.task = f.task /\ h.barred = f.barred
    BY <1>1 DEF Frame
  <2>3. \/ Goto(w, Finished(h))
        \/ \E d, why : Goto(w, Ending(h, d, why))
    BY <1>5, <2>1, <2>2 DEF NextOfLoop
  <2> HIDE DEF h
  <2>4. Serving(Finished(h))
    BY <2>1, <2>2, FinishedServing
  <2>5. \A d, why : Serving(Ending(h, d, why))
    BY <2>1, <2>2, EndingServing
  <2> QED BY <2>3, <2>4, <2>5
<1>6. CASE ChooseAgents(w)
  <2> DEFINE g == [f EXCEPT !.pc = "claim", !.free = CandidateAgents]
  <2>1. f.pc = "choose" /\ Goto(w, g)
    BY <1>6 DEF ChooseAgents, At
  <2>2. CandidateAgents \subseteq Agents
    BY <1>1 DEF CandidateAgents, TypeOK
  <2>3. /\ g.pc = "claim" /\ g.task = f.task /\ g.barred = f.barred
        /\ g.free = CandidateAgents /\ g.copy = f.copy
    BY <1>1 DEF Frame
  <2> HIDE DEF g
  <2>4. Serving(g)
    BY <1>1, <2>1, <2>3 DEF Serving
  <2> QED BY <2>1, <2>4
<1>7. CASE ClaimRead(w)
  <2>1. f.pc = "claim" /\ f.free \subseteq CandidateAgents
    BY <1>1, <1>7 DEF ClaimRead, At, Serving
  <2>2. \A a \in f.free : HasCapacity(a)
    BY <2>1 DEF CandidateAgents
  <2>3. CASE f.free = {}
    <3> DEFINE g == [f EXCEPT !.pc = "join"]
    <3>1. f.task = "start" /\ CandidateAgents = {}
      BY <1>1, <2>1, <2>3 DEF Serving
    <3>2. Goto(w, g)
      BY <1>7, <2>3, <3>1 DEF ClaimRead, NobodyFree
    <3>3. g.pc = "join" /\ g.task = "start" /\ g.barred = f.barred /\ g.copy = f.copy
      BY <1>1, <3>1 DEF Frame
    <3> HIDE DEF g
    <3>4. Serving(g)
      BY <1>1, <2>1, <3>1, <3>3 DEF Serving
    <3> QED BY <3>2, <3>4
  <2>4. CASE f.free # {}
    <3>1. PICK a \in f.free :
            Goto(w, [f EXCEPT !.pc = "take", !.agent = a, !.seen = presence[a].active])
      BY <1>7, <2>2, <2>4 DEF ClaimRead
    <3> DEFINE g == [f EXCEPT !.pc = "take", !.agent = a, !.seen = presence[a].active]
    <3>2. g.pc = "take" /\ g.task = f.task /\ g.barred = f.barred /\ g.copy = f.copy
      BY <1>1 DEF Frame
    <3> HIDE DEF g
    <3>3. Serving(g)
      BY <1>1, <2>1, <2>4, <3>2 DEF Serving, Filled
    <3> QED BY <3>1, <3>3 DEF g
  <2> QED BY <2>3, <2>4
<1>8. CASE ReleaseRead(w)
  <2> DEFINE g == IF presence[f.agent].online
                  THEN [f EXCEPT !.pc = "give", !.seen = presence[f.agent].active]
                  ELSE Resumed(f)
  <2>1. f.pc = "release" /\ Goto(w, g)
    BY <1>8 DEF ReleaseRead, At
  <2>2. f.then = "unqueue" /\ f.task \in {"close", "idle", "desk"} /\ f.barred = {}
    BY <1>1, <2>1 DEF Serving
  <2>3. /\ g.task = f.task /\ g.barred = {}
        /\ g.pc = "unqueue" \/ (g.pc = "give" /\ g.then = f.then)
    BY <1>1, <2>2 DEF Resumed, Frame
  <2> HIDE DEF g
  <2>4. Serving(g)
    BY <2>2, <2>3, UnaskedServing DEF Unasked
  <2> QED BY <2>1, <2>4
<1>10. CASE LoadWaiting(w)
  <2> DEFINE g == [f EXCEPT !.pc = IF row[f.copy.conv].state = "WAITING" THEN "claim" ELSE "drop"]
  <2>1. f.pc = "load" /\ Goto(w, g)
    BY <1>10 DEF LoadWaiting, At
  <2>2. /\ g.task = f.task /\ g.barred = f.barred /\ g.copy = f.copy /\ g.free = f.free
        /\ g.pc = "drop" \/ (g.pc = "claim" /\ row[f.copy.conv].state = "WAITING")
    BY <1>1 DEF Frame
  <2> HIDE DEF g
  <2>3. Serving(g)
    BY <1>1, <2>1, <2>2 DEF Serving
  <2> QED BY <2>1, <2>3
<1> QED BY <1>3, <1>4, <1>5, <1>6, <1>7, <1>8, <1>10

\* Shifts start and presence lapses between handlers.
LEMMA ServicePresence ==
  ASSUME ServiceInv, NEW w \in Workers, \A v \in Workers : v = w, TypeInv', RowConsistent', QueueStarted',
         Pulled, Quiet,
         ShiftStarts \/ \E a \in Agents : PresenceExpires(a)
  PROVE  ServiceInv'
<1>1. /\ TypeOK /\ work[w] = Idle /\ Serving(Idle)
  BY DEF ServiceInv, TypeInv, Quiet
<1>2. Filled
  BY <1>1, IdleFields DEF Serving
<1>3. work' = work /\ queue' = queue /\ employed' = employed
  BY DEF ShiftStarts, GoOnline, PresenceExpires
<1>8. ~PullEnds
  BY <1>3 DEF PullEnds
<1>4. Filled'
  <2>1. CASE ShiftStarts
    <3>1. ComesOnline
      <4>1. PICK a \in Agents : ~presence[a].online /\ GoOnline(a)
        BY <2>1 DEF ShiftStarts
      <4>2. presence'[a].online
        BY <1>1, <4>1 DEF GoOnline, TypeOK
      <4> QED BY <4>1, <4>2 DEF ComesOnline
    <3> QED BY <1>8, <3>1 DEF Pulled, Filled
  <2>2. CASE \E a \in Agents : PresenceExpires(a)
    <3>1. PICK a \in Agents : presence' = [presence EXCEPT ![a] = Offline]
      BY <2>2 DEF PresenceExpires
    <3>2. \A b \in Agents : presence'[b].online => presence'[b] = presence[b]
      BY <1>1, <3>1 DEF TypeOK, Offline
    <3>3. CandidateAgents' \subseteq CandidateAgents
      BY <1>1, <1>3, <3>2 DEF CandidateAgents, HasCapacity, TypeOK
    <3> QED BY <1>2, <1>3, <1>8, <3>3 DEF Filled, Pulled
  <2> QED BY <2>1, <2>2
<1>5. Idle.pc = "idle" /\ Idle.task = "start" /\ Idle.barred = {}
  BY DEF Idle, Entered
<1>6. Serving(work[w])'
  BY <1>1, <1>3, <1>4, <1>5 DEF Serving
<1>7. ASSUME NEW v \in Workers PROVE Serving(work[v])'
  BY <1>6
<1> QED BY <1>7 DEF ServiceInv

LEMMA ServiceIsDesk == ServiceNext => Next
BY DEF ServiceNext, ShiftStarts, Next, BeginStaff

\* Handlers that join the queue have started the conversation they join with.
LEMMA QueueStartedNext ==
  ASSUME ServiceInv, [ServiceNext]_vars
  PROVE  QueueStarted'
<1>1. TypeInv /\ TypeOK /\ QueueStarted /\ [Next]_vars
  BY ServiceIsDesk DEF ServiceInv, TypeInv
<1>2. ASSUME NEW c \in Conversations, row[c].state # "NONE" PROVE row'[c].state # "NONE"
  <2>1. RowStep
    BY <1>1, NextRowStep
  <2> QED BY <1>1, <1>2, <2>1 DEF RowStep, Started, Attached, Closed, PutBack, TypeOK, Row
<1>3. Waiting \subseteq Conversations /\ QueuedOnce
  BY <1>1, WaitingOK DEF TypeOK, QueueStarted
<1>4. CASE UNCHANGED queue
  BY <1>1, <1>2, <1>3, <1>4 DEF QueueStarted, QueuedOnce, Waiting
<1>5. CASE queue' = <<>>
  <2>1. QueuedOnce' /\ Waiting' = {}
    BY <1>5 DEF QueuedOnce, Waiting
  <2> QED BY <2>1 DEF QueueStarted
<1>6. ASSUME NEW c, queue' = Left(c) PROVE QueueStarted'
  <2>1. QueuedOnce' /\ Waiting' = Waiting \ {c}
    BY <1>1, <1>3, <1>6, LeftWaiting DEF TypeOK
  <2> QED BY <1>1, <1>2, <1>3, <2>1 DEF QueueStarted
<1>7. ASSUME NEW c \in Conversations, queue' = Joined(c), row[c].state # "NONE"
      PROVE  QueueStarted'
  <2>1. QueuedOnce' /\ Waiting' = Waiting \cup {c}
    BY <1>1, <1>3, <1>7, JoinedWaiting DEF TypeOK
  <2> QED BY <1>1, <1>2, <1>3, <1>7, <2>1 DEF QueueStarted
<1>8. ASSUME NEW w \in Workers, JoinQueue(w) \/ RequeueJoins(w) PROVE QueueStarted'
  <2> DEFINE c == work[w].copy.conv
  <2>1. work[w].pc = "join"
    BY <1>8 DEF ServiceInv, Serving, JoinQueue, RequeueJoins, At
  <2>2. c \in Conversations /\ row[c].state = "WAITING"
    BY <1>1, <2>1 DEF ServiceInv, Serving, TypeInv, WorkCoherent, Coherent, OnConversation, Copy
  <2>3. queue' = Joined(c)
    BY <1>8 DEF JoinQueue, RequeueJoins
  <2> HIDE DEF c
  <2> QED BY <1>7, <2>2, <2>3
<1>9. ASSUME NEW w \in Workers, EndLeavesQueue(w) \/ LeaveAndLookAgain(w) \/ Drain(w)
      PROVE  QueueStarted'
  BY <1>5, <1>6, <1>9 DEF EndLeavesQueue, LeaveAndLookAgain, Drain
<1>10. CASE \/ UNCHANGED vars \/ ShiftStarts \/ \E a \in Agents : PresenceExpires(a)
  BY <1>4, <1>10 DEF vars, ShiftStarts, GoOnline, PresenceExpires
<1>11. ASSUME NEW w \in Workers,
              \/ \E c \in Conversations : BeginStart(w, c) \/ BeginAgentClose(w, c)
              \/ BeginSweep(w, "idle") \/ BeginDeskSweep(w)
              \/ \E a \in Agents : BeginGoOffline(w, a)
       PROVE  QueueStarted'
  BY <1>4, <1>11 DEF BeginStart, BeginAgentClose, BeginSweep, BeginDeskSweep, BeginGoOffline
<1>12. ASSUME NEW w \in Workers, Handle(w) PROVE QueueStarted'
  <2>1. CASE \/ GoOffline(w) \/ GatherHeld(w) \/ CloseDeskIfEmpty(w)
             \/ \E copy \in work[w].rest : NextOfLoop(w, copy)
    BY <1>4, <2>1 DEF GoOffline, GatherHeld, CloseDeskIfEmpty, NextOfLoop
  <2>2. CASE \/ ChooseAgents(w) \/ ClaimRead(w) \/ ClaimWrite(w) \/ Attach(w)
             \/ ReleaseRead(w) \/ ReleaseWrite(w)
    BY <1>4, <2>2 DEF ChooseAgents, ClaimRead, ClaimWrite, Attach, ReleaseRead, ReleaseWrite
  <2>3. CASE EndSaves(w) \/ RequeueSaves(w) \/ Look(w) \/ LoadWaiting(w)
    BY <1>4, <2>3 DEF EndSaves, RequeueSaves, Look, LoadWaiting
  <2> QED BY <1>8, <1>9, <1>12, <2>1, <2>2, <2>3 DEF Handle
<1> QED BY <1>10, <1>11, <1>12 DEF ServiceNext

LEMMA ServiceStep ==
  ASSUME NEW u, Workers = {u}, ServiceInv, [ServiceNext /\ Pulled]_deskVars
  PROVE  ServiceInv'
<1>1. TypeInv' /\ RowConsistent' /\ QueueStarted'
  <2>1. [ServiceNext]_vars /\ [Next]_vars
    BY ServiceIsDesk DEF deskVars
  <2> QED BY <2>1, NextTypeInv, NextRowConsistent, QueueStartedNext DEF ServiceInv
<1>2. u \in Workers /\ \A v \in Workers : v = u
  OBVIOUS
<1>3. CASE UNCHANGED deskVars
  <2>1. UNCHANGED <<row, employed, presence, queue, work, unpulled>>
    BY <1>3 DEF deskVars, vars, history
  <2>2. StaysUnpulled
    BY <2>1 DEF StaysUnpulled
  <2>3. ASSUME NEW w \in Workers PROVE Serving(work[w])'
    BY <2>1, <2>2, ServingNext DEF ServiceInv
  <2> QED BY <1>1, <2>3 DEF ServiceInv
<1> SUFFICES ASSUME ServiceNext, Pulled PROVE ServiceInv'
  BY <1>3
<1>4. CASE \/ Quiet /\ ShiftStarts
           \/ Quiet /\ \E a \in Agents : PresenceExpires(a)
  BY <1>1, <1>2, <1>4, ServicePresence
<1>5. ASSUME NEW w \in Workers,
             \/ \E c \in Conversations : BeginStart(w, c) \/ BeginAgentClose(w, c)
             \/ BeginSweep(w, "idle") \/ BeginDeskSweep(w)
             \/ \E a \in Agents : BeginGoOffline(w, a)
      PROVE  ServiceInv'
  <2>1. work[w].pc # "look"
    BY <1>5, IdleFields DEF BeginStart, BeginAgentClose, BeginSweep, BeginDeskSweep,
       BeginGoOffline, Begin
  <2>2. StaysUnpulled
    BY <1>2, <2>1, UnpulledKept
  <2> QED BY <1>1, <1>2, <1>5, <2>2, ServiceBegins
<1>6. ASSUME NEW w \in Workers, Handle(w) PROVE ServiceInv'
  <2>0. \A v \in Workers : v = w
    BY <1>2
  <2>1. CASE \/ GatherHeld(w) \/ CloseDeskIfEmpty(w)
             \/ \E copy \in work[w].rest : NextOfLoop(w, copy)
             \/ ChooseAgents(w) \/ ClaimRead(w) \/ ReleaseRead(w) \/ LoadWaiting(w)
    <3>1. work[w].pc # "look"
      BY <2>1 DEF GatherHeld, CloseDeskIfEmpty, NextOfLoop, ChooseAgents, ClaimRead, ReleaseRead,
         LoadWaiting, At
    <3>2. StaysUnpulled
      BY <2>0, <3>1, UnpulledKept
    <3> QED BY <1>1, <2>0, <2>1, <3>2, ServiceKeeps
  <2>2. CASE \/ GoOffline(w) \/ Drain(w) \/ ClaimWrite(w) \/ Attach(w) \/ JoinQueue(w)
             \/ ReleaseWrite(w) \/ EndLeavesQueue(w) \/ EndSaves(w) \/ RequeueSaves(w)
             \/ RequeueJoins(w) \/ LeaveAndLookAgain(w) \/ Look(w)
    BY <1>1, <2>0, <2>2, ServiceChanges
  <2> QED BY <1>6, <2>1, <2>2 DEF Handle
<1> QED BY <1>4, <1>5, <1>6 DEF ServiceNext

LEMMA ServiceInit == DeskInit => ServiceInv
<1> SUFFICES ASSUME DeskInit PROVE ServiceInv
  OBVIOUS
<1>1. Init
  BY DEF DeskInit
<1>2. queue = <<>>
  BY <1>1 DEF Init
<1>3. Filled /\ QueueStarted
  BY <1>2, NobodyWaiting DEF Filled, QueueStarted
<1> QED BY <1>1, <1>3, InitTypeInv, InitRowConsistent, IdleServing DEF ServiceInv, Init

\* On a day of service nobody who queues is attached to an agent before whoever has waited
\* longest; and a new visitor is attached ahead of them all only where an agent came online
\* beside the queue and no handler has offered it since, which go_online does not do.
THEOREM LongestWaitingAreServedFirst ==
  ASSUME NEW u, Workers = {u}
  PROVE  FairServiceSpec => LongestWaitingFirst
<1>1. ASSUME ServiceInv, [ServiceNext /\ Pulled]_deskVars, NEW c \in Conversations,
             row[c].state = "WAITING", row'[c].state = "ACTIVE", NEW d \in Waiting \ {c}
      PROVE  IF c \in Waiting THEN queue[1] = c ELSE unpulled
  <2>1. [Next]_vars /\ TypeInv /\ TypeOK
    BY <1>1, ServiceIsDesk DEF ServiceInv, TypeInv, deskVars
  <2>2. row' # row
    BY <1>1
  <2>3. ASSUME NEW w \in Workers, NEW e \in Conversations, BeginStart(w, e) PROVE FALSE
    <3>1. row' = [row EXCEPT ![e].state = "WAITING"]
      BY <2>3 DEF BeginStart
    <3> QED BY <1>1, <2>1, <3>1 DEF TypeOK, Row
  <2>4. ASSUME NEW w \in Workers, EndSaves(w) \/ RequeueSaves(w) PROVE FALSE
    <3> DEFINE e == work[w].copy.conv
    <3>1. \/ row' = [row EXCEPT ![e].state = "ENDED", ![e].reason = work[w].reason]
          \/ row' = [row EXCEPT ![e].state = "WAITING", ![e].agent = Nobody]
      BY <2>4 DEF EndSaves, RequeueSaves
    <3> HIDE DEF e
    <3>2. row'[c] = row[c] \/ row'[c].state \in {"ENDED", "WAITING"}
      BY <2>1, <3>1 DEF TypeOK, Row
    <3> QED BY <1>1, <3>2
  <2>5. ASSUME NEW w \in Workers, Attach(w)
        PROVE  IF c \in Waiting THEN queue[1] = c ELSE unpulled
    <3> DEFINE f == work[w]
               e == f.copy.conv
    <3>1. f.pc = "attach" /\ Serving(f)
      BY <1>1, <2>5 DEF Attach, At, ServiceInv
    <3>2. e = c
      <4>1. row' = [row EXCEPT ![e].state = "ACTIVE", ![e].agent = f.agent]
        BY <2>2, <2>5 DEF Attach
      <4> HIDE DEF e
      <4> QED BY <1>1, <2>1, <4>1 DEF TypeOK, Row
    <3>3. queue # <<>>
      BY <1>1 DEF Waiting
    <3>4. CASE f.task = "start"
      BY <3>1, <3>2, <3>3, <3>4 DEF Serving
    <3>5. CASE f.task # "start"
      <4>1. Head(queue) = c
        BY <3>1, <3>2, <3>5 DEF Serving
      <4>2. c \in Waiting
        BY <2>1, <3>3, <4>1, SomebodyWaiting DEF TypeOK
      <4>3. Head(queue) = queue[1]
        BY <2>1, <3>3 DEF TypeOK
      <4> QED BY <4>1, <4>2, <4>3
    <3> QED BY <3>4, <3>5
  <2> QED BY <2>1, <2>2, <2>3, <2>4, <2>5, RowKept
<1>2. ServiceInv /\ [ServiceNext /\ Pulled]_deskVars =>
        [\A c \in Conversations :
           row[c].state = "WAITING" /\ row'[c].state = "ACTIVE" =>
             \A d \in Waiting \ {c} :
               row[d].state = "WAITING" =>
                 IF c \in Waiting THEN queue[1] = c ELSE unpulled]_deskVars
  BY <1>1
<1>3. ServiceInv /\ [ServiceNext /\ Pulled]_deskVars => ServiceInv'
  BY ServiceStep
<1> QED BY <1>2, <1>3, ServiceInit, PTL DEF FairServiceSpec, LongestWaitingFirst
=============================================================================
