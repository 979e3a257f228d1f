------------------------------ MODULE ChatDesk ------------------------------
(***************************************************************************)
(* One chat desk: the conversations, agents and waiting queue of one       *)
(* department and branch.                                                  *)
(*                                                                         *)
(* The desk's state is in two stores that no transaction spans.  Postgres  *)
(* holds the conversation rows and the accounts; Redis holds each agent's  *)
(* presence hash (capacity, active) and the queue.  The code runs in many  *)
(* processes (web requests, sockets, Celery tasks): a worker here is one   *)
(* thread of such a process running one handler, and every action of a     *)
(* worker is one call to one of the two stores.  Between two calls any     *)
(* other worker may run.  What a handler read earlier it carries in its    *)
(* frame, and may use when it is no longer true.                           *)
(*                                                                         *)
(* One call stands for two where the second names only what the first      *)
(* returned: queue.join looks for the token and adds it, queue.drain lists *)
(* the queue and removes the tokens it listed (who joins in between stays, *)
(* as one who joins after).                                                *)
(*                                                                         *)
(* Left out: the liveness keys (a sweep decides freely who is gone), the   *)
(* text of messages, unread counts and held notes.                         *)
(***************************************************************************)
EXTENDS ConversationRow, Sequences

CONSTANT Workers  \* threads that run handlers

VARIABLES employed,  \* accounts with is_active
          presence,  \* chat:presence:<agent>
          queue,     \* chat:queue:<department>:<branch>, longest waiting first
          socket,    \* each visitor socket's own copy of its conversation
          work       \* the frame of each worker

vars == <<row, employed, presence, queue, socket, work>>

Lifecycle == INSTANCE ConversationLifecycle
-----------------------------------------------------------------------------
(* Presence: no key, not online.  A key written by claim_slot or           *)
(* release_slot after the hash was deleted has no capacity field, and      *)
(* reads as capacity zero.                                                 *)

Offline == [online |-> FALSE, room |-> 0, active |-> 0]

Presence == [online: BOOLEAN, room: {0, Capacity}, active: 0..Capacity]

\* Mutant: one conversation too many.
HasCapacityOffByOne(a) == presence[a].online /\ presence[a].active <= presence[a].room

HasCapacity(a) == presence[a].online /\ presence[a].active < presence[a].room

\* hset of the active field alone
SetActive(a, n) ==
  presence' = [presence EXCEPT ![a] = [online |-> TRUE, room |-> @.room, active |-> n]]

CandidateAgents == {a \in employed : HasCapacity(a)}

AnyoneOnline == \E a \in employed : presence[a].online
-----------------------------------------------------------------------------
(* The queue: a sorted set scored by the time of joining.                  *)

Waiting == {queue[i] : i \in 1..Len(queue)}

Left(c) ==
  IF c \in Waiting
  THEN LET i == CHOOSE k \in 1..Len(queue) : queue[k] = c
       IN  SubSeq(queue, 1, i - 1) \o SubSeq(queue, i + 1, Len(queue))
  ELSE queue

Joined(c) == IF c \in Waiting THEN queue ELSE Append(queue, c)
-----------------------------------------------------------------------------
(* Frames.  `copy` is the handler's in-memory Conversation, `rest` the     *)
(* copies its loop still has to visit, `free` the candidates not yet       *)
(* tried, `barred` the agents the conversation was just taken from,        *)
(* `agent` the agent of the slot in hand, `seen` the active count that a   *)
(* slot operation has read, `then` where release_slot returns to.          *)

Copy == [conv: Conversations, state: States, agent: Agents \cup {Nobody}]

CopyOf(c) == [conv |-> c, state |-> row[c].state, agent |-> row[c].agent]

\* A conversation known to wait, or known by its queue token alone.
NewCopy(c) == [conv |-> c, state |-> "WAITING", agent |-> Nobody]

Tasks == {"start", "close", "visitor", "interrupted", "idle", "desk", "dismissal"}

OnConversation == {"choose",                            \* views.start
                   "claim", "take", "attach", "join",   \* assign, try_assign
                   "release", "give",                   \* release_slot
                   "unqueue", "save_ended",             \* end
                   "save_waiting", "rejoin",            \* requeue
                   "load", "drop", "serve"}             \* connect_next_waiting

Labels == OnConversation \cup
  {"look", "offline", "gather", "desk", "drain", "each", "idle"}

Returns == {"unqueue", "save_waiting", "lost", "abort"}

Frame == [pc: Labels, task: Tasks, copy: Copy \cup {Nobody}, reason: EndReasons,
          rest: SUBSET Copy, free: SUBSET Agents, barred: SUBSET Agents,
          agent: Agents \cup {Nobody}, seen: 0..Capacity, then: Returns]

Goto(w, f) == work' = [work EXCEPT ![w] = f]

\* A frame with nothing read and nothing in hand.
Entered(task, label) ==
  [pc |-> label, task |-> task, copy |-> Nobody, reason |-> "ENDED_BY_AGENT",
   rest |-> {}, free |-> {}, barred |-> {}, agent |-> Nobody, seen |-> 0,
   then |-> "abort"]

Idle == Entered("start", "idle")

\* The handler is done with this conversation: on to the next one of its loop.
Finished(f) ==
  IF f.rest = {} THEN Idle ELSE [Entered(f.task, "each") EXCEPT !.rest = f.rest]

\* assignment.release: free the slot of the agent the copy names, if any.
Releasing(f, next) ==
  IF f.copy.agent = Nobody
  THEN [f EXCEPT !.pc = next]
  ELSE [f EXCEPT !.pc = "release", !.agent = f.copy.agent, !.then = next]

\* lifecycle.end, past its guard on the copy's state
Ending(f, copy, why) ==
  Releasing([f EXCEPT !.copy = copy, !.reason = why], "unqueue")

\* lifecycle.requeue
Requeueing(f, copy) ==
  Releasing([f EXCEPT !.copy = copy, !.barred = {copy.agent} \ {Nobody}], "save_waiting")

\* assign returned None.
NobodyFree(f) == IF f.task = "start" THEN [f EXCEPT !.pc = "join"] ELSE Finished(f)

\* Back from release_slot.
Resumed(f) ==
  LET g == [f EXCEPT !.agent = Nobody, !.seen = 0, !.then = "abort"]
  IN  CASE f.then = "lost"  -> NobodyFree(g)
        [] f.then = "abort" -> Idle
        [] OTHER            -> [g EXCEPT !.pc = f.then]
-----------------------------------------------------------------------------
Init ==
  /\ row = [c \in Conversations |-> NotStarted]
  /\ employed = Agents
  /\ presence = [a \in Agents |-> Offline]
  /\ queue = <<>>
  /\ socket = [c \in Conversations |-> Nobody]
  /\ work = [w \in Workers |-> Idle]
-----------------------------------------------------------------------------
(* Handlers that are one call.                                             *)

\* The console's "online" frame.  `active` restarts at zero whatever is held.
GoOnline(a) ==
  /\ presence' = [presence EXCEPT
                    ![a] = [online |-> TRUE, room |-> Capacity, active |-> 0]]
  /\ UNCHANGED <<row, employed, queue, socket, work>>

\* The presence key's TTL elapses: no heartbeat came.
PresenceExpires(a) ==
  /\ presence[a].online
  /\ presence' = [presence EXCEPT ![a] = Offline]
  /\ UNCHANGED <<row, employed, queue, socket, work>>

\* The visitor's browser leaves the queue; the row is not touched.
LeaveQueue(c) ==
  /\ c \in Waiting
  /\ queue' = Left(c)
  /\ UNCHANGED <<row, employed, presence, socket, work>>

\* A socket answers its frames one at a time.
SocketBusy(c) ==
  \E w \in Workers : work[w].task = "visitor" /\ work[w].copy.conv = c

\* The visitor's socket opens, and keeps what it read for as long as it lives.
VisitorConnects(c) ==
  /\ Open(c)
  /\ ~SocketBusy(c)
  /\ socket' = [socket EXCEPT ![c] = CopyOf(c)]
  /\ UNCHANGED <<row, employed, presence, queue, work>>
-----------------------------------------------------------------------------
(* Where a handler begins.                                                 *)

Begin(w, f) == work[w] = Idle /\ Goto(w, f)

\* views.start: refused when nobody is online; otherwise the row is created.
BeginStart(w, c) ==
  /\ AnyoneOnline
  /\ row[c].state = "NONE"
  /\ row' = [row EXCEPT ![c].state = "WAITING"]
  /\ Begin(w, [Entered("start", "choose") EXCEPT !.copy = NewCopy(c)])
  /\ UNCHANGED <<employed, presence, queue, socket>>

\* A member of staff ends a conversation they can see, loading it first.
BeginAgentClose(w, c) ==
  /\ Open(c)
  /\ Begin(w, Ending(Entered("close", "each"), CopyOf(c), "ENDED_BY_AGENT"))
  /\ UNCHANGED <<row, employed, presence, queue, socket>>

\* The visitor ends it, through the copy the socket was opened with.
BeginVisitorClose(w, c) ==
  /\ socket[c] # Nobody
  /\ socket[c].state # "ENDED"
  /\ ~SocketBusy(c)
  /\ Begin(w, Ending(Entered("visitor", "each"), socket[c], "ENDED_BY_VISITOR"))
  /\ UNCHANGED <<row, employed, presence, queue, socket>>

\* The two sweeps of active conversations: one query, then a loop over its rows.
BeginSweep(w, task) ==
  LET active == {c \in Conversations : row[c].state = "ACTIVE"}
  IN  /\ active # {}
      /\ Begin(w, [Entered(task, "each") EXCEPT !.rest = {CopyOf(c) : c \in active}])
      /\ UNCHANGED <<row, employed, presence, queue, socket>>

\* close_deserted_desks passes over a desk with nobody waiting.
BeginDeskSweep(w) ==
  /\ queue # <<>>
  /\ Begin(w, Entered("desk", "desk"))
  /\ UNCHANGED <<row, employed, presence, queue, socket>>

\* The console's "offline" frame: refused while anything is held.
BeginGoOffline(w, a) ==
  /\ Held(a) = {}
  /\ Begin(w, [Entered("desk", "offline") EXCEPT !.agent = a])
  /\ UNCHANGED <<row, employed, presence, queue, socket>>

\* An administrator deactivates the account.
BeginDeactivate(w, a) ==
  /\ a \in employed
  /\ employed' = employed \ {a}
  /\ Begin(w, [Entered("dismissal", "offline") EXCEPT !.agent = a])
  /\ UNCHANGED <<row, presence, queue, socket>>
-----------------------------------------------------------------------------
(* The steps of a handler.  At(w, label) holds when that call is next.     *)

At(w, label) == work[w].pc = label

\* go_offline deletes the presence key, on request or on dismissal.
GoOffline(w) ==
  LET f == work[w]
  IN  /\ At(w, "offline")
      /\ presence' = [presence EXCEPT ![f.agent] = Offline]
      /\ Goto(w, IF f.task = "desk"
                 THEN Entered("desk", "desk")
                 ELSE [f EXCEPT !.pc = "gather"])
      /\ UNCHANGED <<row, employed, queue, socket>>

\* Mutant: only one of the held conversations is handed on.
GatherOneHeld(w) ==
  LET f == work[w]
  IN  /\ At(w, "gather")
      /\ IF Held(f.agent) = {} THEN Goto(w, Idle)
         ELSE \E c \in Held(f.agent) : Goto(w, Finished([f EXCEPT !.rest = {CopyOf(c)}]))
      /\ UNCHANGED <<row, employed, presence, queue, socket>>

\* agent_deactivated queries what the dismissed agent holds.
GatherHeld(w) ==
  LET f == work[w]
  IN  /\ At(w, "gather")
      /\ Goto(w, Finished([f EXCEPT !.rest = {CopyOf(c) : c \in Held(f.agent)}]))
      /\ UNCHANGED <<row, employed, presence, queue, socket>>

\* desk_closed_if_empty: nothing to do while anybody is online.
CloseDeskIfEmpty(w) ==
  /\ At(w, "desk")
  /\ Goto(w, IF AnyoneOnline THEN Idle ELSE [work[w] EXCEPT !.pc = "drain"])
  /\ UNCHANGED <<row, employed, presence, queue, socket>>

\* Mutant: the queue is emptied and nobody is told.
DrainOnly(w) ==
  /\ At(w, "drain")
  /\ queue' = <<>>
  /\ Goto(w, Idle)
  /\ UNCHANGED <<row, employed, presence, socket>>

\* Everyone waiting, removed.
Drain(w) ==
  /\ At(w, "drain")
  /\ queue' = <<>>
  /\ Goto(w, Finished([work[w] EXCEPT !.rest = {NewCopy(c) : c \in Waiting}]))
  /\ UNCHANGED <<row, employed, presence, socket>>

\* The next turn of the handler's loop.
NextOfLoop(w, copy) ==
  LET f == [work[w] EXCEPT !.rest = @ \ {copy}]
  IN  /\ At(w, "each")
      /\ copy \in work[w].rest
      /\ \/ /\ f.task = "interrupted"    \* the visitor's key has expired
            /\ Goto(w, Ending(f, copy, "VISITOR_DISCONNECTED"))
         \/ /\ f.task = "interrupted"    \* the agent's has
            /\ Goto(w, Requeueing(f, copy))
         \/ /\ f.task = "idle"           \* silent past the limit
            /\ Goto(w, Ending(f, copy, "IDLE_TIMEOUT"))
         \/ /\ f.task \in {"interrupted", "idle"}
            /\ Goto(w, Finished(f))
         \/ /\ f.task = "dismissal"
            /\ Goto(w, Requeueing(f, copy))
         \/ /\ f.task = "desk"           \* ended already, or taken: skipped
            /\ Goto(w, IF row[copy.conv].state = "WAITING"
                       THEN Ending(f, CopyOf(copy.conv), "DESK_CLOSED")
                       ELSE Finished(f))
      /\ UNCHANGED <<row, employed, presence, queue, socket>>
-----------------------------------------------------------------------------
(* assignment.assign                                                       *)

\* candidate_agents, for a conversation just started.
ChooseAgents(w) ==
  /\ At(w, "choose")
  /\ Goto(w, [work[w] EXCEPT !.pc = "claim", !.free = CandidateAgents])
  /\ UNCHANGED <<row, employed, presence, queue, socket>>

\* has_capacity and the read half of claim_slot, for one candidate.
ClaimRead(w) ==
  LET f == work[w]
  IN  /\ At(w, "claim")
      /\ \/ /\ f.free = {}
            /\ Goto(w, NobodyFree(f))
         \/ \E a \in f.free :
              Goto(w, IF HasCapacity(a)
                      THEN [f EXCEPT !.pc = "take", !.agent = a,
                                     !.seen = presence[a].active]
                      ELSE [f EXCEPT !.free = @ \ {a}])
      /\ UNCHANGED <<row, employed, presence, queue, socket>>

\* The write half.
ClaimWrite(w) ==
  LET f == work[w]
  IN  /\ At(w, "take")
      /\ SetActive(f.agent, f.seen + 1)
      /\ Goto(w, [f EXCEPT !.pc = "attach", !.seen = 0])
      /\ UNCHANGED <<row, employed, queue, socket>>

\* Mutant: the row is not read again under its lock.
AttachUnchecked(w) ==
  LET f == work[w]
  IN  /\ At(w, "attach")
      /\ row' = [row EXCEPT ![f.copy.conv].state = "ACTIVE", ![f.copy.conv].agent = f.agent]
      /\ Goto(w, IF f.task = "start" THEN Idle ELSE [f EXCEPT !.pc = "serve", !.agent = Nobody])
      /\ UNCHANGED <<employed, presence, queue, socket>>

\* The transaction that locks the row.  An assigned row gives the slot back.
Attach(w) ==
  LET f == work[w]
      c == f.copy.conv
  IN  /\ At(w, "attach")
      /\ IF row[c].agent # Nobody
         THEN /\ Goto(w, [f EXCEPT !.pc = "release", !.then = "lost"])
              /\ UNCHANGED row
         ELSE /\ row' = [row EXCEPT ![c].state = "ACTIVE", ![c].agent = f.agent]
              /\ Goto(w, IF f.task = "start" THEN Idle
                         ELSE [f EXCEPT !.pc = "serve", !.agent = Nobody])
      /\ UNCHANGED <<employed, presence, queue, socket>>

\* Mutant: the failed attach keeps the slot it claimed.
AttachFailsKeepingSlot(w) ==
  /\ At(w, "attach")
  /\ Goto(w, Idle)
  /\ UNCHANGED <<row, employed, presence, queue, socket>>

\* The transaction fails: the slot is given back and the exception ends the handler.
AttachFails(w) ==
  /\ At(w, "attach")
  /\ Goto(w, [work[w] EXCEPT !.pc = "release", !.then = "abort"])
  /\ UNCHANGED <<row, employed, presence, queue, socket>>

\* try_assign found nobody.
JoinQueue(w) ==
  /\ At(w, "join")
  /\ queue' = Joined(work[w].copy.conv)
  /\ Goto(w, Idle)
  /\ UNCHANGED <<row, employed, presence, socket>>
-----------------------------------------------------------------------------
(* presence.release_slot                                                   *)

\* Mutant: the key is written back whether or not it is there.
ReleaseReadUnchecked(w) ==
  /\ At(w, "release")
  /\ Goto(w, [work[w] EXCEPT !.pc = "give", !.seen = presence[work[w].agent].active])
  /\ UNCHANGED <<row, employed, presence, queue, socket>>

ReleaseRead(w) ==
  LET f == work[w]
  IN  /\ At(w, "release")
      /\ Goto(w, IF presence[f.agent].online
                 THEN [f EXCEPT !.pc = "give", !.seen = presence[f.agent].active]
                 ELSE Resumed(f))
      /\ UNCHANGED <<row, employed, presence, queue, socket>>

\* Mutant: no floor at zero.
ReleaseBelowZero(w) ==
  LET f == work[w]
  IN  /\ At(w, "give")
      /\ SetActive(f.agent, f.seen - 1)
      /\ Goto(w, Resumed(f))
      /\ UNCHANGED <<row, employed, queue, socket>>

ReleaseWrite(w) ==
  LET f == work[w]
  IN  /\ At(w, "give")
      /\ SetActive(f.agent, IF f.seen = 0 THEN 0 ELSE f.seen - 1)
      /\ Goto(w, Resumed(f))
      /\ UNCHANGED <<row, employed, queue, socket>>
-----------------------------------------------------------------------------
(* lifecycle.end and lifecycle.requeue, after the slot is free.            *)

EndLeavesQueue(w) ==
  /\ At(w, "unqueue")
  /\ queue' = Left(work[w].copy.conv)
  /\ Goto(w, [work[w] EXCEPT !.pc = "save_ended"])
  /\ UNCHANGED <<row, employed, presence, socket>>

\* Mutant: ending forgets who held the conversation.
EndSavesWithoutAgent(w) ==
  /\ At(w, "save_ended")
  /\ row' = [row EXCEPT ![work[w].copy.conv] =
               [state |-> "ENDED", agent |-> Nobody, reason |-> work[w].reason]]
  /\ Goto(w, [work[w] EXCEPT !.pc = "look"])
  /\ UNCHANGED <<employed, presence, queue, socket>>

\* Mutant: the freed slot is offered to nobody.
EndSavesOnly(w) ==
  LET f == work[w]
      c == f.copy.conv
  IN  /\ At(w, "save_ended")
      /\ row' = [row EXCEPT ![c].state = "ENDED", ![c].reason = f.reason]
      /\ Goto(w, Finished(f))
      /\ UNCHANGED <<employed, presence, queue, socket>>

\* Saves state and end_reason alone.  The object saved is the socket's own, if a
\* socket passed it in.
EndSaves(w) ==
  LET f == work[w]
      c == f.copy.conv
  IN  /\ At(w, "save_ended")
      /\ row' = [row EXCEPT ![c].state = "ENDED", ![c].reason = f.reason]
      /\ socket' = IF f.task = "visitor"
                   THEN [socket EXCEPT ![c] = [f.copy EXCEPT !.state = "ENDED"]]
                   ELSE socket
      /\ Goto(w, [f EXCEPT !.pc = "look"])
      /\ UNCHANGED <<employed, presence, queue>>

\* Mutant: the agent is left on the row.
RequeueSavesStateOnly(w) ==
  /\ At(w, "save_waiting")
  /\ row' = [row EXCEPT ![work[w].copy.conv].state = "WAITING"]
  /\ Goto(w, [work[w] EXCEPT !.pc = "rejoin"])
  /\ UNCHANGED <<employed, presence, queue, socket>>

RequeueSaves(w) ==
  LET c == work[w].copy.conv
  IN  /\ At(w, "save_waiting")
      /\ row' = [row EXCEPT ![c].state = "WAITING", ![c].agent = Nobody]
      /\ Goto(w, [work[w] EXCEPT !.pc = "rejoin"])
      /\ UNCHANGED <<employed, presence, queue, socket>>

RequeueJoins(w) ==
  /\ At(w, "rejoin")
  /\ queue' = Joined(work[w].copy.conv)
  /\ Goto(w, [work[w] EXCEPT !.pc = "look"])
  /\ UNCHANGED <<row, employed, presence, socket>>
-----------------------------------------------------------------------------
(* lifecycle.connect_next_waiting                                          *)

\* Mutant: the newest arrival is picked.
LookAtNewest(w) ==
  LET f == work[w]
      free == CandidateAgents \ f.barred
  IN  /\ At(w, "look")
      /\ Goto(w, IF free = {} \/ queue = <<>> THEN Finished(f)
                 ELSE [f EXCEPT !.pc = "load", !.free = free,
                                !.copy = NewCopy(queue[Len(queue)])])
      /\ UNCHANGED <<row, employed, presence, queue, socket>>

\* The candidates, and the longest-waiting visitor without removing them.
Look(w) ==
  LET f == work[w]
      free == CandidateAgents \ f.barred
  IN  /\ At(w, "look")
      /\ Goto(w, IF free = {} \/ queue = <<>> THEN Finished(f)
                 ELSE [f EXCEPT !.pc = "load", !.free = free,
                                !.copy = NewCopy(Head(queue))])
      /\ UNCHANGED <<row, employed, presence, queue, socket>>

LoadWaiting(w) ==
  /\ At(w, "load")
  /\ Goto(w, [work[w] EXCEPT !.pc =
                IF row[work[w].copy.conv].state = "WAITING" THEN "claim" ELSE "drop"])
  /\ UNCHANGED <<row, employed, presence, queue, socket>>

\* Mutant: the place is never given up.
LookAgainOnly(w) ==
  /\ At(w, "drop") \/ At(w, "serve")
  /\ Goto(w, [work[w] EXCEPT !.pc = "look", !.free = {}])
  /\ UNCHANGED <<row, employed, presence, queue, socket>>

\* queue.leave, for a token nobody waits behind ("drop") or one just attached
\* ("serve"); then round the loop again.
LeaveAndLookAgain(w) ==
  /\ At(w, "drop") \/ At(w, "serve")
  /\ queue' = Left(work[w].copy.conv)
  /\ Goto(w, [work[w] EXCEPT !.pc = "look", !.free = {}])
  /\ UNCHANGED <<row, employed, presence, socket>>
-----------------------------------------------------------------------------
Handle(w) ==
  \/ GoOffline(w) \/ GatherHeld(w) \/ CloseDeskIfEmpty(w) \/ Drain(w)
  \/ \E copy \in work[w].rest : NextOfLoop(w, copy)
  \/ ChooseAgents(w) \/ ClaimRead(w) \/ ClaimWrite(w) \/ Attach(w) \/ JoinQueue(w)
  \/ ReleaseRead(w) \/ ReleaseWrite(w)
  \/ EndLeavesQueue(w) \/ EndSaves(w) \/ RequeueSaves(w) \/ RequeueJoins(w)
  \/ Look(w) \/ LoadWaiting(w) \/ LeaveAndLookAgain(w)

\* What staff and the schedule begin; the visitor's socket is apart.
BeginStaff(w) ==
  \/ \E c \in Conversations : BeginStart(w, c) \/ BeginAgentClose(w, c)
  \/ BeginSweep(w, "interrupted") \/ BeginSweep(w, "idle") \/ BeginDeskSweep(w)
  \/ \E a \in Agents : BeginGoOffline(w, a) \/ BeginDeactivate(w, a)

BeginVisitor(w) == \E c \in Conversations : BeginVisitorClose(w, c)

\* The process running the handler is killed between two calls.
Dies(w) ==
  /\ work[w] # Idle
  /\ Goto(w, Idle)
  /\ UNCHANGED <<row, employed, presence, queue, socket>>

Next ==
  \/ \E a \in Agents : GoOnline(a) \/ PresenceExpires(a)
  \/ \E c \in Conversations : LeaveQueue(c) \/ VisitorConnects(c)
  \/ \E w \in Workers : BeginStaff(w) \/ BeginVisitor(w) \/ Handle(w)
                        \/ AttachFails(w) \/ Dies(w)

Spec == Init /\ [][Next]_vars

(* Processes that are running keep running, Celery beat keeps scheduling the *)
(* desk sweep, and staff end the conversations they hold sooner or later.    *)
Fairness ==
  /\ \A w \in Workers : WF_vars(Handle(w))
  /\ SF_vars(\E w \in Workers : BeginDeskSweep(w))
  /\ \A c \in Conversations :
       SF_vars(row[c].state = "ACTIVE" /\ \E w \in Workers : BeginAgentClose(w, c))
-----------------------------------------------------------------------------
(* Properties.                                                             *)

\* Every variable has its type; in particular `active` stays within the configured
\* capacity, since a claim writes one more than a count it read below it.
TypeOK ==
  /\ row \in [Conversations -> Row]
  /\ employed \in SUBSET Agents
  /\ presence \in [Agents -> Presence]
  /\ queue \in Seq(Conversations)
  /\ socket \in [Conversations -> Copy \cup {Nobody}]
  /\ work \in [Workers -> Frame]

Quiet == \A w \in Workers : work[w] = Idle

\* An agent who is offline comes back online by their own frame, and in no other way.
StaysOffline ==
  [][\A a \in Agents : ~presence[a].online /\ presence'[a].online => GoOnline(a)]_vars

\* With no handler running, a dismissed agent holds no live conversation.
DismissedHoldsNothing == Quiet => \A a \in Agents \ employed : Held(a) = {}

\* The staff-side desk is the lifecycle that was promised, capacity included.
ImplementsLifecycle == Lifecycle!Spec

\* A handler that has begun comes to an end: connect_next_waiting's loop is finite.
HandlersFinish == \A w \in Workers : work[w] # Idle ~> work[w] = Idle

\* FR-042: whoever waits at a desk with nobody online is moved to the form, or
\* somebody comes online.
DesertedDeskCloses ==
  \A c \in Conversations :
    c \in Waiting /\ ~AnyoneOnline ~> row[c].state = "ENDED" \/ AnyoneOnline

\* Nobody is left queued for good behind capacity that exists (connect_next_waiting).
NobodyWaitsBehindCapacity ==
  \A c \in Conversations, a \in Agents :
    ~ <>[](c \in Waiting /\ row[c].state = "WAITING" /\ a \in CandidateAgents)

\* FR-019: a conversation that waits with no place in the queue is closed.
AbandonedIsClosed ==
  \A c \in Conversations :
    row[c].state = "WAITING" /\ c \notin Waiting /\ Quiet ~> c \in Waiting \/ ~Open(c)

=============================================================================
