----------------------------- MODULE MCChatDesk -----------------------------
(***************************************************************************)
(* Instances of ChatDesk for TLC.  Each specification below keeps some of  *)
(* the actions of ChatDesk's Next and says which it leaves aside, so that  *)
(* a run asks one question and is small enough to be answered.             *)
(*                                                                         *)
(* Three history variables record what the stores do not show.  No guard   *)
(* reads them: they let a property name the cases in which the code does   *)
(* not keep its word instead of leaving those cases aside.                 *)
(***************************************************************************)
EXTENDS ChatDesk, TLC

CONSTANTS Callers,  \* the conversations whose visitor has a socket
          c1, c2, c3, a1, a2, w1, w2

ASSUME CallersAssumption == Callers \subseteq Conversations

VARIABLES lost,     \* slots each agent has lost since coming online
          gone,     \* conversations whose visitor has left the queue
          unpulled  \* an agent came online beside the queue, and nothing has pulled it since

history == <<lost, gone, unpulled>>
deskVars == <<vars, history>>

Symmetry ==
  Permutations(Callers) \cup Permutations(Conversations \ Callers)
    \cup Permutations(Agents) \cup Permutations(Workers)

DeskInit ==
  /\ Init
  /\ lost = [a \in Agents |-> 0]
  /\ gone = {}
  /\ unpulled = FALSE

\* An ending on a copy that names nobody has given back no slot, though `a` is attached.
Forfeits(a) ==
  \E w \in Workers :
    /\ At(w, "save_ended")
    /\ work'[w] # work[w]
    /\ work[w].copy.agent = Nobody
    /\ row[work[w].copy.conv].agent = a

\* Going offline deletes the hash and the lost slots with it.
Counted ==
  /\ lost' = [a \in Agents |-> IF ~presence'[a].online THEN 0
                               ELSE IF Forfeits(a) THEN lost[a] + 1 ELSE lost[a]]
  /\ gone' = IF work' = work THEN gone \cup (Waiting \ Waiting') ELSE gone
  /\ UNCHANGED unpulled

ComesOnline == \E a \in Agents : ~presence[a].online /\ presence'[a].online

\* connect_next_waiting has come to its end: nobody free, or nobody waiting.
PullEnds == \E w \in Workers : At(w, "look") /\ work'[w] # work[w] /\ work'[w].pc # "load"

Pulled ==
  /\ unpulled' = (queue' # <<>> /\ ~PullEnds /\ (unpulled \/ ComesOnline))
  /\ UNCHANGED <<lost, gone>>

Unrecorded == UNCHANGED history

\* An agent who holds nothing comes online: the console's normal start of a shift.
ShiftStarts == \E a \in Agents : ~presence[a].online /\ Held(a) = {} /\ GoOnline(a)

\* An agent comes online in whatever state they left.
AgentReturns == \E a \in Agents : ~presence[a].online /\ GoOnline(a)

VisitorActs ==
  \/ \E c \in Callers : VisitorConnects(c)
  \/ \E w \in Workers : BeginVisitor(w)
-----------------------------------------------------------------------------
(* Handlers that race.  Left aside: presence that lapses, agents who leave or *)
(* are dismissed, and the idle sweep, which ends rows as an agent does.       *)

RaceNext ==
  \/ ShiftStarts
  \/ VisitorActs
  \/ \E c \in Conversations : LeaveQueue(c)
  \/ \E w \in Workers :
       \/ \E c \in Conversations : BeginStart(w, c) \/ BeginAgentClose(w, c)
       \/ BeginSweep(w, "interrupted") \/ BeginDeskSweep(w)
       \/ Handle(w) \/ AttachFails(w) \/ Dies(w)

RaceSpec == DeskInit /\ [][RaceNext /\ Unrecorded]_deskVars
-----------------------------------------------------------------------------
(* Every handler, one after the other: the staff's, the schedule's and the    *)
(* visitor's.  Left aside, because the stores do not survive them:            *)
(*   - a handler killed between two calls;                                    *)
(*   - presence that lapses, and an agent who returns holding something;      *)
(*   - an attach rolled back in views.start, whose request then fails before  *)
(*     it queued the visitor, or in a dismissal, whose loop then stops;       *)
(*   - a visitor's close on a copy of a conversation that has ended since, or *)
(*     that names an agent it has been taken from since.                      *)
(* A close on a copy read while the conversation waited is not left aside: it *)
(* loses the agent's slot, and `lost` counts it.                              *)

\* The visitor closes a conversation that is open still, on a copy that names its agent
\* or was read before there was one.
VisitorCloses(w, c) ==
  /\ Open(c)
  /\ socket[c] # Nobody
  /\ socket[c].agent \in {Nobody, row[c].agent}
  /\ BeginVisitorClose(w, c)

AloneNext ==
  \/ ShiftStarts
  \/ Quiet /\ \E c \in Callers : VisitorConnects(c)
  \/ Quiet /\ \E c \in Conversations : LeaveQueue(c)
  \/ \E w \in Workers :
       \/ BeginStaff(w)
       \/ \E c \in Conversations : VisitorCloses(w, c)
       \/ Handle(w)
       \/ work[w].task \notin {"start", "dismissal"} /\ AttachFails(w)

AloneSpec == DeskInit /\ [][AloneNext /\ Counted]_deskVars

\* The same with visitors who close whatever their copy says.
SocketSpec == DeskInit /\ [][(AloneNext \/ VisitorActs) /\ Unrecorded]_deskVars
-----------------------------------------------------------------------------
(* A day of service, one handler after the other.  Agents who hold nothing    *)
(* come online and presence lapses, both between handlers.  Left aside: the   *)
(* visitor's socket and leaving the queue, handovers and dismissals (whoever  *)
(* is requeued is barred from one agent and may be overtaken), failed         *)
(* attaches and killed handlers.                                              *)

ServiceNext ==
  \/ Quiet /\ ShiftStarts
  \/ Quiet /\ \E a \in Agents : PresenceExpires(a)
  \/ \E w \in Workers :
       \/ \E c \in Conversations : BeginStart(w, c) \/ BeginAgentClose(w, c)
       \/ BeginSweep(w, "idle") \/ BeginDeskSweep(w)
       \/ \E a \in Agents : BeginGoOffline(w, a)
       \/ Handle(w)

FairServiceSpec == DeskInit /\ [][ServiceNext /\ Pulled]_deskVars /\ Fairness

\* Agents may also return holding what they held.
ReturnNext == ServiceNext \/ AgentReturns
ReturnSpec == DeskInit /\ [][ReturnNext /\ Unrecorded]_deskVars
FairReturnSpec == ReturnSpec /\ Fairness

\* A visitor leaves the queue.
FairLeaveSpec ==
  /\ DeskInit
  /\ [][(ServiceNext \/ \E c \in Conversations : LeaveQueue(c)) /\ Unrecorded]_deskVars
  /\ Fairness
-----------------------------------------------------------------------------
(* Properties that name their exceptions.                                  *)

\* With no handler running, an online agent's `active` is what they hold, and the slots
\* that visitors' closes have lost them: assignment.release looks at the copy, and a
\* socket opened while its conversation waited names nobody.
SlotsMatchHeld ==
  Quiet => \A a \in Agents :
    presence[a].online => presence[a].active = Cardinality(Held(a)) + lost[a]

\* With no handler running, the queue holds exactly the conversations that wait, but for
\* those whose visitor has left it: nobody is silently dropped, and no token is left for
\* two agents to arrive at.
QueueIsTheWaiting ==
  Quiet => Waiting = {c \in Conversations : row[c].state = "WAITING"} \ gone

\* FR-017: of those who queue the longest waiting is attached first; and nobody who has
\* just arrived is attached ahead of them, unless an agent came online beside the queue
\* and connect_next_waiting has not run since.
LongestWaitingFirst ==
  [][\A c \in Conversations :
       row[c].state = "WAITING" /\ row'[c].state = "ACTIVE" =>
         \A d \in Waiting \ {c} :
           row[d].state = "WAITING" =>
             IF c \in Waiting THEN queue[1] = c ELSE unpulled]_deskVars

\* Whoever is in the queue is attached to an agent or their conversation ends, unless an
\* agent came online beside them and nothing ever pulls the queue again.
QueuedIsServed ==
  \A c \in Conversations :
    c \in Waiting ~> (row[c].state \in {"ACTIVE", "ENDED"} \/ []unpulled)
=============================================================================
