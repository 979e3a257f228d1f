------------------------------- MODULE Watching -------------------------------
(***************************************************************************)
(* Supervisors who watch one conversation, the record that is kept of it,  *)
(* and what the agent's screen says about it.                              *)
(*                                                                         *)
(* Opening and closing a supervisor's socket are each several steps: the   *)
(* record, the group through which the conversation is seen, and a notice  *)
(* to the agent.  A notice is not stored: it reaches the agent's screen if *)
(* their socket is a member of the group at that moment, and is gone when  *)
(* the page is loaded again, which is how an agent reconnects.             *)
(*                                                                         *)
(* Left out: who may supervise, the notes (Whispers), and the customer,    *)
(* whose group none of this touches.                                       *)
(***************************************************************************)
EXTENDS FiniteSets

CONSTANT Watchers  \* supervisors' sockets, each opened once at most

VARIABLES watcher,      \* how far each socket's opening or closing has come
          observation,  \* chat_observation, one for each socket
          line,         \* the agent's page: not connected, loaded, or in the staff group
          told,         \* the watchers the agent's screen says are there
          missed,       \* history: announced with nobody on the line, or before the page was loaded
          dead          \* history: sockets whose handler died

vars == <<watcher, observation, line, told, missed, dead>>
-----------------------------------------------------------------------------
Init ==
  /\ watcher = [w \in Watchers |-> "new"]
  /\ observation = [w \in Watchers |-> "none"]
  /\ line \in {"off", "live"}
  /\ told = {} /\ missed = {} /\ dead = {}

Step(w, from, to) == watcher[w] = from /\ watcher' = [watcher EXCEPT ![w] = to]

Record(w, value) == observation' = [observation EXCEPT ![w] = value]

\* Members of the staff group see the conversation.
Sees(w) == watcher[w] \in {"joined", "watching", "leaving"}
-----------------------------------------------------------------------------
(* The supervisor's socket                                                 *)

\* A conversation in their scope is found, and the record opened.
OpenObservation(w) ==
  /\ Step(w, "new", "opened")
  /\ Record(w, "open")
  /\ UNCHANGED <<line, told, missed, dead>>

JoinStaff(w) ==
  /\ Step(w, "opened", "joined")
  /\ UNCHANGED <<observation, line, told, missed, dead>>

AnnounceToAgent(w) ==
  /\ Step(w, "joined", "watching")
  /\ told' = IF line = "live" THEN told \cup {w} ELSE told
  /\ missed' = IF line = "live" THEN missed ELSE missed \cup {w}
  /\ UNCHANGED <<observation, line, dead>>

\* Mutant: the departure goes to the customer's group, and never to the agent.
AnnounceElsewhere(w) ==
  /\ Step(w, "watching", "leaving")
  /\ UNCHANGED <<observation, line, told, missed, dead>>

AnnounceDeparture(w) ==
  /\ Step(w, "watching", "leaving")
  /\ told' = IF line = "live" THEN told \ {w} ELSE told
  /\ UNCHANGED <<observation, line, missed, dead>>

LeaveStaff(w) ==
  /\ Step(w, "leaving", "left")
  /\ UNCHANGED <<observation, line, told, missed, dead>>

CloseObservation(w) ==
  /\ Step(w, "left", "over")
  /\ Record(w, "ended")
  /\ UNCHANGED <<line, told, missed, dead>>

\* The process dies, or a step raises: the steps after it are not made.
WatcherDies(w) ==
  /\ watcher[w] \notin {"new", "over"}
  /\ watcher' = [watcher EXCEPT ![w] = "over"]
  /\ dead' = dead \cup {w}
  /\ UNCHANGED <<observation, line, told, missed>>
-----------------------------------------------------------------------------
(* The agent's console                                                     *)

\* The page is loaded, without its socket ...
AgentLoads ==
  /\ line' = "loaded"
  /\ told' = {}
  /\ missed' = missed \cup {w \in Watchers : watcher[w] = "watching"}
  /\ UNCHANGED <<watcher, observation, dead>>

\* ... which then joins the group.
AgentJoins ==
  /\ line = "loaded"
  /\ line' = "live"
  /\ UNCHANGED <<watcher, observation, told, missed, dead>>

\* A lost connection is not made again; what the screen says stays.
AgentDrops ==
  /\ line # "off"
  /\ line' = "off"
  /\ UNCHANGED <<watcher, observation, told, missed, dead>>
-----------------------------------------------------------------------------
Next ==
  \/ \E w \in Watchers :
       \/ OpenObservation(w) \/ JoinStaff(w) \/ AnnounceToAgent(w)
       \/ AnnounceDeparture(w) \/ LeaveStaff(w) \/ CloseObservation(w)
       \/ WatcherDies(w)
  \/ AgentLoads \/ AgentJoins \/ AgentDrops

Spec == Init /\ [][Next]_vars
-----------------------------------------------------------------------------
(* Properties.                                                             *)

TypeOK ==
  /\ watcher \in [Watchers -> {"new", "opened", "joined", "watching", "leaving", "left", "over"}]
  /\ observation \in [Watchers -> {"none", "open", "ended"}]
  /\ line \in {"off", "loaded", "live"}
  /\ told \subseteq Watchers /\ missed \subseteq Watchers /\ dead \subseteq Watchers

\* Whoever sees the conversation is on record as watching it, and a record left open is of
\* a socket that died; an agent on the line knows of every watcher who came while they were
\* on it, and is not left believing in one who has gone (connect, disconnect).
WatchersAreKnown ==
  /\ \A w \in Watchers : Sees(w) => observation[w] = "open"
  /\ \A w \in Watchers : watcher[w] = "over" /\ observation[w] = "open" => w \in dead
  /\ line = "live" => \A w \in Watchers :
       /\ watcher[w] = "watching" => w \in told \cup missed
       /\ w \in told => watcher[w] = "watching" \/ w \in dead
=============================================================================
