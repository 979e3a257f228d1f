------------------------------- MODULE Whispers -------------------------------
(***************************************************************************)
(* A supervisor's private notes on one conversation, and the agent they    *)
(* are for.                                                                *)
(*                                                                         *)
(* A note is stored, broadcast to whoever has joined the conversation's    *)
(* staff group, and, if the addressee has no socket by the key in Redis,   *)
(* held for them to be replayed when one opens.  Joining the group, the    *)
(* key and the replay are separate steps of a socket's opening, and the    *)
(* broadcast and the look at the key separate steps of the note's: either  *)
(* may fall between the other's.                                           *)
(*                                                                         *)
(* A socket joins the group only as it opens.  AgentConsumer has a handler *)
(* that would let an open one join, of a chat.assigned event, but nothing  *)
(* in the code sends that event.                                           *)
(*                                                                         *)
(* Left out: the wording, the transcript (Transcript), the public group,   *)
(* and the order of replayed notes.                                        *)
(***************************************************************************)
EXTENDS Naturals, FiniteSets

CONSTANTS Agents,
          Sockets,   \* sockets, of whichever agents, that may be open at once
          Notes,     \* identities for the notes that are written
          Nobody

\* What the constants are, which the module that gives them values assumes.
WhispersAssumption == Nobody \notin Agents

VARIABLES assigned,  \* the conversation's assigned_to, Nobody while it waits
          observer,  \* assigned_to as the supervisor's socket read it
          socket,    \* the agents' sockets
          key,       \* chat:socket:<agent>, and how it got that way
          note

vars == <<assigned, observer, socket, key, note>>
-----------------------------------------------------------------------------
\* `joined`: a member of the staff group.  `replay`: notes read and not yet sent.
Socket == [pc: {"off", "join", "mark", "drain", "delete", "send", "open", "leave"},
           agent: Agents \cup {Nobody}, held: BOOLEAN, joined: BOOLEAN,
           replay: SUBSET Notes]

NoSocket == [pc |-> "off", agent |-> Nobody, held |-> FALSE, joined |-> FALSE,
             replay |-> {}]

\* "set" and "orphan" are a key that is there.  The rest is history: an orphan's sockets have
\* died; and a key that is "gone" ran out, or another socket's closing took it, from an agent
\* who is connected.
Key == {"none", "set", "orphan", "gone"}

\* `heard`: a socket of the addressee's got the broadcast; `replayed`: how often one got it
\* late, 2 being any more than one.  The rest is history.  `steady`: the addressee's sockets
\* stood still while the note was on its way, and no two of them took it up.  `late`: what
\* sockets the addressee had were opened when the conversation was not theirs.  `judged`: the
\* key when it was looked at, for a note still steady.
Note == [pc: {"none", "broadcast", "over"}, to: Agents \cup {Nobody}, heard: BOOLEAN,
         held: BOOLEAN, replayed: 0..2, lapsed: BOOLEAN, steady: BOOLEAN, late: BOOLEAN,
         judged: Key]

NoNote == [pc |-> "none", to |-> Nobody, heard |-> FALSE, held |-> FALSE, replayed |-> 0,
           lapsed |-> FALSE, steady |-> FALSE, late |-> FALSE, judged |-> "none"]

Of(a) == {s \in Sockets : socket[s].agent = a}

Listening(a) == \E s \in Of(a) : socket[s].joined

HasKey(a) == key[a] \in {"set", "orphan"}

\* The socket has set its agent's key, and has not begun to close.
Marked(s) == socket[s].pc \in {"drain", "delete", "send", "open"}

LastMarked(s) == \A r \in Of(socket[s].agent) \ {s} : ~Marked(r)

Init ==
  /\ assigned \in Agents \cup {Nobody}
  /\ observer \in {assigned, Nobody}
  /\ socket = [s \in Sockets |-> NoSocket]
  /\ key = [a \in Agents |-> "none"]
  /\ note = [n \in Notes |-> NoNote]
-----------------------------------------------------------------------------
(* The agents' sockets                                                     *)

Step(s, f) == socket' = [socket EXCEPT ![s] = f]

\* What happens to agent a's connection shakes the notes on their way to them.
Shaken(a) == [n \in Notes |->
  IF note[n].pc = "broadcast" /\ note[n].to = a THEN [note[n] EXCEPT !.steady = FALSE]
                                                ELSE note[n]]

\* The agent's conversations are read.
Connect(s, a) ==
  /\ socket[s].pc = "off"
  /\ Step(s, [NoSocket EXCEPT !.pc = "join", !.agent = a, !.held = (assigned = a)])
  /\ note' = Shaken(a)
  /\ UNCHANGED <<assigned, observer, key>>

Join(s) ==
  /\ socket[s].pc = "join"
  /\ Step(s, [socket[s] EXCEPT !.pc = "mark", !.joined = socket[s].held])
  /\ note' = Shaken(socket[s].agent)
  /\ UNCHANGED <<assigned, observer, key>>

\* socket_opened.  An agent who held nothing has nothing to drain.
MarkOpen(s) ==
  /\ socket[s].pc = "mark"
  /\ key' = [key EXCEPT ![socket[s].agent] = "set"]
  /\ Step(s, [socket[s] EXCEPT !.pc = IF socket[s].held THEN "drain" ELSE "open"])
  /\ note' = Shaken(socket[s].agent)
  /\ UNCHANGED <<assigned, observer>>

HeldFor(a) == {n \in Notes : note[n].held /\ note[n].to = a}

\* drain reads what is held ...
DrainRead(s) ==
  LET a == socket[s].agent
      shared == \E r \in Of(a) \ {s} : socket[r].pc = "delete" IN
  /\ socket[s].pc = "drain"
  /\ Step(s, [socket[s] EXCEPT !.pc = IF HeldFor(a) = {} THEN "open" ELSE "delete",
                               !.replay = HeldFor(a)])
  /\ note' = [n \in Notes |->
       IF shared /\ n \in HeldFor(a) THEN [note[n] EXCEPT !.steady = FALSE]
                                     ELSE Shaken(a)[n]]
  /\ UNCHANGED <<assigned, observer, key>>

\* Mutant: what is held is left for the grace period to take.
DrainLeave(s) ==
  /\ socket[s].pc = "delete"
  /\ Step(s, [socket[s] EXCEPT !.pc = "send"])
  /\ UNCHANGED <<assigned, observer, key, note>>

\* ... and deletes the key, with whatever is in it by now.
DrainDelete(s) ==
  LET a == socket[s].agent IN
  /\ socket[s].pc = "delete"
  /\ Step(s, [socket[s] EXCEPT !.pc = "send"])
  /\ note' = [n \in Notes |-> IF n \in HeldFor(a) THEN [note[n] EXCEPT !.held = FALSE]
                                                  ELSE Shaken(a)[n]]
  /\ UNCHANGED <<assigned, observer, key>>

Replay(s) ==
  /\ socket[s].pc = "send"
  /\ note' = [n \in Notes |->
       IF n \in socket[s].replay
       THEN [note[n] EXCEPT !.replayed = IF @ = 2 THEN 2 ELSE @ + 1]
       ELSE Shaken(socket[s].agent)[n]]
  /\ Step(s, [socket[s] EXCEPT !.pc = "open", !.replay = {}])
  /\ UNCHANGED <<assigned, observer, key>>

\* disconnect: the key goes, whoever else of the agent's is connected, ...
Disconnect(s) ==
  /\ socket[s].pc = "open"
  /\ key' = [key EXCEPT ![socket[s].agent] = IF LastMarked(s) THEN "none" ELSE "gone"]
  /\ Step(s, [socket[s] EXCEPT !.pc = "leave"])
  /\ note' = Shaken(socket[s].agent)
  /\ UNCHANGED <<assigned, observer>>

\* ... and then the groups.
Leave(s) ==
  /\ socket[s].pc = "leave"
  /\ Step(s, NoSocket)
  /\ note' = Shaken(socket[s].agent)
  /\ UNCHANGED <<assigned, observer, key>>

\* The process dies: nobody reads what its sockets are sent, and the key stays.
SocketDies(s) ==
  /\ socket[s].pc # "off"
  /\ Step(s, NoSocket)
  /\ note' = [n \in Notes |->
       IF socket[s].pc = "send" /\ n \in socket[s].replay
       THEN [note[n] EXCEPT !.steady = FALSE] ELSE Shaken(socket[s].agent)[n]]
  /\ key' = [key EXCEPT ![socket[s].agent] =
       CASE LastMarked(s) /\ @ = "set" -> "orphan"
         [] LastMarked(s) /\ @ = "gone" -> "none"
         [] OTHER -> @]
  /\ UNCHANGED <<assigned, observer>>

\* The key's time is up, which nothing but another socket's opening extends.
KeyLapses(a) ==
  /\ HasKey(a)
  /\ key' = [key EXCEPT ![a] = IF @ = "set" THEN "gone" ELSE "none"]
  /\ UNCHANGED <<assigned, observer, socket, note>>
-----------------------------------------------------------------------------
(* The conversation                                                        *)

Assign(a) ==
  /\ assigned = Nobody
  /\ assigned' = a
  /\ UNCHANGED <<observer, socket, key, note>>

\* What is held for some agent is taken away.
Forgotten(a) == [n \in Notes |-> IF n \in HeldFor(a)
                                 THEN [note[n] EXCEPT !.held = FALSE, !.lapsed = TRUE]
                                 ELSE note[n]]

\* What is held for the agent it is taken from is forgotten; their socket is not told.
Requeue ==
  /\ assigned # Nobody
  /\ assigned' = Nobody
  /\ note' = Forgotten(assigned)
  /\ UNCHANGED <<observer, socket, key>>
-----------------------------------------------------------------------------
(* Notes                                                                   *)

Observe ==
  /\ observer' = assigned
  /\ UNCHANGED <<assigned, socket, key, note>>

\* None of the agent's sockets is opening or closing.
Settled(a) == \A s \in Of(a) : socket[s].pc = "open"

\* The note is stored and broadcast; its addressee is the one the supervisor's copy names.
Whisper(n) ==
  LET a == observer IN
  /\ note[n] = NoNote
  /\ note' = [note EXCEPT ![n] =
       [NoNote EXCEPT !.pc = "broadcast", !.to = a, !.heard = a # Nobody /\ Listening(a),
                      !.late = Settled(a) /\ \A s \in Of(a) : ~socket[s].held,
                      !.steady = a # Nobody /\ Settled(a)]]
  /\ UNCHANGED <<assigned, observer, socket, key>>

\* _hold_if_the_agent_is_not_listening
HoldUnlessListening(n) ==
  LET a == note[n].to IN
  /\ note[n].pc = "broadcast"
  /\ note' = [note EXCEPT ![n].pc = "over", ![n].held = a # Nobody /\ ~HasKey(a),
                          ![n].judged = IF note[n].steady THEN key[a] ELSE @]
  /\ UNCHANGED <<assigned, observer, socket, key>>

\* The grace period takes what was held for an agent, all of it.
HeldLapse(a) ==
  /\ HeldFor(a) # {}
  /\ note' = Forgotten(a)
  /\ UNCHANGED <<assigned, observer, socket, key>>
-----------------------------------------------------------------------------
Next ==
  \/ \E s \in Sockets :
       \/ \E a \in Agents : Connect(s, a)
       \/ Join(s) \/ MarkOpen(s) \/ DrainRead(s) \/ DrainDelete(s) \/ Replay(s)
       \/ Disconnect(s) \/ Leave(s) \/ SocketDies(s)
  \/ \E a \in Agents : KeyLapses(a) \/ Assign(a) \/ HeldLapse(a)
  \/ Requeue \/ Observe
  \/ \E n \in Notes : Whisper(n) \/ HoldUnlessListening(n)

Spec == Init /\ [][Next]_vars
-----------------------------------------------------------------------------
(* Properties.                                                             *)

TypeOK ==
  /\ assigned \in Agents \cup {Nobody}
  /\ observer \in Agents \cup {Nobody}
  /\ socket \in [Sockets -> Socket]
  /\ key \in [Agents -> Key]
  /\ note \in [Notes -> Note]

OnItsWay(n) == \E s \in Sockets : socket[s].pc \in {"delete", "send"} /\ n \in socket[s].replay

\* The key vouched for a connection that did not get the broadcast.
MissedByKey(n) == note[n].judged = "orphan" \/ (note[n].judged = "set" /\ note[n].late)

One(b) == IF b THEN 1 ELSE 0

\* A note whose addressee's sockets stood still while it was on its way is shown to them once,
\* or was held until it lapsed.  It is repeated, and once at most, only to an agent whose key
\* had gone while they were connected; and it is lost only if a process died and left the key,
\* or if the agent was connected before the conversation was theirs, and never joined
\* (drain, socket_opened, _hold_if_the_agent_is_not_listening, AgentConsumer.connect).
ASteadyNoteArrivesOnce ==
  \A n \in Notes :
    LET times == One(note[n].heard) + note[n].replayed + One(note[n].held \/ OnItsWay(n)) IN
    note[n].pc = "over" /\ note[n].steady =>
      \/ times = 1
      \/ times = 0 /\ (note[n].lapsed \/ MissedByKey(n))
      \/ times = 2 /\ note[n].heard /\ note[n].judged = "gone"
=============================================================================
