------------------------------ MODULE Transcript ------------------------------
(***************************************************************************)
(* What was said in a conversation, and the ticket it is kept on.          *)
(*                                                                         *)
(* A message is a row of the ticket its conversation is on.  Each writer   *)
(* knows that ticket from a copy of the conversation: a customer's and a   *)
(* supervisor's socket from the one they read when they opened, an agent's *)
(* frame from one read for that frame.  Attaching moves the rows and the   *)
(* conversation to another ticket in one transaction, which locks nothing  *)
(* it only reads.                                                          *)
(*                                                                         *)
(* Left out: the wording, the notes appended to descriptions, scope, whose *)
(* tickets they are, and which messages a customer may read.               *)
(***************************************************************************)
EXTENDS Naturals, FiniteSets

CONSTANTS Conversations,
          Tickets,
          Messages,    \* identities for the messages that are written
          Sockets,     \* sockets that may be open at once
          Handlers,    \* requests and frames that may be under way at once
          Nobody

\* What the constants are, which the module that gives them values assumes.
TranscriptAssumption == Nobody \notin Tickets \cup Messages \cup Conversations

VARIABLES ticket,        \* tickets_ticket
          conversation,  \* chat_conversation
          message,       \* tickets_message
          socket,        \* the conversation each socket read when it opened
          frame          \* each handler's frame

vars == <<ticket, conversation, message, socket, frame>>
-----------------------------------------------------------------------------
\* `torn` is history: two attaches met over the conversation or over its ticket, or
\* another conversation's attach took the ticket it is on.
Conversation == [ticket: Tickets \cup {Nobody}, state: {"none", "open", "ENDED"},
                 torn: BOOLEAN]

NoConversation == [ticket |-> Nobody, state |-> "none", torn |-> FALSE]

\* `late` is history: the copy it was written from was out of date, or becoming so.
Message == [of: Conversations \cup {Nobody}, ticket: Tickets \cup {Nobody}, late: BOOLEAN]

NoMessage == [of |-> Nobody, ticket |-> Nobody, late |-> FALSE]

Copy == [conversation: Conversations \cup {Nobody}, ticket: Tickets \cup {Nobody}]

NoCopy == [conversation |-> Nobody, ticket |-> Nobody]

Read(c) == [conversation |-> c, ticket |-> conversation[c].ticket]

\* The handlers' frames: the copy, the target, and the rows the transaction has moved and
\* not yet committed.
Frame == [pc: {"idle", "insert", "check", "move", "commit"}, copy: Copy,
          target: Tickets \cup {Nobody}, moved: SUBSET Messages]

Idle == [pc |-> "idle", copy |-> NoCopy, target |-> Nobody, moved |-> {}]

Goto(h, f) == frame' = [frame EXCEPT ![h] = f]

At(h, label) == frame[h].pc = label

Attaching(h) == frame[h].pc \in {"check", "move", "commit"}

\* Customers may have tickets from another channel already.
Init ==
  /\ ticket \in [Tickets -> {"none", "listed"}]
  /\ conversation = [c \in Conversations |-> NoConversation]
  /\ message = [m \in Messages |-> NoMessage]
  /\ socket = [s \in Sockets |-> NoCopy]
  /\ frame = [h \in Handlers |-> Idle]
-----------------------------------------------------------------------------
\* lifecycle.start: the conversation and its ticket come into being together.
Start(c) ==
  /\ conversation[c].state = "none"
  /\ \E t \in Tickets :
       /\ ticket[t] = "none"
       /\ ticket' = [ticket EXCEPT ![t] = "listed"]
       /\ conversation' = [conversation EXCEPT ![c].ticket = t, ![c].state = "open"]
  /\ UNCHANGED <<message, socket, frame>>

End(c) ==
  /\ conversation[c].state = "open"
  /\ conversation' = [conversation EXCEPT ![c].state = "ENDED"]
  /\ UNCHANGED <<ticket, message, socket, frame>>
-----------------------------------------------------------------------------
(* Writing: record_and_broadcast stores the message on the copy's ticket   *)

Stored(m, copy) ==
  /\ message[m] = NoMessage
  /\ message' = [message EXCEPT ![m] =
       [of |-> copy.conversation, ticket |-> copy.ticket,
        late |-> \/ copy # Read(copy.conversation)
                 \/ \E h \in Handlers : At(h, "commit") /\ frame[h].copy.ticket = copy.ticket]]

Connects(s, c) ==
  /\ socket' = [socket EXCEPT ![s] = Read(c)]
  /\ UNCHANGED <<ticket, conversation, message, frame>>

\* A customer's socket opens on a conversation that is not over; a reconnection is no
\* different.
VisitorConnects(s, c) == conversation[c].state = "open" /\ Connects(s, c)

\* A supervisor's opens on any in scope.
ObserverConnects(s, c) == conversation[c].state # "none" /\ Connects(s, c)

\* The customer's message, or the supervisor's note.
SocketWrites(s, m) ==
  /\ socket[s] # NoCopy
  /\ Stored(m, socket[s])
  /\ UNCHANGED <<ticket, conversation, socket, frame>>

\* _reply reads the conversation for the frame, and then writes.
BeginReply(h, c) ==
  /\ frame[h] = Idle
  /\ conversation[c].state # "none"
  /\ Goto(h, [Idle EXCEPT !.pc = "insert", !.copy = Read(c)])
  /\ UNCHANGED <<ticket, conversation, message, socket>>

AgentWrites(h, m) ==
  /\ At(h, "insert")
  /\ Stored(m, frame[h].copy)
  /\ Goto(h, Idle)
  /\ UNCHANGED <<ticket, conversation, socket>>
-----------------------------------------------------------------------------
(* Attaching                                                               *)

\* The conversation and the target are read.
BeginAttach(h, c, t) ==
  /\ frame[h] = Idle
  /\ conversation[c].state # "none"
  /\ ticket[t] = "listed"
  /\ Goto(h, [Idle EXCEPT !.pc = "check", !.copy = Read(c), !.target = t])
  /\ UNCHANGED <<ticket, conversation, message, socket>>

\* Mutant: the target's other conversations may be going on, and may not be over.
CanAttachBesideAnother(c, t) ==
  ~\E d \in Conversations \ {c} : conversation[d].ticket = t /\ conversation[d].state = "ENDED"

\* can_attach_to, as far as it is about conversations.
CanAttach(c, t) ==
  ~\E d \in Conversations \ {c} : conversation[d].ticket = t /\ conversation[d].state = "open"

\* move_to, as far as the check.  Attaching to the ticket it is on does nothing; a target
\* of another contact's, or one that is settled, is refused like one in use.
CheckAttach(h) ==
  LET f == frame[h] IN
  /\ At(h, "check")
  /\ \/ Goto(h, Idle)
     \/ /\ f.copy.ticket # f.target
        /\ CanAttach(f.copy.conversation, f.target)
        /\ Goto(h, [f EXCEPT !.pc = "move"])
  /\ UNCHANGED <<ticket, conversation, message, socket>>

\* The rows on t that the move takes; those another transaction is moving are waited for.
On(t) == {m \in Messages : message[m].ticket = t}

MoveRows(h) ==
  LET f == frame[h] IN
  /\ At(h, "move")
  /\ \A g \in Handlers : frame[g].moved \cap On(f.copy.ticket) = {}
  /\ Goto(h, [f EXCEPT !.pc = "commit", !.moved = On(f.copy.ticket)])
  /\ UNCHANGED <<ticket, conversation, message, socket>>

\* Two attaches are over one conversation or have a ticket in common.
Meet(f, g) ==
  \/ f.copy.conversation = g.copy.conversation
  \/ {f.copy.ticket, f.target} \cap {g.copy.ticket, g.target} # {}

\* The conversations whose transcript this attach may tear: any other on the ticket it
\* retires, and its own and the other's if it met one.
Torn(h) ==
  LET f == frame[h]
      met == {frame[g] : g \in {g \in Handlers \ {h} : Attaching(g) /\ Meet(f, frame[g])}} IN
  {c \in Conversations :
     \/ c # f.copy.conversation /\ conversation[c].ticket = f.copy.ticket
     \/ \E g \in met : c \in {f.copy.conversation, g.copy.conversation}}

\* Mutant: no transaction, and a process that dies when the conversation has moved and the
\* rows have not.
CommitInParts(h) ==
  LET f == frame[h] IN
  /\ At(h, "commit")
  /\ UNCHANGED <<message, socket>>
  /\ conversation' = [conversation EXCEPT ![f.copy.conversation].ticket = f.target]
  /\ ticket' = [ticket EXCEPT ![f.copy.ticket] = "retired"]
  /\ Goto(h, Idle)

\* The transaction commits: the rows, the conversation, and the retired ticket.
CommitAttach(h) ==
  LET f == frame[h] IN
  /\ At(h, "commit")
  /\ message' = [m \in Messages |-> IF m \in f.moved THEN [message[m] EXCEPT !.ticket = f.target]
                                                    ELSE message[m]]
  /\ conversation' = [c \in Conversations |->
       [conversation[c] EXCEPT !.ticket = IF c = f.copy.conversation THEN f.target ELSE @,
                               !.torn = @ \/ c \in Torn(h)]]
  /\ ticket' = [ticket EXCEPT ![f.copy.ticket] = "retired"]
  /\ Goto(h, Idle)
  /\ UNCHANGED socket

\* A request dies, and its transaction with it.
HandlerDies(h) ==
  /\ frame[h] # Idle
  /\ Goto(h, Idle)
  /\ UNCHANGED <<ticket, conversation, message, socket>>
-----------------------------------------------------------------------------
Next ==
  \/ \E c \in Conversations : Start(c) \/ End(c)
  \/ \E s \in Sockets :
       \/ \E c \in Conversations : VisitorConnects(s, c) \/ ObserverConnects(s, c)
       \/ \E m \in Messages : SocketWrites(s, m)
  \/ \E h \in Handlers :
       \/ \E c \in Conversations : BeginReply(h, c)
       \/ \E c \in Conversations, t \in Tickets : BeginAttach(h, c, t)
       \/ \E m \in Messages : AgentWrites(h, m)
       \/ CheckAttach(h) \/ MoveRows(h) \/ CommitAttach(h) \/ HandlerDies(h)

Spec == Init /\ [][Next]_vars
-----------------------------------------------------------------------------
(* Properties.                                                             *)

TypeOK ==
  /\ ticket \in [Tickets -> {"none", "listed", "retired"}]
  /\ conversation \in [Conversations -> Conversation]
  /\ message \in [Messages -> Message]
  /\ socket \in [Sockets -> Copy]
  /\ frame \in [Handlers -> Frame]

\* Everything said in a conversation is on the ticket the conversation is on, wherever it
\* was attached and whoever wrote while it was, but for what was written from a copy that
\* had gone out of date and for attaches that met (move_to).
TranscriptMovesWhole ==
  \A m \in Messages :
    LET c == message[m].of IN
    c # Nobody /\ ~message[m].late /\ ~conversation[c].torn =>
      message[m].ticket = conversation[c].ticket

\* Two conversations are going on over one ticket only if the attaches that brought them
\* there met (can_attach_to).
OneLiveTranscript ==
  \A c, d \in Conversations :
    /\ c # d
    /\ conversation[c].state = "open" /\ conversation[d].state = "open"
    /\ conversation[c].ticket = conversation[d].ticket
    => conversation[c].torn \/ conversation[d].torn

\* The same without exception: "100% of conversations produce a findable ticket carrying
\* the complete transcript" (SC-003, which transcript.py takes up).
TheTranscriptIsWhole ==
  \A m \in Messages :
    message[m].of # Nobody => message[m].ticket = conversation[message[m].of].ticket
=============================================================================
