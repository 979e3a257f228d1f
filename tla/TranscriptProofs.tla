--------------------------- MODULE TranscriptProofs ---------------------------
(***************************************************************************)
(* What the transcript keeps however writers and attaches interleave, for  *)
(* any number of conversations, tickets, messages, sockets and handlers:   *)
(* it moves whole, and two conversations are live on one ticket only if    *)
(* attaches met.  The hypothesis on the constants is TranscriptAssumption, *)
(* which whoever instantiates Transcript assumes.                          *)
(***************************************************************************)
EXTENDS Transcript, TLAPS

\* A conversation is on a ticket from its start, and a message once it is somebody's.
RowsOK ==
  /\ \A c \in Conversations :
       IF conversation[c].state = "none" THEN conversation[c].ticket = Nobody
       ELSE conversation[c].ticket \in Tickets /\ ticket[conversation[c].ticket] # "none"
  /\ \A m \in Messages : message[m].of = Nobody <=> message[m].ticket = Nobody

\* What a frame carries, and what its transaction may rely on whatever the others do.
FrameOK(f) ==
  /\ f.pc \in {"insert", "check", "move", "commit"} =>
       /\ f.copy.conversation \in Conversations /\ f.copy.ticket \in Tickets
       /\ conversation[f.copy.conversation].state # "none"
  /\ f.pc \in {"check", "move", "commit"} =>
       /\ f.target \in Tickets /\ ticket[f.target] # "none"
       /\ \/ conversation[f.copy.conversation].torn
          \/ conversation[f.copy.conversation].ticket = f.copy.ticket
  /\ f.pc # "commit" => f.moved = {}

FramesOK == \A h \in Handlers : FrameOK(frame[h])

SocketsOK ==
  \A s \in Sockets : socket[s] # NoCopy => /\ socket[s].conversation \in Conversations
                                           /\ socket[s].ticket \in Tickets

\* Past the check nobody else is live on the target who is not torn, or the attach is.
TargetsFree ==
  \A h \in Handlers : frame[h].pc \in {"move", "commit"} =>
    LET c == frame[h].copy.conversation IN
    \A d \in Conversations \ {c} :
      /\ conversation[d].ticket = frame[h].target
      /\ conversation[d].state = "open"
      => conversation[c].torn \/ conversation[d].torn

\* A message that counts: it is c's, and was written from a copy that was true.
Counts(m, c) == message[m].of = c /\ ~message[m].late /\ ~conversation[c].torn

\* The rows a transaction has moved are locked: no two have one in common, and they stay
\* on the ticket; and they are all that counts of the conversation.
MovesOK ==
  /\ \A h \in Handlers, m \in Messages :
       m \in frame[h].moved => message[m].ticket = frame[h].copy.ticket
  /\ \A h, g \in Handlers, m \in Messages :
       m \in frame[h].moved /\ m \in frame[g].moved => h = g
  /\ \A h \in Handlers, m \in Messages :
       At(h, "commit") /\ Counts(m, frame[h].copy.conversation) => m \in frame[h].moved

TranscriptInv ==
  /\ TypeOK /\ RowsOK /\ FramesOK /\ SocketsOK
  /\ TargetsFree /\ OneLiveTranscript
  /\ MovesOK /\ TranscriptMovesWhole
-----------------------------------------------------------------------------
LEMMA IdleOK ==
  ASSUME TranscriptAssumption
  PROVE  /\ Idle \in Frame /\ Idle.pc = "idle" /\ Idle.moved = {}
         /\ NoCopy \in Copy
  BY DEF Idle, NoCopy, Frame, Copy

\* A copy just read is of a started conversation, on the ticket it is on.
LEMMA ReadOK ==
  ASSUME TranscriptInv, NEW c \in Conversations, conversation[c].state # "none"
  PROVE  /\ Read(c) \in Copy
         /\ Read(c).conversation = c /\ Read(c).ticket = conversation[c].ticket
         /\ Read(c).ticket \in Tickets
<1>1. conversation[c].ticket \in Tickets
  BY DEF TranscriptInv, RowsOK
<1> QED BY <1>1 DEF Read, Copy

LEMMA FrameHere ==
  ASSUME TranscriptInv, NEW h \in Handlers
  PROVE  frame[h] \in Frame /\ FrameOK(frame[h])
  BY DEF TranscriptInv, TypeOK, FramesOK

LEMMA InitOK == ASSUME TranscriptAssumption, Init PROVE TranscriptInv
<1>1. TypeOK
  BY IdleOK DEF Init, TypeOK, Conversation, NoConversation, Message, NoMessage
<1>2. RowsOK
  BY DEF Init, RowsOK, NoConversation, NoMessage
<1>3. FramesOK /\ SocketsOK /\ TargetsFree
  BY IdleOK DEF Init, FramesOK, FrameOK, SocketsOK, TargetsFree
<1>4. OneLiveTranscript
  BY DEF Init, OneLiveTranscript, NoConversation
<1>5. MovesOK
  BY IdleOK DEF Init, MovesOK, At
<1>6. TranscriptMovesWhole
  BY DEF Init, TranscriptMovesWhole, NoMessage
<1> QED BY <1>1, <1>2, <1>3, <1>4, <1>5, <1>6 DEF TranscriptInv
-----------------------------------------------------------------------------
\* A step that gives one handler another frame, and the tables are as they were.
LEMMA GotoOK ==
  ASSUME TranscriptInv, NEW h \in Handlers, NEW f \in Frame, Goto(h, f), FrameOK(f),
         UNCHANGED <<ticket, conversation, message, socket>>,
         f.pc \in {"move", "commit"} =>
           \A d \in Conversations \ {f.copy.conversation} :
             conversation[d].ticket = f.target /\ conversation[d].state = "open" =>
               conversation[f.copy.conversation].torn \/ conversation[d].torn,
         \A m \in f.moved : message[m].ticket = f.copy.ticket,
         \A g \in Handlers \ {h} : frame[g].moved \cap f.moved = {},
         f.pc = "commit" =>
           \A m \in Messages : Counts(m, f.copy.conversation) => m \in f.moved
  PROVE  TranscriptInv'
<1>1. frame' \in [Handlers -> Frame] /\ frame'[h] = f
  BY DEF TranscriptInv, TypeOK, Goto
<1>2. \A g \in Handlers \ {h} : frame'[g] = frame[g]
  BY DEF TranscriptInv, TypeOK, Goto
<1>3. TypeOK' /\ RowsOK' /\ SocketsOK' /\ OneLiveTranscript' /\ TranscriptMovesWhole'
  BY <1>1 DEF TranscriptInv, TypeOK, RowsOK, SocketsOK, OneLiveTranscript, TranscriptMovesWhole
<1>4. FramesOK'
  <2> SUFFICES ASSUME NEW g \in Handlers PROVE FrameOK(frame[g])'
    BY DEF FramesOK
  <2>1. CASE g = h
    BY <2>1, <1>1 DEF FrameOK
  <2>2. CASE g # h
    BY <2>2, <1>2 DEF FrameOK, TranscriptInv, FramesOK
  <2> QED BY <2>1, <2>2
<1>5. TargetsFree'
  <2> SUFFICES ASSUME NEW g \in Handlers, (frame[g].pc \in {"move", "commit"})',
                      NEW d \in Conversations \ {frame'[g].copy.conversation},
                      conversation[d].ticket = frame'[g].target, conversation[d].state = "open"
               PROVE  conversation[frame'[g].copy.conversation].torn \/ conversation[d].torn
    BY DEF TargetsFree
  <2>1. CASE g = h
    BY <2>1, <1>1
  <2>2. CASE g # h
    BY <2>2, <1>2 DEF TranscriptInv, TargetsFree
  <2> QED BY <2>1, <2>2
<1>6. MovesOK'
  <2>1. \A m \in Messages, c \in Conversations : Counts(m, c)' <=> Counts(m, c)
    BY DEF Counts
  <2>2. ASSUME NEW g \in Handlers, NEW m \in Messages
        PROVE  /\ m \in frame'[g].moved => message'[m].ticket = frame'[g].copy.ticket
               /\ (At(g, "commit") /\ Counts(m, frame[g].copy.conversation))' =>
                    m \in frame'[g].moved
    <3>1. CASE g = h
      BY <3>1, <1>1 DEF At, Counts
    <3>2. CASE g # h
      BY <2>2, <3>2, <1>2 DEF At, Counts, TranscriptInv, MovesOK
    <3> QED BY <3>1, <3>2
  <2>3. ASSUME NEW g \in Handlers, NEW k \in Handlers, NEW m \in Messages,
               m \in frame'[g].moved, m \in frame'[k].moved
        PROVE  g = k
    BY <2>3, <1>1, <1>2 DEF TranscriptInv, MovesOK
  <2> QED BY <2>2, <2>3 DEF MovesOK
<1> QED BY <1>3, <1>4, <1>5, <1>6 DEF TranscriptInv

LEMMA BeginReplyOK ==
  ASSUME TranscriptAssumption, TranscriptInv, NEW h \in Handlers, NEW c \in Conversations,
         BeginReply(h, c)
  PROVE  TranscriptInv'
<1> DEFINE f == [Idle EXCEPT !.pc = "insert", !.copy = Read(c)]
<1>1. conversation[c].state # "none" /\ Goto(h, f)
      /\ UNCHANGED <<ticket, conversation, message, socket>>
  BY DEF BeginReply
<1>2. f \in Frame /\ f.pc = "insert" /\ f.copy = Read(c) /\ f.moved = {}
  BY <1>1, ReadOK DEF Idle, Frame
<1>3. FrameOK(f)
  BY <1>1, <1>2, ReadOK DEF FrameOK
<1> HIDE DEF f
<1> QED BY <1>1, <1>2, <1>3, GotoOK

LEMMA BeginAttachOK ==
  ASSUME TranscriptAssumption, TranscriptInv, NEW h \in Handlers, NEW c \in Conversations,
         NEW t \in Tickets, BeginAttach(h, c, t)
  PROVE  TranscriptInv'
<1> DEFINE f == [Idle EXCEPT !.pc = "check", !.copy = Read(c), !.target = t]
<1>1. conversation[c].state # "none" /\ ticket[t] = "listed" /\ Goto(h, f)
      /\ UNCHANGED <<ticket, conversation, message, socket>>
  BY DEF BeginAttach
<1>2. f \in Frame /\ f.pc = "check" /\ f.copy = Read(c) /\ f.target = t /\ f.moved = {}
  BY <1>1, ReadOK DEF Idle, Frame
<1>3. FrameOK(f)
  BY <1>1, <1>2, ReadOK DEF FrameOK
<1> HIDE DEF f
<1> QED BY <1>1, <1>2, <1>3, GotoOK

\* To be idle again disturbs nobody.
LEMMA IdleAgainOK ==
  ASSUME TranscriptAssumption, TranscriptInv, NEW h \in Handlers, Goto(h, Idle),
         UNCHANGED <<ticket, conversation, message, socket>>
  PROVE  TranscriptInv'
<1>1. FrameOK(Idle)
  BY IdleOK DEF FrameOK
<1> QED BY <1>1, IdleOK, GotoOK

\* The check finds nobody on the target.
LEMMA CheckAttachOK ==
  ASSUME TranscriptAssumption, TranscriptInv, NEW h \in Handlers, CheckAttach(h)
  PROVE  TranscriptInv'
<1> DEFINE f == [frame[h] EXCEPT !.pc = "move"]
<1>1. At(h, "check") /\ UNCHANGED <<ticket, conversation, message, socket>>
  BY DEF CheckAttach
<1>2. CASE Goto(h, Idle)
  BY <1>1, <1>2, IdleAgainOK
<1>3. CASE CanAttach(frame[h].copy.conversation, frame[h].target) /\ Goto(h, f)
  <2>1. /\ f \in Frame /\ f.pc = "move" /\ f.copy = frame[h].copy /\ f.target = frame[h].target
        /\ f.moved = frame[h].moved
    BY FrameHere DEF Frame
  <2>2. FrameOK(f) /\ f.moved = {}
    BY <2>1, <1>1, FrameHere DEF FrameOK, At
  <2> HIDE DEF f
  <2>3. \A d \in Conversations \ {f.copy.conversation} :
          ~(conversation[d].ticket = f.target /\ conversation[d].state = "open")
    BY <2>1, <1>3 DEF CanAttach
  <2> QED BY <1>1, <1>3, <2>1, <2>2, <2>3, GotoOK
<1> QED BY <1>2, <1>3 DEF CheckAttach

\* The rows on the copy's ticket hold all that counts of the conversation, and nobody else
\* has them.
LEMMA MoveRowsOK ==
  ASSUME TranscriptAssumption, TranscriptInv, NEW h \in Handlers, MoveRows(h)
  PROVE  TranscriptInv'
<1> DEFINE rows == On(frame[h].copy.ticket)
           f    == [frame[h] EXCEPT !.pc = "commit", !.moved = rows]
<1>1. At(h, "move") /\ Goto(h, f) /\ UNCHANGED <<ticket, conversation, message, socket>>
      /\ \A g \in Handlers : frame[g].moved \cap rows = {}
  BY DEF MoveRows
<1>2. /\ f \in Frame /\ f.pc = "commit" /\ f.copy = frame[h].copy /\ f.target = frame[h].target
      /\ f.moved = rows
  BY FrameHere DEF Frame, On
<1> HIDE DEF f
<1>3. FrameOK(f)
  BY <1>1, <1>2, FrameHere DEF FrameOK, At
<1>4. \A m \in rows : message[m].ticket = f.copy.ticket
  BY <1>2 DEF On
<1>5. ASSUME NEW m \in Messages, Counts(m, f.copy.conversation) PROVE m \in rows
  <2>1. f.copy.conversation \in Conversations /\ f.copy.conversation # Nobody
    BY <1>2, <1>3 DEF FrameOK, TranscriptAssumption
  <2>2. message[m].ticket = conversation[f.copy.conversation].ticket
    BY <1>5, <2>1 DEF Counts, TranscriptInv, TranscriptMovesWhole
  <2>3. conversation[f.copy.conversation].ticket = f.copy.ticket
    BY <1>5, <1>2, <1>3 DEF FrameOK, Counts
  <2> QED BY <2>2, <2>3, <1>2 DEF On
<1>6. \A d \in Conversations \ {f.copy.conversation} :
        conversation[d].ticket = f.target /\ conversation[d].state = "open" =>
          conversation[f.copy.conversation].torn \/ conversation[d].torn
  BY <1>1, <1>2 DEF TranscriptInv, TargetsFree, At
<1> HIDE DEF rows
<1> QED BY <1>1, <1>2, <1>3, <1>4, <1>5, <1>6, GotoOK
-----------------------------------------------------------------------------
\* A message stored late or from a true copy; whoever stores it goes back to idle.
LEMMA StoredOK ==
  ASSUME TranscriptAssumption, TranscriptInv, NEW m \in Messages, NEW copy \in Copy,
         copy.conversation \in Conversations, copy.ticket \in Tickets, Stored(m, copy),
         UNCHANGED <<ticket, conversation, socket>>,
         frame' \in [Handlers -> Frame],
         \A h \in Handlers : frame'[h] = frame[h] \/ frame'[h] = Idle
  PROVE  TranscriptInv'
<1> DEFINE new == message'[m]
<1>1. /\ message[m] = NoMessage /\ message' \in [Messages -> Message]
      /\ new.of = copy.conversation /\ new.ticket = copy.ticket
      /\ \A n \in Messages \ {m} : message'[n] = message[n]
      /\ ~new.late => /\ copy = Read(copy.conversation)
                      /\ \A h \in Handlers : ~(At(h, "commit") /\ frame[h].copy.ticket = copy.ticket)
  BY DEF Stored, TranscriptInv, TypeOK, Message, Copy
<1> HIDE DEF new
<1>2. copy.conversation # Nobody /\ copy.ticket # Nobody
  BY DEF TranscriptAssumption
<1>3. ~new.late => conversation[copy.conversation].ticket = copy.ticket
  BY <1>1 DEF Read
<1>4. TypeOK' /\ SocketsOK' /\ OneLiveTranscript'
  BY <1>1 DEF TranscriptInv, TypeOK, SocketsOK, OneLiveTranscript
<1>5. RowsOK'
  <2>1. \A n \in Messages : message'[n].of = Nobody <=> message'[n].ticket = Nobody
    BY <1>1, <1>2 DEF new, TranscriptInv, RowsOK
  <2> QED BY <2>1 DEF TranscriptInv, RowsOK
<1>6. FramesOK'
  <2> SUFFICES ASSUME NEW h \in Handlers PROVE FrameOK(frame[h])'
    BY DEF FramesOK
  <2> QED BY FrameHere, IdleOK DEF FrameOK
<1>7. TargetsFree'
  BY IdleOK DEF TranscriptInv, TargetsFree
<1>8. MovesOK'
  <2>1. \A h \in Handlers : m \notin frame[h].moved
    BY <1>1, FrameHere DEF TranscriptInv, MovesOK, FrameOK, NoMessage, TranscriptAssumption
  <2>2. \A h \in Handlers : m \notin frame'[h].moved
    BY <2>1, IdleOK
  <2>3. ASSUME NEW h \in Handlers, NEW n \in Messages, n \in frame'[h].moved
        PROVE  /\ n \in frame[h].moved /\ frame'[h] = frame[h]
               /\ message'[n].ticket = frame'[h].copy.ticket
    <3>1. frame'[h] = frame[h]
      BY <2>3, IdleOK
    <3>2. n \in Messages \ {m}
      BY <2>3, <2>2
    <3> QED BY <2>3, <3>1, <3>2, <1>1 DEF TranscriptInv, MovesOK
  <2>4. ASSUME NEW h \in Handlers, NEW g \in Handlers, NEW n \in Messages,
               n \in frame'[h].moved, n \in frame'[g].moved
        PROVE  h = g
    BY <2>3, <2>4 DEF TranscriptInv, MovesOK
  <2>5. ASSUME NEW h \in Handlers, NEW n \in Messages, frame'[h].pc = "commit",
               Counts(n, frame[h].copy.conversation)'
        PROVE  n \in frame'[h].moved
    <3>1. frame'[h] = frame[h] /\ At(h, "commit")
      BY <2>5, IdleOK DEF At
    <3>2. CASE n = m
      <4>1. copy.conversation = frame[h].copy.conversation /\ ~new.late
            /\ ~conversation[copy.conversation].torn
        BY <2>5, <3>1, <3>2, <1>1 DEF Counts, new
      <4>2. conversation[copy.conversation].ticket = frame[h].copy.ticket
        BY <3>1, <4>1, FrameHere DEF FrameOK, At
      <4> QED BY <4>1, <4>2, <1>1, <1>3, <3>1
    <3>3. CASE n # m
      BY <3>3, <2>5, <3>1, <1>1 DEF Counts, TranscriptInv, MovesOK
    <3> QED BY <3>2, <3>3
  <2>6. \A h \in Handlers, n \in Messages :
          n \in frame'[h].moved => message'[n].ticket = frame'[h].copy.ticket
    BY <2>3
  <2>7. \A h, g \in Handlers, n \in Messages :
          n \in frame'[h].moved /\ n \in frame'[g].moved => h = g
    BY <2>4
  <2>8. \A h \in Handlers, n \in Messages :
          (At(h, "commit") /\ Counts(n, frame[h].copy.conversation))' => n \in frame'[h].moved
    BY <2>5 DEF At
  <2> QED BY <2>6, <2>7, <2>8 DEF MovesOK
<1>9. TranscriptMovesWhole'
  <2> SUFFICES ASSUME NEW n \in Messages, message'[n].of # Nobody, ~message'[n].late,
                      ~conversation'[message'[n].of].torn
               PROVE  message'[n].ticket = conversation'[message'[n].of].ticket
    BY DEF TranscriptMovesWhole
  <2>1. CASE n = m
    BY <2>1, <1>1, <1>3 DEF new
  <2>2. CASE n # m
    BY <2>2, <1>1 DEF TranscriptInv, TranscriptMovesWhole
  <2> QED BY <2>1, <2>2
<1> QED BY <1>4, <1>5, <1>6, <1>7, <1>8, <1>9 DEF TranscriptInv

LEMMA SocketWritesOK ==
  ASSUME TranscriptAssumption, TranscriptInv, NEW s \in Sockets, NEW m \in Messages,
         SocketWrites(s, m)
  PROVE  TranscriptInv'
<1>1. socket[s] \in Copy /\ socket[s].conversation \in Conversations
      /\ socket[s].ticket \in Tickets
  BY DEF SocketWrites, TranscriptInv, TypeOK, SocketsOK
<1>2. Stored(m, socket[s]) /\ UNCHANGED <<ticket, conversation, socket, frame>>
  BY DEF SocketWrites
<1>3. frame' \in [Handlers -> Frame] /\ \A h \in Handlers : frame'[h] = frame[h]
  BY <1>2 DEF TranscriptInv, TypeOK
<1> QED BY <1>1, <1>2, <1>3, StoredOK

LEMMA AgentWritesOK ==
  ASSUME TranscriptAssumption, TranscriptInv, NEW h \in Handlers, NEW m \in Messages,
         AgentWrites(h, m)
  PROVE  TranscriptInv'
<1>1. At(h, "insert") /\ Stored(m, frame[h].copy) /\ Goto(h, Idle)
      /\ UNCHANGED <<ticket, conversation, socket>>
  BY DEF AgentWrites
<1>2. frame[h].copy \in Copy /\ frame[h].copy.conversation \in Conversations
      /\ frame[h].copy.ticket \in Tickets
  BY <1>1, FrameHere DEF At, FrameOK, Frame
<1>3. frame' \in [Handlers -> Frame]
      /\ \A g \in Handlers : frame'[g] = frame[g] \/ frame'[g] = Idle
  BY <1>1, IdleOK DEF Goto, TranscriptInv, TypeOK
<1> QED BY <1>1, <1>2, <1>3, StoredOK

LEMMA ConnectsOK ==
  ASSUME TranscriptAssumption, TranscriptInv, NEW s \in Sockets, NEW c \in Conversations,
         conversation[c].state # "none", Connects(s, c)
  PROVE  TranscriptInv'
<1>1. TypeOK' /\ SocketsOK'
  BY ReadOK DEF Connects, TranscriptInv, TypeOK, SocketsOK
<1>2. RowsOK' /\ FramesOK' /\ TargetsFree' /\ OneLiveTranscript' /\ TranscriptMovesWhole'
  BY DEF Connects, TranscriptInv, RowsOK, FramesOK, FrameOK, TargetsFree, OneLiveTranscript,
         TranscriptMovesWhole
<1>3. MovesOK'
  BY DEF Connects, TranscriptInv, MovesOK, Counts, At
<1> QED BY <1>1, <1>2, <1>3 DEF TranscriptInv
-----------------------------------------------------------------------------
\* The ticket is new: nobody is on it, moves to it or has written on it.
LEMMA StartOK ==
  ASSUME TranscriptAssumption, TranscriptInv, NEW c \in Conversations, Start(c)
  PROVE  TranscriptInv'
<1>1. PICK t \in Tickets :
        /\ ticket[t] = "none" /\ ticket' = [ticket EXCEPT ![t] = "listed"]
        /\ conversation' = [conversation EXCEPT ![c].ticket = t, ![c].state = "open"]
  BY DEF Start
<1>2. conversation[c].state = "none" /\ UNCHANGED <<message, socket, frame>>
  BY DEF Start
<1>3. TypeOK'
  BY <1>1, <1>2 DEF TranscriptInv, TypeOK, Conversation
<1>4. /\ conversation'[c].ticket = t /\ conversation'[c].state = "open"
      /\ conversation'[c].torn = conversation[c].torn
      /\ \A d \in Conversations \ {c} : conversation'[d] = conversation[d]
  BY <1>1 DEF TranscriptInv, TypeOK, Conversation
<1>5. ticket'[t] = "listed" /\ \A u \in Tickets : ticket[u] # "none" => ticket'[u] = ticket[u]
  BY <1>1 DEF TranscriptInv, TypeOK
<1>6. \A d \in Conversations : conversation[d].ticket # t
  BY <1>1 DEF TranscriptInv, RowsOK, TranscriptAssumption
<1>7. \A d \in Conversations : conversation'[d].torn = conversation[d].torn
  BY <1>4
<1>8. RowsOK'
  BY <1>2, <1>4, <1>5 DEF TranscriptInv, RowsOK
<1>9. FramesOK'
  <2> SUFFICES ASSUME NEW h \in Handlers PROVE FrameOK(frame[h])'
    BY DEF FramesOK
  <2>1. frame[h].pc \in {"insert", "check", "move", "commit"} => frame[h].copy.conversation # c
    BY <1>2, FrameHere DEF FrameOK
  <2> QED BY <2>1, <1>2, <1>4, <1>5, FrameHere DEF FrameOK
<1>10. SocketsOK' /\ OneLiveTranscript'
  BY <1>2, <1>4, <1>6, <1>7 DEF TranscriptInv, SocketsOK, OneLiveTranscript
<1>11. TargetsFree'
  <2> SUFFICES ASSUME NEW h \in Handlers, frame[h].pc \in {"move", "commit"},
                      NEW d \in Conversations \ {frame[h].copy.conversation},
                      conversation'[d].ticket = frame[h].target, conversation'[d].state = "open"
               PROVE  conversation'[frame[h].copy.conversation].torn \/ conversation'[d].torn
    BY <1>2 DEF TargetsFree
  <2>1. frame[h].target # t /\ frame[h].copy.conversation \in Conversations
    BY <1>1, FrameHere DEF FrameOK
  <2>2. d # c
    BY <2>1, <1>4
  <2> QED BY <2>1, <2>2, <1>4, <1>7 DEF TranscriptInv, TargetsFree
<1>12. MovesOK'
  <2>1. \A h \in Handlers, m \in Messages :
          frame[h].pc = "commit" =>
            (Counts(m, frame[h].copy.conversation)' <=> Counts(m, frame[h].copy.conversation))
    BY <1>2, <1>7, FrameHere DEF Counts, FrameOK
  <2> QED BY <2>1, <1>2 DEF TranscriptInv, MovesOK, At
<1>13. TranscriptMovesWhole'
  <2> SUFFICES ASSUME NEW m \in Messages, message[m].of # Nobody, ~message[m].late,
                      ~conversation'[message[m].of].torn
               PROVE  message[m].ticket = conversation'[message[m].of].ticket
    BY <1>2 DEF TranscriptMovesWhole
  <2>1. message[m].of \in Conversations /\ message[m].ticket # Nobody
    BY DEF TranscriptInv, TypeOK, Message, RowsOK
  <2>2. message[m].ticket = conversation[message[m].of].ticket
    BY <2>1, <1>7 DEF TranscriptInv, TranscriptMovesWhole
  <2>3. message[m].of # c
    BY <2>1, <2>2, <1>2 DEF TranscriptInv, RowsOK
  <2> QED BY <2>1, <2>2, <2>3, <1>4
<1> QED BY <1>3, <1>8, <1>9, <1>10, <1>11, <1>12, <1>13 DEF TranscriptInv

LEMMA EndOK ==
  ASSUME TranscriptAssumption, TranscriptInv, NEW c \in Conversations, End(c)
  PROVE  TranscriptInv'
<1>1. /\ conversation[c].state = "open" /\ UNCHANGED <<ticket, message, socket, frame>>
      /\ conversation' = [conversation EXCEPT ![c].state = "ENDED"]
  BY DEF End
<1>2. TypeOK'
  BY <1>1 DEF TranscriptInv, TypeOK, Conversation
<1>3. \A d \in Conversations :
        /\ conversation'[d].ticket = conversation[d].ticket
        /\ conversation'[d].torn = conversation[d].torn
        /\ conversation'[d].state = "none" <=> conversation[d].state = "none"
        /\ conversation'[d].state = "open" => conversation[d].state = "open"
  BY <1>1 DEF TranscriptInv, TypeOK, Conversation
<1>4. RowsOK' /\ SocketsOK' /\ OneLiveTranscript'
  BY <1>1, <1>3 DEF TranscriptInv, RowsOK, SocketsOK, OneLiveTranscript
<1>5. FramesOK'
  <2> SUFFICES ASSUME NEW h \in Handlers PROVE FrameOK(frame[h])'
    BY DEF FramesOK
  <2> QED BY <1>1, <1>3, FrameHere DEF FrameOK
<1>6. TargetsFree'
  <2>1. \A h \in Handlers : frame[h].pc \in {"move", "commit"} =>
          frame[h].copy.conversation \in Conversations
    BY FrameHere DEF FrameOK
  <2> QED BY <2>1, <1>1, <1>3 DEF TranscriptInv, TargetsFree
<1>7. MovesOK'
  <2>1. \A h \in Handlers, m \in Messages :
          frame[h].pc = "commit" =>
            (Counts(m, frame[h].copy.conversation)' <=> Counts(m, frame[h].copy.conversation))
    BY <1>1, <1>3, FrameHere DEF Counts, FrameOK
  <2> QED BY <2>1, <1>1 DEF TranscriptInv, MovesOK, At
<1>8. TranscriptMovesWhole'
  <2>1. \A m \in Messages : message[m].of # Nobody => message[m].of \in Conversations
    BY DEF TranscriptInv, TypeOK, Message
  <2> QED BY <2>1, <1>1, <1>3 DEF TranscriptInv, TranscriptMovesWhole
<1> QED BY <1>2, <1>4, <1>5, <1>6, <1>7, <1>8 DEF TranscriptInv
-----------------------------------------------------------------------------
\* What a commit does to each row.  An attach it meets tears its own conversation and the
\* other's.
LEMMA CommitDoes ==
  ASSUME TranscriptInv, NEW h \in Handlers, CommitAttach(h)
  PROVE  LET f == frame[h] IN
         /\ \A m \in Messages :
              /\ message'[m].of = message[m].of /\ message'[m].late = message[m].late
              /\ message'[m].ticket = IF m \in f.moved THEN f.target ELSE message[m].ticket
         /\ \A d \in Conversations :
              /\ conversation'[d].state = conversation[d].state
              /\ conversation'[d].ticket =
                   IF d = f.copy.conversation THEN f.target ELSE conversation[d].ticket
              /\ conversation[d].torn => conversation'[d].torn
              /\ conversation'[d].torn = (conversation[d].torn \/ d \in Torn(h))
<1>1. \A m \in Messages : message[m] \in Message
  BY DEF TranscriptInv, TypeOK
<1>2. \A m \in Messages :
        message'[m] = IF m \in frame[h].moved
                        THEN [message[m] EXCEPT !.ticket = frame[h].target] ELSE message[m]
  BY DEF CommitAttach
<1>3. \A d \in Conversations : conversation[d] \in Conversation
  BY DEF TranscriptInv, TypeOK
<1> DEFINE to(d)   == IF d = frame[h].copy.conversation THEN frame[h].target
                                                    ELSE conversation[d].ticket
           tear(d) == conversation[d].torn \/ d \in Torn(h)
<1>4. \A d \in Conversations :
        conversation'[d] = [conversation[d] EXCEPT !.ticket = to(d), !.torn = tear(d)]
  BY <1>3 DEF CommitAttach, Conversation
<1>5. \A m \in Messages :
        /\ message'[m].of = message[m].of /\ message'[m].late = message[m].late
        /\ message'[m].ticket =
             IF m \in frame[h].moved THEN frame[h].target ELSE message[m].ticket
  BY <1>1, <1>2 DEF Message
<1>6. \A d \in Conversations :
        /\ conversation'[d].state = conversation[d].state
        /\ conversation'[d].ticket = to(d)
        /\ conversation'[d].torn = tear(d)
  <2> HIDE DEF to, tear
  <2> QED BY <1>3, <1>4 DEF Conversation
<1>7. \A d \in Conversations : conversation[d].torn => tear(d)
  OBVIOUS
<1> QED BY <1>5, <1>6, <1>7

LEMMA CommitTypeOK ==
  ASSUME TranscriptAssumption, TranscriptInv, NEW h \in Handlers, CommitAttach(h)
  PROVE  TypeOK'
<1> DEFINE f == frame[h]
<1>1. f \in Frame /\ f.target \in Tickets /\ f.copy.ticket \in Tickets
      /\ f.copy.conversation \in Conversations
  BY FrameHere DEF FrameOK, CommitAttach, At
<1> HIDE DEF f
<1>2. message' \in [Messages -> Message]
  <2> SUFFICES ASSUME NEW m \in Messages
               PROVE  (IF m \in f.moved THEN [message[m] EXCEPT !.ticket = f.target]
                                        ELSE message[m]) \in Message
    BY DEF CommitAttach, f
  <2> QED BY <1>1 DEF TranscriptInv, TypeOK, Message
<1>3. conversation' \in [Conversations -> Conversation]
  <2> DEFINE to(d) == IF d = f.copy.conversation THEN f.target ELSE conversation[d].ticket
             row(d) == [conversation[d] EXCEPT !.ticket = to(d),
                                               !.torn = @ \/ d \in Torn(h)]
  <2>1. conversation' = [d \in Conversations |-> row(d)]
    BY DEF CommitAttach, f
  <2>2. ASSUME NEW d \in Conversations PROVE row(d) \in Conversation
    <3>1. conversation[d] \in Conversation
      BY DEF TranscriptInv, TypeOK
    <3>2. to(d) \in Tickets \cup {Nobody}
      BY <3>1, <1>1 DEF Conversation
    <3>3. (conversation[d].torn \/ d \in Torn(h)) \in BOOLEAN
      OBVIOUS
    <3> HIDE DEF to
    <3> QED BY <3>1, <3>2, <3>3 DEF Conversation
  <2> HIDE DEF row
  <2> QED BY <2>1, <2>2
<1>4. ticket' \in [Tickets -> {"none", "listed", "retired"}] /\ socket' \in [Sockets -> Copy]
  BY DEF CommitAttach, TranscriptInv, TypeOK
<1>5. frame' \in [Handlers -> Frame]
  BY IdleOK DEF CommitAttach, Goto, TranscriptInv, TypeOK
<1> QED BY <1>2, <1>3, <1>4, <1>5 DEF TypeOK

LEMMA CommitAttachOK ==
  ASSUME TranscriptAssumption, TranscriptInv, NEW h \in Handlers, CommitAttach(h)
  PROVE  TranscriptInv'
<1> DEFINE f == frame[h]
           c == f.copy.conversation
<1>1. /\ f \in Frame /\ c \in Conversations /\ f.copy.ticket \in Tickets /\ f.target \in Tickets
      /\ f.pc = "commit" /\ conversation[c].state # "none" /\ ticket[f.target] # "none"
  BY FrameHere DEF FrameOK, CommitAttach, At
<1>2. /\ \A u \in Tickets : ticket[u] # "none" => ticket'[u] # "none"
      /\ UNCHANGED socket
      /\ frame' \in [Handlers -> Frame] /\ frame'[h] = Idle
      /\ \A g \in Handlers \ {h} : frame'[g] = frame[g]
  BY IdleOK DEF CommitAttach, Goto, TranscriptInv, TypeOK
<1>3. \A m \in Messages :
        /\ message'[m].of = message[m].of /\ message'[m].late = message[m].late
        /\ message'[m].ticket = IF m \in f.moved THEN f.target ELSE message[m].ticket
  BY CommitDoes
<1>4. \A d \in Conversations :
        /\ conversation'[d].state = conversation[d].state
        /\ conversation'[d].ticket = IF d = c THEN f.target ELSE conversation[d].ticket
        /\ conversation[d].torn => conversation'[d].torn
        /\ ~conversation'[d].torn /\ d # c => conversation[d].ticket # f.copy.ticket
  <2>1. \A d \in Conversations :
          d # c /\ conversation[d].ticket = f.copy.ticket => d \in Torn(h)
    BY DEF Torn
  <2> HIDE DEF f, c
  <2>2. \A d \in Conversations : d \in Torn(h) => conversation'[d].torn
    BY CommitDoes
  <2> QED BY <2>1, <2>2, CommitDoes DEF f, c
<1>5. ASSUME NEW g \in Handlers \ {h}, Attaching(g), Meet(f, frame[g])
      PROVE  /\ conversation'[c].torn
             /\ frame[g].copy.conversation \in Conversations
             /\ conversation'[frame[g].copy.conversation].torn
  <2>1. frame[g].copy.conversation \in Conversations
    BY <1>5, FrameHere DEF FrameOK, Attaching
  <2>2. c \in Torn(h) /\ frame[g].copy.conversation \in Torn(h)
    BY <1>5, <1>1, <2>1 DEF Torn
  <2> QED BY <2>1, <2>2, <1>1, CommitDoes
<1> HIDE DEF f, c
<1>6. TypeOK'
  BY CommitTypeOK
<1>7. RowsOK'
  <2>1. ASSUME NEW m \in Messages
        PROVE  message'[m].of = Nobody <=> message'[m].ticket = Nobody
    <3>1. m \in f.moved => message[m].ticket = f.copy.ticket
      BY DEF f, TranscriptInv, MovesOK
    <3> QED BY <3>1, <1>1, <1>3 DEF TranscriptInv, RowsOK, TranscriptAssumption
  <2>2. ASSUME NEW d \in Conversations
        PROVE  IF conversation'[d].state = "none" THEN conversation'[d].ticket = Nobody
               ELSE conversation'[d].ticket \in Tickets /\ ticket'[conversation'[d].ticket] # "none"
    BY <1>1, <1>2, <1>4 DEF TranscriptInv, RowsOK
  <2> QED BY <2>1, <2>2 DEF RowsOK
<1>8. FramesOK'
  <2> SUFFICES ASSUME NEW g \in Handlers PROVE FrameOK(frame[g])'
    BY DEF FramesOK
  <2>1. CASE g = h
    BY <2>1, <1>2, IdleOK DEF FrameOK
  <2>2. CASE g # h
    <3>1. frame'[g] = frame[g] /\ FrameOK(frame[g])
      BY <2>2, <1>2, FrameHere
    <3>2. ASSUME frame[g].pc \in {"check", "move", "commit"}
          PROVE  \/ conversation'[frame[g].copy.conversation].torn
                 \/ conversation'[frame[g].copy.conversation].ticket = frame[g].copy.ticket
      <4>1. CASE frame[g].copy.conversation = c
        <5>1. Attaching(g) /\ Meet(f, frame[g])
          BY <3>2, <4>1 DEF Attaching, Meet, c
        <5> QED BY <5>1, <2>2, <1>5
      <4>2. CASE frame[g].copy.conversation # c
        BY <4>2, <3>1, <3>2, <1>4 DEF FrameOK
      <4> QED BY <4>1, <4>2
    <3> QED BY <3>1, <3>2, <1>2, <1>4 DEF FrameOK
  <2> QED BY <2>1, <2>2
<1>9. SocketsOK'
  BY <1>2 DEF TranscriptInv, SocketsOK
<1>10. TargetsFree'
  <2> SUFFICES ASSUME NEW g \in Handlers, frame'[g].pc \in {"move", "commit"},
                      NEW d \in Conversations \ {frame'[g].copy.conversation},
                      conversation'[d].ticket = frame'[g].target, conversation'[d].state = "open"
               PROVE  conversation'[frame'[g].copy.conversation].torn \/ conversation'[d].torn
    BY DEF TargetsFree
  <2>1. g # h /\ frame'[g] = frame[g]
    BY <1>2, IdleOK
  <2>2. CASE d = c
    <3>1. Attaching(g) /\ Meet(f, frame[g])
      BY <2>1, <2>2, <1>4 DEF Attaching, Meet
    <3> QED BY <3>1, <2>1, <2>2, <1>5
  <2>3. CASE d # c
    <3>1. frame[g].copy.conversation \in Conversations
      BY <2>1, FrameHere DEF FrameOK
    <3> QED BY <3>1, <2>1, <2>3, <1>4 DEF TranscriptInv, TargetsFree
  <2> QED BY <2>2, <2>3
<1>11. OneLiveTranscript'
  <2>1. ASSUME NEW e \in Conversations \ {c}, conversation[e].state = "open",
               conversation[e].ticket = f.target
        PROVE  conversation'[c].torn \/ conversation'[e].torn
    BY <2>1, <1>1, <1>4 DEF TranscriptInv, TargetsFree, f, c
  <2> SUFFICES ASSUME NEW d \in Conversations, NEW e \in Conversations, d # e,
                      conversation'[d].state = "open", conversation'[e].state = "open",
                      conversation'[d].ticket = conversation'[e].ticket
               PROVE  conversation'[d].torn \/ conversation'[e].torn
    BY DEF OneLiveTranscript
  <2>2. CASE d = c
    BY <2>1, <2>2, <1>4
  <2>3. CASE e = c
    BY <2>1, <2>3, <1>4
  <2>4. CASE d # c /\ e # c
    BY <2>4, <1>4 DEF TranscriptInv, OneLiveTranscript
  <2> QED BY <2>2, <2>3, <2>4
<1>12. MovesOK'
  <2>1. ASSUME NEW g \in Handlers, frame'[g].moved # {} \/ frame'[g].pc = "commit"
        PROVE  g # h /\ frame'[g] = frame[g]
    BY <2>1, <1>2, IdleOK
  <2>2. ASSUME NEW g \in Handlers, NEW m \in Messages, m \in frame'[g].moved
        PROVE  message'[m].ticket = frame'[g].copy.ticket
    <3>1. m \notin f.moved
      BY <2>1, <2>2 DEF f, TranscriptInv, MovesOK
    <3> QED BY <3>1, <2>1, <2>2, <1>3 DEF TranscriptInv, MovesOK
  <2>3. ASSUME NEW g \in Handlers, NEW k \in Handlers, NEW m \in Messages,
               m \in frame'[g].moved, m \in frame'[k].moved
        PROVE  g = k
    BY <2>1, <2>3 DEF TranscriptInv, MovesOK
  <2>4. ASSUME NEW g \in Handlers, NEW m \in Messages,
               (At(g, "commit") /\ Counts(m, frame[g].copy.conversation))'
        PROVE  m \in frame'[g].moved
    <3>1. frame'[g] = frame[g] /\ At(g, "commit") /\ frame[g].copy.conversation \in Conversations
      BY <2>1, <2>4, FrameHere DEF At, FrameOK
    <3>2. Counts(m, frame[g].copy.conversation)
      BY <2>4, <3>1, <1>3, <1>4 DEF Counts
    <3> QED BY <3>1, <3>2 DEF TranscriptInv, MovesOK
  <2> QED BY <2>2, <2>3, <2>4 DEF MovesOK
<1>13. TranscriptMovesWhole'
  <2> SUFFICES ASSUME NEW m \in Messages, message[m].of # Nobody, ~message[m].late,
                      ~conversation'[message[m].of].torn
               PROVE  message'[m].ticket = conversation'[message[m].of].ticket
    BY <1>3 DEF TranscriptMovesWhole
  <2>1. message[m].of \in Conversations /\ ~conversation[message[m].of].torn
    BY <1>4 DEF TranscriptInv, TypeOK, Message
  <2>2. message[m].ticket = conversation[message[m].of].ticket
    BY <2>1 DEF TranscriptInv, TranscriptMovesWhole
  <2>3. CASE message[m].of = c
    <3>1. m \in f.moved
      BY <2>1, <2>3, <1>1 DEF TranscriptInv, MovesOK, Counts, At, f, c
    <3> QED BY <3>1, <2>3, <1>1, <1>3, <1>4
  <2>4. CASE message[m].of # c
    <3>1. m \notin f.moved
      BY <2>1, <2>2, <2>4, <1>4 DEF TranscriptInv, MovesOK, f
    <3> QED BY <3>1, <2>1, <2>2, <2>4, <1>3, <1>4
  <2> QED BY <2>3, <2>4
<1> QED BY <1>6, <1>7, <1>8, <1>9, <1>10, <1>11, <1>12, <1>13 DEF TranscriptInv
-----------------------------------------------------------------------------
LEMMA NextStep == ASSUME TranscriptAssumption PROVE TranscriptInv /\ [Next]_vars => TranscriptInv'
<1> SUFFICES ASSUME TranscriptInv, [Next]_vars PROVE TranscriptInv'
  OBVIOUS
<1>1. ASSUME NEW c \in Conversations, Start(c) \/ End(c) PROVE TranscriptInv'
  BY <1>1, StartOK, EndOK
<1>2. ASSUME NEW s \in Sockets, NEW c \in Conversations,
             VisitorConnects(s, c) \/ ObserverConnects(s, c)
      PROVE  TranscriptInv'
  <2>1. conversation[c].state # "none" /\ Connects(s, c)
    BY <1>2 DEF VisitorConnects, ObserverConnects
  <2> QED BY <2>1, ConnectsOK
<1>3. ASSUME NEW s \in Sockets, NEW m \in Messages, SocketWrites(s, m) PROVE TranscriptInv'
  BY <1>3, SocketWritesOK
<1>4. ASSUME NEW h \in Handlers, NEW c \in Conversations, BeginReply(h, c) PROVE TranscriptInv'
  BY <1>4, BeginReplyOK
<1>5. ASSUME NEW h \in Handlers, NEW c \in Conversations, NEW t \in Tickets,
             BeginAttach(h, c, t)
      PROVE  TranscriptInv'
  BY <1>5, BeginAttachOK
<1>6. ASSUME NEW h \in Handlers, NEW m \in Messages, AgentWrites(h, m) PROVE TranscriptInv'
  BY <1>6, AgentWritesOK
<1>7. ASSUME NEW h \in Handlers, CheckAttach(h) PROVE TranscriptInv'
  BY <1>7, CheckAttachOK
<1>8. ASSUME NEW h \in Handlers, MoveRows(h) PROVE TranscriptInv'
  BY <1>8, MoveRowsOK
<1>9. ASSUME NEW h \in Handlers, CommitAttach(h) PROVE TranscriptInv'
  BY <1>9, CommitAttachOK
<1>10. ASSUME NEW h \in Handlers, HandlerDies(h) PROVE TranscriptInv'
  BY <1>10, IdleAgainOK DEF HandlerDies
<1>11. CASE UNCHANGED vars
  BY <1>11 DEF vars, TranscriptInv, TypeOK, RowsOK, FramesOK, FrameOK, SocketsOK, TargetsFree,
               OneLiveTranscript, MovesOK, Counts, At, TranscriptMovesWhole
<1> QED BY <1>1, <1>2, <1>3, <1>4, <1>5, <1>6, <1>7, <1>8, <1>9, <1>10, <1>11 DEF Next

LEMMA TranscriptInvariant == ASSUME TranscriptAssumption PROVE Spec => []TranscriptInv
<1>1. Init => TranscriptInv
  BY InitOK
<1>2. TranscriptInv /\ [Next]_vars => TranscriptInv'
  BY NextStep
<1> QED BY <1>1, <1>2, PTL DEF Spec

\* The tables, the sockets and the handlers hold what they are meant to.
THEOREM TypeCorrect == ASSUME TranscriptAssumption PROVE Spec => []TypeOK
<1>1. TranscriptInv => TypeOK
  BY DEF TranscriptInv
<1> QED BY <1>1, TranscriptInvariant, PTL

\* Everything said in a conversation is on the ticket the conversation is on, however many
\* writers and attaches there are, but for what was written from a copy that had gone out of
\* date and for attaches that met (move_to).
THEOREM TranscriptsMoveWhole ==
  ASSUME TranscriptAssumption PROVE Spec => []TranscriptMovesWhole
<1>1. TranscriptInv => TranscriptMovesWhole
  BY DEF TranscriptInv
<1> QED BY <1>1, TranscriptInvariant, PTL

\* Two conversations are going on over one ticket only if the attaches that brought them
\* there met (can_attach_to).
THEOREM LiveTranscriptsAreOne ==
  ASSUME TranscriptAssumption PROVE Spec => []OneLiveTranscript
<1>1. TranscriptInv => OneLiveTranscript
  BY DEF TranscriptInv
<1> QED BY <1>1, TranscriptInvariant, PTL
=============================================================================
