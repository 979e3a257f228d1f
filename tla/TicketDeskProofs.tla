--------------------------- MODULE TicketDeskProofs ---------------------------
(***************************************************************************)
(* What the ticket desk keeps however requests overlap and whoever dies,   *)
(* for any number of tickets, agents, handlers, replies and mails, and any *)
(* limit to the retries: the row of a ticket hangs together, a taken one   *)
(* is kept, a customer's current reply reopens it, mail that is seen is    *)
(* stored, and a sending that ran its course leaves its mark.              *)
(***************************************************************************)
EXTENDS TicketDesk, TLAPS

\* What a frame says of the tickets tk, the replies rp and their senders sd: the ticket it
\* is about exists; a reply's sending has not begun; a reply whose copy was no longer new
\* answers a ticket that is not new either.
FrameOK(f, tk, rp, sd) ==
  /\ f.ticket # Nobody => tk[f.ticket].there
  /\ f.task = "status" => f.to # "NEW"
  /\ f.task \in {"take", "assign"} => f.agent \in Agents
  /\ f.task = "collect" /\ f.pc = "save" => f.mail \in Mails
  /\ f.task = "reply" =>
       /\ f.ticket \in Tickets
       /\ f.reply \in Replies
       /\ sd[f.reply].pc = "none"
       /\ f.pc = "save" /\ f.copy.status # "NEW" => tk[f.ticket].status # "NEW"
       /\ f.pc = "queue" => rp[f.reply].ticket # Nobody

FramesOK == \A h \in Handlers : FrameOK(frame[h], ticket, reply, sender)

\* A reply is written by one handler.
OneWriter ==
  \A h, g \in Handlers : h # g /\ frame[h].reply # Nobody => frame[g].reply # frame[h].reply

\* How far a reply's sender has come bounds the mails that have left.
SenderOK(rep, snd) ==
  /\ rep.ticket = Nobody => snd.pc = "none"
  /\ snd.pc = "none" => snd.retries = 0 /\ rep.mailed = 0
  /\ snd.pc = "queued" => rep.mailed <= snd.retries
  /\ snd.pc \in {"accepted", "refused", "retry"} => rep.mailed <= snd.retries + 1
  /\ snd.pc = "accepted" => rep.mailed > 0
  /\ snd.pc = "retry" => rep.delivery = "FAILED"
  /\ snd.pc = "over" => rep.delivery \in {"SENT", "FAILED"}
  /\ rep.delivery = "SENT" => rep.mailed > 0

SendersOK == \A r \in Replies : SenderOK(reply[r], sender[r])

\* A ticket's row by itself, and with the replies it has.
Stamped(row) == row.status = "RESOLVED" => row.resolved

Answering(row) == row.there /\ row.responded /\ row.status # "NEW"

RowsOK ==
  /\ \A t \in Tickets : Stamped(ticket[t])
  /\ \A r \in Replies : reply[r].ticket # Nobody => Answering(ticket[reply[r].ticket])

DeskInv == TypeOK /\ RowsOK /\ FramesOK /\ OneWriter /\ SendersOK
-----------------------------------------------------------------------------
(* Rows of tickets only grow: what is there stays, what was answered or    *)
(* was moved on never becomes unanswered or new.                           *)

Grown(row, next) ==
  /\ next \in Ticket
  /\ Stamped(next)
  /\ row.there => next.there
  /\ row.there /\ row.responded => next.responded
  /\ row.there /\ row.status # "NEW" => next.status # "NEW"

TicketsGrow ==
  /\ ticket' \in [Tickets -> Ticket]
  /\ \A t \in Tickets : Grown(ticket[t], ticket'[t])

\* apply_transition, whatever copy it was judged on.
LEMMA TransitionGrows ==
  ASSUME NEW row \in Ticket, NEW copy \in Copy, NEW to \in Statuses \ {"NEW"}
  PROVE  Grown(row, Transition(row, copy, to))
BY DEF Grown, Stamped, Transition, Ticket, Copy, Statuses

\* reopen_for_customer_reply
LEMMA ReopenedGrows ==
  ASSUME NEW row \in Ticket, NEW copy \in Copy, Stamped(row)
  PROVE  Grown(row, Reopened(row, copy))
<1>1. Grown(row, row)
  BY DEF Grown
<1>2. Grown(row, Transition(row, copy, "OPEN"))
  BY TransitionGrows DEF Statuses
<1> QED BY <1>1, <1>2 DEF Reopened

\* One row replaced by one that grew from it.
LEMMA GrowOne ==
  ASSUME TypeOK, RowsOK, NEW t, NEW row, ticket' = [ticket EXCEPT ![t] = row],
         t \in Tickets => Grown(ticket[t], row)
  PROVE  TicketsGrow
BY DEF TicketsGrow, TypeOK, RowsOK, Grown

LEMMA NoneGrow ==
  ASSUME TypeOK, RowsOK, UNCHANGED ticket
  PROVE  TicketsGrow
BY DEF TicketsGrow, TypeOK, RowsOK, Grown

\* A customer is heard.
LEMMA HearGrows ==
  ASSUME TypeOK, RowsOK, NEW t, NEW copy \in Copy, Hear(t, copy)
  PROVE  TicketsGrow
<1>1. t \in Tickets => Grown(ticket[t], Reopened(ticket[t], copy))
  BY ReopenedGrows DEF TypeOK, RowsOK
<1> QED BY <1>1, GrowOne DEF Hear

\* A ticket is opened.
LEMMA OpenGrows ==
  ASSUME TypeOK, RowsOK, NEW t \in Tickets, ~ticket[t].there,
         ticket' = [ticket EXCEPT ![t] = NewTicket]
  PROVE  TicketsGrow
<1>1. NewTicket \in Ticket /\ NewTicket.there /\ Stamped(NewTicket)
  BY DEF NewTicket, NoTicket, Ticket, Statuses, Stamped
<1>2. ticket[t] \in Ticket
  BY DEF TypeOK
<1> QED BY <1>1, <1>2, GrowOne DEF Grown
-----------------------------------------------------------------------------
(* What the invariant needs of a step, part by part.                       *)

LEMMA RowsStep ==
  ASSUME DeskInv, TicketsGrow,
         \A r \in Replies : reply'[r].ticket = reply[r].ticket,
         reply' \in [Replies -> Reply]
  PROVE  RowsOK'
<1>1. \A t \in Tickets : Stamped(ticket'[t])
  BY DEF TicketsGrow, Grown
<1>2. ASSUME NEW r \in Replies, reply'[r].ticket # Nobody
      PROVE  Answering(ticket'[reply'[r].ticket])
  <2>1. reply[r].ticket \in Tickets
    BY <1>2 DEF DeskInv, TypeOK, Reply
  <2>2. Answering(ticket[reply[r].ticket])
    BY <1>2 DEF DeskInv, RowsOK
  <2> QED BY <2>1, <2>2 DEF TicketsGrow, Grown, Answering
<1> QED BY <1>1, <1>2 DEF RowsOK

LEMMA FramesStep ==
  ASSUME DeskInv, TicketsGrow,
         \A r \in Replies : reply[r].ticket # Nobody => reply'[r].ticket # Nobody,
         \A g \in Handlers :
           \/ /\ frame'[g] = frame[g]
              /\ frame[g].task = "reply" => sender'[frame[g].reply].pc = "none"
           \/ FrameOK(frame'[g], ticket', reply', sender')
  PROVE  FramesOK'
<1> SUFFICES ASSUME NEW g \in Handlers, frame'[g] = frame[g],
                    frame[g].task = "reply" => sender'[frame[g].reply].pc = "none"
             PROVE  FrameOK(frame[g], ticket', reply', sender')
  BY DEF FramesOK
<1>1. FrameOK(frame[g], ticket, reply, sender) /\ frame[g] \in Frame
  BY DEF DeskInv, FramesOK, TypeOK
<1>2. frame[g].ticket # Nobody => frame[g].ticket \in Tickets
  BY <1>1 DEF Frame
<1>3. frame[g].ticket # Nobody => ticket'[frame[g].ticket].there
  BY <1>1, <1>2 DEF TicketsGrow, Grown, FrameOK
<1>4. frame[g].task = "reply" /\ frame[g].pc = "save" /\ frame[g].copy.status # "NEW" =>
        ticket'[frame[g].ticket].status # "NEW"
  BY <1>1, TicketAssumption DEF TicketsGrow, Grown, FrameOK
<1> QED BY <1>1, <1>3, <1>4 DEF FrameOK

LEMMA WriterStep ==
  ASSUME OneWriter, \A g \in Handlers : frame'[g].reply \in {Nobody, frame[g].reply}
  PROVE  OneWriter'
BY DEF OneWriter

\* A handler's step that leaves the replies and their senders alone.
LEMMA HandlerStep ==
  ASSUME DeskInv, TicketsGrow, UNCHANGED <<reply, sender, transport>>,
         mail' \in [Mails -> Mail], crashes' \in 0..MaxCrashes,
         NEW h \in Handlers, NEW f \in Frame, Goto(h, f),
         FrameOK(f, ticket', reply, sender), f.reply \in {Nobody, frame[h].reply}
  PROVE  DeskInv'
<1>1. frame' \in [Handlers -> Frame] /\ frame'[h] = f
      /\ \A g \in Handlers \ {h} : frame'[g] = frame[g]
  BY DEF Goto, DeskInv, TypeOK
<1>2. TypeOK'
  BY <1>1 DEF DeskInv, TypeOK, TicketsGrow
<1>3. RowsOK'
  BY <1>2, RowsStep DEF TypeOK
<1>4. \A g \in Handlers : frame[g].task = "reply" => sender[frame[g].reply].pc = "none"
  BY DEF DeskInv, FramesOK, FrameOK
<1>5. FramesOK'
  BY <1>1, <1>4, FramesStep
<1>6. OneWriter'
  BY <1>1, WriterStep DEF DeskInv
<1>7. SendersOK'
  BY DEF DeskInv, SendersOK
<1> QED BY <1>2, <1>3, <1>5, <1>6, <1>7 DEF DeskInv

LEMMA IdleOK ==
  ASSUME NEW tk, NEW rp, NEW sd
  PROVE  Idle \in Frame /\ FrameOK(Idle, tk, rp, sd)
BY DEF Idle, Frame, FrameOK, NoCopy, Copy, Statuses, Tasks

\* The same when the handler's work is over.
LEMMA DoneStep ==
  ASSUME DeskInv, TicketsGrow, UNCHANGED <<reply, sender, transport>>,
         mail' \in [Mails -> Mail], crashes' \in 0..MaxCrashes,
         NEW h \in Handlers, Done(h)
  PROVE  DeskInv'
<1>1. Idle.reply = Nobody
  BY DEF Idle
<1> QED BY <1>1, IdleOK, HandlerStep DEF Done
-----------------------------------------------------------------------------
(* Requests that begin.                                                    *)

LEMMA TicketTyped ==
  ASSUME DeskInv, NEW t \in Tickets
  PROVE  ticket[t] \in Ticket /\ Read(t) \in Copy
BY DEF DeskInv, TypeOK, Ticket, Read, Copy

\* A request other than a reply's.
LEMMA BeginStep ==
  ASSUME DeskInv, NEW h \in Handlers, NEW f \in Frame, Begin(h, f), f.reply = Nobody,
         f.ticket \in Tickets, f.task \in {"status", "customer", "take", "assign"},
         f.task = "status" => f.to # "NEW", f.task \in {"take", "assign"} => f.agent \in Agents
  PROVE  DeskInv'
<1> DEFINE e == [f EXCEPT !.pc = "save"]
<1>1. e \in Frame /\ e.reply = Nobody
  BY DEF Frame
<1>2. Goto(h, e) /\ UNCHANGED <<ticket, reply, sender, mail, transport, crashes>>
  BY DEF Begin
<1>3. ticket[f.ticket].there /\ e.ticket = f.ticket /\ e.task = f.task /\ e.to = f.to
      /\ e.agent = f.agent /\ e.pc = "save"
  BY DEF Begin, Frame
<1>4. FrameOK(e, ticket, reply, sender)
  BY <1>3 DEF FrameOK
<1> HIDE DEF e
<1>5. TicketsGrow
  BY <1>2, NoneGrow DEF DeskInv
<1>6. mail' \in [Mails -> Mail] /\ crashes' \in 0..MaxCrashes
  BY <1>2 DEF DeskInv, TypeOK
<1> QED BY <1>1, <1>2, <1>4, <1>5, <1>6, HandlerStep

LEMMA BeginReplyStep ==
  ASSUME DeskInv, NEW h \in Handlers, NEW t \in Tickets, NEW r \in Replies, BeginReply(h, t, r)
  PROVE  DeskInv'
<1> DEFINE f == [Idle EXCEPT !.task = "reply", !.ticket = t, !.reply = r,
                             !.copy = [Read(t) EXCEPT !.resolved = FALSE], !.pc = "save"]
<1>1. f \in Frame
  BY TicketTyped, IdleOK DEF Frame, Copy, Tasks
<1>2. Goto(h, f) /\ UNCHANGED <<ticket, reply, sender, mail, transport, crashes>>
      /\ ticket[t].there
  BY DEF BeginReply, Begin, Idle
<1>3. reply[r] = NoReply /\ \A g \in Handlers : frame[g].reply # r
  BY DEF BeginReply
<1>4. /\ f.ticket = t /\ f.reply = r /\ f.task = "reply" /\ f.pc = "save"
      /\ f.copy.status = ticket[t].status
  BY DEF Idle, Read
<1> HIDE DEF f
<1>5. sender[r].pc = "none"
  BY <1>3 DEF DeskInv, SendersOK, SenderOK, NoReply
<1>6. FrameOK(f, ticket, reply, sender)
  BY <1>2, <1>4, <1>5 DEF FrameOK
<1>7. frame' \in [Handlers -> Frame] /\ frame'[h] = f
      /\ \A g \in Handlers \ {h} : frame'[g] = frame[g]
  BY <1>1, <1>2 DEF Goto, DeskInv, TypeOK
<1>8. TypeOK'
  BY <1>2, <1>7 DEF DeskInv, TypeOK
<1>9. TicketsGrow
  BY <1>2, NoneGrow DEF DeskInv
<1>10. RowsOK'
  BY <1>2, <1>9, <1>8, RowsStep DEF TypeOK
<1>11. FramesOK'
  BY <1>2, <1>6, <1>7 DEF DeskInv, FramesOK
<1>12. OneWriter'
  BY <1>3, <1>4, <1>7 DEF DeskInv, OneWriter
<1>13. SendersOK'
  BY <1>2 DEF DeskInv, SendersOK
<1> QED BY <1>8, <1>10, <1>11, <1>12, <1>13 DEF DeskInv

LEMMA RequestStep ==
  ASSUME DeskInv, NEW h \in Handlers, Requests(h)
  PROVE  DeskInv'
<1> PICK t \in Tickets :
      \/ \E to \in Statuses : BeginStatus(h, t, to)
      \/ \E a \in Agents : BeginTake(h, t, a) \/ BeginAssign(h, t, a)
      \/ \E r \in Replies : BeginReply(h, t, r)
      \/ BeginCustomer(h, t)
  BY DEF Requests
<1>1. ASSUME NEW to \in Statuses, BeginStatus(h, t, to) PROVE DeskInv'
  <2> DEFINE f == [Idle EXCEPT !.task = "status", !.ticket = t, !.to = to, !.copy = Read(t)]
  <2>1. f \in Frame /\ f.reply = Nobody /\ f.ticket = t /\ f.task = "status" /\ f.to = to
    BY TicketTyped, IdleOK DEF Frame, Tasks, Idle
  <2>2. to # "NEW"
    BY <1>1, TicketTyped DEF BeginStatus, Allowed, Ticket, Statuses
  <2>3. Begin(h, f)
    BY <1>1 DEF BeginStatus
  <2> HIDE DEF f
  <2> QED BY <2>1, <2>2, <2>3, BeginStep
<1>2. ASSUME NEW a \in Agents, BeginTake(h, t, a) PROVE DeskInv'
  <2> DEFINE f == [Idle EXCEPT !.task = "take", !.ticket = t, !.agent = a]
  <2>1. f \in Frame /\ f.reply = Nobody /\ f.ticket = t /\ f.task = "take" /\ f.agent = a
    BY IdleOK DEF Frame, Tasks, Idle
  <2>2. Begin(h, f)
    BY <1>2 DEF BeginTake
  <2> HIDE DEF f
  <2> QED BY <2>1, <2>2, BeginStep
<1>3. ASSUME NEW a \in Agents, BeginAssign(h, t, a) PROVE DeskInv'
  <2> DEFINE f == [Idle EXCEPT !.task = "assign", !.ticket = t, !.agent = a]
  <2>1. f \in Frame /\ f.reply = Nobody /\ f.ticket = t /\ f.task = "assign" /\ f.agent = a
    BY IdleOK DEF Frame, Tasks, Idle
  <2>2. Begin(h, f)
    BY <1>3 DEF BeginAssign
  <2> HIDE DEF f
  <2> QED BY <2>1, <2>2, BeginStep
<1>4. ASSUME BeginCustomer(h, t) PROVE DeskInv'
  <2> DEFINE f == [Idle EXCEPT !.task = "customer", !.ticket = t, !.copy = Read(t)]
  <2>1. f \in Frame /\ f.reply = Nobody /\ f.ticket = t /\ f.task = "customer"
    BY TicketTyped, IdleOK DEF Frame, Tasks, Idle
  <2>2. Begin(h, f)
    BY <1>4 DEF BeginCustomer
  <2> HIDE DEF f
  <2> QED BY <2>1, <2>2, BeginStep
<1> QED BY <1>1, <1>2, <1>3, <1>4, BeginReplyStep
-----------------------------------------------------------------------------
(* Requests that save.                                                     *)

\* The frame a step starts from.
LEMMA FrameHere ==
  ASSUME DeskInv, NEW h \in Handlers
  PROVE  frame[h] \in Frame /\ FrameOK(frame[h], ticket, reply, sender)
BY DEF DeskInv, TypeOK, FramesOK

LEMMA SaveStatusStep ==
  ASSUME DeskInv, NEW h \in Handlers, SaveStatus(h)
  PROVE  DeskInv'
<1>1. frame[h].to \in Statuses \ {"NEW"} /\ frame[h].copy \in Copy
  BY FrameHere DEF SaveStatus, At, Frame, FrameOK
<1>2. frame[h].ticket \in Tickets =>
        Grown(ticket[frame[h].ticket], Transition(ticket[frame[h].ticket], frame[h].copy, frame[h].to))
  BY <1>1, TransitionGrows, TicketTyped
<1>3. TicketsGrow
  BY <1>2, GrowOne DEF SaveStatus, DeskInv
<1> QED BY <1>3, DoneStep DEF SaveStatus, DeskInv, TypeOK

\* Who holds a ticket is no concern of the rest of its row.
LEMMA HeldGrows ==
  ASSUME NEW row \in Ticket, Stamped(row), NEW a \in Agents
  PROVE  Grown(row, [row EXCEPT !.assigned = a])
BY DEF Grown, Stamped, Ticket

LEMMA AssignStep ==
  ASSUME DeskInv, NEW h \in Handlers, Take(h) \/ Assign(h)
  PROVE  DeskInv'
<1> DEFINE t == frame[h].ticket
           a == frame[h].agent
<1>1. a \in Agents
  BY FrameHere DEF Take, Assign, At, FrameOK
<1>2. t \in Tickets => Grown(ticket[t], [ticket[t] EXCEPT !.assigned = a])
  BY <1>1, HeldGrows, TicketTyped DEF DeskInv, RowsOK
<1>3. \/ UNCHANGED ticket
      \/ ticket' = [ticket EXCEPT ![t] = [ticket[t] EXCEPT !.assigned = a]]
  BY DEF Take, Assign
<1> HIDE DEF t, a
<1>4. TicketsGrow
  BY <1>2, <1>3, NoneGrow, GrowOne DEF DeskInv
<1> QED BY <1>4, DoneStep DEF Take, Assign, DeskInv, TypeOK

LEMMA SaveCustomerStep ==
  ASSUME DeskInv, NEW h \in Handlers, SaveCustomer(h)
  PROVE  DeskInv'
<1>1. frame[h].copy \in Copy
  BY FrameHere DEF Frame
<1>2. TicketsGrow
  BY <1>1, HearGrows DEF SaveCustomer, DeskInv
<1> QED BY <1>2, DoneStep DEF SaveCustomer, DeskInv, TypeOK

\* The row a reply leaves is answered.
LEMMA AnsweredGrows ==
  ASSUME NEW row \in Ticket, NEW copy \in Copy, Stamped(row), row.there,
         copy.status # "NEW" => row.status # "NEW"
  PROVE  Grown(row, Answered(row, copy)) /\ Answering(Answered(row, copy))
BY DEF Grown, Stamped, Answering, Answered, Ticket, Statuses

LEMMA SaveReplyStep ==
  ASSUME DeskInv, NEW h \in Handlers, SaveReply(h)
  PROVE  DeskInv'
<1> DEFINE t == frame[h].ticket
           r == frame[h].reply
           new == [NoReply EXCEPT !.ticket = t, !.delivery = "PENDING"]
           f == [frame[h] EXCEPT !.pc = "queue", !.copy = NoCopy]
<1>1. /\ t \in Tickets /\ r \in Replies /\ sender[r].pc = "none"
      /\ ticket[t].there
      /\ frame[h].copy.status # "NEW" => ticket[t].status # "NEW"
      /\ frame[h].copy \in Copy /\ frame[h] \in Frame /\ frame[h].task = "reply"
  BY FrameHere, TicketAssumption DEF SaveReply, At, Frame, FrameOK
<1>2. /\ reply' = [reply EXCEPT ![r] = new]
      /\ ticket' = [ticket EXCEPT ![t] = Answered(ticket[t], frame[h].copy)]
      /\ Goto(h, f)
      /\ UNCHANGED <<sender, mail, transport, crashes>>
  BY DEF SaveReply
<1>3. Grown(ticket[t], Answered(ticket[t], frame[h].copy)) /\ Answering(Answered(ticket[t], frame[h].copy))
  BY <1>1, AnsweredGrows, TicketTyped DEF DeskInv, RowsOK
<1>4. new \in Reply /\ new.ticket = t /\ new.ticket # Nobody /\ new.mailed = 0 /\ new.delivery = "PENDING"
  <2>1. 0 \in 0..(MaxRetries + 1)
    BY TicketAssumption
  <2>2. new.ticket = t /\ new.mailed = 0 /\ new.delivery = "PENDING"
    BY DEF NoReply
  <2>3. new \in Reply
    BY <1>1, <2>1 DEF NoReply, Reply
  <2>4. t # Nobody
    BY <1>1, TicketAssumption
  <2> QED BY <2>2, <2>3, <2>4
<1>5. f \in Frame /\ f.ticket = t /\ f.reply = r /\ f.task = "reply" /\ f.pc = "queue"
  BY <1>1 DEF Frame, NoCopy, Copy, Statuses
<1> HIDE DEF t, r, new, f
<1>6. TicketsGrow
  BY <1>2, <1>3, GrowOne DEF DeskInv
<1>7. frame' \in [Handlers -> Frame] /\ frame'[h] = f
      /\ \A g \in Handlers \ {h} : frame'[g] = frame[g]
  BY <1>2, <1>5 DEF Goto, DeskInv, TypeOK
<1>8. /\ reply' \in [Replies -> Reply] /\ reply'[r] = new
      /\ \A q \in Replies \ {r} : reply'[q] = reply[q]
  BY <1>1, <1>2, <1>4 DEF DeskInv, TypeOK
<1>9. TypeOK'
  BY <1>2, <1>6, <1>7, <1>8 DEF DeskInv, TypeOK, TicketsGrow
<1>10. RowsOK'
  <2>1. \A u \in Tickets : Stamped(ticket'[u])
    BY <1>6 DEF TicketsGrow, Grown
  <2>2. Answering(ticket'[t])
    BY <1>1, <1>2, <1>3 DEF DeskInv, TypeOK
  <2>3. ASSUME NEW q \in Replies \ {r}, reply'[q].ticket # Nobody
        PROVE  Answering(ticket'[reply'[q].ticket])
    <3>1. reply[q].ticket \in Tickets /\ Answering(ticket[reply[q].ticket])
      BY <1>8, <2>3 DEF DeskInv, TypeOK, Reply, RowsOK
    <3> QED BY <1>8, <3>1, <1>6 DEF TicketsGrow, Grown, Answering
  <2> QED BY <1>4, <1>8, <2>1, <2>2, <2>3 DEF RowsOK
<1>11. FramesOK'
  <2>1. FrameOK(f, ticket', reply', sender')
    BY <1>1, <1>2, <1>4, <1>5, <1>6, <1>8 DEF FrameOK, TicketsGrow, Grown
  <2>2. \A g \in Handlers : frame[g].task = "reply" => sender'[frame[g].reply].pc = "none"
    BY <1>2 DEF DeskInv, FramesOK, FrameOK
  <2> QED BY <1>4, <1>6, <1>7, <1>8, <2>1, <2>2, FramesStep
<1>12. OneWriter'
  BY <1>5, <1>7, WriterStep DEF DeskInv, r
<1>13. SendersOK'
  BY <1>1, <1>2, <1>4, <1>8 DEF DeskInv, SendersOK, SenderOK
<1> QED BY <1>9, <1>10, <1>11, <1>12, <1>13 DEF DeskInv

LEMMA QueueReplyStep ==
  ASSUME DeskInv, NEW h \in Handlers, QueueReply(h)
  PROVE  DeskInv'
<1> DEFINE r == frame[h].reply
<1>1. /\ r \in Replies /\ sender[r].pc = "none" /\ reply[r].ticket # Nobody
      /\ frame[h].task = "reply"
  BY FrameHere DEF QueueReply, At, FrameOK
<1>2. PICK pc \in {"queued", "lost"} : sender' = [sender EXCEPT ![r].pc = pc]
  BY DEF QueueReply
<1>3. Goto(h, Idle) /\ UNCHANGED <<ticket, reply, mail, transport, crashes>>
  BY DEF QueueReply, Done
<1>4. Idle.reply = Nobody /\ r # Nobody
  BY <1>1, TicketAssumption DEF Idle
<1> HIDE DEF r
<1>5. /\ sender' \in [Replies -> Sender] /\ sender'[r].pc = pc
      /\ sender'[r].retries = sender[r].retries
      /\ \A q \in Replies \ {r} : sender'[q] = sender[q]
  BY <1>1, <1>2 DEF DeskInv, TypeOK, Sender
<1>6. frame' \in [Handlers -> Frame] /\ frame'[h] = Idle
      /\ \A g \in Handlers \ {h} : frame'[g] = frame[g]
  BY <1>3, IdleOK DEF Goto, DeskInv, TypeOK
<1>7. TypeOK'
  BY <1>3, <1>5, <1>6 DEF DeskInv, TypeOK
<1>8. TicketsGrow
  BY <1>3, NoneGrow DEF DeskInv
<1>9. RowsOK'
  BY <1>3, <1>7, <1>8, RowsStep DEF TypeOK
<1>10. FramesOK'
  <2>1. ASSUME NEW g \in Handlers \ {h}, frame[g].task = "reply"
        PROVE  sender'[frame[g].reply].pc = "none"
    <3>1. frame[g].reply \in Replies /\ sender[frame[g].reply].pc = "none"
      BY <2>1, FrameHere DEF FrameOK
    <3>2. frame[g].reply # r
      BY <1>4 DEF DeskInv, OneWriter, r
    <3> QED BY <1>5, <3>1, <3>2
  <2> QED BY <1>3, <1>6, <1>8, <2>1, IdleOK, FramesStep
<1>11. OneWriter'
  BY <1>4, <1>6, WriterStep DEF DeskInv
<1>12. SendersOK'
  <2>1. SenderOK(reply'[r], sender'[r])
    <3>1. sender[r].retries = 0 /\ reply[r].mailed = 0
          /\ (reply[r].delivery = "SENT" => reply[r].mailed > 0)
      BY <1>1 DEF DeskInv, SendersOK, SenderOK
    <3> QED BY <1>1, <1>3, <1>5, <3>1 DEF SenderOK
  <2> QED BY <1>3, <1>5, <2>1 DEF DeskInv, SendersOK
<1> QED BY <1>7, <1>9, <1>10, <1>11, <1>12 DEF DeskInv
-----------------------------------------------------------------------------
(* The mailbox.                                                            *)

LEMMA TroublingTyped ==
  ASSUME DeskInv, NEW xs
  PROVE  Troubling(xs) \in [Mails -> Mail]
BY DEF Troubling, DeskInv, TypeOK, Mail

LEMMA TakeMailsStep ==
  ASSUME DeskInv, NEW h \in Handlers, NEW xs \in SUBSET Mails, TakeMails(h, xs)
  PROVE  DeskInv'
<1> DEFINE f == [Idle EXCEPT !.task = "collect", !.pc = "next", !.fetched = xs]
<1>1. f \in Frame /\ f.reply = Nobody
  BY IdleOK DEF Frame, Tasks, Idle
<1>2. FrameOK(f, ticket, reply, sender)
  BY DEF FrameOK, Idle
<1>3. Goto(h, f) /\ UNCHANGED <<ticket, reply, sender, transport, crashes>>
  BY DEF TakeMails
<1>4. mail' \in [Mails -> Mail]
  BY TroublingTyped DEF TakeMails
<1> HIDE DEF f
<1>5. TicketsGrow
  BY <1>3, NoneGrow DEF DeskInv
<1>6. crashes' \in 0..MaxCrashes
  BY <1>3 DEF DeskInv, TypeOK
<1> QED BY <1>1, <1>2, <1>3, <1>4, <1>5, <1>6, HandlerStep

LEMMA MatchMailStep ==
  ASSUME DeskInv, NEW h \in Handlers, NEW x \in Mails, MatchMail(h, x)
  PROVE  DeskInv'
<1> DEFINE t == mail[x].about
           found == [frame[h] EXCEPT !.pc = "save", !.mail = x, !.ticket = t, !.copy = Read(t)]
           alone == [frame[h] EXCEPT !.pc = "save", !.mail = x]
<1>1. frame[h] \in Frame /\ frame[h].task = "collect" /\ FrameOK(frame[h], ticket, reply, sender)
  BY FrameHere DEF MatchMail, At
<1>2. TicketsGrow
  BY NoneGrow DEF DeskInv, MatchMail
<1>3. mail' \in [Mails -> Mail] /\ crashes' \in 0..MaxCrashes
      /\ UNCHANGED <<ticket, reply, sender, transport>>
  BY DEF MatchMail, DeskInv, TypeOK
<1>4. CASE t # Nobody /\ ticket[t].there
  <2>1. t \in Tickets
    BY <1>4 DEF DeskInv, TypeOK, Mail
  <2>2. found \in Frame /\ found.reply = frame[h].reply
    BY <1>1, <2>1, TicketTyped DEF Frame
  <2>3. FrameOK(found, ticket, reply, sender)
    BY <1>1, <1>4, <2>1 DEF Frame, FrameOK
  <2>4. Goto(h, found)
    BY <1>4 DEF MatchMail
  <2> HIDE DEF found
  <2> QED BY <1>2, <1>3, <2>2, <2>3, <2>4, HandlerStep
<1>5. CASE ~(t # Nobody /\ ticket[t].there)
  <2>1. alone \in Frame /\ alone.reply = frame[h].reply
    BY <1>1 DEF Frame
  <2>2. FrameOK(alone, ticket, reply, sender)
    BY <1>1 DEF Frame, FrameOK
  <2>3. Goto(h, alone)
    BY <1>5 DEF MatchMail
  <2> HIDE DEF alone
  <2> QED BY <1>2, <1>3, <2>1, <2>2, <2>3, HandlerStep
<1> QED BY <1>4, <1>5

\* Whatever ingest made of a mail, it is in the log and the handler goes on.
LEMMA LoggedStep ==
  ASSUME DeskInv, NEW h \in Handlers, At(h, "collect", "save"), TicketsGrow, Logged(h)
  PROVE  DeskInv'
<1> DEFINE f == [frame[h] EXCEPT
                   !.pc = IF frame[h].stored \cup {frame[h].mail} = frame[h].fetched
                          THEN "mark" ELSE "next",
                   !.stored = frame[h].stored \cup {frame[h].mail}, !.mail = Nobody,
                   !.ticket = Nobody, !.copy = NoCopy]
<1>1. frame[h] \in Frame /\ frame[h].task = "collect" /\ frame[h].mail \in Mails
  BY FrameHere DEF At, FrameOK
<1>2. f \in Frame /\ f.reply = frame[h].reply /\ f.task = "collect" /\ f.ticket = Nobody
      /\ f.pc \in {"mark", "next"}
  BY <1>1 DEF Frame, NoCopy, Copy, Statuses
<1>3. FrameOK(f, ticket', reply, sender)
  BY <1>2 DEF FrameOK
<1>4. Goto(h, f) /\ UNCHANGED <<reply, sender, transport, crashes>>
  BY DEF Logged
<1>5. mail' \in [Mails -> Mail]
  BY <1>1 DEF Logged, DeskInv, TypeOK, Mail
<1> HIDE DEF f
<1>6. crashes' \in 0..MaxCrashes
  BY <1>4 DEF DeskInv, TypeOK
<1> QED BY <1>2, <1>3, <1>4, <1>5, <1>6, HandlerStep

LEMMA IngestStep ==
  ASSUME DeskInv, NEW h \in Handlers, IngestReply(h) \/ IngestNew(h) \/ IngestError(h)
  PROVE  DeskInv'
<1>1. CASE IngestReply(h)
  <2>1. frame[h].copy \in Copy
    BY FrameHere DEF Frame
  <2>2. TicketsGrow
    BY <1>1, <2>1, HearGrows DEF IngestReply, DeskInv
  <2> QED BY <1>1, <2>2, LoggedStep DEF IngestReply
<1>2. CASE IngestNew(h)
  <2>1. TicketsGrow
    BY <1>2, OpenGrows, NoneGrow DEF IngestNew, DeskInv
  <2> QED BY <1>2, <2>1, LoggedStep DEF IngestNew
<1>3. CASE IngestError(h)
  <2>1. TicketsGrow
    BY <1>3, NoneGrow DEF IngestError, DeskInv
  <2> QED BY <1>3, <2>1, LoggedStep DEF IngestError
<1> QED BY <1>1, <1>2, <1>3

LEMMA MarkSeenStep ==
  ASSUME DeskInv, NEW h \in Handlers, MarkSeen(h)
  PROVE  DeskInv'
<1>1. PICK x \in frame[h].stored :
        /\ mail' = [mail EXCEPT ![x].place = "seen"]
        /\ Goto(h, IF frame[h].stored = {x} THEN Idle
                   ELSE [frame[h] EXCEPT !.stored = @ \ {x}, !.fetched = @ \ {x}])
  BY DEF MarkSeen
<1>2. /\ frame[h] \in Frame /\ frame[h].task = "collect" /\ frame[h].pc = "mark"
      /\ FrameOK(frame[h], ticket, reply, sender)
  BY FrameHere DEF MarkSeen, At
<1>3. /\ mail' \in [Mails -> Mail] /\ crashes' \in 0..MaxCrashes
      /\ UNCHANGED <<ticket, reply, sender, transport>>
  <2>1. x \in Mails
    BY <1>2 DEF Frame
  <2>2. mail[x] \in Mail /\ [mail[x] EXCEPT !.place = "seen"] \in Mail
    BY <2>1 DEF DeskInv, TypeOK, Mail
  <2> QED BY <1>1, <2>1, <2>2 DEF MarkSeen, DeskInv, TypeOK
<1>4. TicketsGrow
  BY NoneGrow DEF MarkSeen, DeskInv
<1>5. CASE frame[h].stored = {x}
  BY <1>1, <1>3, <1>4, <1>5, DoneStep DEF Done
<1>6. CASE frame[h].stored # {x}
  <2> DEFINE f == [frame[h] EXCEPT !.stored = @ \ {x}, !.fetched = @ \ {x}]
  <2>1. f \in Frame /\ f.reply = frame[h].reply
    BY <1>2 DEF Frame
  <2>2. FrameOK(f, ticket, reply, sender)
    BY <1>2 DEF Frame, FrameOK
  <2>3. Goto(h, f)
    BY <1>1, <1>6
  <2> HIDE DEF f
  <2> QED BY <1>3, <1>4, <2>1, <2>2, <2>3, HandlerStep
<1> QED BY <1>5, <1>6
-----------------------------------------------------------------------------
(* Customers, senders and deaths.                                          *)

\* A step no handler makes, which leaves the replies and their senders alone.
LEMMA WorldStep ==
  ASSUME DeskInv, TicketsGrow, mail' \in [Mails -> Mail],
         UNCHANGED <<reply, sender, transport, frame, crashes>>
  PROVE  DeskInv'
<1>1. TypeOK'
  BY DEF DeskInv, TypeOK, TicketsGrow
<1>2. RowsOK'
  BY <1>1, RowsStep DEF TypeOK
<1>3. \A g \in Handlers : frame[g].task = "reply" => sender[frame[g].reply].pc = "none"
  BY DEF DeskInv, FramesOK, FrameOK
<1>4. FramesOK'
  BY <1>3, FramesStep
<1> QED BY <1>1, <1>2, <1>4 DEF DeskInv, OneWriter, SendersOK

LEMMA CustomersStep ==
  ASSUME DeskInv, Customers
  PROVE  DeskInv'
<1>1. ASSUME NEW t \in Tickets, OpenTicket(t) PROVE DeskInv'
  <2>1. TicketsGrow
    BY <1>1, OpenGrows DEF OpenTicket, DeskInv
  <2> QED BY <1>1, <2>1, WorldStep DEF OpenTicket, DeskInv, TypeOK
<1>2. ASSUME NEW x \in Mails, NEW about \in Tickets \cup {Nobody}, MailArrives(x, about)
      PROVE  DeskInv'
  <2>1. mail' \in [Mails -> Mail]
    BY <1>2 DEF MailArrives, DeskInv, TypeOK, Mail
  <2>2. TicketsGrow
    BY <1>2, NoneGrow DEF MailArrives, DeskInv
  <2> QED BY <1>2, <2>1, <2>2, WorldStep DEF MailArrives
<1> QED BY <1>1, <1>2 DEF Customers

\* A step of a reply's sender, which has begun.
LEMMA SenderStep ==
  ASSUME DeskInv, NEW r \in Replies, sender[r].pc # "none",
         NEW rep \in Reply, NEW snd \in Sender, rep.ticket = reply[r].ticket,
         snd.pc # "none", SenderOK(rep, snd),
         reply' = [reply EXCEPT ![r] = rep], sender' = [sender EXCEPT ![r] = snd],
         UNCHANGED <<ticket, mail, transport, frame>>, crashes' \in 0..MaxCrashes
  PROVE  DeskInv'
<1>1. /\ reply' \in [Replies -> Reply] /\ sender' \in [Replies -> Sender]
      /\ reply'[r] = rep /\ sender'[r] = snd
      /\ \A q \in Replies \ {r} : reply'[q] = reply[q] /\ sender'[q] = sender[q]
  BY DEF DeskInv, TypeOK
<1>2. \A q \in Replies : reply'[q].ticket = reply[q].ticket
  BY <1>1
<1>3. TypeOK'
  BY <1>1 DEF DeskInv, TypeOK
<1>4. TicketsGrow
  BY NoneGrow DEF DeskInv
<1>5. RowsOK'
  BY <1>2, <1>3, <1>4, RowsStep DEF TypeOK
<1>6. FramesOK'
  <2>1. ASSUME NEW g \in Handlers, frame[g].task = "reply"
        PROVE  sender'[frame[g].reply].pc = "none"
    <3>1. frame[g].reply \in Replies /\ sender[frame[g].reply].pc = "none"
      BY <2>1, FrameHere DEF FrameOK
    <3> QED BY <1>1, <3>1
  <2> QED BY <1>2, <1>4, <2>1, FramesStep
<1>7. SendersOK'
  BY <1>1 DEF DeskInv, SendersOK
<1> QED BY <1>3, <1>5, <1>6, <1>7 DEF DeskInv, OneWriter

\* What is known of a reply and its sender.
LEMMA SenderHere ==
  ASSUME DeskInv, NEW r \in Replies
  PROVE  reply[r] \in Reply /\ sender[r] \in Sender /\ SenderOK(reply[r], sender[r])
BY DEF DeskInv, TypeOK, SendersOK

\* It may die at any step, or have nothing more to do.
LEMMA OverStep ==
  ASSUME DeskInv, NEW r \in Replies, sender[r].pc # "none", NEW pc \in {"over", "lost"},
         NEW delivery \in {"none", "PENDING", "SENT", "FAILED"},
         pc = "over" => delivery \in {"SENT", "FAILED"},
         delivery = "SENT" => reply[r].mailed > 0,
         reply' = [reply EXCEPT ![r] = [reply[r] EXCEPT !.delivery = delivery]], Over(r, pc),
         UNCHANGED <<ticket, mail, transport, frame>>, crashes' \in 0..MaxCrashes
  PROVE  DeskInv'
<1> DEFINE rep == [reply[r] EXCEPT !.delivery = delivery]
           snd == [pc |-> pc, retries |-> 0]
<1>1. rep \in Reply /\ rep.ticket = reply[r].ticket /\ rep.mailed = reply[r].mailed
      /\ rep.delivery = delivery
  BY SenderHere DEF Reply
<1>2. 0 \in 0..MaxRetries
  BY TicketAssumption
<1>3. snd \in Sender /\ snd.pc = pc
  BY <1>2 DEF Sender
<1>4. reply' = [reply EXCEPT ![r] = rep] /\ sender' = [sender EXCEPT ![r] = snd]
  BY DEF Over
<1> HIDE DEF rep, snd
<1>5. rep.ticket # Nobody
  BY <1>1, SenderHere DEF SenderOK
<1>6. SenderOK(rep, snd)
  BY <1>1, <1>3, <1>5 DEF SenderOK
<1> QED BY <1>1, <1>3, <1>4, <1>6, SenderStep

\* The attempt moves on, another copy of the mail having left or not.
LEMMA AttemptStep ==
  ASSUME DeskInv, NEW r \in Replies, sender[r].pc = "queued",
         NEW n \in {0, 1}, NEW pc \in {"accepted", "refused"}, pc = "accepted" => n = 1,
         reply' = [reply EXCEPT ![r].mailed = @ + n], Step(r, pc), UNCHANGED RestOfDesk
  PROVE  DeskInv'
<1> DEFINE rep == [reply[r] EXCEPT !.mailed = reply[r].mailed + n]
           snd == [sender[r] EXCEPT !.pc = pc]
<1>1. reply[r].mailed \in Nat /\ sender[r].retries \in 0..MaxRetries
      /\ reply[r].mailed <= sender[r].retries
  BY SenderHere DEF Reply, Sender, SenderOK
<1>2. reply[r].mailed + n \in 0..(MaxRetries + 1) /\ reply[r].mailed + n <= sender[r].retries + 1
      /\ (n = 1 => reply[r].mailed + n > 0) /\ reply[r].mailed + n >= reply[r].mailed
  BY <1>1, TicketAssumption
<1>3. rep \in Reply /\ rep.ticket = reply[r].ticket /\ rep.mailed = reply[r].mailed + n
      /\ rep.delivery = reply[r].delivery
  BY <1>2, SenderHere DEF Reply
<1>4. snd \in Sender /\ snd.pc = pc /\ snd.retries = sender[r].retries
  BY SenderHere DEF Sender
<1>5. reply' = [reply EXCEPT ![r] = rep] /\ sender' = [sender EXCEPT ![r] = snd]
  BY DEF Step
<1> HIDE DEF rep, snd
<1>6. rep.ticket # Nobody /\ (rep.delivery = "SENT" => rep.mailed > 0)
  BY <1>1, <1>2, <1>3, SenderHere DEF SenderOK
<1>7. SenderOK(rep, snd)
  BY <1>2, <1>3, <1>4, <1>6 DEF SenderOK
<1> QED BY <1>3, <1>4, <1>5, <1>7, SenderStep DEF RestOfDesk, DeskInv, TypeOK

LEMMA RecordFailureStep ==
  ASSUME DeskInv, NEW r \in Replies, RecordFailure(r)
  PROVE  DeskInv'
<1> DEFINE rep == [reply[r] EXCEPT !.delivery = "FAILED"]
           snd == [sender[r] EXCEPT !.pc = "retry"]
<1>1. rep \in Reply /\ rep.ticket = reply[r].ticket /\ rep.mailed = reply[r].mailed
      /\ rep.delivery = "FAILED"
  BY SenderHere DEF Reply
<1>2. snd \in Sender /\ snd.pc = "retry" /\ snd.retries = sender[r].retries
  BY SenderHere DEF Sender
<1>3. reply' = [reply EXCEPT ![r] = rep] /\ sender' = [sender EXCEPT ![r] = snd]
      /\ sender[r].pc = "refused"
  BY DEF RecordFailure, Deliver, Step
<1> HIDE DEF rep, snd
<1>4. SenderOK(rep, snd)
  BY <1>1, <1>2, <1>3, SenderHere DEF SenderOK
<1> QED BY <1>1, <1>2, <1>3, <1>4, SenderStep DEF RecordFailure, RestOfDesk, DeskInv, TypeOK

LEMMA RetryStep ==
  ASSUME DeskInv, NEW r \in Replies, Retry(r)
  PROVE  DeskInv'
<1>1. sender[r].pc = "retry" /\ UNCHANGED <<reply, RestOfDesk>>
  BY DEF Retry
<1>2. crashes' \in 0..MaxCrashes
  BY <1>1 DEF RestOfDesk, DeskInv, TypeOK
<1>3. reply' = [reply EXCEPT ![r] = reply[r]]
  BY <1>1 DEF DeskInv, TypeOK
<1>4. CASE sender[r].retries < MaxRetries
  <2> DEFINE snd == [pc |-> "queued", retries |-> sender[r].retries + 1]
  <2>1. sender[r].retries + 1 \in 0..MaxRetries
    BY <1>4, SenderHere, TicketAssumption DEF Sender
  <2>2. snd \in Sender /\ snd.pc = "queued" /\ snd.retries = sender[r].retries + 1
    BY <2>1 DEF Sender
  <2>3. sender' = [sender EXCEPT ![r] = snd]
    BY <1>4 DEF Retry
  <2> HIDE DEF snd
  <2>4. SenderOK(reply[r], snd)
    BY <1>1, <2>2, SenderHere DEF SenderOK
  <2> QED BY <1>1, <1>2, <1>3, <2>2, <2>3, <2>4, SenderHere, SenderStep DEF RestOfDesk
<1>5. CASE ~(sender[r].retries < MaxRetries)
  <2>1. reply[r].delivery = "FAILED"
    BY <1>1, SenderHere DEF SenderOK
  <2>2. reply[r] = [reply[r] EXCEPT !.delivery = "FAILED"]
    BY <2>1, SenderHere DEF Reply
  <2>3. Over(r, "over")
    BY <1>5 DEF Retry
  <2> QED BY <1>1, <1>2, <1>3, <2>2, <2>3, OverStep DEF RestOfDesk
<1> QED BY <1>4, <1>5

LEMMA SendStep ==
  ASSUME DeskInv, NEW r \in Replies, Send(r)
  PROVE  DeskInv'
<1>1. CASE HasNoAddress(r)
  BY <1>1, OverStep DEF HasNoAddress, Deliver, RestOfDesk, DeskInv, TypeOK
<1>2. CASE MailAccepted(r)
  BY <1>2, AttemptStep DEF MailAccepted
<1>3. CASE MailRefused(r)
  BY <1>3, AttemptStep DEF MailRefused
<1>4. CASE RecordSent(r)
  <2>1. reply[r].mailed > 0
    BY <1>4, SenderHere DEF RecordSent, SenderOK
  <2> QED BY <1>4, <2>1, OverStep DEF RecordSent, Deliver, RestOfDesk, DeskInv, TypeOK
<1>5. CASE RecordFailure(r)
  BY <1>5, RecordFailureStep
<1>6. CASE Retry(r)
  BY <1>6, RetryStep
<1> QED BY <1>1, <1>2, <1>3, <1>4, <1>5, <1>6 DEF Send

LEMMA OneMoreCrash ==
  ASSUME DeskInv, crashes < MaxCrashes, crashes' = crashes + 1
  PROVE  crashes' \in 0..MaxCrashes
BY TicketAssumption DEF DeskInv, TypeOK

LEMMA SenderDiesStep ==
  ASSUME DeskInv, NEW r \in Replies, SenderDies(r)
  PROVE  DeskInv'
<1> DEFINE d == reply[r].delivery
<1>1. d \in {"none", "PENDING", "SENT", "FAILED"} /\ (d = "SENT" => reply[r].mailed > 0)
  BY SenderHere DEF Reply, SenderOK
<1>2. reply' = [reply EXCEPT ![r] = [reply[r] EXCEPT !.delivery = d]]
  BY SenderHere DEF SenderDies, DeskInv, TypeOK, Reply
<1>3. sender[r].pc # "none" /\ Over(r, "lost") /\ UNCHANGED <<ticket, mail, transport, frame>>
  BY DEF SenderDies
<1>4. crashes' \in 0..MaxCrashes
  BY OneMoreCrash DEF SenderDies
<1> HIDE DEF d
<1> QED BY <1>1, <1>2, <1>3, <1>4, OverStep

\* A handler that dies between saving a reply and queueing it.
LEMMA WriterDiesStep ==
  ASSUME DeskInv, NEW h \in Handlers, HandlerDies(h), At(h, "reply", "queue")
  PROVE  DeskInv'
<1> DEFINE r == frame[h].reply
           snd == [pc |-> "lost", retries |-> 0]
<1>1. r \in Replies /\ sender[r].pc = "none" /\ reply[r].ticket # Nobody
  BY FrameHere DEF At, FrameOK
<1>2. 0 \in 0..MaxRetries
  BY TicketAssumption
<1>3. snd \in Sender /\ snd.pc = "lost"
  BY <1>2 DEF Sender
<1>4. sender' = [sender EXCEPT ![r] = snd] /\ Goto(h, Idle) /\ UNCHANGED <<ticket, reply, transport>>
  BY DEF HandlerDies, Over, Done
<1>5. mail' \in [Mails -> Mail] /\ crashes' \in 0..MaxCrashes
  BY TroublingTyped, OneMoreCrash DEF HandlerDies
<1>6. Idle.reply = Nobody /\ r # Nobody
  BY <1>1, TicketAssumption DEF Idle
<1> HIDE DEF r, snd
<1>7. /\ sender' \in [Replies -> Sender] /\ sender'[r] = snd
      /\ \A q \in Replies \ {r} : sender'[q] = sender[q]
  BY <1>1, <1>3, <1>4 DEF DeskInv, TypeOK
<1>8. frame' \in [Handlers -> Frame] /\ frame'[h] = Idle
      /\ \A g \in Handlers \ {h} : frame'[g] = frame[g]
  BY <1>4, IdleOK DEF Goto, DeskInv, TypeOK
<1>9. TypeOK'
  BY <1>4, <1>5, <1>7, <1>8 DEF DeskInv, TypeOK
<1>10. TicketsGrow
  BY <1>4, NoneGrow DEF DeskInv
<1>11. RowsOK'
  BY <1>4, <1>9, <1>10, RowsStep DEF TypeOK
<1>12. FramesOK'
  <2>1. ASSUME NEW g \in Handlers \ {h}, frame[g].task = "reply"
        PROVE  sender'[frame[g].reply].pc = "none"
    <3>1. frame[g].reply \in Replies /\ sender[frame[g].reply].pc = "none"
      BY <2>1, FrameHere DEF FrameOK
    <3>2. frame[g].reply # r
      BY <1>6 DEF DeskInv, OneWriter, r
    <3> QED BY <1>7, <3>1, <3>2
  <2> QED BY <1>4, <1>8, <1>10, <2>1, IdleOK, FramesStep
<1>13. OneWriter'
  BY <1>6, <1>8, WriterStep DEF DeskInv
<1>14. SendersOK'
  <2>1. SenderOK(reply[r], snd)
    BY <1>1, <1>3, SenderHere DEF SenderOK
  <2> QED BY <1>4, <1>7, <2>1 DEF DeskInv, SendersOK
<1> QED BY <1>9, <1>11, <1>12, <1>13, <1>14 DEF DeskInv

LEMMA HandlerDiesStep ==
  ASSUME DeskInv, NEW h \in Handlers, HandlerDies(h)
  PROVE  DeskInv'
<1>1. CASE At(h, "reply", "queue")
  BY <1>1, WriterDiesStep
<1>2. CASE ~At(h, "reply", "queue")
  <2>1. mail' \in [Mails -> Mail] /\ crashes' \in 0..MaxCrashes
    BY TroublingTyped, OneMoreCrash DEF HandlerDies
  <2>2. Done(h) /\ UNCHANGED <<ticket, reply, sender, transport>>
    BY <1>2 DEF HandlerDies
  <2>3. TicketsGrow
    BY <2>2, NoneGrow DEF DeskInv
  <2> QED BY <2>1, <2>2, <2>3, DoneStep
<1> QED BY <1>1, <1>2
-----------------------------------------------------------------------------
(* The invariant.                                                          *)

LEMMA InitOK == Init => DeskInv
<1> SUFFICES ASSUME Init PROVE DeskInv
  OBVIOUS
<1>1. 0 \in 0..MaxCrashes /\ 0 \in 0..MaxRetries /\ 0 \in 0..(MaxRetries + 1) /\ 0 \in 0..2
  BY TicketAssumption
<1>2. {NoTicket, NewTicket} \subseteq Ticket /\ NoReply \in Reply /\ NoSender \in Sender
      /\ NoMail \in Mail
  <2>1. NoTicket \in Ticket
    BY DEF NoTicket, Ticket, Statuses
  <2>2. NewTicket \in Ticket
    BY DEF NewTicket, NoTicket, Ticket, Statuses
  <2>3. NoReply \in Reply
    BY <1>1 DEF NoReply, Reply
  <2>4. NoSender \in Sender
    BY <1>1 DEF NoSender, Sender
  <2>5. NoMail \in Mail
    BY <1>1 DEF NoMail, Mail
  <2> QED BY <2>1, <2>2, <2>3, <2>4, <2>5
<1>3. TypeOK
  BY <1>1, <1>2, IdleOK DEF Init, TypeOK
<1>4. RowsOK
  BY DEF Init, RowsOK, Stamped, NoTicket, NewTicket, NoReply
<1>5. FramesOK /\ OneWriter
  BY IdleOK DEF Init, FramesOK, OneWriter, Idle
<1>6. SendersOK
  BY DEF Init, SendersOK, SenderOK, NoReply, NoSender
<1> QED BY <1>3, <1>4, <1>5, <1>6 DEF DeskInv

LEMMA HandleStep ==
  ASSUME DeskInv, NEW h \in Handlers, Handle(h)
  PROVE  DeskInv'
BY SaveStatusStep, AssignStep, SaveReplyStep, QueueReplyStep, SaveCustomerStep, MatchMailStep,
   IngestStep, MarkSeenStep DEF Handle

LEMMA CollectStep ==
  ASSUME DeskInv, NEW h \in Handlers, BeginCollect(h) \/ \E x \in Mails : BeginPost(h, x)
  PROVE  DeskInv'
<1>1. Unseen \in SUBSET Mails
  BY DEF Unseen
<1> QED BY <1>1, TakeMailsStep DEF BeginCollect, BeginPost

LEMMA NextStep == DeskInv /\ [Next]_vars => DeskInv'
<1> SUFFICES ASSUME DeskInv, [Next]_vars PROVE DeskInv'
  OBVIOUS
<1>1. CASE UNCHANGED vars
  <2>1. UNCHANGED <<reply, sender, transport, frame, crashes>> /\ mail' \in [Mails -> Mail]
    BY <1>1 DEF vars, DeskInv, TypeOK
  <2>2. TicketsGrow
    BY <1>1, NoneGrow DEF vars, DeskInv
  <2> QED BY <2>1, <2>2, WorldStep
<1>2. CASE Customers
  BY <1>2, CustomersStep
<1>3. ASSUME NEW h \in Handlers,
             \/ Requests(h) \/ Handle(h) \/ HandlerDies(h)
             \/ BeginCollect(h) \/ \E x \in Mails : BeginPost(h, x)
      PROVE  DeskInv'
  BY <1>3, RequestStep, HandleStep, HandlerDiesStep, CollectStep
<1>4. ASSUME NEW r \in Replies, Send(r) \/ SenderDies(r) PROVE DeskInv'
  BY <1>4, SendStep, SenderDiesStep
<1> QED BY <1>1, <1>2, <1>3, <1>4 DEF Next

LEMMA DeskInvariant == Spec => []DeskInv
BY InitOK, NextStep, PTL DEF Spec
-----------------------------------------------------------------------------
(* Mail coming in: what a handler holds and what the log has.              *)

Holds(h, x) == x \in frame[h].fetched

\* What a frame says of the mails ml it fetched.
HoldOK(f, ml) ==
  /\ f.stored \subseteq f.fetched
  /\ \A x \in f.fetched : ml[x].place # "unsent"
  /\ \A x \in f.stored : ml[x].copies > 0
  /\ f.task = "collect" /\ f.pc = "save" => f.mail \in f.fetched \ f.stored
  /\ f.task # "collect" => f.fetched = {}

HoldsOK == \A h \in Handlers : HoldOK(frame[h], mail)

\* A mail nothing went wrong with has one handler at the most, which lets go of it when it
\* marks it; it is in the log once, and then it is marked or the handler knows.
Untroubled(x) ==
  /\ \A h, g \in Handlers : Holds(h, x) /\ Holds(g, x) => h = g
  /\ mail[x].copies <= 1
  /\ mail[x].copies > 0 => mail[x].place = "seen" \/ \E h \in Handlers : x \in frame[h].stored
  /\ mail[x].place = "seen" => \A h \in Handlers : ~Holds(h, x)

MailsOK ==
  \A x \in Mails :
    /\ mail[x].place = "seen" => mail[x].copies > 0
    /\ ~mail[x].troubled => Untroubled(x)

MailInv == HoldsOK /\ MailsOK

\* Nobody has a ticket that is not there.
UnopenedIsUnheld == \A t \in Tickets : ~ticket[t].there => ticket[t].assigned = Nobody

\* A step that leaves the mails and what each handler holds.
LEMMA SameHolds ==
  ASSUME MailInv, UNCHANGED mail,
         \A g \in Handlers : /\ frame'[g].fetched = frame[g].fetched
                             /\ frame'[g].stored = frame[g].stored
                             /\ frame'[g] = frame[g] \/ HoldOK(frame'[g], mail)
  PROVE  MailInv'
<1>1. HoldsOK'
  BY DEF MailInv, HoldsOK
<1>2. \A g \in Handlers, x \in Mails : Holds(g, x)' <=> Holds(g, x)
  BY DEF Holds
<1>3. MailsOK'
  BY <1>2 DEF MailInv, MailsOK, Untroubled
<1> QED BY <1>1, <1>3 DEF MailInv

\* A handler's step that does.
LEMMA SameMails ==
  ASSUME TypeOK, MailInv, UNCHANGED mail, NEW h \in Handlers, NEW f, Goto(h, f),
         f.fetched = frame[h].fetched, f.stored = frame[h].stored, HoldOK(f, mail)
  PROVE  MailInv'
<1>1. frame'[h] = f /\ \A g \in Handlers \ {h} : frame'[g] = frame[g]
  BY DEF Goto, TypeOK
<1> QED BY <1>1, SameHolds

\* One of a handler that holds none, before or after.
LEMMA NoMails ==
  ASSUME TypeOK, MailInv, UNCHANGED mail, NEW h \in Handlers, NEW f, Goto(h, f),
         frame[h].task # "collect", f.fetched = {}, f.stored = {}, f.task # "collect"
  PROVE  MailInv'
<1>1. frame[h].fetched = {} /\ frame[h].stored = {}
  BY DEF MailInv, HoldsOK, HoldOK
<1>2. HoldOK(f, mail)
  BY DEF HoldOK
<1> QED BY <1>1, <1>2, SameMails

LEMMA RequestHolds ==
  ASSUME TypeOK, MailInv, NEW h \in Handlers, Requests(h)
  PROVE  MailInv'
<1>1. ASSUME NEW f, Begin(h, f), f.fetched = {}, f.stored = {}, f.task # "collect"
      PROVE  MailInv'
  <2> DEFINE e == [f EXCEPT !.pc = "save"]
  <2>1. Goto(h, e) /\ UNCHANGED mail /\ frame[h].task # "collect"
    BY <1>1 DEF Begin, Idle
  <2>2. e.fetched = {} /\ e.stored = {} /\ e.task # "collect"
    BY <1>1
  <2> HIDE DEF e
  <2> QED BY <2>1, <2>2, NoMails
<1> PICK t \in Tickets :
      \/ \E to \in Statuses : BeginStatus(h, t, to)
      \/ \E a \in Agents : BeginTake(h, t, a) \/ BeginAssign(h, t, a)
      \/ \E r \in Replies : BeginReply(h, t, r)
      \/ BeginCustomer(h, t)
  BY DEF Requests
<1>2. ASSUME NEW to \in Statuses, BeginStatus(h, t, to) PROVE MailInv'
  BY <1>1, <1>2 DEF BeginStatus, Idle
<1>3. ASSUME NEW a \in Agents, BeginTake(h, t, a) PROVE MailInv'
  BY <1>1, <1>3 DEF BeginTake, Idle
<1>4. ASSUME NEW a \in Agents, BeginAssign(h, t, a) PROVE MailInv'
  BY <1>1, <1>4 DEF BeginAssign, Idle
<1>5. ASSUME NEW r \in Replies, BeginReply(h, t, r) PROVE MailInv'
  BY <1>1, <1>5 DEF BeginReply, Idle
<1>6. ASSUME BeginCustomer(h, t) PROVE MailInv'
  BY <1>1, <1>6 DEF BeginCustomer, Idle
<1> QED BY <1>2, <1>3, <1>4, <1>5, <1>6

LEMMA SavingHolds ==
  ASSUME TypeOK, MailInv, NEW h \in Handlers,
         \/ SaveStatus(h) \/ Take(h) \/ Assign(h)
         \/ SaveReply(h) \/ QueueReply(h) \/ SaveCustomer(h)
  PROVE  MailInv'
<1>1. Idle.fetched = {} /\ Idle.stored = {} /\ Idle.task # "collect"
  BY DEF Idle
<1>2. UNCHANGED mail /\ frame[h].task # "collect"
  BY DEF SaveStatus, Take, Assign, SaveReply, QueueReply, SaveCustomer, At
<1>3. CASE Done(h)
  BY <1>1, <1>2, <1>3, NoMails DEF Done
<1>4. CASE SaveReply(h)
  <2> DEFINE f == [frame[h] EXCEPT !.pc = "queue", !.copy = NoCopy]
  <2>1. Goto(h, f) /\ frame[h] \in Frame
    BY <1>4 DEF SaveReply, TypeOK
  <2>2. /\ frame[h].fetched = {} /\ frame[h].stored = {}
        /\ f.fetched = frame[h].fetched /\ f.stored = frame[h].stored
        /\ f.task = frame[h].task
    BY <1>2, <2>1 DEF MailInv, HoldsOK, HoldOK, Frame
  <2> HIDE DEF f
  <2> QED BY <1>2, <2>1, <2>2, NoMails
<1> QED BY <1>3, <1>4 DEF SaveStatus, Take, Assign, QueueReply, SaveCustomer

LEMMA MatchHolds ==
  ASSUME TypeOK, MailInv, NEW h \in Handlers, NEW x \in Mails, MatchMail(h, x)
  PROVE  MailInv'
<1>1. PICK t, c : Goto(h, [frame[h] EXCEPT !.pc = "save", !.mail = x, !.ticket = t, !.copy = c])
  <2>1. CASE mail[x].about # Nobody /\ ticket[mail[x].about].there
    BY <2>1 DEF MatchMail
  <2>2. CASE ~(mail[x].about # Nobody /\ ticket[mail[x].about].there)
    <3>1. [frame[h] EXCEPT !.pc = "save", !.mail = x] =
            [frame[h] EXCEPT !.pc = "save", !.mail = x, !.ticket = frame[h].ticket,
                             !.copy = frame[h].copy]
      BY DEF TypeOK, Frame
    <3>2. Goto(h, [frame[h] EXCEPT !.pc = "save", !.mail = x])
      BY <2>2 DEF MatchMail
    <3> QED BY <3>1, <3>2
  <2> QED BY <2>1, <2>2
<1> DEFINE f == [frame[h] EXCEPT !.pc = "save", !.mail = x, !.ticket = t, !.copy = c]
<1>2. /\ f.fetched = frame[h].fetched /\ f.stored = frame[h].stored /\ f.task = frame[h].task
      /\ f.mail = x
  BY DEF TypeOK, Frame
<1>3. x \in frame[h].fetched \ frame[h].stored /\ UNCHANGED mail /\ frame[h].task = "collect"
  BY DEF MatchMail, At
<1>4. Goto(h, f)
  BY <1>1
<1> HIDE DEF f
<1>5. HoldOK(f, mail)
  BY <1>2, <1>3 DEF MailInv, HoldsOK, HoldOK
<1> QED BY <1>2, <1>3, <1>4, <1>5, SameMails

\* Mails are only fetched that are unseen; the one somebody holds already is troubled.
LEMMA FetchHolds ==
  ASSUME TypeOK, MailInv, NEW h \in Handlers, NEW xs \in SUBSET Unseen, TakeMails(h, xs)
  PROVE  MailInv'
<1> DEFINE f == [Idle EXCEPT !.task = "collect", !.pc = "next", !.fetched = xs]
<1>1. /\ frame'[h].fetched = xs /\ frame'[h].stored = {} /\ frame'[h].task = "collect"
      /\ frame'[h].pc = "next" /\ \A g \in Handlers \ {h} : frame'[g] = frame[g]
  BY DEF TakeMails, Goto, Idle, TypeOK
<1>2. \A x \in Mails : /\ mail'[x].place = mail[x].place
                       /\ mail'[x].copies = mail[x].copies
                       /\ mail[x].troubled => mail'[x].troubled
                       /\ x \in xs /\ HeldElsewhere(h, x) => mail'[x].troubled
  BY DEF TakeMails, Troubling, TypeOK, Mail
<1>3. \A x \in xs : x \in Mails /\ mail[x].place = "unseen"
  BY DEF Unseen
<1>4. frame[h].fetched = {}
  BY DEF TakeMails, Idle
<1>5. ASSUME NEW g \in Handlers PROVE HoldOK(frame'[g], mail')
  <2>1. CASE g = h
    BY <1>1, <1>2, <1>3, <2>1 DEF HoldOK
  <2>2. CASE g # h
    <3>1. HoldOK(frame[g], mail) /\ frame[g].fetched \subseteq Mails
      BY DEF MailInv, HoldsOK, TypeOK, Frame
    <3> QED BY <1>1, <1>2, <2>2, <3>1 DEF HoldOK
  <2> QED BY <2>1, <2>2
<1>6. ASSUME NEW x \in Mails, ~mail'[x].troubled PROVE Untroubled(x)'
  <2>1. Untroubled(x)
    BY <1>2, <1>6 DEF MailInv, MailsOK
  <2>2. CASE x \in xs
    <3>1. \A g \in Handlers : g # h => ~Holds(g, x) /\ x \notin frame[g].stored
      BY <1>2, <1>6, <2>2 DEF HeldElsewhere, Holds, MailInv, HoldsOK, HoldOK
    <3>2. mail[x].copies \in 0..2 /\ ~(mail[x].copies > 0)
      BY <1>3, <1>4, <2>1, <2>2, <3>1 DEF Untroubled, MailInv, HoldsOK, HoldOK, TypeOK, Mail
    <3>3. \A g \in Handlers : Holds(g, x)' => g = h
      BY <1>1, <3>1 DEF Holds
    <3> QED BY <1>2, <1>3, <2>2, <3>2, <3>3 DEF Untroubled
  <2>3. CASE x \notin xs
    <3>1. \A g \in Handlers : Holds(g, x)' <=> (Holds(g, x) /\ g # h)
      BY <1>1, <2>3 DEF Holds
    <3>2. \A g \in Handlers : x \in frame[g].stored => x \in frame'[g].stored
      BY <1>1, <1>4 DEF MailInv, HoldsOK, HoldOK
    <3> QED BY <1>2, <2>1, <3>1, <3>2 DEF Untroubled
  <2> QED BY <2>2, <2>3
<1>7. \A x \in Mails : mail'[x].place = "seen" => mail'[x].copies > 0
  BY <1>2 DEF MailInv, MailsOK
<1> QED BY <1>5, <1>6, <1>7 DEF MailInv, HoldsOK, MailsOK

\* The handler that holds an untroubled mail logs it for the first time.
LEMMA LoggedHolds ==
  ASSUME TypeOK, MailInv, NEW h \in Handlers, At(h, "collect", "save"), Logged(h)
  PROVE  MailInv'
<1> DEFINE y == frame[h].mail
<1>1. /\ y \in frame[h].fetched \ frame[h].stored /\ HoldOK(frame[h], mail)
      /\ frame[h] \in Frame /\ frame[h].task = "collect"
  BY DEF At, MailInv, HoldsOK, HoldOK, TypeOK
<1>2. y \in Mails
  BY <1>1 DEF Frame
<1>3. /\ frame'[h].fetched = frame[h].fetched /\ frame'[h].stored = frame[h].stored \cup {y}
      /\ frame'[h].task = "collect" /\ frame'[h].pc # "save"
      /\ \A g \in Handlers \ {h} : frame'[g] = frame[g]
  BY <1>1 DEF Logged, Goto, TypeOK, Frame
<1>4. \A x \in Mails : mail'[x].place = mail[x].place /\ mail'[x].troubled = mail[x].troubled
  BY <1>2 DEF Logged, TypeOK, Mail
<1>5. /\ \A x \in Mails \ {y} : mail'[x].copies = mail[x].copies
      /\ mail'[y].copies = IF mail[y].copies = 2 THEN 2 ELSE mail[y].copies + 1
      /\ \A x \in Mails : mail[x].copies \in 0..2
  BY <1>2 DEF Logged, TypeOK, Mail
<1> HIDE DEF y
<1>6. mail'[y].copies > 0 /\ \A x \in Mails : mail[x].copies > 0 => mail'[x].copies > 0
  BY <1>2, <1>5
<1>7. ASSUME NEW g \in Handlers PROVE HoldOK(frame'[g], mail')
  <2>1. HoldOK(frame[g], mail) /\ frame[g].fetched \subseteq Mails
    BY DEF MailInv, HoldsOK, TypeOK, Frame
  <2>2. CASE g = h
    BY <1>1, <1>3, <1>4, <1>6, <2>1, <2>2 DEF HoldOK
  <2>3. CASE g # h
    BY <1>3, <1>4, <1>6, <2>1, <2>3 DEF HoldOK
  <2> QED BY <2>2, <2>3
<1>8. \A g \in Handlers, x \in Mails : Holds(g, x)' <=> Holds(g, x)
  BY <1>3 DEF Holds
<1>9. ASSUME NEW x \in Mails, ~mail'[x].troubled PROVE Untroubled(x)'
  <2>1. Untroubled(x)
    BY <1>4, <1>9 DEF MailInv, MailsOK
  <2>2. CASE x = y
    <3>1. Holds(h, y)
      BY <1>1 DEF Holds
    <3>2. mail[y].place # "seen"
      BY <2>1, <2>2, <3>1 DEF Untroubled
    <3>3. \A g \in Handlers : y \notin frame[g].stored
      BY <1>1, <2>1, <2>2, <3>1 DEF Untroubled, Holds, MailInv, HoldsOK, HoldOK
    <3>4. mail'[y].copies <= 1
      BY <1>2, <1>5, <2>1, <2>2, <3>2, <3>3 DEF Untroubled
    <3>5. y \in frame'[h].stored
      BY <1>3
    <3> QED BY <1>4, <1>8, <2>1, <2>2, <3>2, <3>4, <3>5 DEF Untroubled
  <2>3. CASE x # y
    <3>1. mail'[x].copies = mail[x].copies
      BY <1>5, <2>3
    <3>2. \A g \in Handlers : x \in frame[g].stored => x \in frame'[g].stored
      BY <1>3
    <3> QED BY <1>4, <1>8, <2>1, <3>1, <3>2 DEF Untroubled
  <2> QED BY <2>2, <2>3
<1>10. \A x \in Mails : mail'[x].place = "seen" => mail'[x].copies > 0
  BY <1>4, <1>6 DEF MailInv, MailsOK
<1> QED BY <1>7, <1>9, <1>10 DEF MailInv, HoldsOK, MailsOK

LEMMA MarkHolds ==
  ASSUME TypeOK, MailInv, NEW h \in Handlers, MarkSeen(h)
  PROVE  MailInv'
<1>1. PICK x \in frame[h].stored :
        /\ mail' = [mail EXCEPT ![x].place = "seen"]
        /\ Goto(h, IF frame[h].stored = {x} THEN Idle
                   ELSE [frame[h] EXCEPT !.stored = @ \ {x}, !.fetched = @ \ {x}])
  BY DEF MarkSeen
<1>2. /\ HoldOK(frame[h], mail) /\ frame[h] \in Frame /\ x \in Mails
      /\ frame[h].task = "collect" /\ frame[h].pc = "mark"
  BY DEF MailInv, HoldsOK, MarkSeen, At, TypeOK, Frame
<1>3. /\ \A z \in Mails : mail'[z].copies = mail[z].copies /\ mail'[z].troubled = mail[z].troubled
      /\ mail'[x].place = "seen" /\ \A z \in Mails \ {x} : mail'[z].place = mail[z].place
  BY <1>1, <1>2 DEF TypeOK, Mail
<1>4. /\ \A g \in Handlers \ {h} : frame'[g] = frame[g]
      /\ frame'[h] = IF frame[h].stored = {x} THEN Idle
                     ELSE [frame[h] EXCEPT !.stored = @ \ {x}, !.fetched = @ \ {x}]
  BY <1>1 DEF Goto, TypeOK
<1>5. /\ frame'[h].fetched \subseteq frame[h].fetched \ {x}
      /\ frame'[h].stored = frame[h].stored \ {x}
      /\ HoldOK(frame'[h], mail)
  <2>1. CASE frame[h].stored = {x}
    BY <1>4, <2>1 DEF HoldOK, Idle
  <2>2. CASE frame[h].stored # {x}
    BY <1>2, <1>4, <2>2 DEF HoldOK, Frame
  <2> QED BY <2>1, <2>2
<1>6. \A g \in Handlers, z \in Mails : Holds(g, z)' => Holds(g, z) /\ ~(g = h /\ z = x)
  BY <1>4, <1>5 DEF Holds
<1>7. ASSUME NEW g \in Handlers PROVE HoldOK(frame'[g], mail')
  <2>1. HoldOK(frame'[g], mail) /\ frame'[g].fetched \subseteq Mails
    BY <1>2, <1>4, <1>5 DEF MailInv, HoldsOK, TypeOK, Frame
  <2>2. \A z \in frame'[g].fetched : mail'[z].place # "unsent"
    BY <1>3, <2>1 DEF HoldOK
  <2>3. \A z \in frame'[g].stored : mail'[z].copies > 0
    BY <1>3, <2>1 DEF HoldOK
  <2> QED BY <2>1, <2>2, <2>3 DEF HoldOK
<1>8. ASSUME NEW z \in Mails, ~mail'[z].troubled PROVE Untroubled(z)'
  <2>1. Untroubled(z)
    BY <1>3, <1>8 DEF MailInv, MailsOK
  <2>2. CASE z = x
    <3>1. Holds(h, x)
      BY <1>2 DEF Holds, HoldOK
    <3>2. \A g \in Handlers : ~Holds(g, x)'
      BY <1>6, <2>1, <2>2, <3>1 DEF Untroubled
    <3> QED BY <1>3, <2>1, <2>2, <3>2 DEF Untroubled
  <2>3. CASE z # x
    <3>1. \A g \in Handlers : z \in frame[g].stored => z \in frame'[g].stored
      BY <1>4, <1>5, <2>3
    <3> QED BY <1>3, <1>6, <2>1, <2>3, <3>1 DEF Untroubled
  <2> QED BY <2>2, <2>3
<1>9. ASSUME NEW z \in Mails, mail'[z].place = "seen" PROVE mail'[z].copies > 0
  BY <1>2, <1>3, <1>9 DEF HoldOK, MailInv, MailsOK
<1> QED BY <1>7, <1>8, <1>9 DEF MailInv, HoldsOK, MailsOK

LEMMA ArrivalHolds ==
  ASSUME TypeOK, MailInv, NEW x \in Mails, NEW about, MailArrives(x, about)
  PROVE  MailInv'
<1>1. mail[x] = NoMail /\ mail[x] \in Mail /\ UNCHANGED frame
  BY DEF MailArrives, TypeOK
<1>2. /\ mail'[x].place = "unseen" /\ mail'[x].copies = mail[x].copies
      /\ mail'[x].troubled = mail[x].troubled
      /\ \A z \in Mails \ {x} : mail'[z] = mail[z]
  BY <1>1 DEF MailArrives, TypeOK, Mail
<1>3. \A g \in Handlers : ~Holds(g, x)
  BY <1>1 DEF Holds, MailInv, HoldsOK, HoldOK, NoMail
<1>4. ASSUME NEW g \in Handlers PROVE HoldOK(frame'[g], mail')
  <2>1. HoldOK(frame[g], mail) /\ frame[g].fetched \subseteq Mails
    BY DEF MailInv, HoldsOK, TypeOK, Frame
  <2>2. \A z \in frame[g].fetched : mail'[z].place # "unsent"
    BY <1>2, <2>1 DEF HoldOK
  <2>3. \A z \in frame[g].stored : mail'[z].copies > 0
    BY <1>2, <2>1 DEF HoldOK
  <2> QED BY <1>1, <2>1, <2>2, <2>3 DEF HoldOK
<1>5. \A g \in Handlers, z \in Mails : Holds(g, z)' <=> Holds(g, z)
  BY <1>1 DEF Holds
<1>6. ASSUME NEW z \in Mails, ~mail'[z].troubled PROVE Untroubled(z)'
  <2>1. Untroubled(z)
    BY <1>2, <1>6 DEF MailInv, MailsOK
  <2>2. CASE z = x
    BY <1>1, <1>2, <1>3, <1>5, <2>1, <2>2 DEF Untroubled, NoMail
  <2>3. CASE z # x
    BY <1>1, <1>2, <1>5, <2>1, <2>3 DEF Untroubled
  <2> QED BY <2>2, <2>3
<1>7. \A z \in Mails : mail'[z].place = "seen" => mail'[z].copies > 0
  BY <1>2 DEF MailInv, MailsOK
<1> QED BY <1>4, <1>6, <1>7 DEF MailInv, HoldsOK, MailsOK

\* What a handler that dies had fetched is troubled.
LEMMA DeathHolds ==
  ASSUME TypeOK, MailInv, NEW h \in Handlers, HandlerDies(h)
  PROVE  MailInv'
<1>1. frame'[h] = Idle /\ \A g \in Handlers \ {h} : frame'[g] = frame[g]
  BY DEF HandlerDies, Done, Goto, TypeOK
<1>2. \A x \in Mails : /\ mail'[x].place = mail[x].place
                       /\ mail'[x].copies = mail[x].copies
                       /\ mail[x].troubled => mail'[x].troubled
                       /\ Holds(h, x) => mail'[x].troubled
  BY DEF HandlerDies, Troubling, TypeOK, Mail, Holds
<1>3. ASSUME NEW g \in Handlers PROVE HoldOK(frame'[g], mail')
  <2>1. HoldOK(frame[g], mail) /\ frame[g].fetched \subseteq Mails
    BY DEF MailInv, HoldsOK, TypeOK, Frame
  <2>2. CASE g = h
    BY <1>1, <2>2 DEF HoldOK, Idle
  <2>3. CASE g # h
    BY <1>1, <1>2, <2>1, <2>3 DEF HoldOK
  <2> QED BY <2>2, <2>3
<1>4. ASSUME NEW x \in Mails, ~mail'[x].troubled PROVE Untroubled(x)'
  <2>1. Untroubled(x) /\ ~Holds(h, x)
    BY <1>2, <1>4 DEF MailInv, MailsOK
  <2>2. x \notin frame[h].stored
    BY <2>1 DEF Holds, MailInv, HoldsOK, HoldOK
  <2>3. \A g \in Handlers : Holds(g, x)' <=> Holds(g, x)
    BY <1>1, <2>1 DEF Holds, Idle
  <2>4. \A g \in Handlers : x \in frame[g].stored => x \in frame'[g].stored
    BY <1>1, <2>2
  <2> QED BY <1>2, <2>1, <2>3, <2>4 DEF Untroubled
<1>5. \A x \in Mails : mail'[x].place = "seen" => mail'[x].copies > 0
  BY <1>2 DEF MailInv, MailsOK
<1> QED BY <1>3, <1>4, <1>5 DEF MailInv, HoldsOK, MailsOK

LEMMA MailStep == TypeOK /\ MailInv /\ [Next]_vars => MailInv'
<1> SUFFICES ASSUME TypeOK, MailInv, [Next]_vars PROVE MailInv'
  OBVIOUS
<1>1. CASE UNCHANGED <<mail, frame>>
  BY <1>1, SameHolds
<1>2. ASSUME NEW x \in Mails, NEW about \in Tickets \cup {Nobody}, MailArrives(x, about)
      PROVE  MailInv'
  BY <1>2, ArrivalHolds
<1>3. ASSUME NEW t \in Tickets, OpenTicket(t) PROVE UNCHANGED <<mail, frame>>
  BY <1>3 DEF OpenTicket
<1>4. CASE Customers
  BY <1>1, <1>2, <1>3, <1>4 DEF Customers
<1>5. ASSUME NEW h \in Handlers, Handle(h) PROVE MailInv'
  <2>1. CASE IngestReply(h) \/ IngestNew(h) \/ IngestError(h)
    BY <2>1, LoggedHolds DEF IngestReply, IngestNew, IngestError
  <2> QED BY <1>5, <2>1, SavingHolds, MatchHolds, MarkHolds DEF Handle
<1>6. ASSUME NEW h \in Handlers, BeginCollect(h) \/ \E x \in Mails : BeginPost(h, x)
      PROVE  MailInv'
  BY <1>6, FetchHolds DEF BeginCollect, BeginPost
<1>7. ASSUME NEW r \in Replies, Send(r) \/ SenderDies(r) PROVE UNCHANGED <<mail, frame>>
  BY <1>7 DEF Send, SenderDies, HasNoAddress, MailAccepted, MailRefused, RecordSent,
              RecordFailure, Retry, RestOfDesk
<1>8. CASE Next
  BY <1>1, <1>4, <1>5, <1>6, <1>7, <1>8, RequestHolds, DeathHolds DEF Next
<1> QED BY <1>1, <1>8 DEF vars

LEMMA MailInvariant == Spec => []MailInv
<1>1. Init => MailInv
  <2> SUFFICES ASSUME Init PROVE MailInv
    OBVIOUS
  <2>1. \A h \in Handlers : frame[h].fetched = {} /\ frame[h].stored = {}
                            /\ frame[h].task # "collect"
    BY DEF Init, Idle
  <2>2. \A x \in Mails : mail[x].copies = 0 /\ mail[x].place = "unsent"
    BY DEF Init, NoMail
  <2> QED BY <2>1, <2>2 DEF MailInv, HoldsOK, HoldOK, MailsOK, Untroubled, Holds
<1>2. DeskInv => TypeOK
  BY DEF DeskInv
<1> QED BY <1>1, <1>2, MailStep, DeskInvariant, PTL DEF Spec
-----------------------------------------------------------------------------
(* Who holds a ticket.                                                     *)

\* Statements other than a take and an assignment leave the column as it is.
LEMMA KeepsHolder ==
  ASSUME NEW row \in Ticket, NEW copy, NEW to
  PROVE  /\ Transition(row, copy, to).assigned = row.assigned
         /\ Transition(row, copy, to).there = row.there
         /\ Reopened(row, copy).assigned = row.assigned
         /\ Reopened(row, copy).there = row.there
         /\ Answered(row, copy).assigned = row.assigned
         /\ Answered(row, copy).there = row.there
<1>1. \A s : Transition(row, copy, s).assigned = row.assigned
             /\ Transition(row, copy, s).there = row.there
  BY DEF Transition, Ticket
<1>2. Answered(row, copy).assigned = row.assigned /\ Answered(row, copy).there = row.there
  BY DEF Answered, Ticket
<1> QED BY <1>1, <1>2 DEF Reopened

\* What a step does to the column: an assignment or a take of a ticket nobody has sets it,
\* and a ticket that is opened has nobody's name on it.
HolderKept(t) ==
  ticket'[t].assigned = ticket[t].assigned /\ ticket'[t].there = ticket[t].there

Assigned(h, t) == frame[h].task = "assign" /\ frame[h].ticket = t /\ frame'[h] = Idle

HolderMoves(t) ==
  \/ HolderKept(t)
  \/ ~ticket[t].there /\ ticket'[t] = NewTicket
  \/ /\ ticket[t].there /\ ticket'[t].there
     /\ ticket[t].assigned = Nobody \/ \E h \in Handlers : Assigned(h, t)

LEMMA OneHolderKept ==
  ASSUME TypeOK, NEW t, NEW row, ticket' = [ticket EXCEPT ![t] = row],
         t \in Tickets => row.assigned = ticket[t].assigned /\ row.there = ticket[t].there
  PROVE  \A u \in Tickets : HolderMoves(u)
BY DEF TypeOK, HolderKept, HolderMoves

LEMMA OneOpened ==
  ASSUME TypeOK, NEW t \in Tickets, ~ticket[t].there, ticket' = [ticket EXCEPT ![t] = NewTicket]
  PROVE  \A u \in Tickets : HolderMoves(u)
BY DEF TypeOK, HolderKept, HolderMoves

LEMMA HearMoves ==
  ASSUME TypeOK, NEW t, NEW copy, Hear(t, copy)
  PROVE  \A u \in Tickets : HolderMoves(u)
<1>1. t \in Tickets => /\ Reopened(ticket[t], copy).assigned = ticket[t].assigned
                       /\ Reopened(ticket[t], copy).there = ticket[t].there
  BY KeepsHolder DEF TypeOK
<1> QED BY <1>1, OneHolderKept DEF Hear

LEMMA HandleMoves ==
  ASSUME DeskInv, NEW h \in Handlers, Handle(h), NEW u \in Tickets
  PROVE  HolderMoves(u)
<1> DEFINE t == frame[h].ticket
<1>1. TypeOK /\ frame'[h] \in Frame
  BY HandleStep DEF DeskInv, TypeOK
<1>2. t # Nobody => t \in Tickets /\ ticket[t].there /\ ticket[t] \in Ticket
  BY FrameHere DEF Frame, FrameOK, DeskInv, TypeOK
<1>3. CASE UNCHANGED ticket
  BY <1>3 DEF HolderMoves, HolderKept
<1>4. CASE SaveStatus(h)
  <2>1. t \in Tickets => LET row == Transition(ticket[t], frame[h].copy, frame[h].to)
                         IN  row.assigned = ticket[t].assigned /\ row.there = ticket[t].there
    BY <1>1, KeepsHolder DEF TypeOK
  <2> QED BY <1>1, <1>4, <2>1, OneHolderKept DEF SaveStatus
<1>5. CASE Take(h) \/ Assign(h)
  <2>1. CASE u # t
    BY <1>1, <1>5, <2>1 DEF Take, Assign, TypeOK, HolderMoves, HolderKept
  <2>2. CASE u = t
    <3>1. ticket[u].there
      BY <1>2, <2>2, TicketAssumption
    <3>2. ticket'[u].there
      BY <1>1, <1>5, <2>2, <3>1 DEF Take, Assign, TypeOK, Ticket
    <3>3. CASE Assign(h)
      <4>1. Assigned(h, u)
        BY <1>1, <2>2, <3>3 DEF Assigned, Assign, At, Done, Goto, TypeOK
      <4> QED BY <3>1, <3>2, <4>1 DEF HolderMoves
    <3>4. CASE Take(h) /\ ticket[u].assigned = Nobody
      BY <3>1, <3>2, <3>4 DEF HolderMoves
    <3>5. CASE Take(h) /\ ticket[u].assigned # Nobody
      BY <2>2, <3>5 DEF Take, HolderMoves, HolderKept
    <3> QED BY <1>5, <3>3, <3>4, <3>5
  <2> QED BY <2>1, <2>2
<1>6. CASE SaveReply(h)
  <2>1. t \in Tickets => LET row == Answered(ticket[t], frame[h].copy)
                         IN  row.assigned = ticket[t].assigned /\ row.there = ticket[t].there
    BY <1>1, KeepsHolder DEF TypeOK
  <2> QED BY <1>1, <1>6, <2>1, OneHolderKept DEF SaveReply
<1>7. CASE SaveCustomer(h) \/ IngestReply(h)
  BY <1>1, <1>7, HearMoves DEF SaveCustomer, IngestReply
<1>8. CASE IngestNew(h)
  BY <1>1, <1>3, <1>8, OneOpened DEF IngestNew
<1> QED BY <1>3, <1>4, <1>5, <1>6, <1>7, <1>8 DEF Handle, QueueReply, MatchMail, IngestError, MarkSeen

LEMMA StepMoves ==
  ASSUME DeskInv, [Next]_vars, NEW u \in Tickets
  PROVE  HolderMoves(u)
<1>1. CASE UNCHANGED ticket
  BY <1>1 DEF HolderMoves, HolderKept
<1>2. ASSUME NEW t \in Tickets, OpenTicket(t) PROVE HolderMoves(u)
  BY <1>2, OneOpened DEF OpenTicket, DeskInv
<1>3. ASSUME NEW h \in Handlers, Handle(h) PROVE HolderMoves(u)
  BY <1>3, HandleMoves
<1>4. ASSUME NEW h \in Handlers,
             \/ Requests(h) \/ HandlerDies(h)
             \/ BeginCollect(h) \/ \E x \in Mails : BeginPost(h, x)
      PROVE  UNCHANGED ticket
  BY <1>4 DEF Requests, BeginStatus, BeginTake, BeginAssign, BeginReply, BeginCustomer, Begin,
              HandlerDies, BeginCollect, BeginPost, TakeMails
<1>5. ASSUME NEW r \in Replies, Send(r) \/ SenderDies(r) PROVE UNCHANGED ticket
  BY <1>5 DEF Send, SenderDies, HasNoAddress, MailAccepted, MailRefused, RecordSent,
              RecordFailure, Retry, RestOfDesk
<1>6. ASSUME NEW x \in Mails, NEW about \in Tickets \cup {Nobody}, MailArrives(x, about)
      PROVE  UNCHANGED ticket
  BY <1>6 DEF MailArrives
<1>7. CASE Next
  BY <1>1, <1>2, <1>3, <1>4, <1>5, <1>6, <1>7 DEF Next, Customers
<1> QED BY <1>1, <1>7 DEF vars

LEMMA UnopenedInvariant == Spec => []UnopenedIsUnheld
<1>1. Init => UnopenedIsUnheld
  BY DEF Init, UnopenedIsUnheld, NoTicket, NewTicket
<1>2. DeskInv /\ UnopenedIsUnheld /\ [Next]_vars => UnopenedIsUnheld'
  <2> SUFFICES ASSUME DeskInv, UnopenedIsUnheld, [Next]_vars,
                      NEW t \in Tickets, ~ticket'[t].there
               PROVE  ticket'[t].assigned = Nobody
    BY DEF UnopenedIsUnheld
  <2>1. HolderMoves(t)
    BY StepMoves
  <2> QED BY <2>1 DEF HolderMoves, HolderKept, UnopenedIsUnheld, NewTicket, NoTicket
<1> QED BY <1>1, <1>2, DeskInvariant, PTL DEF Spec
-----------------------------------------------------------------------------
(* A customer who is heard.                                                *)

\* Only its own handler, or its death, ends a request.
LEMMA EndedByItself ==
  ASSUME DeskInv, [Next]_vars, NEW h \in Handlers, At(h, "customer", "save"), frame'[h] = Idle
  PROVE  SaveCustomer(h) \/ HandlerDies(h)
<1>1. frame[h] # frame'[h] /\ frame \in [Handlers -> Frame]
  BY DEF At, Idle, DeskInv, TypeOK
<1>2. \A g \in Handlers : \A f : g # h => ~Goto(g, f)
  BY <1>1 DEF Goto
<1>3. ~UNCHANGED frame
  BY <1>1
<1>4. ASSUME NEW g \in Handlers, NEW f, Begin(g, f) PROVE g # h
  BY <1>4 DEF Begin, At, Idle
<1>5. ASSUME NEW g \in Handlers, Requests(g) PROVE FALSE
  BY <1>2, <1>4, <1>5 DEF Requests, BeginStatus, BeginTake, BeginAssign, BeginReply,
                          BeginCustomer, Begin
<1>6. ASSUME NEW g \in Handlers, BeginCollect(g) \/ \E x \in Mails : BeginPost(g, x)
      PROVE  FALSE
  <2>1. PICK xs : TakeMails(g, xs)
    BY <1>6 DEF BeginCollect, BeginPost
  <2>2. frame[g] = Idle /\ \E f : Goto(g, f)
    BY <2>1 DEF TakeMails
  <2>3. g # h
    BY <2>2 DEF At, Idle
  <2> QED BY <1>2, <2>2, <2>3
<1>7. ASSUME NEW g \in Handlers, Handle(g) PROVE SaveCustomer(h)
  <2>1. \E f : Goto(g, f)
    <3>1. CASE IngestReply(g) \/ IngestNew(g) \/ IngestError(g)
      BY <3>1 DEF IngestReply, IngestNew, IngestError, Logged
    <3>2. CASE \E x \in Mails : MatchMail(g, x)
      BY <3>2 DEF MatchMail
    <3> QED BY <1>7, <3>1, <3>2 DEF Handle, SaveStatus, Take, Assign, SaveReply, QueueReply,
                                    SaveCustomer, MarkSeen, Done
  <2>2. g = h
    BY <1>2, <2>1
  <2> QED BY <1>7, <2>2 DEF Handle, SaveStatus, Take, Assign, SaveReply, QueueReply, MatchMail,
                            IngestReply, IngestNew, IngestError, MarkSeen, At
<1>8. ASSUME NEW g \in Handlers, HandlerDies(g) PROVE HandlerDies(h)
  BY <1>2, <1>8 DEF HandlerDies, Done
<1>9. ASSUME NEW r \in Replies, Send(r) \/ SenderDies(r) PROVE UNCHANGED frame
  BY <1>9 DEF Send, SenderDies, HasNoAddress, MailAccepted, MailRefused, RecordSent,
              RecordFailure, Retry, RestOfDesk
<1>10. CASE Customers
  BY <1>3, <1>10 DEF Customers, OpenTicket, MailArrives
<1> QED BY <1>3, <1>5, <1>6, <1>7, <1>8, <1>9, <1>10 DEF Next, vars

\* What a customer says of the ticket as it stands leaves it unfinished.
LEMMA CurrentCopyReopens ==
  ASSUME NEW row \in Ticket, NEW copy, copy.status = row.status
  PROVE  ~Finished(Reopened(row, copy))
<1>1. Transition(row, copy, "OPEN").status = "OPEN"
  BY DEF Transition, Ticket
<1> QED BY <1>1 DEF Reopened, Finished, Ticket, Statuses
-----------------------------------------------------------------------------
(* The theorems.                                                           *)

\* The desk's rows, frames and senders stay within their types: in particular no reply
\* leaves more often than its retries allow (send_ticket_reply_email).
THEOREM TypeCorrect == Spec => []TypeOK
<1>1. DeskInv => TypeOK
  BY DEF DeskInv
<1> QED BY <1>1, DeskInvariant, PTL

\* However many requests overlap and die, a resolved ticket says when it was resolved, and
\* an answered one is answered and no longer new (apply_transition, reply).
THEOREM RowsHangTogether == Spec => []TheRowHangsTogether
<1>1. DeskInv => TheRowHangsTogether
  BY TicketAssumption DEF DeskInv, RowsOK, Stamped, Answering, TheRowHangsTogether
<1> QED BY <1>1, DeskInvariant, PTL

\* A sending that ran its course is recorded, and what is recorded as sent has left, for
\* any limit to the retries and whoever dies (_deliver_reply).
THEOREM SendersLeaveTheirMark == Spec => []TheSenderLeavesItsMark
<1>1. DeskInv => TheSenderLeavesItsMark
  BY DEF DeskInv, SendersOK, SenderOK, TheSenderLeavesItsMark
<1> QED BY <1>1, DeskInvariant, PTL

\* A mail that is marked seen is in the log, and in it twice only if a handler died with it
\* or two had it at once, for any number of mails and handlers (collect_inbound_email).
THEOREM SeenMailIsStored == Spec => []SeenIsStoredOnce
<1>1. DeskInv /\ MailInv => SeenIsStoredOnce
  BY DEF DeskInv, TypeOK, Mail, MailInv, MailsOK, Untroubled, SeenIsStoredOnce
<1> QED BY <1>1, DeskInvariant, MailInvariant, PTL

\* However many agents take tickets at once, one that somebody holds changes hands only at
\* an administrator's assignment (take).
THEOREM TakesAreKept == Spec => TakenIsKept
<1>1. DeskInv /\ UnopenedIsUnheld /\ [Next]_vars =>
        \A t \in Tickets :
          ticket[t].assigned # Nobody /\ ticket'[t].assigned # ticket[t].assigned =>
            \E h \in Handlers : frame[h].task = "assign" /\ frame[h].ticket = t
                               /\ frame'[h] = Idle
  BY StepMoves DEF HolderMoves, HolderKept, Assigned, UnopenedIsUnheld
<1>2. DeskInv /\ UnopenedIsUnheld /\ [Next]_vars =>
        [\A t \in Tickets :
           ticket[t].assigned # Nobody /\ ticket'[t].assigned # ticket[t].assigned =>
             \E h \in Handlers : frame[h].task = "assign" /\ frame[h].ticket = t
                                /\ frame'[h] = Idle]_vars
  BY <1>1
<1> QED BY <1>2, DeskInvariant, UnopenedInvariant, PTL DEF Spec, TakenIsKept

\* A customer's reply that was judged on the ticket as it stands brings a finished one back,
\* however many requests are under way (reopen_for_customer_reply).
THEOREM CurrentRepliesReopen == Spec => ACurrentReplyReopens
<1>1. ASSUME DeskInv, [Next]_vars, NEW h \in Handlers, NEW t \in Tickets,
             Heard(h, t), frame[h].copy = Read(t)
      PROVE  ~Finished(ticket'[t])
  <2>1. SaveCustomer(h)
    <3>1. SaveCustomer(h) \/ HandlerDies(h)
      BY <1>1, EndedByItself DEF Heard
    <3>2. crashes \in Nat /\ crashes' = crashes
      BY <1>1 DEF DeskInv, TypeOK, Heard
    <3> QED BY <3>1, <3>2 DEF HandlerDies
  <2>2. ticket[t] \in Ticket /\ frame[h].copy.status = ticket[t].status
    BY <1>1 DEF DeskInv, TypeOK, Read
  <2>3. ticket'[t] = Reopened(ticket[t], frame[h].copy)
    BY <1>1, <2>1 DEF SaveCustomer, Hear, Heard, DeskInv, TypeOK
  <2> QED BY <2>2, <2>3, CurrentCopyReopens
<1>2. DeskInv /\ [Next]_vars =>
        [\A h \in Handlers, t \in Tickets :
           Heard(h, t) /\ frame[h].copy = Read(t) => ~Finished(ticket'[t])]_vars
  BY <1>1
<1> QED BY <1>2, DeskInvariant, PTL DEF Spec, ACurrentReplyReopens
=============================================================================
