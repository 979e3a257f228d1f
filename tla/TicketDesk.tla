------------------------------ MODULE TicketDesk ------------------------------
(***************************************************************************)
(* The ticket desk: what agents, customers and the mailbox do to a ticket, *)
(* and the mail that carries an agent's reply out.                         *)
(*                                                                         *)
(* A handler is a web request or the task that collects mail.  It reads    *)
(* the ticket into its frame, judges what it may do on that copy, and      *)
(* saves the columns it changed; only `take` locks the row and reads it    *)
(* again.  Between the read and the save any other handler may run.  The   *)
(* statements of one transaction are one step.                             *)
(*                                                                         *)
(* The sender of a reply is a task of its own: the broker gives it to one  *)
(* worker and forgets it, so a worker that dies takes the task with it.    *)
(*                                                                         *)
(* Left out: priority, category, subject and the other columns no rule of  *)
(* the lifecycle reads; internal notes and attachments, which are rows     *)
(* that nothing here reads; the lists and pages.                           *)
(***************************************************************************)
EXTENDS Naturals, FiniteSets

CONSTANTS Tickets,     \* identities for the tickets there may be
          Agents,
          Handlers,    \* requests and collections that may be under way at once
          Replies,     \* identities for the replies agents write
          Mails,       \* mails customers send to the support address
          MaxRetries,  \* max_retries of send_ticket_reply_email
          MaxCrashes,  \* bound: processes that die
          Nobody

ASSUME TicketAssumption ==
  /\ MaxRetries \in Nat
  /\ MaxCrashes \in Nat
  /\ Nobody \notin Tickets \cup Agents \cup Replies \cup Mails

VARIABLES ticket,    \* tickets_ticket
          reply,     \* the public replies among tickets_message
          sender,    \* the task that delivers each reply
          mail,      \* each mail: where it is and what became of it
          transport, \* INBOUND_EMAIL_MODE
          frame,     \* each handler's frame
          crashes    \* how many processes have died

vars == <<ticket, reply, sender, mail, transport, frame, crashes>>
-----------------------------------------------------------------------------
Statuses == {"NEW", "OPEN", "PENDING_CUSTOMER", "RESOLVED", "CLOSED"}

\* Ticket.ALLOWED_TRANSITIONS
Allowed == [NEW              |-> {"OPEN", "RESOLVED"},
            OPEN             |-> {"PENDING_CUSTOMER", "RESOLVED"},
            PENDING_CUSTOMER |-> {"OPEN", "RESOLVED"},
            RESOLVED         |-> {"OPEN", "CLOSED"},
            CLOSED           |-> {"OPEN"}]

\* `resolved` and `responded` are resolved_at and first_response_at being set.
Ticket == [there: BOOLEAN, status: Statuses, resolved: BOOLEAN,
           responded: BOOLEAN, assigned: Agents \cup {Nobody}]

NoTicket == [there |-> FALSE, status |-> "NEW", resolved |-> FALSE,
             responded |-> FALSE, assigned |-> Nobody]

NewTicket == [NoTicket EXCEPT !.there = TRUE]

\* `mailed` counts the copies of the reply that left for the customer.
Reply == [ticket: Tickets \cup {Nobody},
          delivery: {"none", "PENDING", "SENT", "FAILED"},
          mailed: 0..(MaxRetries + 1)]

NoReply == [ticket |-> Nobody, delivery |-> "none", mailed |-> 0]

\* A task that never reached the broker, or died in its worker, is lost.
Sender == [pc: {"none", "queued", "accepted", "refused", "retry", "over", "lost"},
           retries: 0..MaxRetries]

NoSender == [pc |-> "none", retries |-> 0]

\* `about` is the ticket whose reference the mail carries; `copies` counts its rows in
\* the log, 2 being any more than one; `troubled` is history: whoever was storing it
\* died, or two were at it at once.
Mail == [place: {"unsent", "unseen", "seen"}, about: Tickets \cup {Nobody},
         copies: 0..2, troubled: BOOLEAN]

NoMail == [place |-> "unsent", about |-> Nobody, copies |-> 0, troubled |-> FALSE]
-----------------------------------------------------------------------------
(* Frames.                                                                 *)

Copy == [status: Statuses, resolved: BOOLEAN]

NoCopy == [status |-> "NEW", resolved |-> FALSE]

Tasks == {"none", "status", "reply", "customer", "take", "assign", "collect"}

Frame == [pc: {"idle", "save", "queue", "next", "mark"}, task: Tasks,
          ticket: Tickets \cup {Nobody}, copy: Copy, to: Statuses,
          agent: Agents \cup {Nobody}, reply: Replies \cup {Nobody},
          mail: Mails \cup {Nobody}, fetched: SUBSET Mails, stored: SUBSET Mails]

Idle == [pc |-> "idle", task |-> "none", ticket |-> Nobody, copy |-> NoCopy,
         to |-> "NEW", agent |-> Nobody, reply |-> Nobody, mail |-> Nobody,
         fetched |-> {}, stored |-> {}]

Goto(h, f) == frame' = [frame EXCEPT ![h] = f]

Done(h) == Goto(h, Idle)

At(h, task, label) == frame[h].task = task /\ frame[h].pc = label

Read(t) == [status |-> ticket[t].status, resolved |-> ticket[t].resolved]

\* get_object_or_404_for_user finds the ticket and the request works on that copy.
Begin(h, f) ==
  /\ frame[h] = Idle
  /\ ticket[f.ticket].there
  /\ Goto(h, [f EXCEPT !.pc = "save"])
  /\ UNCHANGED <<ticket, reply, sender, mail, transport, crashes>>
-----------------------------------------------------------------------------
Init ==
  /\ ticket \in [Tickets -> {NoTicket, NewTicket}]
  /\ reply = [r \in Replies |-> NoReply]
  /\ sender = [r \in Replies |-> NoSender]
  /\ mail = [x \in Mails |-> NoMail]
  /\ transport \in {"imap", "webhook"}
  /\ frame = [h \in Handlers |-> Idle]
  /\ crashes = 0
-----------------------------------------------------------------------------
(* tickets.services.lifecycle                                              *)

\* Mutant: resolving saves the status and forgets to save the stamp.
TransitionUnstamped(row, copy, to) ==
  [row EXCEPT !.status = to,
              !.resolved = @ /\ ~copy.resolved]

\* The row apply_transition leaves: the columns it saves come from the copy.
Transition(row, copy, to) ==
  [row EXCEPT !.status = to,
              !.resolved = to = "RESOLVED" \/ (@ /\ ~copy.resolved)]

\* Mutant: a closed ticket is left closed.
ReopenedUnlessClosed(row, copy) ==
  IF copy.status \in {"RESOLVED", "PENDING_CUSTOMER"}
  THEN Transition(row, copy, "OPEN") ELSE row

\* reopen_for_customer_reply
Reopened(row, copy) ==
  IF copy.status \in {"RESOLVED", "CLOSED", "PENDING_CUSTOMER"}
  THEN Transition(row, copy, "OPEN") ELSE row

Finished(row) == row.status \in {"RESOLVED", "CLOSED"}

\* A customer's message is stored on the ticket, in one transaction with the reopening.
Hear(t, copy) == ticket' = [ticket EXCEPT ![t] = Reopened(@, copy)]
-----------------------------------------------------------------------------
(* The agents' views                                                       *)

\* intake's and the portal's open_ticket.
OpenTicket(t) ==
  /\ ~ticket[t].there
  /\ ticket' = [ticket EXCEPT ![t] = NewTicket]
  /\ UNCHANGED <<reply, sender, mail, transport, frame, crashes>>

\* An agent's request for an edge; the end of a chat asks for RESOLVED the same way.
\* An edge the copy does not permit changes nothing.
BeginStatus(h, t, to) ==
  /\ to \in Allowed[ticket[t].status]
  /\ Begin(h, [Idle EXCEPT !.task = "status", !.ticket = t, !.to = to,
                           !.copy = Read(t)])

SaveStatus(h) ==
  LET f == frame[h] IN
  /\ At(h, "status", "save")
  /\ ticket' = [ticket EXCEPT ![f.ticket] = Transition(@, f.copy, f.to)]
  /\ Done(h)
  /\ UNCHANGED <<reply, sender, mail, transport, crashes>>

\* Mutant: what the copy says decides, not the locked row.
TakeOnTheCopy(h) ==
  LET f == frame[h] IN
  /\ At(h, "take", "save")
  /\ ticket' = [ticket EXCEPT ![f.ticket].assigned = f.agent]
  /\ Done(h)
  /\ UNCHANGED <<reply, sender, mail, transport, crashes>>

BeginTake(h, t, a) == Begin(h, [Idle EXCEPT !.task = "take", !.ticket = t, !.agent = a])

\* The row is locked and read again: somebody else's ticket is refused.
Take(h) ==
  LET f == frame[h] IN
  /\ At(h, "take", "save")
  /\ ticket' = IF ticket[f.ticket].assigned = Nobody
               THEN [ticket EXCEPT ![f.ticket].assigned = f.agent]
               ELSE ticket
  /\ Done(h)
  /\ UNCHANGED <<reply, sender, mail, transport, crashes>>

BeginAssign(h, t, a) == Begin(h, [Idle EXCEPT !.task = "assign", !.ticket = t, !.agent = a])

Assign(h) ==
  LET f == frame[h] IN
  /\ At(h, "assign", "save")
  /\ ticket' = [ticket EXCEPT ![f.ticket].assigned = f.agent]
  /\ Done(h)
  /\ UNCHANGED <<reply, sender, mail, transport, crashes>>

BeginReply(h, t, r) ==
  /\ reply[r] = NoReply
  /\ \A g \in Handlers : frame[g].reply # r
  /\ Begin(h, [Idle EXCEPT !.task = "reply", !.ticket = t, !.reply = r,
                           !.copy = [Read(t) EXCEPT !.resolved = FALSE]])

\* The row a reply leaves.  A copy with a first response already was read from a row with one.
Answered(row, copy) ==
  [row EXCEPT !.responded = TRUE,
              !.status = IF copy.status = "NEW" THEN "OPEN" ELSE @]

\* The reply and the ticket it answers are saved in one transaction.
SaveReply(h) ==
  LET f == frame[h] IN
  /\ At(h, "reply", "save")
  /\ reply' = [reply EXCEPT ![f.reply] =
                 [NoReply EXCEPT !.ticket = f.ticket, !.delivery = "PENDING"]]
  /\ ticket' = [ticket EXCEPT ![f.ticket] = Answered(@, f.copy)]
  /\ Goto(h, [f EXCEPT !.pc = "queue", !.copy = NoCopy])
  /\ UNCHANGED <<sender, mail, transport, crashes>>

\* The task is handed to the broker.  A broker that is down is logged and forgotten.
QueueReply(h) ==
  LET r == frame[h].reply IN
  /\ At(h, "reply", "queue")
  /\ \E pc \in {"queued", "lost"} : sender' = [sender EXCEPT ![r].pc = pc]
  /\ Done(h)
  /\ UNCHANGED <<ticket, reply, mail, transport, crashes>>
-----------------------------------------------------------------------------
(* portal.services.tickets.reply_to                                        *)

BeginCustomer(h, t) ==
  Begin(h, [Idle EXCEPT !.task = "customer", !.ticket = t, !.copy = Read(t)])

SaveCustomer(h) ==
  LET f == frame[h] IN
  /\ At(h, "customer", "save")
  /\ Hear(f.ticket, f.copy)
  /\ Done(h)
  /\ UNCHANGED <<reply, sender, mail, transport, crashes>>
-----------------------------------------------------------------------------
(* messaging: mail coming in                                               *)

\* A customer writes, quoting a ticket's reference or not.
MailArrives(x, about) ==
  /\ mail[x] = NoMail
  /\ mail' = [mail EXCEPT ![x].place = "unseen", ![x].about = about]
  /\ UNCHANGED <<ticket, reply, sender, transport, frame, crashes>>

Unseen == {x \in Mails : mail[x].place = "unseen"}

HeldElsewhere(h, x) == \E g \in Handlers \ {h} : x \in frame[g].fetched

\* What becomes of the mails when a handler takes them or dies with them.
Troubling(xs) == [x \in Mails |-> IF x \in xs THEN [mail[x] EXCEPT !.troubled = TRUE] ELSE mail[x]]

TakeMails(h, xs) ==
  /\ frame[h] = Idle
  /\ xs # {}
  /\ Goto(h, [Idle EXCEPT !.task = "collect", !.pc = "next", !.fetched = xs])
  /\ mail' = Troubling({x \in xs : HeldElsewhere(h, x)})
  /\ UNCHANGED <<ticket, reply, sender, transport, crashes>>

\* The task asks the mailbox for what it has not seen, whenever somebody runs it.
BeginCollect(h) == transport = "imap" /\ TakeMails(h, Unseen)

\* The provider posts a mail, and posts it again until it is answered.
BeginPost(h, x) == transport = "webhook" /\ x \in Unseen /\ TakeMails(h, {x})

\* ingest looks for the ticket the mail belongs to.
MatchMail(h, x) ==
  LET f == frame[h]
      t == mail[x].about IN
  /\ At(h, "collect", "next")
  /\ x \in f.fetched \ f.stored
  /\ Goto(h, IF t # Nobody /\ ticket[t].there
             THEN [f EXCEPT !.pc = "save", !.mail = x, !.ticket = t, !.copy = Read(t)]
             ELSE [f EXCEPT !.pc = "save", !.mail = x])
  /\ UNCHANGED <<ticket, reply, sender, mail, transport, crashes>>

\* The mail is in the log, with the handler going on to the next.
Logged(h) ==
  LET f == frame[h] IN
  /\ mail' = [mail EXCEPT ![f.mail].copies = IF @ = 2 THEN 2 ELSE @ + 1]
  /\ Goto(h, [f EXCEPT !.pc = IF f.stored \cup {f.mail} = f.fetched THEN "mark" ELSE "next",
                       !.stored = @ \cup {f.mail}, !.mail = Nobody,
                       !.ticket = Nobody, !.copy = NoCopy])
  /\ UNCHANGED <<reply, sender, transport, crashes>>

\* ingest's transaction: the ticket it found comes back and gets the message, ...
IngestReply(h) ==
  /\ At(h, "collect", "save")
  /\ frame[h].ticket # Nobody
  /\ Hear(frame[h].ticket, frame[h].copy)
  /\ Logged(h)

\* ... or there is none and one is opened: one the bound has no identity for is not shown.
IngestNew(h) ==
  /\ At(h, "collect", "save")
  /\ frame[h].ticket = Nobody
  /\ \/ \E t \in Tickets : ~ticket[t].there /\ ticket' = [ticket EXCEPT ![t] = NewTicket]
     \/ (\A t \in Tickets : ticket[t].there) /\ UNCHANGED ticket
  /\ Logged(h)

\* The transaction fails, or there is no sender: the log keeps the mail and the error.
IngestError(h) ==
  /\ At(h, "collect", "save")
  /\ UNCHANGED ticket
  /\ Logged(h)

\* Mutant: every mail fetched is marked, and before the first is stored.
MarkFetched(h) ==
  LET f == frame[h] IN
  /\ At(h, "collect", "next")
  /\ mail' = [x \in Mails |-> IF x \in f.fetched THEN [mail[x] EXCEPT !.place = "seen"]
                                              ELSE mail[x]]
  /\ Done(h)
  /\ UNCHANGED <<ticket, reply, sender, transport, crashes>>

\* mark_seen, one mail after the other, or the answer to the provider: what was stored will
\* not come again.
MarkSeen(h) ==
  LET f == frame[h] IN
  /\ At(h, "collect", "mark")
  /\ \E x \in f.stored :
       /\ mail' = [mail EXCEPT ![x].place = "seen"]
       /\ Goto(h, IF f.stored = {x} THEN Idle
                  ELSE [f EXCEPT !.stored = @ \ {x}, !.fetched = @ \ {x}])
  /\ UNCHANGED <<ticket, reply, sender, transport, crashes>>
-----------------------------------------------------------------------------
(* messaging: a reply going out                                            *)

Step(r, pc) == sender' = [sender EXCEPT ![r].pc = pc]

Over(r, pc) == sender' = [sender EXCEPT ![r] = [pc |-> pc, retries |-> 0]]

Deliver(r, to) == reply' = [reply EXCEPT ![r].delivery = to]

RestOfDesk == <<ticket, mail, transport, frame, crashes>>

\* The contact has no address on file.
HasNoAddress(r) ==
  /\ sender[r].pc = "queued"
  /\ Deliver(r, "FAILED")
  /\ Over(r, "over")
  /\ UNCHANGED RestOfDesk

\* The mail server takes the mail ...
MailAccepted(r) ==
  /\ sender[r].pc = "queued"
  /\ reply' = [reply EXCEPT ![r].mailed = @ + 1]
  /\ Step(r, "accepted")
  /\ UNCHANGED RestOfDesk

\* ... or the attempt ends in an exception, the mail having left or not.
MailRefused(r) ==
  /\ sender[r].pc = "queued"
  /\ \E n \in {0, 1} : reply' = [reply EXCEPT ![r].mailed = @ + n]
  /\ Step(r, "refused")
  /\ UNCHANGED RestOfDesk

RecordSent(r) ==
  /\ sender[r].pc = "accepted"
  /\ Deliver(r, "SENT")
  /\ Over(r, "over")
  /\ UNCHANGED RestOfDesk

\* Mutant: a failure is recorded only by the attempt that will not be repeated, which
\* takes the limit for a number of attempts and never is that one.
RecordLastFailure(r) ==
  /\ sender[r].pc = "refused"
  /\ IF sender[r].retries > MaxRetries THEN Deliver(r, "FAILED") ELSE UNCHANGED reply
  /\ Step(r, "retry")
  /\ UNCHANGED RestOfDesk

RecordFailure(r) ==
  /\ sender[r].pc = "refused"
  /\ Deliver(r, "FAILED")
  /\ Step(r, "retry")
  /\ UNCHANGED RestOfDesk

\* Mutant: the limit is passed once.
RetryOnceMore(r) ==
  /\ sender[r].pc = "retry"
  /\ IF sender[r].retries <= MaxRetries
     THEN sender' = [sender EXCEPT ![r] = [pc |-> "queued", retries |-> @.retries + 1]]
     ELSE Over(r, "over")
  /\ UNCHANGED <<reply, RestOfDesk>>

\* retry queues the task again until its tries are used up.
Retry(r) ==
  /\ sender[r].pc = "retry"
  /\ IF sender[r].retries < MaxRetries
     THEN sender' = [sender EXCEPT ![r] = [pc |-> "queued", retries |-> @.retries + 1]]
     ELSE Over(r, "over")
  /\ UNCHANGED <<reply, RestOfDesk>>
-----------------------------------------------------------------------------
(* Processes die                                                           *)

\* A web process or the collecting worker: its transaction, if any, is rolled back.
HandlerDies(h) ==
  /\ crashes < MaxCrashes
  /\ frame[h] # Idle
  /\ crashes' = crashes + 1
  /\ IF At(h, "reply", "queue") THEN Over(frame[h].reply, "lost") ELSE UNCHANGED sender
  /\ mail' = Troubling(frame[h].fetched)
  /\ Done(h)
  /\ UNCHANGED <<ticket, reply, transport>>

\* The worker that sends a reply, wherever it is; or an exception ends the task before it
\* comes to send.
SenderDies(r) ==
  /\ crashes < MaxCrashes
  /\ sender[r].pc \in {"queued", "accepted", "refused", "retry"}
  /\ crashes' = crashes + 1
  /\ Over(r, "lost")
  /\ UNCHANGED <<ticket, reply, mail, transport, frame>>
-----------------------------------------------------------------------------
Requests(h) ==
  \E t \in Tickets :
    \/ \E to \in Statuses : BeginStatus(h, t, to)
    \/ \E a \in Agents : BeginTake(h, t, a) \/ BeginAssign(h, t, a)
    \/ \E r \in Replies : BeginReply(h, t, r)
    \/ BeginCustomer(h, t)

Handle(h) ==
  \/ SaveStatus(h) \/ Take(h) \/ Assign(h)
  \/ SaveReply(h) \/ QueueReply(h) \/ SaveCustomer(h)
  \/ \E x \in Mails : MatchMail(h, x)
  \/ IngestReply(h) \/ IngestNew(h) \/ IngestError(h)
  \/ MarkSeen(h)

Send(r) ==
  \/ HasNoAddress(r) \/ MailAccepted(r) \/ MailRefused(r)
  \/ RecordSent(r) \/ RecordFailure(r) \/ Retry(r)

Customers ==
  \/ \E t \in Tickets : OpenTicket(t)
  \/ \E x \in Mails, about \in Tickets \cup {Nobody} : MailArrives(x, about)

Next ==
  \/ Customers
  \/ \E h \in Handlers :
       \/ Requests(h) \/ Handle(h) \/ HandlerDies(h)
       \/ BeginCollect(h) \/ \E x \in Mails : BeginPost(h, x)
  \/ \E r \in Replies : Send(r) \/ SenderDies(r)

Spec == Init /\ [][Next]_vars
-----------------------------------------------------------------------------
(* Properties.                                                             *)

TypeOK ==
  /\ ticket \in [Tickets -> Ticket]
  /\ reply \in [Replies -> Reply]
  /\ sender \in [Replies -> Sender]
  /\ mail \in [Mails -> Mail]
  /\ transport \in {"imap", "webhook"}
  /\ frame \in [Handlers -> Frame]
  /\ crashes \in 0..MaxCrashes

\* However requests overlap, a ticket that is resolved says when, and one that has been
\* answered is no longer new (apply_transition, reply).
TheRowHangsTogether ==
  \A t \in Tickets :
    /\ ticket[t].status = "RESOLVED" => ticket[t].resolved
    /\ (\E r \in Replies : reply[r].ticket = t) =>
         ticket[t].responded /\ ticket[t].status # "NEW"

\* A ticket somebody holds changes hands only when an administrator assigns it: of two
\* takes one is refused (take).
TakenIsKept ==
  [][\A t \in Tickets :
       ticket[t].assigned # Nobody /\ ticket'[t].assigned # ticket[t].assigned =>
         \E h \in Handlers : frame[h].task = "assign" /\ frame[h].ticket = t
                            /\ frame'[h] = Idle]_vars

\* A portal reply is being stored on ticket t.
Heard(h, t) ==
  /\ At(h, "customer", "save")
  /\ frame[h].ticket = t
  /\ frame'[h] = Idle
  /\ crashes' = crashes

\* A customer's message judged on the ticket as it stands brings a finished one back
\* (reopen_for_customer_reply).
ACurrentReplyReopens ==
  [][\A h \in Handlers, t \in Tickets :
       Heard(h, t) /\ frame[h].copy = Read(t) => ~Finished(ticket'[t])]_vars

\* A mail is marked seen only when the log has it, whoever died on the way; and it is in
\* the log twice only if somebody did, or two were storing it at once (collect_inbound_email).
SeenIsStoredOnce ==
  \A x \in Mails :
    /\ mail[x].place = "seen" => mail[x].copies > 0
    /\ mail[x].copies > 1 => mail[x].troubled

\* A sending that ran its course leaves the reply sent or failed, never pending, and a
\* reply recorded as sent has left (_deliver_reply).
TheSenderLeavesItsMark ==
  \A r \in Replies :
    /\ sender[r].pc = "over" => reply[r].delivery \in {"SENT", "FAILED"}
    /\ reply[r].delivery = "SENT" => reply[r].mailed > 0
=============================================================================
