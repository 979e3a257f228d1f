# AZM CRM in TLA+

AZM CRM is a Django application for a support desk: tickets, e-mail, live chat and a customer
portal. It runs as several kinds of process over two stores: web requests, WebSocket consumers
(Channels) and Celery workers, over PostgreSQL and Redis. No transaction spans the two stores,
requests run in autocommit unless a function says `@transaction.atomic`, tasks are acknowledged
early, and most of the interesting state is read, carried in memory for a while, and written
back. This directory models that: the chat desk first, in the most detail, then
the portal's and the staff's accounts, tickets and mail, the customers they belong to, and what
goes on inside one conversation. What is model-checked on small instances is, for the most part,
also proved for instances of any size.

Paths below are relative to the repository; `chat/` stands for `apps/chat/`.

## 1. Inventory

| Component | State it keeps | Operations | What makes it correct |
|---|---|---|---|
| Conversation lifecycle, assignment (`chat/services/lifecycle.py`, `assignment.py`) | the conversation row: `state`, `assigned_to`, `end_reason` | start, assign, end, requeue, connect the next, close the desk, hand on a dismissed agent's chats | one agent at a time; no step from one agent to another; ended once; capacity respected |
| Presence (`chat/services/presence.py`) | a Redis hash per agent: `capacity`, `active`, with a TTL of 45 s; a key per connected agent | go online/offline, heartbeat, claim and release a slot; socket opened and closed | `active` is what is held; offline stays offline |
| Queue (`chat/services/queue.py`) | a sorted set per department and branch | join, leave, peek, drain | the queue is exactly who waits; served in order; nobody waits for ever |
| Chat tasks (`chat/tasks.py`) | none | three periodic sweeps | what no event reports is found and acted on |
| Sockets (`chat/consumers/`) | each socket's own copy of its conversation; rate limiter | frames in, events out | stale copies do no harm |
| Messages and whispers (`chat/services/messaging.py`, `pending.py`) | message rows; held notes in a Redis list with a TTL | record and broadcast; hold, drain, forget | a note reaches its agent once |
| Liveness (`chat/services/liveness.py`) | a key per party of a conversation, with the grace period for its TTL | seen, gone | nobody on the line is taken for gone |
| Observations (`chat/models.py`, `consumers/supervisor.py`) | a row per supervisor's visit | opened and closed with the socket | whoever watches is on record, and the agent knows |
| Unread counts (`chat/services/unread.py`) | a Redis hash per agent | mark, clear | nothing but the tests calls `mark`: no count is ever kept |
| Transcript (`chat/services/transcript.py`) | the ticket a conversation writes to | move to another ticket | everything said is on the ticket the conversation is on |
| Tickets (`apps/tickets/`) | `status`, `assigned_to`, `resolved_at`, `first_response_at` | transitions, take, assign, reply, note, reopen | the columns of a row agree; a taken ticket stays taken; a customer's reply brings it back |
| Mail (`apps/messaging/`) | `delivery_status`, the inbound log | send with retry, collect, ingest | no mail is lost, none stored twice; a sending that ran leaves its mark |
| Intake and customers (`apps/intake/`, `apps/customers/`) | contacts, their addresses and organization | open a ticket, match, link | one contact per address; history under the right organization |
| Reference numbers (`apps/core/models_sequence.py`) | a counter per prefix and year | allocate | unique, without gaps |
| Portal (`apps/portal/`) | accounts, single-use links, failed sign-ins, sessions | register, confirm, reset, sign in | a link works once; a reset ends other sessions; a lock holds until its time or a reset |
| Staff accounts (`apps/accounts/`) | `is_active`, role, scope | create, move, deactivate, sign in | a dismissed agent holds nothing; an administrator remains |
| Attachments, core, configuration, browser code, tools | | | not about ordering or interaction |

How they interact. A visitor's web request (`chat/views.py` `start`) creates ticket, conversation
and token in one transaction, then looks for a free agent in Redis and either attaches one or
joins the queue. Agents' and visitors' sockets call the same lifecycle functions. Every ending and
every handover calls `connect_next_waiting`, which is the only thing that moves the queue. Celery
beat runs the sweeps every 15, 30 and 60 seconds (`CELERY_BEAT_SCHEDULE` in
`config/settings/base.py`); the collection of mail is a task too, which that schedule does not
name although `docs/email-setup.md` counts on it. `User.save` calls into the desk when an account
is deactivated. Mail and portal replies reopen tickets; a chat's messages are messages of its
ticket. The portal asks whether an address is a member of staff's before it makes an account.

What is hard. Two handlers interleave between any two calls to a store. A socket lives for the
length of a conversation with the row it read at its start. `claim_slot` and `release_slot`
read and write back, as does the count of failed sign-ins. A handler can be killed, or its
transaction rolled back, between the claim of a slot and its use, between two writes of a reset,
or between storing a mail and marking it. Absence has no event: it is found by a TTL and a sweep.
`PROJECT.json` lists the hazards line by line, with the properties that watch each one.

## 2. Modules

```
ConversationRow            the row, who holds what, and the properties of rows
  |-- ConversationLifecycle        what is promised: five steps on one row
  |     `-- ConversationLifecycleProofs
  `-- ChatDesk                     what the code does, call by call
        `-- MCChatDesk             instances for TLC
              `-- ChatDeskProofs   of the whole desk, and of its handlers one after another

PortalSessions             what is promised: who is served, and until when
  `-- PortalAccount        accounts, links, sessions and the lock, statement by statement
        |-- PortalAccountProofs     with the refinement of PortalSessions
        `-- MCAccounts     instances for TLC, with
              |-- StaffAccounts     administrators, scopes and staff sessions
              `-- AccountsProofs    of the staff's accounts and of the two together

TicketDesk                 a ticket under staff, customers and mail; replies going out
  |-- TicketDeskProofs
  `-- MCService            instances for TLC, with
        |-- CustomerRecords   contacts, organizations, ticket numbers
        |     `-- CustomerRecordsProofs
        |-- Transcript        what was said, and the ticket it is kept on
        |     `-- TranscriptProofs
        |-- Whispers          a supervisor's notes and the agent's sockets
        |-- ChatSilence       the idle and the interruption sweep over one conversation
        |-- Watching          supervisors, their record, and the agent's screen
        `-- ServiceProofs     of the last three, and of all of them together
```

**ConversationLifecycle** is the abstract specification: a conversation starts, is assigned to
an agent with room, may be requeued, and ends. It allows no step out of ENDED.

**ChatDesk** is one department and branch. Its variables:

| Variable | Code |
|---|---|
| `row` | the table of `chat/models.py` `Conversation` |
| `employed` | accounts with `is_active` and a role that takes chats |
| `presence` | the hash `chat:presence:<id>`; `room` is its `capacity` field, `online` whether it exists |
| `queue` | the sorted set `chat:queue:<department>:<branch>` |
| `socket` | `VisitorConsumer.conversation`, the object loaded at connection |
| `work` | one frame per worker: where its handler is, and the local variables it carries |

A *worker* is a thread running one handler. `Begin...` actions are the entry points (a request, a
frame, a tick of the schedule); the other actions are one call to one store each, with the label
of the next call in the frame's `pc`. The labels read as the code does:

| Code | Labels |
|---|---|
| `views.start` | choose, then `assign`, then join |
| `assignment.assign` | claim, take, attach (the row lock, one transaction) |
| `presence.release_slot` | release, give |
| `lifecycle.end` | unqueue, save_ended, look |
| `lifecycle.requeue` | save_waiting, rejoin, look |
| `lifecycle.connect_next_waiting` | look, load, claim..., serve or drop, look again |
| `lifecycle.desk_closed_if_empty` | desk, drain, each |
| `lifecycle.agent_deactivated` | offline, gather, each |
| the sweeps of `tasks.py` | each |

`AttachFails` is a transaction rolled back, with the exception path of `assign`; `Dies` is a
killed process.

Abstractions, all of which add behaviours or leave out what no property reads:

- Liveness keys are not modelled. A sweep decides freely that a party is gone or silent.
- A presence key may expire at any time; a heartbeat only delays that. `heartbeat` therefore has
  no action.
- `has_capacity` and the first read of `claim_slot`, adjacent reads of one hash, are one read;
  the list of candidates is read at once.
- `queue.join`'s `zrank` and `zadd` (`queue.py:38-39`) are one step. Between them only another
  join of the same token matters: the second `zadd` then gives it a somewhat later arrival.
- `queue.drain`'s `zrange` and `zrem` (`queue.py:96-98`) are one step, at the `zrange`. The `zrem`
  names the tokens that were listed, so whoever joins between the two stays queued, and whoever
  leaves has their conversation ended all the same, as in the model. What differs is a listed
  token that is joined once more between the two, which the `zrem` removes again.
- A visitor has one socket; a reconnection replaces its copy. RESOLVED is counted as
  ENDED_BY_AGENT.
- A conversation is a model value, an arrival time its place in the queue. The ticket, the token,
  the messages and the announcements are left out.
- Clocks of `time.time()` are taken to agree, so a later `join` is behind an earlier one.

`MCChatDesk` adds the visitors who have a socket (`Callers`) and three history variables, which no
guard reads: `lost`, the slots an agent has lost since they came online, to endings on copies
that name nobody; `gone`, the conversations whose visitor left the queue; `unpulled`, that an agent
came online beside the queue and `connect_next_waiting` has not come to its end since.

### Accounts

A *handler* in the remaining modules is a request, a socket's frame or a task. It reads what it
works on into its frame (`copy`), and its later steps judge by that copy and write columns of the
row; between two steps every other handler may run. The statements of one
`@transaction.atomic` are one step unless the module says otherwise.

**PortalSessions** is the abstract promise: a browser is served as one customer or nobody,
comes to be served only as a customer who has a key, and stops being served the moment the key
changes or the account is deactivated. **PortalAccount** implements it:

| Variable | Code |
|---|---|
| `account` | `portal_customeraccount`: password, confirmed, active, `failed_sign_ins`, `locked_until` |
| `link` | `portal_customertoken`: live, or used or expired |
| `outbox`, `inbox` | the mail tasks at the broker, the mails that arrived |
| `session` | the customer in a browser's session and the fingerprint it was stamped with |
| `staff` | the addresses of `accounts_user` |

| Code | Labels |
|---|---|
| `registration.register`, `resend_confirmation`, `passwords.start_reset` | staff, insert, issue |
| `views.sign_in` | record, or clear, stamp |
| `registration.confirm` | use, confirm, stamp |
| `passwords.complete_reset` and the view after it | spend, save, invalidate, clear, stamp |

`IssueLink` and `RecordFailedSignIn` end in handing a message to the broker, which may not happen:
the link, or the lock, stands and nobody is written to.
A password is the number of the time it was chosen, since hashing salts. `notices`, `overlapped`
and `orphaned` are history: they exist so that properties can name the interleavings under which
the code does not keep its word.

**StaffAccounts** has the accounts of staff by address, their sessions, and the administration
screens: `user_new`, `user_scope`, `own_scope`, `user_deactivate`, and the commands that make the
first administrator. A request is admitted on the account its session named when it began.
`User.save` is what it is in the code: `was_active` is read, the row saved, the sessions listed,
and those of the account deleted one at a time, with other requests, and death, between any two.
The history `late` has the browsers whose sign-in was let in before their account's end and landed
after it, `interrupted` the accounts whose deactivation died before all sessions were ended.

### Tickets and customers

**TicketDesk**: `ticket` is the row (`status`, and whether `resolved_at` and `first_response_at`
are set), `reply` an agent's message with its `delivery_status` and the copies that left, `sender`
the Celery task that delivers it, `mail` a customer's mail on its way into the log. `Begin...`
reads the ticket, `Save...` is the save of the columns the code names in `update_fields`; `Take`
locks the row and reads it again. `MatchMail`, `Ingest...` and `MarkSeen` are `ingest` and
`collect_inbound_email` mail by mail, the marking too; `BeginPost` is the webhook, whose provider
posts again until it is answered. A process may die anywhere (`HandlerDies`, `SenderDies`), and a
sending may raise before it has come to send.

**CustomerRecords** looks inside the one transaction whose statements matter: `open_ticket` finds
or inserts a contact, locks the reference sequence, and commits. Read committed isolation, the
unique index and the row lock are what the steps wait for. The two inserts of a contact, which
nobody sees before the commit, are one step there. A chat's start (`BeginChat`) finds or creates its
contact *before* its transaction and outside any other (`chat/views.py:85-90`): contact and address
are committed one after the other, and until the ticket follows the contact is `alone`.
`LinkContact` is the transaction that links a contact and backfills its tickets.

### Inside a conversation

**Transcript**: every writer stores on the ticket of the copy it has: a socket's from when it
opened, an agent's frame from one read. `BeginAttach`, `CheckAttach`, `MoveRows` and
`CommitAttach` are `move_to`; the rows it moves are locked until it commits, what it only reads
is not.

**Whispers**: an agent's socket joins its group, sets its key, reads what is held, deletes it and
sends it, each a step; a note is broadcast, then the key is looked at, then it is held. A socket
joins the group for what its agent holds as it opens, and at no other time: nothing in the code
sends the `chat.assigned` event for which the consumer has a handler. The key runs out after its
180 seconds however long the socket stays open, since nothing but an opening sets it, and goes when
any of the agent's tabs is closed. `key` keeps how it got the way it is: *gone* is missing beside a
connected agent, *orphan* is there after its process died.

**ChatSilence**: the idle clock has the two thresholds of `tasks.py` for its only values, the
liveness keys count heartbeats up to the grace period. Both sweeps read, judge, and act later.

**Watching**: a supervisor's socket opens its record, joins, announces itself, and undoes the
three in the order of `disconnect`; the agent's screen knows what it was told while connected.

The history fields `late`, `torn`, `steady`, `judged`, `alone`, `broken`, `misled`, `troubled`,
`missed` and `dead` say that something was out of date, met another handler, was committed by
itself, or died. Each is set where that happens and read by one property, so that the property
holds of everything else and not only when nothing overlaps.

## 3. Runs

Every configuration that runs out of identities, passwords or messages has
`CHECK_DEADLOCK FALSE`: a desk where every conversation has ended and nobody is online is quiet,
and so is a portal whose links are spent. That is not a fault. `closed_unwarned` checks deadlock:
clocks and sweeps never stop.

### The chat desk

Each specification in `MCChatDesk` is a part of `ChatDesk`'s `Next`, and says what it leaves
aside. The complete `Next` satisfies few of the properties, as the second table shows; the passing
runs say under which conditions each does hold.

| Run | Bounds | States | Checked |
|---|---|---|---|
| `desk_race` | 2 workers, 1 conversation, 2 agents, capacity 1 | 461,000 | `TypeOK`, `RowConsistent`, `NeverStolen` with handlers interleaved, killed and rolled back |
| `desk_alone` | 1 worker, 3 conversations (1 with a socket), 2 agents, capacity 2 | 558,000 | `SlotsMatchHeld`, `QueueIsTheWaiting`, `WithinCapacity`, `DismissedHoldsNothing`, `StaysOffline`, and `ImplementsLifecycle` |
| `desk_service` | 1 worker, 3 conversations, 2 agents, capacity 1 | 48,000 | `LongestWaitingFirst`, `QueuedIsServed`, `DesertedDeskCloses`, `HandlersFinish` |

Why these bounds. A race over a row needs two handlers and one row, and two agents for it to pass
between; capacity one makes every claim contended. The agreement of slots, queue and rows needs
capacity above one (so that "one too many" differs from "any"), and one visitor more than a single
agent can hold, so that somebody queues. Order in the queue needs one conversation being served
and two waiting. Three is the least number that shows all of it. One visitor's socket is enough
for its copy to be older than the row while other conversations come and go beside it; the proofs
allow every visitor one. The properties of `desk_race` are also proved for every bound, and the
safety properties of the other two runs, and the refinement, for one worker and every other bound
(section 4).

What the passing runs mean together. Handlers interleaved keep the row consistent and never pass a
conversation from hand to hand, whatever else they break. Handlers that run one after the other
implement the lifecycle, keep within capacity, and keep queue and rows in agreement but for those
who have left the queue. They do *not* keep slots and rows in agreement: a socket opened while its
conversation waits has a copy that names no agent, and when the visitor closes on it after
an agent has been attached, `end` releases nothing (`assignment.py:59`) and the slot is lost for the
rest of the shift, which is what `assignment.py:6-8` warns of. `SlotsMatchHeld` says that an agent's
count is what they hold and exactly the slots lost that way (`lost`).

`desk_alone` runs the handlers of the staff, of the schedule and of the visitor, and leaves aside
what its stores do not survive:

- a handler killed between two calls;
- presence that lapses under a held conversation, or an agent who returns holding one
  (`capacity_forgotten`; a slot operation under way writes a lapsed key back, so that `StaysOffline`
  does not hold of the complete `Spec`);
- an attach rolled back in `start`, whose request then fails before it has queued the visitor, or in
  the loop over a dismissed agent's conversations, whose rest is then not handed on;
- a visitor's close on a copy of a conversation that has ended since (`ending_overwritten`), or that
  names an agent it has been taken from since.

`desk_service` lets agents come online and presence lapse between any two handlers, with people
waiting too. An agent who comes online beside the queue is not offered to it
(`queue_stands_still`), and the next visitor to start is attached at once, ahead of all who wait,
which FR-017 forbids. `LongestWaitingFirst` and `QueuedIsServed` except this by name: `unpulled` holds
from then until `connect_next_waiting` has run to its end. Left aside are the visitor's socket and
leaving the queue, failed attaches and killed handlers, and handovers and dismissals: a requeued
conversation is barred from its previous agent for one pass, and may be overtaken meanwhile.

### Accounts, tickets and conversations

| Run | Bounds | States | Checked |
|---|---|---|---|
| `accounts` | 1 address, 1 browser, 3 links, 2 passwords, threshold 2, 2 handlers; 2 people, 2 browsers, 2 scopes | 1,080,000 | `ImplementsSessions`, `ServedByCurrentProof`, `ResetByResetLinkOnly`, `NoSecondKey`, `LinkWorksOnce`, `OneNoticePerLock`, `LockHolds`, `ResetUnlocks`; `NoSessionOutlivesItsAccount`, `AnAdministratorRemains` |
| `tickets_and_chats` | 2 handlers throughout, and per part as below | 1,545,000 | one to three properties of each part, below |

Both runs put independent modules side by side: a variable (`desk`, `part`) chosen at the start
says which one the behaviour is about, and the others rest, so the state spaces add instead of
multiplying. `EveryTypeOK` and `BothTypeOK` are the type invariants of the modules together. In
`tickets_and_chats` sets of different components have the same members, so that two permutations
are a symmetry of all of them; no temporal property is checked under symmetry, only steps.

| Part | Bounds | Checked |
|---|---|---|
| `replies` | 1 ticket, 2 agents, 1 reply, 1 retry, 1 crash | `TheRowHangsTogether`, `TakenIsKept`, `ACurrentReplyReopens`, `TheSenderLeavesItsMark` |
| `mail` | 2 mails, 1 ticket, either transport, 1 crash, status changes beside them | `SeenIsStoredOnce`, and the ticket's properties again |
| `records` | 2 addresses, 2 contacts, 2 organizations, 2 tickets | `OpeningIsAllOrNothing`, `OnlyALateTicketIsMissed`, `AttributionStands` |
| `transcript` | 2 conversations, 3 tickets of which one was there before, 1 message, 1 socket | `TranscriptMovesWhole`, `OneLiveTranscript` |
| `whispers` | 2 agents, 2 sockets, 1 note | `ASteadyNoteArrivesOnce` |
| `silence` | 2 sweeps at once, grace of 2 heartbeats, sweeps as late as they like | `WarnedIfNoticed`, `NobodyOnTheLineIsGone` |
| `watching` | 2 supervisors | `WatchersAreKnown` |

Why these bounds. Each hazard is between two handlers and over one row, one link, one mail or one
note; a second address, or a third handler, gives no step a new thing to read. Two passwords are
the least a reset can tell apart, three links the least with one for confirmation and two
competing resets. Threshold two makes a failure that does not lock differ from one that does.
One retry and one crash let a task be retried, and lost, once; the retry limit is compared with
and never computed with. `collect` needs two mails so that a batch can be half stored. Two
ticket numbers let two openings race, and one follow another. The transcript needs a ticket per
conversation and a third to attach both to. A grace period of two heartbeats is the least in
which one lost heartbeat is survived. Agents' views and mail meet only in the ticket's status,
so `replies` leaves mail aside, and `mail` leaves aside every request but the change of status.

What they show, and what they do not. Who the portal serves follows the abstract sessions under
every interleaving and every death: a stamp is the password of the copy that was proved, so a
sign-in that overtakes a reset produces a session that is not served. What is decided by reading
and writing back is not so robust, and the properties say it by their exceptions:

- two wrong passwords at once count as one and may each send a notice; two uses of one link at
  once both get in; two administrators who deactivate each other at once leave none. These are
  checked of requests that do not overlap (`overlapped`).
- a reset that dies between saving the password and burning the other links leaves a second key
  (`orphaned`).
- a customer's reply does not reopen a ticket that is resolved between its read and its save
  (`ACurrentReplyReopens` is about replies whose copy is current).
- a mail is stored twice if the process dies before marking, or two collections overlap
  (`troubled`), but never lost.
- a deactivated account has a session left where a sign-in let in before lands after it (`late`), or
  where the deactivation died before it had ended them all (`interrupted`); a served request is
  refused all the same, but asking for the deactivation again ends none, since `was_active` is
  FALSE by then.
- a ticket opened from a contact read before its link keeps no organization (`late`).
- a chat whose start fails after its contact's insert leaves a contact without a ticket, or without
  an address (`alone`), the thing `open_ticket` is one transaction to prevent
  (`intake/services/creation.py:29-30`).
- a message written from an outdated copy, and attaches that meet, split a transcript (`late`,
  `torn`).
- a note whose agent's connection changes while it is on its way may be lost or repeated
  (`steady` is then FALSE). Of connections that stand still, what `pending.py:50-52` and
  `messaging.py:83-86` promise holds but for two ordinary cases each: the note is shown and held
  again for an agent who has been connected for more than 180 seconds, or has closed another
  tab (`judged = "gone"`); and it is neither shown nor held where the agent was connected before
  the conversation was theirs, so that they never joined its group, or where a process died and left
  its key (`MissedByKey`).
- a sweep acts on what it read, though somebody wrote or came back since (`broken`), and the mark
  it sets then suppresses the next warning (`misled`).

Nothing of the seven parts is liveness: what must eventually happen there is a Celery task that is
acknowledged early and may be lost, or a person's doing.

### Disagreements

Disagreements between the documents and the code, each shown by a run that TLC must refute:

| Run | Property | What happens |
|---|---|---|
| `ending_overwritten` | `FirstEndingStands` | The agent ends the chat; the visitor's socket, whose copy still says ACTIVE, ends it again with another reason. `end` is documented as idempotent. (The same stale copy, if it was read while the conversation waited, loses the agent's slot at the *first* ending: `lost` above.) |
| `capacity_forgotten` | `WithinCapacity` | An agent's key lapses while they hold a chat; coming back online resets `active` to zero and they are given one too many (FR-012). |
| `ending_revived` | `EndedIsFinal` | A conversation loaded as WAITING is ended by another handler; `assign` then locks the row, looks only at `assigned_to`, and makes it ACTIVE. |
| `queue_stands_still` | `NobodyWaitsBehindCapacity` | An agent comes online and the queue is not pulled: a visitor waits beside a free agent for good, although `connect_next_waiting`'s own text names "coming back online". (A visitor who starts meanwhile is served first: `unpulled` above.) |
| `place_given_up` | `AbandonedIsClosed` | A visitor leaves the queue; the row stays WAITING and no sweep looks at WAITING rows, although the data model says one closes it. |
| `transcript_split` | `TheTranscriptIsWhole` | A customer goes on writing on a socket opened before the agent attached the conversation to another ticket; the messages are stored on the retired one (SC-003: the complete transcript). |
| `closed_unwarned` | `WarnedBeforeClosed` | A customer waits past the idle limit and is then assigned; the next sweep closes the conversation without a warning, which must come "*before* the close, not with it". `Punctual` is TRUE: no sweep is late, so this is not a matter of scheduling. |

Other disagreements with a document or a comment are exceptions that a passing property names, and
TLC reaches each of them: the slot that a visitor's close loses (`lost`), the order that an agent's
coming online breaks (`unpulled`), the note repeated or lost (`judged`, `MissedByKey`), the contact
of a chat that never started (`alone`), and the sessions left by a deactivation that died
(`interrupted`).

### Fairness

**Fairness** (`Fairness` in `ChatDesk`) is stated for the temporal runs only:

- `WF` of each worker's `Handle`: a handler that is running keeps running. `Dies` and
  `AttachFails` are not in those specifications.
- `SF` of the desk sweep: Celery beat schedules it every minute for as long as the system runs; a
  tick that finds every worker busy is followed by another, so it is not kept out for ever.
- `SF` of an agent closing each ACTIVE conversation: staff end their conversations, or the idle
  sweep does after ten minutes. Without it no queue could be expected to move.

Nothing is assumed of visitors or of agents coming online.

## 4. Proofs

`tlapm` checks these for every value of the constants: any number of conversations, agents,
tickets, mails, addresses, browsers, links, sockets, handlers, retries and crashes. The
assumptions about the constants are evaluated by the passing runs:

- `ChatDesk` and the lifecycle: `CapacityAssumption` (capacity is a positive natural; the
  setting's default is 3) and `NobodyAssumption` (`NULL` is no agent).
- `TicketDesk`: `TicketAssumption` (`Nobody` is none of the identities; the limits are naturals).
- `PortalAccount`: `PortalAssumption` (the lock's threshold and the number of passwords are
  positive; `Nobody` is no identity and, since a password is a number here, no number).
- `CustomerRecords`, `Transcript`, `Whispers`, `ChatSilence`: one named assumption each, of the
  same kind (and a positive grace period). These modules are instantiated, so their theorems state
  the assumption as their hypothesis, and `MCService`'s `ServiceAssumption` has TLC evaluate all
  four for its instances; so do `StaffAccounts`, with `MCAccounts`. `Watching` needs none.

| Theorem | States |
|---|---|
| `ChatDeskProofs!TypeCorrect` | `Spec => []TypeOK` |
| `ChatDeskProofs!RowsConsistent` | `Spec => []RowConsistent` |
| `ChatDeskProofs!NoConversationStolen` | `Spec => NeverStolen` |
| `ChatDeskProofs!AloneImplementsLifecycle` | `AloneSpec => ImplementsLifecycle`, the refinement of `ConversationLifecycle`, one worker |
| `ChatDeskProofs!SlotsAreHeld`, `!TheWaitingAreQueued`, `!CapacityIsKept`, `!TheDismissedHoldNothing` | `AloneSpec => []` `SlotsMatchHeld`, `QueueIsTheWaiting`, `WithinCapacity`, `DismissedHoldsNothing`, one worker |
| `ChatDeskProofs!OfflineIsOffline` | `AloneSpec => StaysOffline`, one worker |
| `ChatDeskProofs!LongestWaitingAreServedFirst` | `FairServiceSpec => LongestWaitingFirst`, one worker |
| `ConversationLifecycleProofs!LifecycleWithinCapacity` | `Spec => []WithinCapacity`, of the lifecycle |
| `ConversationLifecycleProofs!LifecycleEndsOnce` | `Spec => EndedIsFinal`, of the lifecycle |
| `PortalAccountProofs!AccountsImplementSessions` | `Spec => ImplementsSessions`, the refinement of `PortalSessions` |
| `PortalAccountProofs!ServedAreProved` | `Spec => []ServedByCurrentProof` |
| `PortalAccountProofs!ThereIsNoSecondKey` | `Spec => []NoSecondKey` |
| `PortalAccountProofs!LocksAreAnnouncedOnce` | `Spec => []OneNoticePerLock` |
| `PortalAccountProofs!LinksWorkOnce`, `!ResetsUnlock`, `!ResetsTakeAResetLink`, `!LocksHold` | `Spec =>` `LinkWorksOnce`, `ResetUnlocks`, `ResetByResetLinkOnly`, `LockHolds` |
| `PortalAccountProofs!TypeCorrect`, `AccountsProofs!BothTypesCorrect` | `Spec => []TypeOK`, `BothSpec => []BothTypeOK` |
| `AccountsProofs!SessionsEndWithTheirAccount` | `BothSpec => []NoSessionOutlivesItsAccount` |
| `AccountsProofs!AdministratorsRemain` | `BothSpec => AnAdministratorRemains` |
| `TicketDeskProofs!TypeCorrect` | `Spec => []TypeOK` |
| `TicketDeskProofs!RowsHangTogether` | `Spec => []TheRowHangsTogether` |
| `TicketDeskProofs!SendersLeaveTheirMark` | `Spec => []TheSenderLeavesItsMark` |
| `TicketDeskProofs!SeenMailIsStored` | `Spec => []SeenIsStoredOnce` |
| `TicketDeskProofs!TakesAreKept` | `Spec => TakenIsKept` |
| `TicketDeskProofs!CurrentRepliesReopen` | `Spec => ACurrentReplyReopens` |
| `CustomerRecordsProofs!TypeCorrect` | `Spec => []TypeOK` |
| `CustomerRecordsProofs!OpeningsAreAllOrNothing` | `Spec => []OpeningIsAllOrNothing` |
| `CustomerRecordsProofs!OnlyLateTicketsAreMissed` | `Spec => []OnlyALateTicketIsMissed` |
| `CustomerRecordsProofs!AttributionsStand` | `Spec => AttributionStands` |
| `TranscriptProofs!TypeCorrect` | `Spec => []TypeOK` |
| `TranscriptProofs!TranscriptsMoveWhole` | `Spec => []TranscriptMovesWhole` |
| `TranscriptProofs!LiveTranscriptsAreOne` | `Spec => []OneLiveTranscript` |
| `ServiceProofs!EveryTypeCorrect` | `ServiceSpec => []EveryTypeOK` |
| `ServiceProofs!SteadyNotesArriveOnce` | `ServiceSpec => []ASteadyNoteArrivesOnce` |
| `ServiceProofs!TheNoticedAreWarned` | `ServiceSpec => WarnedIfNoticed` |
| `ServiceProofs!WhoIsOnTheLineIsNotGone` | `ServiceSpec => NobodyOnTheLineIsGone` |
| `ServiceProofs!WatchersAreOnRecord` | `ServiceSpec => []WatchersAreKnown` |
| `ServiceProofs`, five more | the theorems of `CustomerRecordsProofs` and `TranscriptProofs`, of `ServiceSpec` |

All but the seven marked "one worker" are about the *complete* `Spec` of each module, with crashes,
sockets, lapses and any number of handlers, not the parts the runs choose. The seven are about
`AloneSpec` and `FairServiceSpec` of `MCChatDesk` and have the hypothesis `Workers = {u}`: handlers
come one after another, while conversations, agents, capacity and the visitors with a socket are
any. They say no more than the specifications do, whose exceptions (`lost`, `gone`, `unpulled`)
and omissions section 3 lists; beyond those the code breaks them (`capacity_forgotten`,
`ending_overwritten`, `ending_revived`, ...). `BothSpec` and `ServiceSpec`, the specifications of
the two large runs, run one of several components at a time; what is proved of them is proved of
a component's own `Spec` first (the invariant lemmas `StaffInvariant`, `WhispersInvariant`,
`SilenceInvariant`, `WatchingInvariant`), and lemmas `EachDesk` and `EachComponent` show that
their every behaviour is one of each component, at work or at rest.

### The chat desk

`TypeOK` is not inductive. A claim writes `seen + 1`, which stays within `0..Capacity` only if
`seen < Capacity` when the frame is at `take`; and an attach writes `f.agent` into the row, which
keeps the row's type only if the register holds an agent at that label. `Coherent(f)` says what
the label of a frame promises of its registers, and `TypeInv == TypeOK /\ WorkCoherent` is
inductive. The proof first shows that each helper that builds a frame (`Entered`, `Finished`,
`Releasing`, `Resumed`, ...) builds a typed and coherent one, then has one lemma per action.

`RowConsistent` follows because only four actions write the row (`BeginStart`, `Attach`, `EndSaves`,
`RequeueSaves`; lemma `RowStep`) and each writes the columns together. For the same reason
`NeverStolen` is a property of each step: only `Attach` puts an agent on a row, and under the lock
it does so only when there is none. `RowConsistent` therefore
survives a handler acting on any stale copy, which is not evident from the code.

*One handler after another.* With one worker the two stores still disagree in the middle of every
handler, so none of `SlotsMatchHeld`, `QueueIsTheWaiting` and `DismissedHoldsNothing`, which speak
of the quiet desk, is inductive. `AloneInv` (checked by TLC on `desk_alone`'s instance before it
was proved) says how far apart they are at each label of the one frame:

- `Placed`: which handler can be where, and what it comes back to.
- `CopiesTrue`: the copies a handler works from, in its hand or still to come in its loop, are the
  rows as they are, but that a visitor's close may have a copy that names nobody yet. With one
  handler nobody writes the row between the read and the save, and a handler's own endings and
  requeueings touch no other copy of its loop.
- `QueueTrue`: a waiting conversation is in the queue unless it is in the handler's hands
  (`InHand`) or its visitor has left (`gone`), and a queued one waits, except that `serve` has
  already attached the head.
- `SlotsTrue`: for every online agent, count + slots given back for rows not yet saved = rows held
  + slots claimed for rows not yet attached + slots lost to a visitor's close (`lost`). Each step
  changes one cardinality by one, or a correction against it.
- `DismissedTrue`: a dismissed agent holds only what their own dismissal has still to hand on.

Two more parts are needed: `QueuedOnce`, so that taking a conversation out of the queue takes out
all of it, and `HeldBounded`, from the slots of online agents: a `take` is only reached with a
slot to spare, and while an agent is online their slots count what they hold. The proof has one
lemma per label and per part. `ImplementsLifecycle` follows without history or prophecy: the
mapping is the identity on rows, `AloneInv` supplies the guards of the lifecycle's steps (a row
that is attached waits and its agent has room, a row that is put back is held, a row that ends has
not ended), and every other step stutters.

*The order of service* is simpler, since nothing is handed over: `ServiceInv` says that between
handlers nobody waits behind capacity that exists, unless `unpulled` (`Filled`), that a new
visitor's handler claims a slot only if the queue is empty or `unpulled`, and that
`connect_next_waiting` has the head of the queue in its hand until it attaches it. It is an
invariant of the steps of `FairServiceSpec`, presence that lapses between handlers included; the
fairness is not used.

For the lifecycle, `WithinCapacity` needs that the conversations held by an agent are finite
(`HeldBounded`) before their number can be compared with the capacity.

### Accounts

`PortalInv` has three layers. What the rows say by themselves: links belong to accounts, a session
carries the stamp of the password it was proved with, and that password is not newer than the
account's. What a frame may rely on *whatever the others do* (`FrameOK`): its copy's password is
not newer than the account's, a confirmed copy means a confirmed account, a reset under way has
the mail of its link in its hands. The argument is monotonicity again: `Grows` says that accounts
stay, stay confirmed, and their passwords get newer, that links die and are not revived, that
mail that arrived stays; every frame's promises survive it (`FrameSurvives`). A new password
is greater than all there were (`Newest` is a `CHOOSE`, so that it is the greatest is a lemma, by
the well-founded order of the naturals), so a session
stamped with an old password never becomes valid again. That is `ServedByCurrentProof`, and it
holds although sign-in, reset and confirmation each stamp a session from a copy several steps old.

`KeysOK` makes `NoSecondKey` inductive: a reset link issued under an earlier password works only
while some handler is still at `invalidate` for its account, or a reset has died there. `Alone` is
the third layer, what holds as long as requests have not overlapped: one frame is busy at most, its
copy is the row, and a lock that stands was announced once.

`AccountsImplementSessions` maps a state to who is served (`ServedAs`) and to each account's key
(`KeyOf`), and shows of every step of every handler that it is a sign-in, a change of key that
ends all sessions of the account, a deactivation, a sign-out, or nothing the abstract portal can
see. A stamp on a password that has been changed meanwhile is such a stutter.

For the staff, `StaffInv` has two layers too. What a frame may rely on while others run: an account
about to lose its sessions is inactive already, and stays so. With it, a session of an inactive
account is one that some handler is still to list or has listed and is still to delete
(`SessionEnding`), or it landed late, or its deactivation died. `StaffAlone` is what holds until two
requests overlap: who deactivates is an administrator and not the one deactivated, so one remains.

### Tickets and replies

`TheRowHangsTogether` is about rows that several handlers write from copies of different ages, and
neither it nor `TheSenderLeavesItsMark` is inductive. `DeskInv` adds to the types:

- `RowsOK`: what the property says of each row, taken apart into the row by itself and the row
  with its replies.
- `FramesOK`: what a frame may rely on. The one that matters: a reply whose copy was no longer
  new is about a ticket that is not new now, since a copy can be old but a ticket never becomes
  new again.
- `OneWriter`: a reply is written by one handler, so its sending cannot begin twice.
- `SendersOK`: how far a sender has come bounds the copies that have left by the retries it has
  made, says that a provider's acceptance was preceded by a copy, and that a sending that is over
  was recorded.

The argument for the rows is monotonicity. `Grown(row, next)` says that what exists stays, and
what was answered or moved on never becomes unanswered or new; each helper that saves columns
(`Transition`, `Reopened`, `Answered`, ...) has a lemma that it only grows a row *whatever copy it
was judged on*, and what `RowsOK` and `FramesOK` say of tickets survives growth. That is why
no lock is needed for this property, where the others need a current copy.

`MailInv` is about who has a mail in hand. A mail nothing went wrong with (not `troubled`) is held
by one handler at most, is in the log at most once, and if it is there is either marked or known
as stored to the handler that holds it; a handler lets go of it when it marks it. A handler's death
or a second collection troubles exactly the mails it held.

`TakenIsKept` compares the holder before and after each step: `HolderMoves` says that whatever a
handler saves, the `assigned` column changes only in `Take`, under its lock and for a ticket without
a holder, in an administrator's assignment, and when a ticket is opened, which nobody holds
before.

### Customers and numbers

`OpeningIsAllOrNothing` speaks of committed rows only. What makes it inductive is what the open
transactions promise, in `RecordsInv`: a fresh contact is still free and its address nobody else's
(`FramesOK`), and a contact without a ticket is one that a chat has committed by itself and that
no ticket has taken up since (`ContactsOK`); two transactions never hold a fresh contact, or
address, in common (`AllApart`, which is what the unique index's wait establishes); whoever is
about to commit holds the sequence's lock and has its next number (`Numbered`); and the tickets
that exist are those from 1 to the last (`TicketsOK`). `OnlyALateTicketIsMissed` is inductive with
these: an opening commits its ticket as late if its contact's organization has changed since it
was read, and a link backfills every ticket committed before it.

### Transcripts

A transcript moves in several steps while sockets keep writing, and `TranscriptInv` says what the
mover may count on: the rows it has moved are locked, no other attach has them, and when it
commits they are all the rows of the conversation that count (`MovesOK`); past its check nobody
else is live on its target, unless their attaches met (`TargetsFree`); and its copy of the
conversation's ticket is true unless the conversation is torn (`FrameOK`). Being torn or late is
never undone, so what is said of the others stays true.

### Inside a conversation

*Whispers.* The key's history is worth something (`KeyOK`): the key is set, or gone, exactly if some
socket of the agent's has marked it and is connected still; it is an orphan, or was never there, if
none is. While a steady note is on its way its addressee's connection is settled: the
note was heard exactly if a socket has joined, and is `late` exactly if none was opened for
this conversation (`BroadcastOK`). So a settled agent who was missed had a key that a dead process left,
or sockets older than their conversation, and one who was heard has a key unless it is gone.
Once the note has been judged it was heard, or is held, or is in the hands of one socket, or was
replayed, or has lapsed, or the key misled; and no two of the first four, but where the key was gone
(`JudgedOK`). That needs the middle of a drain: a note that has been read and not yet deleted is both
held and in hand, and a socket about to delete has everything of its agent's in hand.

*Silence.* A sweep's reading that nobody broke is a lower bound of the silence there is
(`JudgeOK`), so what is judged by it is true when it is acted on. A mark that is set means that the
customer was told of this silence, or that somebody wrote while the mark was being set (`misled`).
A connected party's key is alive, except an agent's before it is seeded, and a sweep whose reading
is unbroken acts only on a party that is not connected.

*Watching.* A supervisor's record is open from the first step of their socket to the last but one,
and an agent's page that is loaded and not yet on the line has been told of nobody and misses
whoever is there.

### Model-checked only

Liveness, which needs fairness: `QueuedIsServed`, `DesertedDeskCloses`, `HandlersFinish`. Every
invariant, action property and refinement that a passing run checks is stated by a theorem. That
the seven theorems of one worker need this hypothesis in full is not shown (TLC shows
violations with two, but not which pairs of handlers would still be harmless). The
exceptions the properties name (`lost`, `gone`, `unpulled`, `overlapped`, `orphaned`, `interrupted`,
`late`, `alone`, `troubled`, `torn`, `steady`, the key's history, `broken`, `misled`) are not shown to
be as small as they can be.

## 5. Plan

What could be added, in order of weight:

1. The seven theorems of one worker for pairs of handlers that do not meet on a row or an agent,
   with ownership of a frame's conversation and agent as the hypothesis.
2. `SocketSpec`, where a visitor closes whatever their copy says: what survives of the lifecycle
   when an ending may be saved over another.
3. Coverage of the portal's and the staff's remaining views, where they change state.

## 6. Not modelled

- **Attachments**: validation and file storage in one step, with nothing to interact with.
- **Unread counts**: `unread.mark` has no caller outside the tests. `liveness.forget` and
  `queue.take_next` have none either.
- **Tokens' cryptography**: a visitor's token is a signed value, a link's secret is compared by
  its hash. Both are identities here.
- **The handler of `chat.assigned`** in `AgentConsumer`: no code sends that event.
- **Rate limits** of the forms and sockets (a limited request changes nothing), typing and focus
  frames (they store nothing).
- **Columns and rows nothing else reads**: priority, category, internal notes, names, languages,
  the notes appended to descriptions, audit entries, logs.
- **The staff screen that takes a customer's address** (`apps/accounts/views_admin.py`): it saves
  past the check `create_account` makes. `PortalAccount` takes the staff's addresses as they are;
  `PROJECT.json` lists the hazard.
- **Rehashing** of a password whose hash an older release made; Django's own admin, sessions and
  `changepassword` (external); the demonstration sign-in that settings other than development's
  refuse.
- **Scoping** of queries and visibility, which filter one query; the timeline and the lists, which
  render; templates, browser code but for heartbeats and the console's connection, message
  catalogs, management and developer tools.
- **The Redis client** and its substitute for tests: its calls are the atomic steps of the models.
