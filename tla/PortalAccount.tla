---------------------------- MODULE PortalAccount ----------------------------
(***************************************************************************)
(* The customer portal's identity: accounts, the links it mails, sessions, *)
(* and the lock that repeated wrong passwords put on an account.           *)
(*                                                                         *)
(* A handler is one web request.  Every step of it is one statement to the *)
(* database (each commits on its own), one task handed to the broker or    *)
(* the write of the session; between two steps any other request may run.  *)
(* A request works on the account it read when it began, its `copy`.       *)
(*                                                                         *)
(* A password is the number of the time it was chosen: hashing salts, so   *)
(* choosing the same words twice gives two different stored passwords.     *)
(* What a person types is such a number, or 0 for anything else.           *)
(*                                                                         *)
(* Left out: the rate limits (a limited request changes nothing), the      *)
(* language of an account, and the rehashing of a password whose hash an   *)
(* older release made.                                                     *)
(***************************************************************************)
EXTENDS Naturals, FiniteSets

CONSTANTS Addresses,    \* addresses people type into the portal's forms
          Browsers,     \* each with a session of its own
          Handlers,     \* requests that may be under way at once
          Links,        \* identities for the links that are issued
          Threshold,    \* PORTAL_LOCKOUT_THRESHOLD
          MaxPassword,  \* bound: how many passwords are ever chosen
          Nobody

ASSUME PortalAssumption ==
  /\ Threshold \in Nat \ {0}
  /\ MaxPassword \in Nat \ {0}
  /\ Nobody \notin Addresses \cup Links \cup Browsers
  /\ Nobody \notin Nat

VARIABLES account,     \* portal_customeraccount, by address
          link,        \* portal_customertoken
          outbox,      \* links whose mail task is at the broker
          inbox,       \* links that reached the mailbox they were sent to
          session,     \* each browser's session
          frame,       \* each handler's frame
          staff,       \* addresses of members of staff, which stay the same
          notices,     \* history: lock notices queued for the lock that stands
          overlapped,  \* history: two requests have been under way at once
          orphaned     \* history: a reset has died before it burned the other links

stored == <<account, link, outbox, inbox, session>>
history == <<notices, overlapped, orphaned>>
vars == <<stored, frame, staff, history>>
-----------------------------------------------------------------------------
Passwords == 0..MaxPassword

NoAccount == [there |-> FALSE, password |-> 0, confirmed |-> FALSE,
              active |-> TRUE, failed |-> 0, locked |-> FALSE]

\* `failed` stops counting at the threshold, which is all it is compared with;
\* `locked` is a locked_until that is still to come.
Account == [there: BOOLEAN, password: Passwords, confirmed: BOOLEAN,
            active: BOOLEAN, failed: 0..Threshold, locked: BOOLEAN]

Purposes == {"CONFIRMATION", "RESET"}

\* Dead is used or past its time, which every lookup treats alike; `under` is history,
\* the password the account had when the link was issued.
Link == [state: {"none", "live", "dead"}, purpose: Purposes,
         address: Addresses \cup {Nobody}, under: Passwords]

NoLink == [state |-> "none", purpose |-> "CONFIRMATION", address |-> Nobody, under |-> 0]

\* Who the session belongs to and the password it was stamped with; `proof` is
\* history: the password its owner proved to know, set or was registered with.
Session == [address: Addresses \cup {Nobody}, stamp: Passwords, proof: Passwords]

NoSession == [address |-> Nobody, stamp |-> 0, proof |-> 0]

MayUseThePortal(acc) == acc.there /\ acc.active /\ acc.confirmed

\* Mutant: the fingerprint in the session is not compared.
ServedWhateverTheStamp(b) ==
  /\ session[b].address # Nobody
  /\ MayUseThePortal(account[session[b].address])

\* customer_from_session finds an account to serve.
Served(b) ==
  /\ session[b].address # Nobody
  /\ MayUseThePortal(account[session[b].address])
  /\ session[b].stamp = account[session[b].address].password

Newest(used) == CHOOSE p \in Passwords : p \in used /\ \A q \in used : q <= p

\* The last password chosen, by anyone.
Chosen == Newest({0} \cup {account[a].password : a \in Addresses})
-----------------------------------------------------------------------------
(* Frames.                                                                 *)

Tasks == {"none", "register", "sign_in", "confirm", "resend", "forgot", "reset"}

Labels == {"idle", "staff", "insert", "issue",              \* register, resend, forgot
           "record", "clear",                     \* sign_in
           "use", "confirm",                                \* confirm
           "spend", "save", "invalidate",                   \* reset
           "stamp"}                                         \* sign_in_customer

Frame == [pc: Labels, task: Tasks, address: Addresses \cup {Nobody},
          browser: Browsers \cup {Nobody}, link: Links \cup {Nobody},
          copy: Account]

Idle == [pc |-> "idle", task |-> "none", address |-> Nobody, browser |-> Nobody,
         link |-> Nobody, copy |-> NoAccount]

Quiet == \A h \in Handlers : frame[h] = Idle

Goto(h, f) == frame' = [frame EXCEPT ![h] = f]

\* A request begins: its first statement has read the account into the frame.
Begin(h, f) ==
  /\ frame[h] = Idle
  /\ Goto(h, f)
  /\ overlapped' = (overlapped \/ ~Quiet)
  /\ UNCHANGED <<stored, staff, notices, orphaned>>

\* A request about an address, on a link or without one.
Reading(task, label, a) ==
  [Idle EXCEPT !.task = task, !.address = a, !.pc = label, !.copy = account[a]]

At(h, label) == frame[h].pc = label

Done(h) == Goto(h, Idle)
-----------------------------------------------------------------------------
Init ==
  /\ account = [a \in Addresses |-> NoAccount]
  /\ link = [l \in Links |-> NoLink]
  /\ outbox = {}
  /\ inbox = {}
  /\ session = [b \in Browsers |-> NoSession]
  /\ frame = [h \in Handlers |-> Idle]
  /\ staff \in SUBSET Addresses
  /\ notices = [a \in Addresses |-> 0]
  /\ overlapped = FALSE
  /\ orphaned = FALSE
-----------------------------------------------------------------------------
(* registration.register and registration.resend_confirmation              *)

\* A new address is created and an unconfirmed one is sent another link.  The owner
\* of a confirmed one is told, which changes nothing.
BeginRegister(h, a) ==
  /\ ~account[a].confirmed
  /\ Begin(h, Reading("register", IF account[a].there THEN "issue" ELSE "staff", a))

\* create_account asks whether the address is a member of staff's.
AskForStaff(h) ==
  /\ At(h, "staff")
  /\ IF frame[h].address \in staff THEN Done(h) ELSE Goto(h, [frame[h] EXCEPT !.pc = "insert"])
  /\ UNCHANGED <<stored, staff, history>>

\* The insert; the column is unique, so a second one fails and ends the request.
CreateAccount(h) ==
  LET a == frame[h].address
  IN  /\ At(h, "insert")
      /\ IF account[a].there
         THEN Done(h) /\ UNCHANGED account
         ELSE LET acc == [NoAccount EXCEPT !.there = TRUE, !.password = Chosen + 1]
              IN  /\ Chosen < MaxPassword
                  /\ account' = [account EXCEPT ![a] = acc]
                  /\ Goto(h, [frame[h] EXCEPT !.pc = "issue", !.copy = acc])
      /\ UNCHANGED <<link, outbox, inbox, session, staff, history>>

BeginResend(h, a) ==
  /\ account[a].there /\ ~account[a].confirmed /\ account[a].active
  /\ Begin(h, Reading("resend", "issue", a))

\* passwords.start_reset
BeginForgot(h, a) ==
  /\ MayUseThePortal(account[a])
  /\ Begin(h, Reading("forgot", "issue", a))

\* tokens.issue; then send_confirmation or send_reset is handed to the broker, unless that
\* fails or the process dies first, which leaves a link that nobody is sent.
IssueLink(h) ==
  LET f == frame[h]
  IN  /\ At(h, "issue")
      /\ \E l \in Links :
           /\ link[l].state = "none"
           /\ link' = [link EXCEPT ![l] =
                [state |-> "live", address |-> f.address, under |-> account[f.address].password,
                 purpose |-> IF f.task = "forgot" THEN "RESET" ELSE "CONFIRMATION"]]
           /\ outbox' \in {outbox, outbox \cup {l}}
      /\ Done(h)
      /\ UNCHANGED <<account, inbox, session, staff, history>>

\* A worker sends the message, after as many retries as it took, or gives up.
SendLink(l) ==
  /\ l \in outbox
  /\ outbox' = outbox \ {l}
  /\ inbox' \in {inbox, inbox \cup {l}}
  /\ UNCHANGED <<account, link, session, frame, staff, history>>
-----------------------------------------------------------------------------
(* views.sign_in: authenticate_customer, then sign_in_customer             *)

\* Past the password: a deactivated or unconfirmed account goes no further.
Admitted(f) == IF MayUseThePortal(f.copy) THEN [f EXCEPT !.pc = "stamp"] ELSE Idle

\* What the password leads to.
Checked(f, typed) ==
  IF typed # f.copy.password THEN [f EXCEPT !.pc = "record"]
  ELSE IF f.copy.failed > 0 THEN [f EXCEPT !.pc = "clear"]
  ELSE Admitted(f)

Presented(b, a) ==
  [Idle EXCEPT !.task = "sign_in", !.address = a, !.browser = b, !.copy = account[a]]

\* Mutant: the right password opens a locked account.
BeginSignInUnlocked(h, b, a, typed) ==
  /\ account[a].there
  /\ Begin(h, Checked(Presented(b, a), typed))

\* authenticate_customer reads the account; an unknown address and a locked account
\* are refused before the password is looked at.
BeginSignIn(h, b, a, typed) ==
  /\ account[a].there /\ ~account[a].locked
  /\ Begin(h, Checked(Presented(b, a), typed))

\* Mutant: a failure is counted on top of the row's own count.
RecordPastThreshold(h) ==
  LET a == frame[h].address
  IN  /\ At(h, "record")
      /\ account' = [account EXCEPT ![a].failed = @ + 1, ![a].locked = TRUE]
      /\ Done(h)
      /\ UNCHANGED <<link, outbox, inbox, session, staff, history>>

\* Mutant: the failure that reaches the threshold does not lock.
RecordFailureOnly(h) ==
  LET f == frame[h]
      a == f.address
      locking == f.copy.failed + 1 >= Threshold
  IN  /\ At(h, "record")
      /\ account' = [account EXCEPT ![a].failed = IF locking THEN Threshold ELSE f.copy.failed + 1]
      /\ notices' = [notices EXCEPT ![a] = IF locking /\ @ < 2 THEN @ + 1 ELSE @]
      /\ Done(h)
      /\ UNCHANGED <<link, outbox, inbox, session, staff, overlapped, orphaned>>

\* record_failed_sign_in writes back the copy's count and lock; then the owner's notice is
\* queued, unless that fails or the process dies first.  `notices` stops at two, one too many.
RecordFailedSignIn(h) ==
  LET f == frame[h]
      a == f.address
      locking == f.copy.failed + 1 >= Threshold
  IN  /\ At(h, "record")
      /\ account' = [account EXCEPT
                       ![a].failed = IF locking THEN Threshold ELSE f.copy.failed + 1,
                       ![a].locked = locking]
      /\ \/ notices' = [notices EXCEPT ![a] = IF locking /\ @ < 2 THEN @ + 1 ELSE @]
         \/ locking /\ UNCHANGED notices
      /\ Done(h)
      /\ UNCHANGED <<link, outbox, inbox, session, staff, overlapped, orphaned>>

\* clear_failed_sign_ins, at the end of a sign-in or of a reset.
ClearFailedSignIns(h) ==
  LET f == frame[h]
  IN  /\ At(h, "clear")
      /\ account' = [account EXCEPT ![f.address].failed = 0, ![f.address].locked = FALSE]
      /\ notices' = [notices EXCEPT ![f.address] = 0]
      /\ Goto(h, Admitted(f))
      /\ UNCHANGED <<link, outbox, inbox, session, staff, overlapped, orphaned>>

\* Mutant: the session is stamped with the account as it is now.
StampAfresh(h) ==
  LET f == frame[h]
  IN  /\ At(h, "stamp")
      /\ session' = [session EXCEPT ![f.browser] =
           [address |-> f.address, stamp |-> account[f.address].password,
            proof |-> f.copy.password]]
      /\ Done(h)
      /\ UNCHANGED <<account, link, outbox, inbox, staff, history>>

\* sign_in_customer stamps the session with the copy the request proved itself to.
SignInCustomer(h) ==
  LET f == frame[h]
  IN  /\ At(h, "stamp")
      /\ session' = [session EXCEPT ![f.browser] =
           [address |-> f.address, stamp |-> f.copy.password, proof |-> f.copy.password]]
      /\ Done(h)
      /\ UNCHANGED <<account, link, outbox, inbox, staff, history>>

SignOut(b) ==
  /\ session[b] # NoSession
  /\ session' = [session EXCEPT ![b] = NoSession]
  /\ UNCHANGED <<account, link, outbox, inbox, frame, staff, history>>
-----------------------------------------------------------------------------
(* Following a link.                                                       *)

\* The link a value names, if it is usable for this purpose.
Usable(l, purpose) == link[l].state = "live" /\ link[l].purpose = purpose

BeginOnLink(h, b, l, task, label) ==
  /\ l \in inbox
  /\ Begin(h, [Reading(task, label, link[l].address) EXCEPT !.browser = b, !.link = l])

\* tokens.consume finds the confirmation link, and the account with it.
BeginConfirm(h, b, l) ==
  /\ Usable(l, "CONFIRMATION")
  /\ BeginOnLink(h, b, l, "confirm", "use")

\* Marks it used; a deactivated account gets no further.
ConsumeConfirmation(h) ==
  LET f == frame[h]
  IN  /\ At(h, "use")
      /\ link' = [link EXCEPT ![f.link].state = "dead"]
      /\ Goto(h, IF ~f.copy.active THEN Idle
                 ELSE [f EXCEPT !.pc = IF f.copy.confirmed THEN "stamp" ELSE "confirm"])
      /\ UNCHANGED <<account, outbox, inbox, session, staff, history>>

ConfirmAddress(h) ==
  LET f == frame[h]
  IN  /\ At(h, "confirm")
      /\ account' = [account EXCEPT ![f.address].confirmed = TRUE]
      /\ Goto(h, [f EXCEPT !.pc = "stamp", !.copy.confirmed = TRUE])
      /\ UNCHANGED <<link, outbox, inbox, session, staff, history>>

\* Mutant: any link that works opens the reset form.
BeginResetAnyPurpose(h, b, l) ==
  /\ link[l].state = "live"
  /\ MayUseThePortal(account[link[l].address])
  /\ BeginOnLink(h, b, l, "reset", "spend")

\* Mutant: a link that was used still opens it.
BeginResetAgain(h, b, l) ==
  /\ link[l].state # "none" /\ link[l].purpose = "RESET"
  /\ MayUseThePortal(account[link[l].address])
  /\ BeginOnLink(h, b, l, "reset", "spend")

\* complete_reset peeks at the reset link, and refuses who may not use the portal.
\* A password that is not good enough changes nothing.
BeginReset(h, b, l) ==
  /\ Usable(l, "RESET")
  /\ MayUseThePortal(account[link[l].address])
  /\ BeginOnLink(h, b, l, "reset", "spend")

SpendResetLink(h) ==
  LET f == frame[h]
  IN  /\ At(h, "spend")
      /\ link' = [link EXCEPT ![f.link].state = "dead"]
      /\ Goto(h, [f EXCEPT !.pc = "save"])
      /\ UNCHANGED <<account, outbox, inbox, session, staff, history>>

SavePassword(h) ==
  LET f == frame[h]
  IN  /\ At(h, "save")
      /\ Chosen < MaxPassword
      /\ account' = [account EXCEPT ![f.address].password = Chosen + 1]
      /\ Goto(h, [f EXCEPT !.pc = "invalidate", !.copy.password = Chosen + 1])
      /\ UNCHANGED <<link, outbox, inbox, session, staff, history>>

\* Mutant: a reset leaves the lock where it is.
AfterResetStillLocked(f) == [f EXCEPT !.pc = "stamp"]

\* Where the handler goes after invalidate_all: the lock, if its copy shows one.
AfterReset(f) == [f EXCEPT !.pc = IF f.copy.failed > 0 THEN "clear" ELSE "stamp"]

\* Mutant: the other links are left as they are.
KeepOtherLinks(h) ==
  /\ At(h, "invalidate")
  /\ Goto(h, AfterReset(frame[h]))
  /\ UNCHANGED <<stored, staff, history>>

\* Every other reset link of the account is burned.
InvalidateAll(h) ==
  LET f == frame[h]
      burned == {l \in Links : /\ link[l].address = f.address /\ link[l].purpose = "RESET"
                               /\ link[l].state = "live"}
  IN  /\ At(h, "invalidate")
      /\ link' = [l \in Links |->
                    IF l \in burned THEN [link[l] EXCEPT !.state = "dead"] ELSE link[l]]
      /\ Goto(h, AfterReset(f))
      /\ UNCHANGED <<account, outbox, inbox, session, staff, history>>
-----------------------------------------------------------------------------
(* Time and the world.                                                     *)

\* A link's time is up.  Nothing looks at the time again once a request has begun.
LinkLapses(l) ==
  /\ link[l].state = "live"
  /\ Quiet
  /\ link' = [link EXCEPT ![l].state = "dead"]
  /\ UNCHANGED <<account, outbox, inbox, session, frame, staff, history>>

\* The lock's time is up; it outlasts any one request.  The count stays.
LockLapses(a) ==
  /\ Quiet
  /\ account[a].locked
  /\ account' = [account EXCEPT ![a].locked = FALSE]
  /\ notices' = [notices EXCEPT ![a] = 0]
  /\ UNCHANGED <<link, outbox, inbox, session, frame, staff, overlapped, orphaned>>

\* External: no screen does it, but every screen asks.
CustomerDeactivated(a) ==
  /\ account[a].there /\ account[a].active
  /\ account' = [account EXCEPT ![a].active = FALSE]
  /\ UNCHANGED <<link, outbox, inbox, session, frame, staff, history>>

\* The process running the request is killed.
Dies(h) ==
  /\ frame[h] # Idle
  /\ Done(h)
  /\ orphaned' = (orphaned \/ At(h, "invalidate"))
  /\ UNCHANGED <<stored, staff, notices, overlapped>>
-----------------------------------------------------------------------------
Arrives(h) ==
  \/ \E a \in Addresses : BeginRegister(h, a) \/ BeginResend(h, a) \/ BeginForgot(h, a)
  \/ \E b \in Browsers, a \in Addresses, typed \in 0..Chosen : BeginSignIn(h, b, a, typed)
  \/ \E b \in Browsers, l \in Links : BeginConfirm(h, b, l) \/ BeginReset(h, b, l)

Handle(h) ==
  \/ AskForStaff(h) \/ CreateAccount(h) \/ IssueLink(h)
  \/ RecordFailedSignIn(h) \/ ClearFailedSignIns(h)
  \/ ConsumeConfirmation(h) \/ ConfirmAddress(h)
  \/ SpendResetLink(h) \/ SavePassword(h) \/ InvalidateAll(h)
  \/ SignInCustomer(h)

Next ==
  \/ \E h \in Handlers : Arrives(h) \/ Handle(h) \/ Dies(h)
  \/ \E l \in outbox : SendLink(l)
  \/ \E b \in Browsers : SignOut(b)
  \/ \E l \in Links : LinkLapses(l)
  \/ \E a \in Addresses : LockLapses(a) \/ CustomerDeactivated(a)

Spec == Init /\ [][Next]_vars
-----------------------------------------------------------------------------
(* Properties.                                                             *)

TypeOK ==
  /\ account \in [Addresses -> Account]
  /\ link \in [Links -> Link]
  /\ outbox \subseteq Links
  /\ inbox \subseteq Links
  /\ session \in [Browsers -> Session]
  /\ frame \in [Handlers -> Frame]
  /\ staff \subseteq Addresses
  /\ notices \in [Addresses -> 0..2]
  /\ overlapped \in BOOLEAN
  /\ orphaned \in BOOLEAN

\* FR-012: whoever is served proved themselves to the password the account has now,
\* however a sign-in, a confirmation and a reset interleave.
ServedByCurrentProof ==
  \A b \in Browsers : Served(b) => session[b].proof = account[session[b].address].password

\* A password that was there changes only through a reset link of that account: the
\* purpose is part of every lookup (tokens.consume, tokens.peek).
ResetByResetLinkOnly ==
  [][\A a \in Addresses :
       account[a].there /\ account'[a].password # account[a].password =>
         \E l \in Links : /\ link[l].purpose = "RESET" /\ link[l].address = a
                          /\ l \in inbox /\ link[l].state = "dead"]_vars

\* "Every other outstanding link is a second key" (complete_reset): once no request is
\* under way, a reset link that works was issued since the password was last set.
\* A reset that died between the two writes is excepted.
NoSecondKey ==
  Quiet /\ ~orphaned =>
    \A l \in Links :
      Usable(l, "RESET") => link[l].under = account[link[l].address].password

\* A link lets nobody in twice, as long as requests do not overlap.
LinkWorksOnce ==
  [][\A h \in Handlers :
       (At(h, "spend") \/ At(h, "use")) /\ frame'[h].pc \notin {frame[h].pc, "idle"} =>
         overlapped \/ link[frame[h].link].state = "live"]_vars

\* The owner is sent exactly one notice of a lock (record_failed_sign_in), as long as
\* requests do not overlap.
OneNoticePerLock == overlapped \/ \A a \in Addresses : notices[a] <= 1

\* FR-011: "a lock that the right password opens is not a lock".  One that stands ends
\* with its time or with a reset, as long as requests do not overlap.
LockHolds ==
  [][\A a \in Addresses :
       account[a].locked /\ ~account'[a].locked =>
         \/ overlapped \/ Quiet
         \/ \E h \in Handlers : frame[h].task = "reset" /\ At(h, "clear")]_vars

\* "Leaving them locked out after the only remedy the product offers is a dead end":
\* a reset ends with the account unlocked, as long as requests do not overlap.
ResetUnlocks ==
  [][\A h \in Handlers :
       frame[h].task = "reset" /\ At(h, "stamp") =>
         \/ overlapped \/ frame'[h] = frame[h]
         \/ account[frame[h].address].failed = 0 /\ ~account[frame[h].address].locked]_vars

Sessions == INSTANCE PortalSessions WITH
  Keys <- Passwords \ {0},
  served <- [b \in Browsers |-> IF Served(b) THEN session[b].address ELSE Nobody],
  key <- [a \in Addresses |-> IF account[a].there THEN account[a].password ELSE Nobody]

\* The portal serves as it promised, with every interleaving and every death.
ImplementsSessions == Sessions!Spec
=============================================================================
