-------------------------- MODULE PortalAccountProofs --------------------------
(***************************************************************************)
(* The portal's identity for any number of customers, browsers, requests,  *)
(* links and passwords, and any threshold of the lock: who is served has   *)
(* proved themselves to the password of now, links and locks do what they  *)
(* promise, and PortalAccount implements PortalSessions.                   *)
(***************************************************************************)
EXTENDS PortalAccount, WellFoundedInduction, TLAPS

\* What is not there has no history, and a lock stands on failures that were counted.
AccountsOK ==
  \A a \in Addresses :
    /\ ~account[a].there => account[a] = NoAccount
    /\ account[a].locked => account[a].failed > 0

\* Links are only issued to accounts.
LinksOK ==
  \A l \in Links : link[l].state # "none" =>
    link[l].address \in Addresses /\ account[link[l].address].there

\* A session is of a confirmed account, stamped with a password it has or had.
SessionsOK ==
  \A b \in Browsers : session[b].address # Nobody =>
    /\ account[session[b].address].confirmed
    /\ session[b].stamp = session[b].proof
    /\ session[b].stamp <= account[session[b].address].password

\* Which requests can be where.
Placed(f) ==
  /\ f.pc \in {"staff", "insert"} => f.task = "register"
  /\ f.pc = "issue" => f.task \in {"register", "resend", "forgot"}
  /\ f.pc = "record" => f.task = "sign_in"
  /\ f.pc \in {"use", "confirm"} => f.task = "confirm"
  /\ f.pc \in {"spend", "save", "invalidate"} => f.task = "reset"
  /\ f.pc = "clear" => f.task \in {"sign_in", "reset"}
  /\ f.pc = "stamp" => f.task \in {"sign_in", "confirm", "reset"}

\* What a frame promises of the accounts acc, the links ln and the mailboxes ib, whatever
\* other requests do meanwhile.
FrameOK(f, acc, ln, ib) ==
  /\ Placed(f)
  /\ f.pc # "idle" => /\ f.address \in Addresses
                      /\ f.copy.confirmed => acc[f.address].confirmed
                      /\ f.copy.password <= acc[f.address].password
  /\ f.pc \notin {"idle", "staff", "insert"} => acc[f.address].there
  /\ f.pc \in {"record", "clear", "use", "confirm", "spend", "save", "invalidate", "stamp"} =>
       f.browser \in Browsers
  /\ f.pc \in {"use", "spend", "save"} => f.link \in Links /\ ln[f.link].state # "none"
  /\ f.pc = "stamp" \/ f.pc \in {"spend", "save", "invalidate"} => f.copy.confirmed
  /\ f.pc \in {"spend", "save"} => /\ ln[f.link].purpose = "RESET"
                                   /\ ln[f.link].address = f.address
                                   /\ f.link \in ib
  /\ f.pc = "save" => ln[f.link].state = "dead"

FramesOK == \A h \in Handlers : FrameOK(frame[h], account, link, inbox)

\* A reset link of an earlier password is about to be burned, unless a reset has died.
KeysOK ==
  orphaned \/ \A l \in Links :
    Usable(l, "RESET") =>
      \/ link[l].under = account[link[l].address].password
      \/ \E h \in Handlers : At(h, "invalidate") /\ frame[h].address = link[l].address

\* What a frame promises besides as long as it is the only one.
AloneOK(f, acc, ln) ==
  /\ f.pc = "record" => acc[f.address].failed = f.copy.failed /\ ~acc[f.address].locked
  /\ f.pc = "clear" /\ f.task = "sign_in" => ~acc[f.address].locked
  /\ f.pc \in {"spend", "save", "invalidate"} => acc[f.address].failed = f.copy.failed
  /\ f.pc = "stamp" /\ f.task = "reset" => acc[f.address].failed = 0
  /\ f.pc \in {"use", "spend"} => ln[f.link].state = "live"

\* As long as requests have not overlapped, at most one is under way, and a notice has been
\* sent of a lock that stands, once.
Alone ==
  overlapped \/
    /\ \A h, g \in Handlers : h # g => frame[h] = Idle \/ frame[g] = Idle
    /\ \A h \in Handlers : AloneOK(frame[h], account, link)
    /\ \A a \in Addresses : notices[a] <= 1 /\ (notices[a] > 0 => account[a].locked)

PortalInv == TypeOK /\ AccountsOK /\ LinksOK /\ SessionsOK /\ FramesOK /\ KeysOK /\ Alone
-----------------------------------------------------------------------------
(* The newest password.                                                    *)

LEMMA HasLeast ==
  ASSUME NEW S, S \subseteq Nat, S # {}
  PROVE  \E x \in S : \A y \in S : x <= y
<1>1. \A x, y \in Nat : <<y, x>> \in OpToRel(<, Nat) <=> y < x
  BY DEF OpToRel
<1>2. PICK x \in S : \A y \in S : ~(<<y, x>> \in OpToRel(<, Nat))
  BY NatLessThanWellFounded, WFMin
<1>3. ASSUME NEW y \in S PROVE x <= y
  <2>1. x \in Nat /\ y \in Nat
    OBVIOUS
  <2>2. ~(y < x)
    BY <2>1, <1>1, <1>2
  <2> QED BY <2>1, <2>2
<1> QED BY <1>3

\* Newest is the greatest of the passwords it is given.
LEMMA NewestIsGreatest ==
  ASSUME NEW used, used \subseteq Passwords, used # {}
  PROVE  Newest(used) \in used /\ \A q \in used : q <= Newest(used)
<1> DEFINE left == {MaxPassword - p : p \in used}
<1>1. MaxPassword \in Nat /\ \A p \in used : p \in Nat /\ p <= MaxPassword
  BY PortalAssumption DEF Passwords
<1>2. left \subseteq Nat /\ left # {}
  BY <1>1
<1>3. PICK p \in used : \A n \in left : MaxPassword - p <= n
  <2> HIDE DEF left
  <2>1. PICK x \in left : \A y \in left : x <= y
    BY <1>2, HasLeast
  <2> QED BY <2>1 DEF left
<1>4. \A q \in used : q <= p
  <2> TAKE q \in used
  <2>1. MaxPassword - q \in left
    OBVIOUS
  <2>2. MaxPassword - p <= MaxPassword - q
    BY <1>3, <2>1
  <2> QED BY <1>1, <2>2
<1> QED BY <1>4 DEF Newest

\* A password that is chosen is newer than all there are.
LEMMA ChosenIsNewest ==
  ASSUME TypeOK
  PROVE  /\ Chosen \in Passwords
         /\ \A a \in Addresses : account[a].password <= Chosen
         /\ Chosen < MaxPassword => Chosen + 1 \in Passwords \ {0}
<1> DEFINE used == {0} \cup {account[a].password : a \in Addresses}
<1>1. \A a \in Addresses : account[a].password \in Passwords
  BY DEF TypeOK, Account
<1>2. 0 \in Passwords /\ MaxPassword \in Nat
  BY PortalAssumption DEF Passwords
<1>3. used \subseteq Passwords /\ used # {}
  BY <1>1, <1>2
<1>4. Chosen \in used /\ \A q \in used : q <= Chosen
  <2> HIDE DEF used
  <2>1. Newest(used) \in used /\ \A q \in used : q <= Newest(used)
    BY <1>3, NewestIsGreatest
  <2> QED BY <2>1 DEF Chosen, used
<1>5. Chosen \in Passwords
  BY <1>3, <1>4
<1>6. \A a \in Addresses : account[a].password <= Chosen
  BY <1>4
<1>7. Chosen < MaxPassword => Chosen + 1 \in Passwords \ {0}
  BY <1>2, <1>5 DEF Passwords
<1> QED BY <1>5, <1>6, <1>7
-----------------------------------------------------------------------------
(* What every step does to accounts, links and mailboxes: accounts stay,   *)
(* confirmed ones stay confirmed, passwords get newer, links stay issued   *)
(* and dead ones dead.                                                     *)

Grows ==
  /\ \A a \in Addresses : /\ account[a].there => account'[a].there
                          /\ account[a].confirmed => account'[a].confirmed
                          /\ account[a].password <= account'[a].password
  /\ \A l \in Links : link[l].state # "none" =>
       /\ link'[l].state # "none"
       /\ link'[l].purpose = link[l].purpose /\ link'[l].address = link[l].address
       /\ link[l].state = "dead" => link'[l].state = "dead"
  /\ inbox \subseteq inbox'

\* What a frame promises of them, it goes on promising.
LEMMA FrameSurvives ==
  ASSUME TypeOK, TypeOK', Grows, NEW f \in Frame, FrameOK(f, account, link, inbox)
  PROVE  FrameOK(f, account', link', inbox')
<1>1. Placed(f)
  BY DEF FrameOK
<1>2. f.pc # "idle" => /\ f.address \in Addresses
                       /\ f.copy.confirmed => account'[f.address].confirmed
                       /\ f.copy.password <= account'[f.address].password
  <2> SUFFICES ASSUME f.pc # "idle"
               PROVE  /\ f.address \in Addresses
                      /\ f.copy.confirmed => account'[f.address].confirmed
                      /\ f.copy.password <= account'[f.address].password
    OBVIOUS
  <2>1. /\ f.address \in Addresses
        /\ f.copy.confirmed => account[f.address].confirmed
        /\ f.copy.password <= account[f.address].password
    BY DEF FrameOK
  <2>2. /\ account[f.address].password <= account'[f.address].password
        /\ account[f.address].confirmed => account'[f.address].confirmed
    BY <2>1 DEF Grows
  <2>3. /\ f.copy.password \in Nat /\ account[f.address].password \in Nat
        /\ account'[f.address].password \in Nat
    BY <2>1, PortalAssumption DEF TypeOK, Frame, Account, Passwords
  <2> QED BY <2>1, <2>2, <2>3
<1>3. f.pc \notin {"idle", "staff", "insert"} => account'[f.address].there
  BY DEF FrameOK, Grows
<1>4. /\ f.pc \in {"use", "spend", "save"} => f.link \in Links /\ link'[f.link].state # "none"
      /\ f.pc \in {"spend", "save"} => /\ link'[f.link].purpose = "RESET"
                                       /\ link'[f.link].address = f.address
                                       /\ f.link \in inbox'
      /\ f.pc = "save" => link'[f.link].state = "dead"
  BY DEF FrameOK, Grows
<1>5. /\ f.pc \in {"record", "clear", "use", "confirm", "spend", "save", "invalidate", "stamp"} =>
           f.browser \in Browsers
      /\ f.pc = "stamp" \/ f.pc \in {"spend", "save", "invalidate"} => f.copy.confirmed
  BY DEF FrameOK
<1> QED BY <1>1, <1>2, <1>3, <1>4, <1>5 DEF FrameOK

LEMMA NothingGrows == ASSUME TypeOK, UNCHANGED <<account, link, inbox>> PROVE Grows
BY PortalAssumption DEF Grows, TypeOK, Account, Passwords

LEMMA IdleFrame ==
  /\ Idle \in Frame /\ NoAccount \in Account
  /\ Idle.pc = "idle"
  /\ \A acc, ln, ib : FrameOK(Idle, acc, ln, ib)
  /\ \A acc, ln : AloneOK(Idle, acc, ln)
<1>1. 0 \in Passwords /\ 0 \in 0..Threshold
  BY PortalAssumption DEF Passwords
<1> QED BY <1>1 DEF Idle, NoAccount, Frame, Account, Tasks, Labels, FrameOK, AloneOK, Placed

LEMMA InitOK == ASSUME Init PROVE PortalInv
<1>1. 0 \in Passwords
  BY PortalAssumption DEF Passwords
<1>2. NoAccount \in Account /\ NoLink \in Link /\ NoSession \in Session /\ Idle \in Frame
  BY <1>1, IdleFrame DEF NoLink, Link, Purposes, NoSession, Session
<1>3. TypeOK
  <2>1. overlapped \in BOOLEAN /\ orphaned \in BOOLEAN
    BY DEF Init
  <2>2. notices \in [Addresses -> 0..2] /\ staff \subseteq Addresses
    BY DEF Init
  <2> QED BY <1>2, <2>1, <2>2 DEF Init, TypeOK
<1>4. AccountsOK /\ LinksOK /\ SessionsOK
  BY DEF Init, AccountsOK, LinksOK, SessionsOK, NoAccount, NoLink, NoSession
<1>5. FramesOK /\ KeysOK /\ Alone
  BY IdleFrame DEF Init, FramesOK, KeysOK, Alone, Usable, NoLink
<1> QED BY <1>3, <1>4, <1>5 DEF PortalInv
-----------------------------------------------------------------------------
(* What a step keeps by leaving things alone.                              *)

\* One frame is replaced.
LEMMA FramesMove ==
  ASSUME PortalInv, TypeOK', Grows, NEW h \in Handlers, NEW f \in Frame, Goto(h, f),
         FrameOK(f, account', link', inbox')
  PROVE  FramesOK'
<1>1. frame' = [frame EXCEPT ![h] = f] /\ frame \in [Handlers -> Frame]
  BY DEF Goto, PortalInv, TypeOK
<1>2. ASSUME NEW g \in Handlers, g # h PROVE FrameOK(frame'[g], account', link', inbox')
  BY <1>1, <1>2, FrameSurvives DEF PortalInv, FramesOK
<1> QED BY <1>1, <1>2 DEF FramesOK

LEMMA FramesStand ==
  ASSUME PortalInv, TypeOK', Grows, UNCHANGED frame
  PROVE  FramesOK'
<1>1. ASSUME NEW g \in Handlers PROVE FrameOK(frame'[g], account', link', inbox')
  BY FrameSurvives DEF PortalInv, TypeOK, FramesOK
<1> QED BY <1>1 DEF FramesOK

LEMMA SessionsStand ==
  ASSUME PortalInv, TypeOK', Grows, UNCHANGED session
  PROVE  SessionsOK'
<1> SUFFICES ASSUME NEW b \in Browsers, session[b].address # Nobody
             PROVE  /\ account'[session[b].address].confirmed
                    /\ session[b].stamp = session[b].proof
                    /\ session[b].stamp <= account'[session[b].address].password
  BY DEF SessionsOK
<1>1. session[b] \in Session /\ session[b].address \in Addresses
  BY DEF PortalInv, TypeOK, Session
<1>2. /\ session[b].stamp \in Nat
      /\ account[session[b].address].password \in Nat
      /\ account'[session[b].address].password \in Nat
  BY <1>1, PortalAssumption DEF PortalInv, TypeOK, Session, Account, Passwords
<1> QED BY <1>1, <1>2 DEF PortalInv, SessionsOK, Grows

LEMMA LinksStand ==
  ASSUME PortalInv, TypeOK', Grows,
         \A l \in Links : link[l].state = "none" => link'[l].state = "none"
  PROVE  LinksOK'
BY DEF PortalInv, LinksOK, Grows

LEMMA KeysStand ==
  ASSUME PortalInv, UNCHANGED orphaned,
         \A l \in Links : link'[l] = link[l] \/ link'[l].state = "dead",
         \A a \in Addresses : account[a].there => account'[a].password = account[a].password,
         \A g \in Handlers : At(g, "invalidate") => frame'[g] = frame[g]
  PROVE  KeysOK'
<1> SUFFICES ASSUME ~orphaned, NEW l \in Links, link'[l].state = "live",
                    link'[l].purpose = "RESET"
             PROVE  \/ link'[l].under = account'[link'[l].address].password
                    \/ \E h \in Handlers : frame'[h].pc = "invalidate"
                                           /\ frame'[h].address = link'[l].address
  BY DEF KeysOK, Usable, At
<1>1. link'[l] = link[l]
  OBVIOUS
<1>2. link[l].address \in Addresses /\ account[link[l].address].there
  BY <1>1 DEF PortalInv, LinksOK
<1>3. \/ link[l].under = account[link[l].address].password
      \/ \E h \in Handlers : At(h, "invalidate") /\ frame[h].address = link[l].address
  BY <1>1 DEF PortalInv, KeysOK, Usable
<1> QED BY <1>1, <1>2, <1>3 DEF At

\* The only request under way moves on.
LEMMA AloneMoves ==
  ASSUME PortalInv, NEW h \in Handlers, NEW f \in Frame, Goto(h, f), frame[h] # Idle,
         UNCHANGED overlapped,
         ~overlapped => AloneOK(f, account', link'),
         ~overlapped => \A a \in Addresses : notices'[a] <= 1
                                             /\ (notices'[a] > 0 => account'[a].locked)
  PROVE  Alone'
<1> SUFFICES ASSUME ~overlapped PROVE Alone'
  BY DEF Alone
<1>1. frame' = [frame EXCEPT ![h] = f] /\ frame \in [Handlers -> Frame]
  BY DEF Goto, PortalInv, TypeOK
<1>2. \A g \in Handlers : g # h => frame[g] = Idle
  BY DEF PortalInv, Alone
<1>3. \A g \in Handlers : g # h => frame'[g] = Idle
  BY <1>1, <1>2
<1>4. \A g \in Handlers : AloneOK(frame'[g], account', link')
  BY <1>1, <1>3, IdleFrame
<1> QED BY <1>3, <1>4 DEF Alone

\* Nothing that requests rely on is touched.
LEMMA AloneStands ==
  ASSUME PortalInv, UNCHANGED <<frame, overlapped>>,
         Quiet \/ /\ UNCHANGED link
                  /\ \A a \in Addresses : account'[a].failed = account[a].failed
                                          /\ account'[a].locked = account[a].locked,
         \A a \in Addresses : \/ notices'[a] = 0
                              \/ /\ notices'[a] = notices[a]
                                 /\ account'[a].locked = account[a].locked
  PROVE  Alone'
<1> SUFFICES ASSUME ~overlapped PROVE Alone'
  BY DEF Alone
<1>1. \A g \in Handlers : AloneOK(frame'[g], account', link')
  <2>1. CASE Quiet
    BY <2>1, IdleFrame DEF Quiet
  <2>2. CASE /\ UNCHANGED link
             /\ \A a \in Addresses : account'[a].failed = account[a].failed
                                     /\ account'[a].locked = account[a].locked
    <3> SUFFICES ASSUME NEW g \in Handlers PROVE AloneOK(frame[g], account', link)
      BY <2>2
    <3>1. frame[g].pc # "idle" => frame[g].address \in Addresses
      BY DEF PortalInv, FramesOK, FrameOK
    <3>2. AloneOK(frame[g], account, link)
      BY DEF PortalInv, Alone
    <3> QED BY <2>2, <3>1, <3>2 DEF AloneOK
  <2> QED BY <2>1, <2>2
<1>2. \A a \in Addresses : notices'[a] <= 1 /\ (notices'[a] > 0 => account'[a].locked)
  BY DEF PortalInv, Alone
<1> QED BY <1>1, <1>2 DEF PortalInv, Alone
-----------------------------------------------------------------------------
(* Requests arrive.                                                        *)

LEMMA BeginOK ==
  ASSUME PortalInv, NEW h \in Handlers, NEW f \in Frame, Begin(h, f),
         FrameOK(f, account, link, inbox), AloneOK(f, account, link)
  PROVE  PortalInv'
<1>1. /\ frame' = [frame EXCEPT ![h] = f] /\ frame \in [Handlers -> Frame]
      /\ frame[h] = Idle
      /\ UNCHANGED <<account, link, outbox, inbox, session, staff, notices, orphaned>>
  BY DEF Begin, Goto, PortalInv, TypeOK, stored
<1>2. TypeOK'
  <2>1. overlapped' \in BOOLEAN
    BY DEF Begin
  <2> QED BY <1>1, <2>1 DEF PortalInv, TypeOK
<1>3. Grows
  BY <1>1, NothingGrows DEF PortalInv
<1>4. AccountsOK' /\ LinksOK'
  BY <1>1 DEF PortalInv, AccountsOK, LinksOK
<1>5. SessionsOK'
  BY <1>1, <1>2, <1>3, SessionsStand
<1>6. FramesOK'
  BY <1>1, <1>2, <1>3, FramesMove DEF Begin
<1>7. KeysOK'
  <2>1. \A g \in Handlers : At(g, "invalidate") => frame'[g] = frame[g]
    BY <1>1, IdleFrame DEF At
  <2> QED BY <1>1, <2>1, KeysStand
<1>8. Alone'
  <2> SUFFICES ASSUME ~overlapped, Quiet PROVE Alone'
    BY DEF Begin, Alone
  <2>1. \A g \in Handlers : frame'[g] = IF g = h THEN f ELSE Idle
    BY <1>1 DEF Quiet
  <2>2. \A g \in Handlers : AloneOK(frame'[g], account, link)
    BY <2>1, IdleFrame
  <2> QED BY <1>1, <2>1, <2>2 DEF PortalInv, Alone
<1> QED BY <1>2, <1>4, <1>5, <1>6, <1>7, <1>8 DEF PortalInv

\* What every request about an account reads into its frame.
LEMMA ReadingOK ==
  ASSUME PortalInv, NEW a \in Addresses, NEW task \in Tasks, NEW label \in Labels
  PROVE  LET f == Reading(task, label, a) IN
         /\ f \in Frame
         /\ f.pc = label /\ f.task = task /\ f.address = a /\ f.copy = account[a]
         /\ f.browser = Nobody /\ f.link = Nobody
         /\ account[a].password <= account[a].password
<1>1. account[a] \in Account
  BY DEF PortalInv, TypeOK
<1>2. account[a].password \in Nat
  BY <1>1, PortalAssumption DEF Account, Passwords
<1> DEFINE f == Reading(task, label, a)
<1>3. /\ f.pc = label /\ f.task = task /\ f.address = a /\ f.copy = account[a]
      /\ f.browser = Nobody /\ f.link = Nobody
  BY DEF Reading, Idle
<1>4. f \in Frame
  BY <1>1 DEF Reading, Idle, Frame
<1> QED BY <1>2, <1>3, <1>4

LEMMA BeginRegisterOK ==
  ASSUME PortalInv, NEW h \in Handlers, NEW a \in Addresses, BeginRegister(h, a)
  PROVE  PortalInv'
<1> DEFINE label == IF account[a].there THEN "issue" ELSE "staff"
           f == Reading("register", label, a)
<1>1. "register" \in Tasks /\ label \in Labels
  BY DEF Tasks, Labels
<1>2. f \in Frame /\ account[a].password <= account[a].password
      /\ f.pc = label /\ f.task = "register" /\ f.address = a /\ f.copy = account[a]
  BY <1>1, ReadingOK
<1>3. FrameOK(f, account, link, inbox) /\ AloneOK(f, account, link)
  BY <1>2 DEF FrameOK, AloneOK, Placed
<1>4. Begin(h, f)
  BY DEF BeginRegister
<1> QED
  <2> HIDE DEF f
  <2> QED BY <1>2, <1>3, <1>4, BeginOK

LEMMA BeginForLinkOK ==
  ASSUME PortalInv, NEW h \in Handlers, NEW a \in Addresses,
         BeginResend(h, a) \/ BeginForgot(h, a)
  PROVE  PortalInv'
<1>1. PICK task \in {"resend", "forgot"} : Begin(h, Reading(task, "issue", a)) /\ account[a].there
  BY DEF BeginResend, BeginForgot, MayUseThePortal
<1> DEFINE f == Reading(task, "issue", a)
<1>2. f \in Frame /\ account[a].password <= account[a].password
      /\ f.pc = "issue" /\ f.task = task /\ f.address = a /\ f.copy = account[a]
  BY <1>1, ReadingOK DEF Tasks, Labels
<1>3. FrameOK(f, account, link, inbox) /\ AloneOK(f, account, link)
  BY <1>1, <1>2 DEF FrameOK, AloneOK, Placed
<1> QED
  <2> HIDE DEF f
  <2> QED BY <1>1, <1>2, <1>3, BeginOK DEF f

LEMMA BeginSignInOK ==
  ASSUME PortalInv, NEW h \in Handlers, NEW b \in Browsers, NEW a \in Addresses, NEW typed,
         BeginSignIn(h, b, a, typed)
  PROVE  PortalInv'
<1> DEFINE p == Presented(b, a)
           f == Checked(p, typed)
<1>1. account[a] \in Account /\ account[a].password <= account[a].password
  BY ReadingOK DEF PortalInv, TypeOK, Tasks, Labels
<1>2. /\ p \in Frame
      /\ p.pc = "idle" /\ p.task = "sign_in" /\ p.address = a /\ p.browser = b
      /\ p.copy = account[a]
  <2>1. p \in Frame
    BY <1>1 DEF Presented, Idle, Frame, Tasks, Labels
  <2> QED BY <2>1 DEF Presented, Idle
<1>3. \/ f = Idle
      \/ \E label \in {"record", "clear", "stamp"} :
           /\ f = [p EXCEPT !.pc = label]
           /\ label = "stamp" => account[a].confirmed
  <2> HIDE DEF p
  <2>1. f \in {Idle, [p EXCEPT !.pc = "record"], [p EXCEPT !.pc = "clear"], [p EXCEPT !.pc = "stamp"]}
    BY DEF Checked, Admitted
  <2>2. f.pc = "stamp" => f = Idle \/ account[a].confirmed
    BY <1>2 DEF Checked, Admitted, MayUseThePortal, Frame
  <2> QED BY <1>2, <2>1, <2>2 DEF Frame
<1>4. account[a].there /\ ~account[a].locked /\ Begin(h, f)
  BY DEF BeginSignIn
<1> HIDE DEF p
<1>5. f \in Frame
  BY <1>2, <1>3, IdleFrame DEF Frame, Labels
<1>6. FrameOK(f, account, link, inbox) /\ AloneOK(f, account, link)
  <2>1. CASE f = Idle
    BY <2>1, IdleFrame
  <2>2. CASE f # Idle
    <3> HIDE DEF f
    <3>1. PICK label \in {"record", "clear", "stamp"} :
           /\ f = [p EXCEPT !.pc = label]
           /\ label = "stamp" => account[a].confirmed
      BY <2>2, <1>3
    <3>2. /\ f.pc = label /\ f.task = "sign_in" /\ f.address = a /\ f.browser = b
          /\ f.copy = account[a]
      BY <3>1, <1>2 DEF Frame
    <3> QED BY <3>1, <3>2, <1>1, <1>4 DEF FrameOK, AloneOK, Placed
  <2> QED BY <2>1, <2>2
<1> QED
  <2> HIDE DEF f
  <2> QED BY <1>4, <1>5, <1>6, BeginOK

\* A request on a link that works.
LEMMA BeginOnLinkOK ==
  ASSUME PortalInv, NEW h \in Handlers, NEW b \in Browsers, NEW l \in Links,
         BeginConfirm(h, b, l) \/ BeginReset(h, b, l)
  PROVE  PortalInv'
<1> DEFINE a == link[l].address
<1>1. PICK task \in {"confirm", "reset"}, label \in {"use", "spend"} :
        /\ BeginOnLink(h, b, l, task, label)
        /\ task = "confirm" <=> label = "use"
        /\ label = "spend" => link[l].purpose = "RESET" /\ MayUseThePortal(account[a])
  BY DEF BeginConfirm, BeginReset, Usable
<1> DEFINE f == [Reading(task, label, a) EXCEPT !.browser = b, !.link = l]
<1>2. link[l].state = "live" /\ l \in inbox /\ Begin(h, f)
  BY <1>1 DEF BeginConfirm, BeginReset, Usable, BeginOnLink
<1>3. a \in Addresses /\ account[a].there
  BY <1>2 DEF PortalInv, LinksOK
<1>4. LET r == Reading(task, label, a) IN
      /\ r \in Frame
      /\ r.pc = label /\ r.task = task /\ r.address = a /\ r.copy = account[a]
      /\ account[a].password <= account[a].password
  <2> HIDE DEF a
  <2> QED BY <1>3, ReadingOK DEF Tasks, Labels
<1>5. /\ f \in Frame
      /\ f.pc = label /\ f.task = task /\ f.address = a /\ f.copy = account[a]
      /\ f.browser = b /\ f.link = l
  <2> HIDE DEF a
  <2> QED BY <1>4 DEF Frame
<1>6. FrameOK(f, account, link, inbox) /\ AloneOK(f, account, link)
  BY <1>1, <1>2, <1>3, <1>4, <1>5 DEF FrameOK, AloneOK, Placed, MayUseThePortal
<1> QED
  <2> HIDE DEF f
  <2> QED BY <1>2, <1>5, <1>6, BeginOK

LEMMA ArrivesOK == ASSUME PortalInv, NEW h \in Handlers, Arrives(h) PROVE PortalInv'
BY BeginRegisterOK, BeginForLinkOK, BeginSignInOK, BeginOnLinkOK DEF Arrives
-----------------------------------------------------------------------------
(* A request goes on.                                                      *)

\* The frame a step starts from.
LEMMA FrameHere ==
  ASSUME PortalInv, NEW h \in Handlers
  PROVE  /\ frame[h] \in Frame
         /\ FrameOK(frame[h], account, link, inbox)
         /\ At(h, "idle") \/ frame[h] # Idle
         /\ frame \in [Handlers -> Frame]
BY IdleFrame DEF PortalInv, TypeOK, FramesOK, At

\* It only moves from one label to another.
LEMMA Relabelled ==
  ASSUME NEW f \in Frame, NEW label \in Labels
  PROVE  LET g == [f EXCEPT !.pc = label] IN
         /\ g \in Frame
         /\ g.pc = label /\ g.task = f.task /\ g.address = f.address /\ g.copy = f.copy
         /\ g.browser = f.browser /\ g.link = f.link
BY DEF Frame

\* The step only moves the frame.
LEMMA OnlyMoves ==
  ASSUME PortalInv, NEW h \in Handlers, NEW f \in Frame, Goto(h, f),
         UNCHANGED <<stored, staff, history>>,
         FrameOK(f, account, link, inbox), ~overlapped => AloneOK(f, account, link),
         ~At(h, "invalidate"), frame[h] # Idle
  PROVE  PortalInv'
<1>1. /\ frame' = [frame EXCEPT ![h] = f] /\ frame \in [Handlers -> Frame]
      /\ UNCHANGED <<account, link, outbox, inbox, session, staff, notices, overlapped, orphaned>>
  BY FrameHere DEF Goto, stored, history
<1>2. TypeOK'
  BY <1>1 DEF PortalInv, TypeOK
<1>3. Grows
  BY <1>1, NothingGrows DEF PortalInv
<1>4. AccountsOK' /\ LinksOK'
  BY <1>1 DEF PortalInv, AccountsOK, LinksOK
<1>5. SessionsOK' /\ FramesOK'
  BY <1>1, <1>2, <1>3, SessionsStand, FramesMove
<1>6. KeysOK'
  <2>1. \A g \in Handlers : At(g, "invalidate") => frame'[g] = frame[g]
    BY <1>1
  <2> QED BY <1>1, <2>1, KeysStand
<1>7. Alone'
  <2>1. ~overlapped => \A a \in Addresses : notices'[a] <= 1 /\ (notices'[a] > 0 => account'[a].locked)
    BY <1>1 DEF PortalInv, Alone
  <2> QED BY <1>1, <2>1, AloneMoves
<1> QED BY <1>2, <1>4, <1>5, <1>6, <1>7 DEF PortalInv

LEMMA AskForStaffOK ==
  ASSUME PortalInv, NEW h \in Handlers, AskForStaff(h)
  PROVE  PortalInv'
<1> DEFINE f == [frame[h] EXCEPT !.pc = "insert"]
<1>1. At(h, "staff") /\ frame[h] # Idle
  BY IdleFrame DEF AskForStaff, At
<1>2. CASE Goto(h, Idle)
  BY <1>1, <1>2, IdleFrame, OnlyMoves DEF AskForStaff, At
<1>3. CASE Goto(h, f)
  <2>1. /\ f \in Frame
        /\ f.pc = "insert" /\ f.task = frame[h].task /\ f.address = frame[h].address
        /\ f.copy = frame[h].copy
    <3>1. "insert" \in Labels /\ frame[h] \in Frame
      BY FrameHere DEF Labels
    <3> QED BY <3>1, Relabelled
  <2>2. FrameOK(f, account, link, inbox) /\ AloneOK(f, account, link)
    BY <1>1, <2>1, FrameHere DEF FrameOK, AloneOK, Placed, At
  <2> HIDE DEF f
  <2> QED BY <1>1, <1>3, <2>1, <2>2, OnlyMoves DEF AskForStaff, At
<1> QED BY <1>2, <1>3 DEF AskForStaff, Done

\* A new account, where there was none.
LEMMA CreateAccountOK ==
  ASSUME PortalInv, NEW h \in Handlers, CreateAccount(h)
  PROVE  PortalInv'
<1> DEFINE a == frame[h].address
           acc == [NoAccount EXCEPT !.there = TRUE, !.password = Chosen + 1]
           f == [frame[h] EXCEPT !.pc = "issue", !.copy = acc]
<1>1. At(h, "insert") /\ frame[h] # Idle /\ a \in Addresses /\ frame[h].task = "register"
  BY IdleFrame, FrameHere DEF CreateAccount, At, FrameOK, Placed
<1>2. CASE account[a].there
  <2>1. Goto(h, Idle) /\ UNCHANGED <<stored, staff, history>>
    BY <1>2 DEF CreateAccount, Done, stored
  <2> QED BY <1>1, <2>1, IdleFrame, OnlyMoves DEF At
<1>3. CASE ~account[a].there
  <2>1. /\ Chosen < MaxPassword
        /\ account' = [account EXCEPT ![a] = acc]
        /\ Goto(h, f)
        /\ UNCHANGED <<link, outbox, inbox, session, staff, notices, overlapped, orphaned>>
    BY <1>3 DEF CreateAccount, history
  <2>2. /\ acc \in Account
        /\ acc.there /\ ~acc.confirmed /\ ~acc.locked /\ acc.failed = 0
        /\ acc.password = Chosen + 1
    BY <2>1, IdleFrame, ChosenIsNewest DEF PortalInv, NoAccount, Account
  <2>3. /\ f \in Frame
        /\ f.pc = "issue" /\ f.task = "register" /\ f.address = a /\ f.copy = acc
    <3> HIDE DEF acc
    <3> QED BY <1>1, <2>2, FrameHere DEF Frame, Labels
  <2> HIDE DEF acc, f
  <2>4. account \in [Addresses -> Account] /\ frame \in [Handlers -> Frame]
    BY DEF PortalInv, TypeOK
  <2>5. \A c \in Addresses : account'[c] = IF c = a THEN acc ELSE account[c]
    BY <2>1, <2>4
  <2>6. TypeOK'
    BY <1>1, <2>1, <2>2, <2>3, <2>4 DEF PortalInv, TypeOK, Goto
  <2>7. account[a] = NoAccount
    BY <1>1, <1>3 DEF PortalInv, AccountsOK
  <2>8. Grows
    <3>1. \A c \in Addresses : account[c].password \in Nat
      BY <2>4, PortalAssumption DEF Account, Passwords
    <3>2. account[a].password <= acc.password
      BY <1>1, <2>2, <3>1, ChosenIsNewest, PortalAssumption DEF PortalInv, Passwords
    <3> QED BY <2>1, <2>2, <2>5, <2>7, <3>1, <3>2 DEF Grows, NoAccount
  <2>9. AccountsOK' /\ LinksOK'
    BY <2>1, <2>2, <2>5, <2>6, <2>8, LinksStand DEF PortalInv, AccountsOK
  <2>10. SessionsOK'
    BY <2>1, <2>6, <2>8, SessionsStand
  <2>11. FrameOK(f, account', link', inbox')
    BY <1>1, <2>2, <2>3, <2>5, ChosenIsNewest, PortalAssumption
       DEF FrameOK, Placed, PortalInv, Passwords
  <2>12. FramesOK'
    BY <2>1, <2>3, <2>6, <2>8, <2>11, FramesMove
  <2>13. KeysOK'
    <3>1. \A g \in Handlers : At(g, "invalidate") => frame'[g] = frame[g]
      BY <1>1, <2>1, <2>4 DEF Goto, At
    <3> QED BY <1>3, <2>1, <2>5, <3>1, KeysStand
  <2>14. Alone'
    <3>1. AloneOK(f, account', link')
      BY <2>3 DEF AloneOK
    <3>2. ~overlapped => \A c \in Addresses : notices'[c] <= 1 /\ (notices'[c] > 0 => account'[c].locked)
      BY <2>1, <2>5, <2>7 DEF PortalInv, Alone, NoAccount
    <3> QED BY <1>1, <2>1, <2>3, <3>1, <3>2, AloneMoves
  <2> QED BY <2>6, <2>9, <2>10, <2>12, <2>13, <2>14 DEF PortalInv
<1> QED BY <1>2, <1>3

LEMMA IssueLinkOK ==
  ASSUME PortalInv, NEW h \in Handlers, IssueLink(h)
  PROVE  PortalInv'
<1> DEFINE f == frame[h]
           purpose == IF f.task = "forgot" THEN "RESET" ELSE "CONFIRMATION"
<1>1. At(h, "issue") /\ f # Idle /\ f.address \in Addresses /\ account[f.address].there
  BY IdleFrame, FrameHere DEF IssueLink, At, FrameOK
<1>2. PICK l \in Links :
        /\ link[l].state = "none"
        /\ link' = [link EXCEPT ![l] = [state |-> "live", address |-> f.address,
                       under |-> account[f.address].password, purpose |-> purpose]]
        /\ outbox' \in {outbox, outbox \cup {l}}
  BY DEF IssueLink
<1>3. Goto(h, Idle) /\ UNCHANGED <<account, inbox, session, staff, notices, overlapped, orphaned>>
  BY DEF IssueLink, Done, history
<1>4. /\ link \in [Links -> Link] /\ frame \in [Handlers -> Frame]
      /\ account[f.address].password \in Passwords
  BY <1>1 DEF PortalInv, TypeOK, Account
<1>5. \A k \in Links : link'[k] = IF k = l THEN [state |-> "live", address |-> f.address,
                       under |-> account[f.address].password, purpose |-> purpose] ELSE link[k]
  BY <1>2, <1>4
<1>6. TypeOK'
  <2>1. link' \in [Links -> Link]
    BY <1>1, <1>2, <1>4 DEF Link, Purposes
  <2> QED BY <1>2, <1>3, <1>4, <2>1, IdleFrame DEF PortalInv, TypeOK, Goto
<1>7. Grows
  <2>1. \A a \in Addresses : account[a].password <= account[a].password
    BY ReadingOK DEF Tasks, Labels
  <2> QED BY <1>2, <1>3, <1>5, <2>1 DEF Grows
<1>8. AccountsOK' /\ LinksOK'
  BY <1>1, <1>3, <1>5 DEF PortalInv, AccountsOK, LinksOK
<1>9. SessionsOK' /\ FramesOK'
  BY <1>3, <1>6, <1>7, IdleFrame, SessionsStand, FramesMove
<1>10. KeysOK'
  <2> SUFFICES ASSUME ~orphaned, NEW k \in Links, link'[k].state = "live",
                      link'[k].purpose = "RESET"
               PROVE  \/ link'[k].under = account'[link'[k].address].password
                      \/ \E g \in Handlers : frame'[g].pc = "invalidate"
                                             /\ frame'[g].address = link'[k].address
    BY <1>3 DEF KeysOK, Usable, At
  <2>1. CASE k = l
    BY <1>3, <1>5, <2>1
  <2>2. CASE k # l
    <3>1. \/ link[k].under = account[link[k].address].password
          \/ \E g \in Handlers : At(g, "invalidate") /\ frame[g].address = link[k].address
      BY <1>5, <2>2 DEF PortalInv, KeysOK, Usable
    <3>2. \A g \in Handlers : At(g, "invalidate") => frame'[g] = frame[g]
      BY <1>1, <1>3, <1>4 DEF At, Goto
    <3> QED BY <1>3, <1>5, <2>2, <3>1, <3>2 DEF At
  <2> QED BY <2>1, <2>2
<1>11. Alone'
  <2>1. ~overlapped => \A a \in Addresses : notices'[a] <= 1 /\ (notices'[a] > 0 => account'[a].locked)
    BY <1>3 DEF PortalInv, Alone
  <2> QED BY <1>1, <1>3, <2>1, IdleFrame, AloneMoves
<1> QED BY <1>6, <1>8, <1>9, <1>10, <1>11 DEF PortalInv

LEMMA NoticesWritten ==
  ASSUME PortalInv, NEW a, NEW v \in 0..2, notices' = [notices EXCEPT ![a] = v]
  PROVE  notices' \in [Addresses -> 0..2]
BY DEF PortalInv, TypeOK

\* The accounts' columns for failures are written.
LEMMA FailuresWritten ==
  ASSUME PortalInv, NEW h \in Handlers, NEW f \in Frame, Goto(h, f), frame[h] # Idle,
         NEW a \in Addresses, account[a].there, NEW n \in 0..Threshold, NEW locked \in BOOLEAN,
         locked => n > 0,
         account' = [account EXCEPT ![a].failed = n, ![a].locked = locked],
         notices' \in [Addresses -> 0..2],
         UNCHANGED <<link, outbox, inbox, session, staff, overlapped, orphaned>>,
         ~At(h, "invalidate"),
         FrameOK(f, account, link, inbox),
         ~overlapped => AloneOK(f, account', link),
         ~overlapped => \A c \in Addresses : notices'[c] <= 1 /\ (notices'[c] > 0 => account'[c].locked)
  PROVE  PortalInv'
<1>1. account \in [Addresses -> Account] /\ frame \in [Handlers -> Frame]
  BY DEF PortalInv, TypeOK
<1>2. \A c \in Addresses :
        /\ account'[c].there = account[c].there
        /\ account'[c].password = account[c].password
        /\ account'[c].confirmed = account[c].confirmed
        /\ account'[c].failed = IF c = a THEN n ELSE account[c].failed
        /\ account'[c].locked = IF c = a THEN locked ELSE account[c].locked
        /\ c # a => account'[c] = account[c]
  BY <1>1 DEF Account
<1>3. TypeOK'
  <2>1. account' \in [Addresses -> Account]
    BY <1>1 DEF Account
  <2> QED BY <1>1, <2>1 DEF PortalInv, TypeOK, Goto
<1>4. Grows
  <2>1. \A c \in Addresses : account[c].password <= account[c].password
    BY ReadingOK DEF Tasks, Labels
  <2> QED BY <1>2, <2>1 DEF Grows
<1>5. AccountsOK' /\ LinksOK'
  <2>1. \A c \in Addresses : account'[c].locked => account'[c].failed > 0
    BY <1>2 DEF PortalInv, AccountsOK
  <2>2. \A c \in Addresses : ~account'[c].there => account'[c] = NoAccount
    BY <1>2 DEF PortalInv, AccountsOK
  <2>3. LinksOK'
    <3>1. \A l \in Links : link[l].state # "none" =>
            link[l].address \in Addresses /\ account[link[l].address].there
      BY DEF PortalInv, LinksOK
    <3>2. \A l \in Links : link[l].state # "none" =>
            link[l].address \in Addresses /\ account'[link[l].address].there
      BY <1>2, <3>1
    <3> QED BY <3>2 DEF LinksOK
  <2> QED BY <2>1, <2>2, <2>3 DEF AccountsOK
<1>6. FrameOK(f, account', link', inbox')
  BY <1>3, <1>4, FrameSurvives DEF PortalInv
<1>7. SessionsOK' /\ FramesOK'
  BY <1>3, <1>4, <1>6, SessionsStand, FramesMove
<1>8. KeysOK'
  <2>1. \A g \in Handlers : At(g, "invalidate") => frame'[g] = frame[g]
    BY <1>1 DEF Goto, At
  <2> QED BY <1>2, <2>1, KeysStand
<1>9. Alone'
  BY AloneMoves
<1> QED BY <1>3, <1>5, <1>7, <1>8, <1>9 DEF PortalInv

LEMMA RecordFailedSignInOK ==
  ASSUME PortalInv, NEW h \in Handlers, RecordFailedSignIn(h)
  PROVE  PortalInv'
<1> DEFINE f == frame[h]
           a == f.address
           locking == f.copy.failed + 1 >= Threshold
           n == IF locking THEN Threshold ELSE f.copy.failed + 1
<1>1. /\ At(h, "record") /\ f # Idle /\ a \in Addresses /\ account[a].there
      /\ f \in Frame
  BY IdleFrame, FrameHere DEF RecordFailedSignIn, At, FrameOK
<1>2. f.copy.failed \in 0..Threshold /\ Threshold \in Nat /\ Threshold > 0
  BY <1>1, PortalAssumption DEF Frame, Account
<1>3. n \in 0..Threshold /\ n > 0 /\ locking \in BOOLEAN
  BY <1>2
<1>4. /\ account' = [account EXCEPT ![a].failed = n, ![a].locked = locking]
      /\ \/ notices' = [notices EXCEPT ![a] = IF locking /\ @ < 2 THEN @ + 1 ELSE @]
         \/ locking /\ UNCHANGED notices
      /\ Goto(h, Idle)
      /\ UNCHANGED <<link, outbox, inbox, session, staff, overlapped, orphaned>>
  BY DEF RecordFailedSignIn, Done
<1>5. notices \in [Addresses -> 0..2] /\ account \in [Addresses -> Account]
  BY DEF PortalInv, TypeOK
<1> HIDE DEF locking, n, a, f
<1>6. notices' \in [Addresses -> 0..2]
  <2>1. notices[a] \in 0..2
    BY <1>1, <1>5
  <2>2. \/ notices' = [notices EXCEPT ![a] = IF locking /\ notices[a] < 2
                                          THEN notices[a] + 1 ELSE notices[a]]
        \/ UNCHANGED notices
    BY <1>4
  <2>3. (IF locking /\ notices[a] < 2 THEN notices[a] + 1 ELSE notices[a]) \in 0..2
    BY <2>1
  <2> QED BY <1>5, <2>2, <2>3, NoticesWritten
<1>7. ASSUME ~overlapped, NEW c \in Addresses
      PROVE  notices'[c] <= 1 /\ (notices'[c] > 0 => account'[c].locked)
  <2>1. ~account[a].locked
    BY <1>1, <1>7 DEF PortalInv, Alone, AloneOK, At, a, f
  <2>2. \A d \in Addresses : notices[d] <= 1 /\ (notices[d] > 0 => account[d].locked)
    BY <1>7 DEF PortalInv, Alone
  <2>3. notices[a] = 0
    BY <1>1, <1>5, <2>1, <2>2
  <2>4. CASE c = a
    <3>1. notices'[a] <= 1 /\ (notices'[a] > 0 => locking)
      BY <1>1, <1>4, <1>5, <2>3
    <3>2. account'[a].locked = locking
      BY <1>1, <1>4, <1>5 DEF Account
    <3> QED BY <2>4, <3>1, <3>2
  <2>5. CASE c # a
    BY <1>4, <1>5, <2>2, <2>5
  <2> QED BY <2>4, <2>5
<1> QED
  BY <1>1, <1>3, <1>4, <1>6, <1>7, IdleFrame, FailuresWritten DEF At, f

\* Where Admitted sends a frame.
LEMMA AdmittedIs ==
  ASSUME NEW f \in Frame
  PROVE  \/ Admitted(f) = Idle
         \/ Admitted(f) = [f EXCEPT !.pc = "stamp"] /\ f.copy.confirmed
BY DEF Admitted, MayUseThePortal

LEMMA ClearFailedSignInsOK ==
  ASSUME PortalInv, NEW h \in Handlers, ClearFailedSignIns(h)
  PROVE  PortalInv'
<1> DEFINE f == frame[h]
           a == f.address
           g == Admitted(f)
<1>1. /\ At(h, "clear") /\ f # Idle /\ a \in Addresses /\ account[a].there /\ f \in Frame
      /\ FrameOK(f, account, link, inbox)
  BY IdleFrame, FrameHere DEF ClearFailedSignIns, At, FrameOK
<1>2. /\ account' = [account EXCEPT ![a].failed = 0, ![a].locked = FALSE]
      /\ notices' = [notices EXCEPT ![a] = 0]
      /\ Goto(h, g)
      /\ UNCHANGED <<link, outbox, inbox, session, staff, overlapped, orphaned>>
  BY DEF ClearFailedSignIns
<1>3. 0 \in 0..Threshold
  BY PortalAssumption
<1>4. notices \in [Addresses -> 0..2] /\ account \in [Addresses -> Account]
  BY DEF PortalInv, TypeOK
<1>5. account'[a].failed = 0
  BY <1>1, <1>2, <1>4 DEF Account
<1>6. /\ g \in Frame
      /\ FrameOK(g, account, link, inbox)
      /\ AloneOK(g, account', link)
  <2>1. CASE g = Idle
    BY <2>1, IdleFrame
  <2>2. CASE g = [f EXCEPT !.pc = "stamp"] /\ f.copy.confirmed
    <3>1. /\ g \in Frame
          /\ g.pc = "stamp" /\ g.task = f.task /\ g.address = a /\ g.copy = f.copy
          /\ g.browser = f.browser
      BY <1>1, <2>2 DEF Frame, Labels
    <3> HIDE DEF g
    <3>2. FrameOK(g, account, link, inbox)
      BY <1>1, <2>2, <3>1 DEF FrameOK, Placed, At
    <3> QED BY <1>5, <3>1, <3>2 DEF AloneOK
  <2> QED BY <1>1, <2>1, <2>2, AdmittedIs
<1> HIDE DEF g, a, f
<1>7. notices' \in [Addresses -> 0..2]
  <2>1. notices' = [notices EXCEPT ![a] = 0]
    BY <1>2
  <2>2. 0 \in 0..2
    OBVIOUS
  <2> QED BY <2>1, <2>2, NoticesWritten
<1>8. ~overlapped => \A c \in Addresses : notices'[c] <= 1 /\ (notices'[c] > 0 => account'[c].locked)
  BY <1>1, <1>2, <1>4 DEF PortalInv, Alone
<1> QED
  BY <1>1, <1>2, <1>3, <1>6, <1>7, <1>8, FailuresWritten DEF At, f

\* Only the session, or no store at all, is written.
LEMMA SignInCustomerOK ==
  ASSUME PortalInv, NEW h \in Handlers, SignInCustomer(h)
  PROVE  PortalInv'
<1> DEFINE f == frame[h]
           s == [address |-> f.address, stamp |-> f.copy.password, proof |-> f.copy.password]
<1>1. /\ At(h, "stamp") /\ f # Idle /\ f.address \in Addresses /\ f.browser \in Browsers
      /\ f \in Frame /\ account[f.address].confirmed
      /\ f.copy.password <= account[f.address].password
  BY IdleFrame, FrameHere DEF SignInCustomer, At, FrameOK
<1>2. /\ session' = [session EXCEPT ![f.browser] = s]
      /\ Goto(h, Idle)
      /\ UNCHANGED <<account, link, outbox, inbox, staff, notices, overlapped, orphaned>>
  BY DEF SignInCustomer, Done, history
<1>3. s \in Session
  BY <1>1 DEF Session, Frame, Account
<1>4. frame \in [Handlers -> Frame] /\ session \in [Browsers -> Session]
  BY DEF PortalInv, TypeOK
<1>5. TypeOK'
  BY <1>2, <1>3, <1>4, IdleFrame DEF PortalInv, TypeOK, Goto
<1>6. Grows
  BY <1>2, NothingGrows DEF PortalInv
<1>7. AccountsOK' /\ LinksOK' /\ FramesOK'
  BY <1>2, <1>5, <1>6, IdleFrame, FramesMove DEF PortalInv, AccountsOK, LinksOK
<1>8. SessionsOK'
  BY <1>1, <1>2, <1>4 DEF PortalInv, SessionsOK
<1>9. KeysOK'
  <2>1. \A g \in Handlers : At(g, "invalidate") => frame'[g] = frame[g]
    BY <1>1, <1>2, <1>4 DEF Goto, At
  <2> QED BY <1>2, <2>1, KeysStand
<1>10. Alone'
  <2>1. ~overlapped => \A c \in Addresses : notices'[c] <= 1 /\ (notices'[c] > 0 => account'[c].locked)
    BY <1>2 DEF PortalInv, Alone
  <2> QED BY <1>1, <1>2, <2>1, IdleFrame, AloneMoves
<1> QED BY <1>5, <1>7, <1>8, <1>9, <1>10 DEF PortalInv
-----------------------------------------------------------------------------
(* Requests on a link.                                                     *)

\* The step leaves some links dead, and nothing else of the stores.
LEMMA LinksDie ==
  ASSUME PortalInv, NEW h \in Handlers, NEW f \in Frame, Goto(h, f), frame[h] # Idle,
         link' \in [Links -> Link],
         NEW dying \in SUBSET {l \in Links : link[l].state # "none"},
         \A l \in Links : IF l \in dying THEN link'[l] = [link[l] EXCEPT !.state = "dead"]
                                         ELSE link'[l] = link[l],
         UNCHANGED <<account, outbox, inbox, session, staff, notices, overlapped, orphaned>>,
         FrameOK(f, account, link', inbox),
         ~overlapped => AloneOK(f, account, link')
  PROVE  /\ TypeOK' /\ AccountsOK' /\ LinksOK' /\ SessionsOK' /\ FramesOK' /\ Alone'
         /\ ~At(h, "invalidate") => KeysOK'
         /\ \A l \in dying : link'[l].state = "dead"
<1>1. link \in [Links -> Link] /\ frame \in [Handlers -> Frame]
  BY DEF PortalInv, TypeOK
<1>2. \A l \in Links :
        /\ link'[l].address = link[l].address /\ link'[l].purpose = link[l].purpose
        /\ link'[l].state = IF l \in dying THEN "dead" ELSE link[l].state
        /\ l \notin dying => link'[l] = link[l]
  BY <1>1 DEF Link
<1>3. TypeOK'
  BY <1>1 DEF PortalInv, TypeOK, Goto
<1>4. Grows
  <2>1. \A c \in Addresses : account[c].password <= account[c].password
    BY ReadingOK DEF Tasks, Labels
  <2> QED BY <1>2, <2>1 DEF Grows
<1>5. AccountsOK' /\ LinksOK' /\ SessionsOK' /\ FramesOK'
  <2>1. AccountsOK' /\ LinksOK'
    BY <1>2 DEF PortalInv, AccountsOK, LinksOK
  <2> QED BY <1>3, <1>4, <2>1, SessionsStand, FramesMove
<1>6. ~At(h, "invalidate") => KeysOK'
  <2>1. ~At(h, "invalidate") => \A g \in Handlers : At(g, "invalidate") => frame'[g] = frame[g]
    BY <1>1 DEF Goto, At
  <2> QED BY <1>2, <2>1, KeysStand
<1>7. Alone'
  <2>1. ~overlapped => \A c \in Addresses : notices'[c] <= 1 /\ (notices'[c] > 0 => account'[c].locked)
    BY DEF PortalInv, Alone
  <2> QED BY <2>1, AloneMoves
<1> QED BY <1>2, <1>3, <1>5, <1>6, <1>7

LEMMA ConsumeConfirmationOK ==
  ASSUME PortalInv, NEW h \in Handlers, ConsumeConfirmation(h)
  PROVE  PortalInv'
<1> DEFINE f == frame[h]
           label == IF f.copy.confirmed THEN "stamp" ELSE "confirm"
           g == IF ~f.copy.active THEN Idle ELSE [f EXCEPT !.pc = label]
<1>1. /\ At(h, "use") /\ f # Idle /\ f \in Frame /\ FrameOK(f, account, link, inbox)
      /\ f.link \in Links /\ link[f.link].state # "none"
  BY IdleFrame, FrameHere DEF ConsumeConfirmation, At, FrameOK
<1>2. /\ link' = [link EXCEPT ![f.link].state = "dead"]
      /\ Goto(h, g)
      /\ UNCHANGED <<account, outbox, inbox, session, staff, notices, overlapped, orphaned>>
  BY DEF ConsumeConfirmation, history
<1>3. /\ g \in Frame
      /\ FrameOK(g, account, link', inbox)
      /\ AloneOK(g, account, link')
  <2>1. CASE g = Idle
    BY <2>1, IdleFrame
  <2>2. CASE g = [f EXCEPT !.pc = label]
    <3>1. /\ g \in Frame
          /\ g.pc = label /\ g.task = f.task /\ g.address = f.address /\ g.copy = f.copy
          /\ g.browser = f.browser
      BY <1>1, <2>2 DEF Frame, Labels
    <3> HIDE DEF g
    <3> QED BY <1>1, <3>1 DEF FrameOK, AloneOK, Placed, At
  <2> QED BY <2>1, <2>2
<1>4. link \in [Links -> Link]
  BY DEF PortalInv, TypeOK
<1> HIDE DEF g
<1>5. link' \in [Links -> Link]
  BY <1>2, <1>4 DEF Link
<1>6. {f.link} \in SUBSET {l \in Links : link[l].state # "none"}
  BY <1>1
<1>7. \A l \in Links : IF l \in {f.link} THEN link'[l] = [link[l] EXCEPT !.state = "dead"]
                                         ELSE link'[l] = link[l]
  BY <1>2, <1>4
<1>8. /\ TypeOK' /\ AccountsOK' /\ LinksOK' /\ SessionsOK' /\ FramesOK' /\ Alone'
      /\ ~At(h, "invalidate") => KeysOK'
  BY <1>1, <1>2, <1>3, <1>5, <1>6, <1>7, LinksDie
<1> QED BY <1>1, <1>8 DEF PortalInv, At

LEMMA SpendResetLinkOK ==
  ASSUME PortalInv, NEW h \in Handlers, SpendResetLink(h)
  PROVE  PortalInv'
<1> DEFINE f == frame[h]
           g == [f EXCEPT !.pc = "save"]
<1>1. /\ At(h, "spend") /\ f # Idle /\ f \in Frame /\ FrameOK(f, account, link, inbox)
      /\ f.link \in Links /\ link[f.link].state # "none"
  BY IdleFrame, FrameHere DEF SpendResetLink, At, FrameOK
<1>2. /\ link' = [link EXCEPT ![f.link].state = "dead"]
      /\ Goto(h, g)
      /\ UNCHANGED <<account, outbox, inbox, session, staff, notices, overlapped, orphaned>>
  BY DEF SpendResetLink, history
<1>3. link \in [Links -> Link]
  BY DEF PortalInv, TypeOK
<1>4. link' \in [Links -> Link]
  BY <1>2, <1>3 DEF Link
<1>5. /\ link'[f.link].state = "dead" /\ link'[f.link].purpose = link[f.link].purpose
      /\ link'[f.link].address = link[f.link].address
  BY <1>1, <1>2, <1>3 DEF Link
<1>6. /\ g \in Frame
      /\ g.pc = "save" /\ g.task = f.task /\ g.address = f.address /\ g.copy = f.copy
      /\ g.browser = f.browser /\ g.link = f.link
  BY <1>1 DEF Frame, Labels
<1> HIDE DEF g
<1>7. FrameOK(g, account, link', inbox)
  BY <1>1, <1>5, <1>6 DEF FrameOK, Placed, At
<1>8. ~overlapped => AloneOK(g, account, link')
  <2>1. ~overlapped => account[f.address].failed = f.copy.failed
    BY <1>1 DEF PortalInv, Alone, AloneOK, At
  <2> QED BY <1>6, <2>1 DEF AloneOK
<1>9. {f.link} \in SUBSET {l \in Links : link[l].state # "none"}
  BY <1>1
<1>10. \A l \in Links : IF l \in {f.link} THEN link'[l] = [link[l] EXCEPT !.state = "dead"]
                                          ELSE link'[l] = link[l]
  BY <1>2, <1>3
<1>11. /\ TypeOK' /\ AccountsOK' /\ LinksOK' /\ SessionsOK' /\ FramesOK' /\ Alone'
       /\ ~At(h, "invalidate") => KeysOK'
  BY <1>1, <1>2, <1>4, <1>6, <1>7, <1>8, <1>9, <1>10, LinksDie
<1> QED BY <1>1, <1>11 DEF PortalInv, At

\* The other reset links are burned: none is left of the account the request is about.
LEMMA InvalidateAllOK ==
  ASSUME PortalInv, NEW h \in Handlers, InvalidateAll(h)
  PROVE  PortalInv'
<1> DEFINE f == frame[h]
           label == IF f.copy.failed > 0 THEN "clear" ELSE "stamp"
           g == AfterReset(f)
           burned == {l \in Links : /\ link[l].address = f.address /\ link[l].purpose = "RESET"
                                    /\ link[l].state = "live"}
<1>1. /\ At(h, "invalidate") /\ f # Idle /\ f \in Frame /\ FrameOK(f, account, link, inbox)
      /\ f.address \in Addresses
  BY IdleFrame, FrameHere DEF InvalidateAll, At, FrameOK
<1>2. /\ link' = [l \in Links |->
                    IF l \in burned THEN [link[l] EXCEPT !.state = "dead"] ELSE link[l]]
      /\ Goto(h, g)
      /\ UNCHANGED <<account, outbox, inbox, session, staff, notices, overlapped, orphaned>>
  BY DEF InvalidateAll, history
<1>3. link \in [Links -> Link] /\ frame \in [Handlers -> Frame]
  BY DEF PortalInv, TypeOK
<1>4. link' \in [Links -> Link]
  BY <1>2, <1>3 DEF Link
<1>5. /\ g \in Frame
      /\ g.pc = label /\ g.task = f.task /\ g.address = f.address /\ g.copy = f.copy
      /\ g.browser = f.browser
  BY <1>1 DEF AfterReset, Frame, Labels
<1> HIDE DEF g
<1>6. FrameOK(g, account, link', inbox)
  BY <1>1, <1>5 DEF FrameOK, Placed, At
<1>7. ~overlapped => AloneOK(g, account, link')
  <2>1. ~overlapped => account[f.address].failed = f.copy.failed
    BY <1>1 DEF PortalInv, Alone, AloneOK, At
  <2>2. f.copy.failed \in Nat
    BY <1>1, PortalAssumption DEF Frame, Account
  <2>3. f.task = "reset"
    BY <1>1 DEF FrameOK, Placed, At
  <2> QED BY <1>5, <2>1, <2>2, <2>3 DEF AloneOK
<1>8. burned \in SUBSET {l \in Links : link[l].state # "none"}
  OBVIOUS
<1>9. \A l \in Links : IF l \in burned THEN link'[l] = [link[l] EXCEPT !.state = "dead"]
                                       ELSE link'[l] = link[l]
  BY <1>2
<1>10. /\ TypeOK' /\ AccountsOK' /\ LinksOK' /\ SessionsOK' /\ FramesOK' /\ Alone'
       /\ \A l \in burned : link'[l].state = "dead"
  <2> HIDE DEF burned
  <2> QED BY <1>1, <1>2, <1>4, <1>5, <1>6, <1>7, <1>8, <1>9, LinksDie
<1>11. KeysOK'
  <2> SUFFICES ASSUME ~orphaned, NEW l \in Links, link'[l].state = "live",
                      link'[l].purpose = "RESET"
               PROVE  \/ link'[l].under = account'[link'[l].address].password
                      \/ \E k \in Handlers : frame'[k].pc = "invalidate"
                                             /\ frame'[k].address = link'[l].address
    BY <1>2 DEF KeysOK, Usable, At
  <2>1. l \notin burned
    BY <1>10
  <2>2. link'[l] = link[l] /\ link[l].address # f.address
    BY <1>9, <2>1
  <2>3. \/ link[l].under = account[link[l].address].password
        \/ \E k \in Handlers : At(k, "invalidate") /\ frame[k].address = link[l].address
    BY <2>2 DEF PortalInv, KeysOK, Usable
  <2>4. \A k \in Handlers : frame[k].address = link[l].address => frame'[k] = frame[k]
    BY <1>2, <1>3, <2>2 DEF Goto
  <2> QED BY <1>2, <2>2, <2>3, <2>4 DEF At
<1> QED BY <1>10, <1>11 DEF PortalInv

LEMMA ConfirmAddressOK ==
  ASSUME PortalInv, NEW h \in Handlers, ConfirmAddress(h)
  PROVE  PortalInv'
<1> DEFINE f == frame[h]
           a == f.address
           g == [f EXCEPT !.pc = "stamp", !.copy.confirmed = TRUE]
<1>1. /\ At(h, "confirm") /\ f # Idle /\ f \in Frame /\ FrameOK(f, account, link, inbox)
      /\ a \in Addresses /\ account[a].there
  BY IdleFrame, FrameHere DEF ConfirmAddress, At, FrameOK
<1>2. /\ account' = [account EXCEPT ![a].confirmed = TRUE]
      /\ Goto(h, g)
      /\ UNCHANGED <<link, outbox, inbox, session, staff, notices, overlapped, orphaned>>
  BY DEF ConfirmAddress, history
<1>3. account \in [Addresses -> Account] /\ frame \in [Handlers -> Frame]
  BY DEF PortalInv, TypeOK
<1>4. /\ g \in Frame
      /\ g.pc = "stamp" /\ g.task = f.task /\ g.address = a /\ g.browser = f.browser
      /\ g.copy.password = f.copy.password
  BY <1>1 DEF Frame, Labels, Account
<1>5. g.copy.confirmed
  BY <1>1 DEF Frame, Account
<1> HIDE DEF g
<1>6. \A c \in Addresses :
        /\ account'[c].there = account[c].there
        /\ account'[c].password = account[c].password
        /\ account'[c].failed = account[c].failed
        /\ account'[c].locked = account[c].locked
        /\ account[c].confirmed => account'[c].confirmed
        /\ c # a => account'[c] = account[c]
        /\ c = a => account'[c].confirmed
  BY <1>2, <1>3 DEF Account
<1>7. TypeOK'
  <2>1. account' \in [Addresses -> Account]
    BY <1>2, <1>3 DEF Account
  <2> QED BY <1>2, <1>3, <1>4, <2>1 DEF PortalInv, TypeOK, Goto
<1>8. Grows
  <2>1. \A c \in Addresses : account[c].password <= account[c].password
    BY ReadingOK DEF Tasks, Labels
  <2> QED BY <1>2, <1>6, <2>1 DEF Grows
<1>9. AccountsOK' /\ LinksOK'
  <2>1. AccountsOK'
    BY <1>1, <1>6 DEF PortalInv, AccountsOK
  <2>2. LinksOK'
    BY <1>2, <1>7, <1>8, LinksStand
  <2> QED BY <2>1, <2>2
<1>10. FrameOK(g, account', link', inbox')
  BY <1>1, <1>2, <1>4, <1>5, <1>6 DEF FrameOK, Placed, At
<1>11. SessionsOK' /\ FramesOK'
  BY <1>2, <1>4, <1>7, <1>8, <1>10, SessionsStand, FramesMove
<1>12. KeysOK'
  <2>1. \A k \in Handlers : At(k, "invalidate") => frame'[k] = frame[k]
    BY <1>1, <1>2, <1>3 DEF Goto, At
  <2> QED BY <1>2, <1>6, <2>1, KeysStand
<1>13. Alone'
  <2>1. AloneOK(g, account', link')
    <3>1. g.task = "confirm"
      BY <1>1, <1>4 DEF FrameOK, Placed, At
    <3> QED BY <1>4, <3>1 DEF AloneOK
  <2>2. ~overlapped => \A c \in Addresses : notices'[c] <= 1 /\ (notices'[c] > 0 => account'[c].locked)
    BY <1>2, <1>6 DEF PortalInv, Alone
  <2> QED BY <1>1, <1>2, <1>4, <2>1, <2>2, AloneMoves
<1> QED BY <1>7, <1>9, <1>11, <1>12, <1>13 DEF PortalInv

\* The links of the old password are stale from here, and the request is about to burn them.
LEMMA SavePasswordOK ==
  ASSUME PortalInv, NEW h \in Handlers, SavePassword(h)
  PROVE  PortalInv'
<1> DEFINE f == frame[h]
           a == f.address
           g == [f EXCEPT !.pc = "invalidate", !.copy.password = Chosen + 1]
<1>1. /\ At(h, "save") /\ f # Idle /\ f \in Frame /\ FrameOK(f, account, link, inbox)
      /\ a \in Addresses /\ account[a].there
  BY IdleFrame, FrameHere DEF SavePassword, At, FrameOK
<1>2. /\ Chosen < MaxPassword
      /\ account' = [account EXCEPT ![a].password = Chosen + 1]
      /\ Goto(h, g)
      /\ UNCHANGED <<link, outbox, inbox, session, staff, notices, overlapped, orphaned>>
  BY DEF SavePassword, history
<1>3. account \in [Addresses -> Account] /\ frame \in [Handlers -> Frame]
  BY DEF PortalInv, TypeOK
<1>4. /\ Chosen + 1 \in Passwords /\ Chosen \in Nat
      /\ \A c \in Addresses : account[c].password <= Chosen /\ account[c].password \in Nat
  BY <1>2, <1>3, ChosenIsNewest, PortalAssumption DEF PortalInv, Account, Passwords
<1> DEFINE new == Chosen + 1
<1> HIDE DEF new
<1>5. account' = [account EXCEPT ![a].password = new] /\ new \in Passwords
      /\ g = [f EXCEPT !.pc = "invalidate", !.copy.password = new]
      /\ \A c \in Addresses : account[c].password <= new /\ account[c].password <= account[c].password
  BY <1>2, <1>4 DEF new
<1>6. /\ g \in Frame
      /\ g.pc = "invalidate" /\ g.task = f.task /\ g.address = a /\ g.browser = f.browser
      /\ g.copy.password = new /\ g.copy.confirmed = f.copy.confirmed
      /\ g.copy.failed = f.copy.failed
  <2>1. /\ g.pc = "invalidate" /\ g.task = f.task /\ g.address = a /\ g.browser = f.browser
        /\ g.link = f.link
    BY <1>1, <1>5 DEF Frame
  <2>2. f.copy \in Account
    BY <1>1 DEF Frame
  <2>3. g.copy = [f.copy EXCEPT !.password = new]
    BY <1>1, <1>5 DEF Frame
  <2>4. /\ g.copy \in Account /\ g.copy.password = new /\ g.copy.confirmed = f.copy.confirmed
        /\ g.copy.failed = f.copy.failed
    BY <1>5, <2>2, <2>3 DEF Account
  <2>5. g \in Frame
    BY <1>1, <1>5, <2>2, <2>3, <2>4 DEF Frame, Labels
  <2> QED BY <2>1, <2>4, <2>5
<1> HIDE DEF g
<1>7. \A c \in Addresses :
        /\ account'[c].there = account[c].there
        /\ account'[c].confirmed = account[c].confirmed
        /\ account'[c].failed = account[c].failed
        /\ account'[c].locked = account[c].locked
        /\ account'[c].password = IF c = a THEN new ELSE account[c].password
        /\ c # a => account'[c] = account[c]
  BY <1>3, <1>5 DEF Account
<1>8. TypeOK'
  <2>1. account' \in [Addresses -> Account]
    BY <1>3, <1>5 DEF Account
  <2> QED BY <1>2, <1>3, <1>6, <2>1 DEF PortalInv, TypeOK, Goto
<1>9. Grows
  BY <1>2, <1>5, <1>7 DEF Grows
<1>10. AccountsOK' /\ LinksOK'
  <2>1. AccountsOK'
    BY <1>1, <1>7 DEF PortalInv, AccountsOK
  <2>2. LinksOK'
    BY <1>2, <1>8, <1>9, LinksStand
  <2> QED BY <2>1, <2>2
<1>11. FrameOK(g, account', link', inbox')
  <2>1. new <= new
    BY <1>4 DEF new
  <2> QED BY <1>1, <1>2, <1>6, <1>7, <2>1 DEF FrameOK, Placed, At
<1>12. SessionsOK' /\ FramesOK'
  BY <1>2, <1>6, <1>8, <1>9, <1>11, SessionsStand, FramesMove
<1>13. KeysOK'
  <2> SUFFICES ASSUME ~orphaned, NEW l \in Links, link[l].state = "live",
                      link[l].purpose = "RESET"
               PROVE  \/ link[l].under = account'[link[l].address].password
                      \/ \E k \in Handlers : frame'[k].pc = "invalidate"
                                             /\ frame'[k].address = link[l].address
    BY <1>2 DEF KeysOK, Usable, At
  <2>1. frame'[h] = g /\ \A k \in Handlers : At(k, "invalidate") => frame'[k] = frame[k]
    BY <1>1, <1>2, <1>3 DEF Goto, At
  <2>2. CASE link[l].address = a
    BY <1>6, <2>1, <2>2
  <2>3. CASE link[l].address # a
    <3>1. \/ link[l].under = account[link[l].address].password
          \/ \E k \in Handlers : At(k, "invalidate") /\ frame[k].address = link[l].address
      BY DEF PortalInv, KeysOK, Usable
    <3>2. link[l].address \in Addresses
      BY DEF PortalInv, LinksOK
    <3> QED BY <1>7, <2>1, <2>3, <3>1, <3>2 DEF At
  <2> QED BY <2>2, <2>3
<1>14. Alone'
  <2>1. ~overlapped => AloneOK(g, account', link')
    <3>1. ~overlapped => account[a].failed = f.copy.failed
      BY <1>1 DEF PortalInv, Alone, AloneOK, At
    <3> QED BY <1>1, <1>6, <1>7, <3>1 DEF AloneOK
  <2>2. ~overlapped => \A c \in Addresses : notices'[c] <= 1 /\ (notices'[c] > 0 => account'[c].locked)
    BY <1>2, <1>7 DEF PortalInv, Alone
  <2> QED BY <1>1, <1>2, <1>6, <2>1, <2>2, AloneMoves
<1> QED BY <1>8, <1>10, <1>12, <1>13, <1>14 DEF PortalInv

LEMMA HandleOK == ASSUME PortalInv, NEW h \in Handlers, Handle(h) PROVE PortalInv'
BY AskForStaffOK, CreateAccountOK, IssueLinkOK, RecordFailedSignInOK, ClearFailedSignInsOK,
   ConsumeConfirmationOK, ConfirmAddressOK, SpendResetLinkOK, SavePasswordOK, InvalidateAllOK,
   SignInCustomerOK DEF Handle
-----------------------------------------------------------------------------
(* Mail, time and death.                                                   *)

LEMMA SendLinkOK ==
  ASSUME PortalInv, NEW l \in outbox, SendLink(l)
  PROVE  PortalInv'
<1>1. UNCHANGED <<account, link, session, frame, staff, notices, overlapped, orphaned>>
  BY DEF SendLink, history
<1>2. inbox \subseteq inbox'
  BY DEF SendLink
<1>3. TypeOK'
  <2>1. outbox' \subseteq Links /\ inbox' \subseteq Links
    BY DEF SendLink, PortalInv, TypeOK
  <2> QED BY <1>1, <2>1 DEF PortalInv, TypeOK
<1>4. Grows
  <2>1. \A c \in Addresses : account[c].password <= account[c].password
    BY ReadingOK DEF Tasks, Labels
  <2> QED BY <1>1, <1>2, <2>1 DEF Grows
<1>5. AccountsOK' /\ LinksOK' /\ SessionsOK' /\ FramesOK'
  BY <1>1, <1>3, <1>4, SessionsStand, FramesStand DEF PortalInv, AccountsOK, LinksOK
<1>6. KeysOK'
  BY <1>1, KeysStand
<1>7. Alone'
  BY <1>1, AloneStands
<1> QED BY <1>3, <1>5, <1>6, <1>7 DEF PortalInv

LEMMA SignOutOK ==
  ASSUME PortalInv, NEW b \in Browsers, SignOut(b)
  PROVE  PortalInv'
<1>1. /\ session' = [session EXCEPT ![b] = NoSession]
      /\ UNCHANGED <<account, link, outbox, inbox, frame, staff, notices, overlapped, orphaned>>
  BY DEF SignOut, history
<1>2. session \in [Browsers -> Session] /\ NoSession \in Session
  BY PortalAssumption DEF PortalInv, TypeOK, NoSession, Session, Passwords
<1>3. TypeOK'
  BY <1>1, <1>2 DEF PortalInv, TypeOK
<1>4. Grows
  BY <1>1, NothingGrows DEF PortalInv
<1>5. AccountsOK' /\ LinksOK' /\ FramesOK'
  BY <1>1, <1>3, <1>4, FramesStand DEF PortalInv, AccountsOK, LinksOK
<1>6. SessionsOK'
  BY <1>1, <1>2 DEF PortalInv, SessionsOK, NoSession
<1>7. KeysOK'
  BY <1>1, KeysStand
<1>8. Alone'
  BY <1>1, AloneStands
<1> QED BY <1>3, <1>5, <1>6, <1>7, <1>8 DEF PortalInv

LEMMA LinkLapsesOK ==
  ASSUME PortalInv, NEW l \in Links, LinkLapses(l)
  PROVE  PortalInv'
<1>1. /\ link' = [link EXCEPT ![l].state = "dead"] /\ link[l].state = "live" /\ Quiet
      /\ UNCHANGED <<account, outbox, inbox, session, frame, staff, notices, overlapped, orphaned>>
  BY DEF LinkLapses, history
<1>2. link \in [Links -> Link]
  BY DEF PortalInv, TypeOK
<1>3. \A k \in Links :
        /\ link'[k].address = link[k].address /\ link'[k].purpose = link[k].purpose
        /\ link'[k].state = IF k = l THEN "dead" ELSE link[k].state
        /\ k # l => link'[k] = link[k]
  BY <1>1, <1>2 DEF Link
<1>4. TypeOK'
  <2>1. link' \in [Links -> Link]
    BY <1>1, <1>2 DEF Link
  <2> QED BY <1>1, <2>1 DEF PortalInv, TypeOK
<1>5. Grows
  <2>1. \A c \in Addresses : account[c].password <= account[c].password
    BY ReadingOK DEF Tasks, Labels
  <2> QED BY <1>1, <1>3, <2>1 DEF Grows
<1>6. AccountsOK' /\ LinksOK'
  BY <1>1, <1>3 DEF PortalInv, AccountsOK, LinksOK
<1>7. SessionsOK' /\ FramesOK'
  BY <1>1, <1>4, <1>5, SessionsStand, FramesStand
<1>8. KeysOK'
  BY <1>1, <1>3, KeysStand
<1>9. Alone'
  BY <1>1, AloneStands
<1> QED BY <1>4, <1>6, <1>7, <1>8, <1>9 DEF PortalInv

LEMMA LockLapsesOK ==
  ASSUME PortalInv, NEW a \in Addresses, LockLapses(a)
  PROVE  PortalInv'
<1>1. /\ Quiet /\ account[a].locked
      /\ account' = [account EXCEPT ![a].locked = FALSE]
      /\ notices' = [notices EXCEPT ![a] = 0]
      /\ UNCHANGED <<link, outbox, inbox, session, frame, staff, overlapped, orphaned>>
  BY DEF LockLapses
<1>2. account \in [Addresses -> Account]
  BY DEF PortalInv, TypeOK
<1>3. \A c \in Addresses :
        /\ account'[c].there = account[c].there
        /\ account'[c].password = account[c].password
        /\ account'[c].confirmed = account[c].confirmed
        /\ account'[c].locked => account[c].locked
        /\ account'[c].failed = account[c].failed
        /\ c # a => account'[c] = account[c]
  BY <1>1, <1>2 DEF Account
<1>4. TypeOK'
  <2>1. account' \in [Addresses -> Account]
    BY <1>1, <1>2 DEF Account
  <2>2. notices' \in [Addresses -> 0..2]
    <3>1. 0 \in 0..2
      OBVIOUS
    <3> QED BY <1>1, <3>1, NoticesWritten
  <2> QED BY <1>1, <2>1, <2>2 DEF PortalInv, TypeOK
<1>5. Grows
  <2>1. \A c \in Addresses : account[c].password <= account[c].password
    BY ReadingOK DEF Tasks, Labels
  <2> QED BY <1>1, <1>3, <2>1 DEF Grows
<1>6. AccountsOK' /\ LinksOK'
  <2>1. account[a].there
    BY <1>1 DEF PortalInv, AccountsOK, NoAccount
  <2>2. AccountsOK'
    BY <1>3, <2>1 DEF PortalInv, AccountsOK
  <2>3. LinksOK'
    BY <1>1, <1>4, <1>5, LinksStand
  <2> QED BY <2>2, <2>3
<1>7. SessionsOK' /\ FramesOK'
  BY <1>1, <1>4, <1>5, SessionsStand, FramesStand
<1>8. KeysOK'
  BY <1>1, <1>3, KeysStand
<1>9. Alone'
  <2>1. notices \in [Addresses -> 0..2]
    BY DEF PortalInv, TypeOK
  <2>2. \A c \in Addresses : \/ notices'[c] = 0
                             \/ /\ notices'[c] = notices[c]
                                /\ account'[c].locked = account[c].locked
    BY <1>1, <1>3, <2>1
  <2> QED BY <1>1, <2>2, AloneStands
<1> QED BY <1>4, <1>6, <1>7, <1>8, <1>9 DEF PortalInv

LEMMA CustomerDeactivatedOK ==
  ASSUME PortalInv, NEW a \in Addresses, CustomerDeactivated(a)
  PROVE  PortalInv'
<1>1. /\ account[a].there
      /\ account' = [account EXCEPT ![a].active = FALSE]
      /\ UNCHANGED <<link, outbox, inbox, session, frame, staff, notices, overlapped, orphaned>>
  BY DEF CustomerDeactivated, history
<1>2. account \in [Addresses -> Account]
  BY DEF PortalInv, TypeOK
<1>3. \A c \in Addresses :
        /\ account'[c].there = account[c].there
        /\ account'[c].password = account[c].password
        /\ account'[c].confirmed = account[c].confirmed
        /\ account'[c].locked = account[c].locked
        /\ account'[c].failed = account[c].failed
        /\ c # a => account'[c] = account[c]
  BY <1>1, <1>2 DEF Account
<1>4. TypeOK'
  <2>1. account' \in [Addresses -> Account]
    BY <1>1, <1>2 DEF Account
  <2> QED BY <1>1, <2>1 DEF PortalInv, TypeOK
<1>5. Grows
  <2>1. \A c \in Addresses : account[c].password <= account[c].password
    BY ReadingOK DEF Tasks, Labels
  <2> QED BY <1>1, <1>3, <2>1 DEF Grows
<1>6. AccountsOK' /\ LinksOK'
  <2>1. AccountsOK'
    BY <1>1, <1>3 DEF PortalInv, AccountsOK
  <2>2. LinksOK'
    BY <1>1, <1>4, <1>5, LinksStand
  <2> QED BY <2>1, <2>2
<1>7. SessionsOK' /\ FramesOK'
  BY <1>1, <1>4, <1>5, SessionsStand, FramesStand
<1>8. KeysOK'
  BY <1>1, <1>3, KeysStand
<1>9. Alone'
  BY <1>1, <1>3, AloneStands
<1> QED BY <1>4, <1>6, <1>7, <1>8, <1>9 DEF PortalInv

LEMMA DiesOK ==
  ASSUME PortalInv, NEW h \in Handlers, Dies(h)
  PROVE  PortalInv'
<1>1. /\ frame[h] # Idle /\ Goto(h, Idle)
      /\ orphaned' = (orphaned \/ At(h, "invalidate"))
      /\ UNCHANGED <<account, link, outbox, inbox, session, staff, notices, overlapped>>
  BY DEF Dies, Done, stored
<1>2. CASE At(h, "invalidate")
  <2>1. orphaned'
    BY <1>1, <1>2
  <2>2. TypeOK'
    <3>1. orphaned' \in BOOLEAN
      BY <1>1
    <3> QED BY <1>1, <3>1, IdleFrame DEF PortalInv, TypeOK, Goto
  <2>3. Grows
    BY <1>1, NothingGrows DEF PortalInv
  <2>4. AccountsOK' /\ LinksOK' /\ SessionsOK' /\ FramesOK'
    BY <1>1, <2>2, <2>3, IdleFrame, SessionsStand, FramesMove DEF PortalInv, AccountsOK, LinksOK
  <2>5. Alone'
    <3>1. ~overlapped => \A c \in Addresses : notices'[c] <= 1 /\ (notices'[c] > 0 => account'[c].locked)
      BY <1>1 DEF PortalInv, Alone
    <3> QED BY <1>1, <3>1, IdleFrame, AloneMoves
  <2> QED BY <2>1, <2>2, <2>4, <2>5 DEF PortalInv, KeysOK
<1>3. CASE ~At(h, "invalidate")
  <2>1. UNCHANGED orphaned
    BY <1>1, <1>3 DEF PortalInv, TypeOK
  <2> QED BY <1>1, <1>3, <2>1, IdleFrame, OnlyMoves DEF stored, history
<1> QED BY <1>2, <1>3
-----------------------------------------------------------------------------
LEMMA StutterOK == ASSUME PortalInv, UNCHANGED vars PROVE PortalInv'
<1>1. UNCHANGED <<account, link, outbox, inbox, session, frame, staff, notices, overlapped, orphaned>>
  BY DEF vars, stored, history
<1>2. TypeOK'
  BY <1>1 DEF PortalInv, TypeOK
<1>3. AccountsOK' /\ LinksOK' /\ SessionsOK' /\ FramesOK'
  BY <1>1 DEF PortalInv, AccountsOK, LinksOK, SessionsOK, FramesOK
<1>4. KeysOK' /\ Alone'
  BY <1>1, KeysStand, AloneStands
<1> QED BY <1>2, <1>3, <1>4 DEF PortalInv

LEMMA NextOK == PortalInv /\ [Next]_vars => PortalInv'
<1> SUFFICES ASSUME PortalInv, [Next]_vars PROVE PortalInv'
  OBVIOUS
<1>1. CASE UNCHANGED vars
  BY <1>1, StutterOK
<1>2. ASSUME NEW h \in Handlers, Arrives(h) \/ Handle(h) \/ Dies(h) PROVE PortalInv'
  BY <1>2, ArrivesOK, HandleOK, DiesOK
<1>3. ASSUME NEW l \in outbox, SendLink(l) PROVE PortalInv'
  BY <1>3, SendLinkOK
<1>4. ASSUME NEW b \in Browsers, SignOut(b) PROVE PortalInv'
  BY <1>4, SignOutOK
<1>5. ASSUME NEW l \in Links, LinkLapses(l) PROVE PortalInv'
  BY <1>5, LinkLapsesOK
<1>6. ASSUME NEW a \in Addresses, LockLapses(a) \/ CustomerDeactivated(a) PROVE PortalInv'
  BY <1>6, LockLapsesOK, CustomerDeactivatedOK
<1> QED BY <1>1, <1>2, <1>3, <1>4, <1>5, <1>6 DEF Next

LEMMA PortalInvariant == Spec => []PortalInv
<1>1. Init => PortalInv
  BY InitOK
<1> QED BY <1>1, NextOK, PTL DEF Spec
-----------------------------------------------------------------------------
(* The theorems.                                                           *)

\* Accounts, links, sessions and requests keep their types, for any number of each: in
\* particular no counting of failures goes past the threshold (record_failed_sign_in).
THEOREM TypeCorrect == Spec => []TypeOK
<1>1. PortalInv => TypeOK
  BY DEF PortalInv
<1> QED BY <1>1, PortalInvariant, PTL

\* FR-012, for any number of requests at once and wherever each of them dies: whoever is
\* served has proved themselves to the password of now (customer_from_session).
THEOREM ServedAreProved == Spec => []ServedByCurrentProof
<1>1. PortalInv => ServedByCurrentProof
  BY DEF PortalInv, SessionsOK, ServedByCurrentProof, Served
<1> QED BY <1>1, PortalInvariant, PTL

\* For any number of links: a reset link that works is of the password of now, once nothing
\* is under way and no reset has died (complete_reset, invalidate_all).
THEOREM ThereIsNoSecondKey == Spec => []NoSecondKey
<1>1. PortalInv => NoSecondKey
  <2>1. Quiet => \A h \in Handlers : ~At(h, "invalidate")
    BY IdleFrame DEF Quiet, At
  <2> QED BY <2>1 DEF PortalInv, KeysOK, NoSecondKey
<1> QED BY <1>1, PortalInvariant, PTL

\* For any threshold, a lock is announced once if requests do not overlap
\* (record_failed_sign_in).
THEOREM LocksAreAnnouncedOnce == Spec => []OneNoticePerLock
<1>1. PortalInv => OneNoticePerLock
  BY DEF PortalInv, Alone, OneNoticePerLock
<1> QED BY <1>1, PortalInvariant, PTL

\* For any number of links, none lets anybody in twice if requests do not overlap
\* (tokens.consume, complete_reset).
THEOREM LinksWorkOnce == Spec => LinkWorksOnce
<1>1. ASSUME PortalInv, NEW h \in Handlers, At(h, "spend") \/ At(h, "use"), ~overlapped
      PROVE  link[frame[h].link].state = "live"
  BY <1>1 DEF PortalInv, Alone, AloneOK, At
<1>2. PortalInv /\ [Next]_vars =>
        [\A h \in Handlers :
           (At(h, "spend") \/ At(h, "use")) /\ frame'[h].pc \notin {frame[h].pc, "idle"} =>
             overlapped \/ link[frame[h].link].state = "live"]_vars
  BY <1>1
<1> QED BY <1>2, PortalInvariant, PTL DEF Spec, LinkWorksOnce

\* For any threshold, a reset ends with the account unlocked if requests do not overlap
\* (complete_reset, clear_failed_sign_ins).
THEOREM ResetsUnlock == Spec => ResetUnlocks
<1>1. ASSUME PortalInv, NEW h \in Handlers, frame[h].task = "reset", At(h, "stamp"), ~overlapped
      PROVE  account[frame[h].address].failed = 0 /\ ~account[frame[h].address].locked
  <2>1. account[frame[h].address].failed = 0 /\ frame[h].address \in Addresses
    BY <1>1 DEF PortalInv, Alone, AloneOK, At, FramesOK, FrameOK
  <2> QED BY <1>1, <2>1 DEF PortalInv, AccountsOK
<1>2. PortalInv /\ [Next]_vars =>
        [\A h \in Handlers :
           frame[h].task = "reset" /\ At(h, "stamp") =>
             \/ overlapped \/ frame'[h] = frame[h]
             \/ account[frame[h].address].failed = 0 /\ ~account[frame[h].address].locked]_vars
  BY <1>1
<1> QED BY <1>2, PortalInvariant, PTL DEF Spec, ResetUnlocks

\* Which steps write an account.
LEMMA AccountWriters ==
  ASSUME Next
  PROVE  \/ UNCHANGED account
         \/ \E h \in Handlers : \/ CreateAccount(h) \/ RecordFailedSignIn(h)
                                \/ ClearFailedSignIns(h) \/ ConfirmAddress(h) \/ SavePassword(h)
         \/ \E a \in Addresses : LockLapses(a) \/ CustomerDeactivated(a)
<1>1. ASSUME NEW h \in Handlers, Arrives(h) PROVE UNCHANGED account
  BY <1>1 DEF Arrives, BeginRegister, BeginResend, BeginForgot, BeginSignIn, BeginConfirm,
              BeginReset, BeginOnLink, Begin, stored
<1>2. ASSUME NEW h \in Handlers,
             \/ AskForStaff(h) \/ IssueLink(h) \/ ConsumeConfirmation(h)
             \/ SpendResetLink(h) \/ InvalidateAll(h) \/ SignInCustomer(h) \/ Dies(h)
      PROVE  UNCHANGED account
  BY <1>2 DEF AskForStaff, IssueLink, ConsumeConfirmation, SpendResetLink, InvalidateAll,
              SignInCustomer, Dies, stored
<1>3. ASSUME \/ \E l \in outbox : SendLink(l)
             \/ \E b \in Browsers : SignOut(b)
             \/ \E l \in Links : LinkLapses(l)
      PROVE  UNCHANGED account
  BY <1>3 DEF SendLink, SignOut, LinkLapses
<1> QED BY <1>1, <1>2, <1>3 DEF Next, Handle

\* A password that is there changes only at a handler of that account's reset link, for any
\* number of links and requests (complete_reset).
THEOREM ResetsTakeAResetLink == Spec => ResetByResetLinkOnly
<1>1. ASSUME PortalInv, [Next]_vars, NEW a \in Addresses,
             account[a].there, account'[a].password # account[a].password
      PROVE  \E l \in Links : /\ link[l].purpose = "RESET" /\ link[l].address = a
                              /\ l \in inbox /\ link[l].state = "dead"
  <2> DEFINE goal == \E l \in Links : /\ link[l].purpose = "RESET" /\ link[l].address = a
                                      /\ l \in inbox /\ link[l].state = "dead"
  <2>1. account \in [Addresses -> Account]
    BY <1>1 DEF PortalInv, TypeOK
  <2>2. Next /\ ~(UNCHANGED account)
    BY <1>1 DEF vars, stored
  <2>3. ASSUME NEW h \in Handlers, CreateAccount(h) PROVE FALSE
    <3>1. ~account[frame[h].address].there /\ frame[h].address # a
      BY <1>1, <2>2, <2>3 DEF CreateAccount
    <3> QED BY <1>1, <2>1, <2>2, <2>3, <3>1 DEF CreateAccount
  <2>4. ASSUME NEW h \in Handlers,
               RecordFailedSignIn(h) \/ ClearFailedSignIns(h) \/ ConfirmAddress(h)
        PROVE  FALSE
    BY <1>1, <2>1, <2>4 DEF RecordFailedSignIn, ClearFailedSignIns, ConfirmAddress, Account
  <2>5. ASSUME NEW c \in Addresses, LockLapses(c) \/ CustomerDeactivated(c) PROVE FALSE
    BY <1>1, <2>1, <2>5 DEF LockLapses, CustomerDeactivated, Account
  <2>6. ASSUME NEW h \in Handlers, SavePassword(h) PROVE goal
    <3>1. frame[h].address = a
      BY <1>1, <2>1, <2>6 DEF SavePassword
    <3>2. At(h, "save") /\ FrameOK(frame[h], account, link, inbox)
      BY <1>1, <2>6, FrameHere DEF SavePassword
    <3> QED BY <3>1, <3>2 DEF At, FrameOK
  <2> QED BY <2>2, <2>3, <2>4, <2>5, <2>6, AccountWriters
<1>2. PortalInv /\ [Next]_vars =>
        [\A a \in Addresses :
           account[a].there /\ account'[a].password # account[a].password =>
             \E l \in Links : /\ link[l].purpose = "RESET" /\ link[l].address = a
                              /\ l \in inbox /\ link[l].state = "dead"]_vars
  BY <1>1
<1> QED BY <1>2, PortalInvariant, PTL DEF Spec, ResetByResetLinkOnly

\* FR-011, for any threshold: a lock ends with its time or with a reset, if requests do not
\* overlap (authenticate_customer).
THEOREM LocksHold == Spec => LockHolds
<1>1. ASSUME PortalInv, [Next]_vars, NEW a \in Addresses,
             account[a].locked, ~account'[a].locked, ~overlapped, ~Quiet
      PROVE  \E h \in Handlers : frame[h].task = "reset" /\ At(h, "clear")
  <2> DEFINE goal == \E h \in Handlers : frame[h].task = "reset" /\ At(h, "clear")
  <2>1. account \in [Addresses -> Account]
    BY <1>1 DEF PortalInv, TypeOK
  <2>2. Next /\ ~(UNCHANGED account)
    BY <1>1 DEF vars, stored
  <2>3. ASSUME NEW h \in Handlers, CreateAccount(h) PROVE FALSE
    <3>1. ~account[frame[h].address].there
      BY <2>2, <2>3 DEF CreateAccount
    <3>2. account[a].there
      BY <1>1 DEF PortalInv, AccountsOK, NoAccount
    <3> QED BY <1>1, <2>1, <2>2, <2>3, <3>1, <3>2 DEF CreateAccount
  <2>4. ASSUME NEW h \in Handlers, RecordFailedSignIn(h) PROVE FALSE
    <3>1. ~account[frame[h].address].locked
      BY <1>1, <2>4 DEF PortalInv, Alone, AloneOK, RecordFailedSignIn, At
    <3> QED BY <1>1, <2>1, <2>4, <3>1 DEF RecordFailedSignIn, Account
  <2>5. ASSUME NEW h \in Handlers, ClearFailedSignIns(h) PROVE goal
    <3>1. frame[h].address = a
      BY <1>1, <2>1, <2>5 DEF ClearFailedSignIns, Account
    <3>2. At(h, "clear") /\ FrameOK(frame[h], account, link, inbox)
      BY <1>1, <2>5, FrameHere DEF ClearFailedSignIns
    <3>3. frame[h].task # "sign_in"
      BY <1>1, <3>1, <3>2 DEF PortalInv, Alone, AloneOK, At
    <3> QED BY <3>2, <3>3 DEF FrameOK, Placed, At
  <2>6. ASSUME NEW h \in Handlers, ConfirmAddress(h) \/ SavePassword(h) PROVE FALSE
    BY <1>1, <2>1, <2>6 DEF ConfirmAddress, SavePassword, Account
  <2>7. ASSUME NEW c \in Addresses, LockLapses(c) \/ CustomerDeactivated(c) PROVE FALSE
    BY <1>1, <2>1, <2>7 DEF LockLapses, CustomerDeactivated, Account
  <2> QED BY <2>2, <2>3, <2>4, <2>5, <2>6, <2>7, AccountWriters
<1>2. PortalInv /\ [Next]_vars =>
        [\A a \in Addresses :
           account[a].locked /\ ~account'[a].locked =>
             \/ overlapped \/ Quiet
             \/ \E h \in Handlers : frame[h].task = "reset" /\ At(h, "clear")]_vars
  BY <1>1
<1> QED BY <1>2, PortalInvariant, PTL DEF Spec, LockHolds
-----------------------------------------------------------------------------
(* PortalAccount implements PortalSessions.                                *)

\* What the refinement shows of a state: who is served, and the keys.
ServedAs == [b \in Browsers |-> IF Served(b) THEN session[b].address ELSE Nobody]
KeyOf == [a \in Addresses |-> IF account[a].there THEN account[a].password ELSE Nobody]
Without(a) == [b \in Browsers |-> IF ServedAs[b] = a THEN Nobody ELSE ServedAs[b]]

LEMMA AbstractLeave ==
  ASSUME NEW b \in Browsers, UNCHANGED KeyOf, ServedAs' = [ServedAs EXCEPT ![b] = Nobody]
  PROVE  Sessions!Next
<1>1. Sessions!Leave(b)
  BY DEF Sessions!Leave, KeyOf, ServedAs
<1> QED BY <1>1 DEF Sessions!Next

LEMMA AbstractSignIn ==
  ASSUME NEW b \in Browsers, NEW a \in Addresses, KeyOf[a] # Nobody, UNCHANGED KeyOf,
         ServedAs' = [ServedAs EXCEPT ![b] = a]
  PROVE  Sessions!Next
<1>1. Sessions!SignIn(b, a)
  BY DEF Sessions!SignIn, KeyOf, ServedAs
<1> QED BY <1>1 DEF Sessions!Next

LEMMA AbstractTakeKey ==
  ASSUME NEW a \in Addresses, NEW k \in Passwords \ {0}, KeyOf[a] # k,
         KeyOf' = [KeyOf EXCEPT ![a] = k], ServedAs' = Without(a)
  PROVE  Sessions!Next
<1>1. Sessions!TakeKey(a, k)
  BY DEF Sessions!TakeKey, Sessions!Dropping, KeyOf, ServedAs, Without
<1> QED BY <1>1 DEF Sessions!Next

LEMMA AbstractDeactivate ==
  ASSUME NEW a \in Addresses, UNCHANGED KeyOf, ServedAs' = Without(a)
  PROVE  Sessions!Next
<1>1. Sessions!Deactivate(a)
  BY DEF Sessions!Deactivate, Sessions!Dropping, KeyOf, ServedAs, Without
<1> QED BY <1>1 DEF Sessions!Next

LEMMA AbstractStutter == ASSUME UNCHANGED <<ServedAs, KeyOf>> PROVE UNCHANGED Sessions!vars
BY DEF Sessions!vars, ServedAs, KeyOf

LEMMA ServedAsIsAFunction ==
  /\ ServedAs = [b \in Browsers |-> ServedAs[b]]
  /\ ServedAs' = [b \in Browsers |-> ServedAs'[b]]
BY DEF ServedAs

\* Who is served is decided by the session and four columns of the account.
LEMMA SameServed ==
  ASSUME UNCHANGED session,
         \A b \in Browsers : session[b].address # Nobody =>
           LET a == session[b].address IN
           /\ account'[a].there = account[a].there
           /\ account'[a].active = account[a].active
           /\ account'[a].confirmed = account[a].confirmed
           /\ account'[a].password = account[a].password
  PROVE  UNCHANGED ServedAs
BY DEF ServedAs, Served, MayUseThePortal

\* Of one account, nobody is served any more; of the others as before.
LEMMA DroppedServed ==
  ASSUME NEW a \in Addresses, UNCHANGED session, PortalInv,
         \A c \in Addresses : c # a => account'[c] = account[c],
         \A b \in Browsers : session[b].address = a => ~Served(b)'
  PROVE  ServedAs' = Without(a)
<1> SUFFICES ASSUME NEW b \in Browsers PROVE ServedAs'[b] = Without(a)[b]
  BY DEF ServedAs, Without
<1>1. session[b].address \in Addresses \cup {Nobody} /\ Nobody \notin Addresses
  BY PortalAssumption DEF PortalInv, TypeOK, Session
<1>2. CASE session[b].address = a
  BY <1>1, <1>2 DEF ServedAs, Without
<1>3. CASE session[b].address = Nobody
  BY <1>1, <1>3 DEF ServedAs, Without, Served
<1>4. CASE session[b].address \in Addresses \ {a}
  <2>1. Served(b)' = Served(b)
    BY <1>4 DEF Served, MayUseThePortal
  <2> QED BY <1>1, <1>4, <2>1 DEF ServedAs, Without
<1> QED BY <1>1, <1>2, <1>3, <1>4

LEMMA CreateAccountImplements ==
  ASSUME PortalInv, NEW h \in Handlers, CreateAccount(h)
  PROVE  [Sessions!Next]_Sessions!vars
<1> DEFINE a == frame[h].address
           k == Chosen + 1
           acc == [NoAccount EXCEPT !.there = TRUE, !.password = k]
<1>1. a \in Addresses /\ UNCHANGED session
  BY FrameHere DEF CreateAccount, At, FrameOK
<1>2. CASE account[a].there
  <2>1. UNCHANGED <<account, session>>
    BY <1>2 DEF CreateAccount
  <2>2. UNCHANGED <<ServedAs, KeyOf>>
    BY <2>1 DEF ServedAs, KeyOf, Served, MayUseThePortal
  <2> QED BY <2>2, AbstractStutter
<1>3. CASE ~account[a].there
  <2>1. account \in [Addresses -> Account] /\ account' = [account EXCEPT ![a] = acc]
        /\ Chosen < MaxPassword
    BY <1>3 DEF CreateAccount, PortalInv, TypeOK
  <2>2. k \in Passwords \ {0} /\ k \in Nat
    BY <2>1, ChosenIsNewest, PortalAssumption DEF PortalInv, Passwords
  <2> HIDE DEF k
  <2>3. acc.there /\ acc.password = k /\ ~acc.confirmed
    BY DEF NoAccount
  <2> HIDE DEF acc
  <2>4. account'[a] = acc /\ \A c \in Addresses : c # a => account'[c] = account[c]
    BY <1>1, <2>1
  <2>5. KeyOf[a] # k
    BY <1>1, <1>3, <2>2, PortalAssumption DEF KeyOf
  <2>6. KeyOf' = [KeyOf EXCEPT ![a] = k]
    BY <1>1, <2>3, <2>4 DEF KeyOf
  <2>7. \A b \in Browsers : session[b].address = a => ~Served(b)'
    BY <1>1, <2>3, <2>4 DEF Served, MayUseThePortal
  <2>8. ServedAs' = Without(a)
    <3> HIDE DEF a
    <3> QED BY <1>1, <2>4, <2>7, DroppedServed
  <2> HIDE DEF a
  <2> QED BY <1>1, <2>2, <2>5, <2>6, <2>8, AbstractTakeKey
<1> QED BY <1>2, <1>3

LEMMA SavePasswordImplements ==
  ASSUME PortalInv, NEW h \in Handlers, SavePassword(h)
  PROVE  Sessions!Next
<1> DEFINE a == frame[h].address
           k == Chosen + 1
<1>1. a \in Addresses /\ UNCHANGED session /\ account[a].there
  BY FrameHere DEF SavePassword, At, FrameOK
<1>2. account \in [Addresses -> Account] /\ account' = [account EXCEPT ![a].password = k]
      /\ Chosen < MaxPassword
  BY DEF SavePassword, PortalInv, TypeOK
<1>3. /\ k \in Passwords \ {0} /\ k \in Nat
      /\ account[a].password \in Nat /\ account[a].password < k
  BY <1>1, <1>2, ChosenIsNewest, PortalAssumption DEF PortalInv, Passwords, Account
<1> HIDE DEF k, a
<1>4. /\ \A c \in Addresses : c # a => account'[c] = account[c]
      /\ account'[a].password = k /\ account'[a].there
  BY <1>1, <1>2 DEF Account
<1>5. KeyOf[a] # k
  BY <1>1, <1>3 DEF KeyOf
<1>6. KeyOf' = [KeyOf EXCEPT ![a] = k]
  BY <1>1, <1>4 DEF KeyOf
<1>7. ASSUME NEW b \in Browsers, session[b].address = a PROVE ~Served(b)'
  <2>1. session[b].stamp <= account[a].password /\ session[b].stamp \in Nat
    BY <1>1, <1>7, PortalAssumption DEF PortalInv, SessionsOK, TypeOK, Session, Passwords
  <2> QED BY <1>1, <1>3, <1>4, <1>7, <2>1 DEF Served
<1>8. ServedAs' = Without(a)
  BY <1>1, <1>4, <1>7, DroppedServed
<1> QED BY <1>1, <1>3, <1>5, <1>6, <1>8, AbstractTakeKey

LEMMA DeactivationImplements ==
  ASSUME PortalInv, NEW a \in Addresses, CustomerDeactivated(a)
  PROVE  Sessions!Next
<1>1. /\ account \in [Addresses -> Account] /\ account' = [account EXCEPT ![a].active = FALSE]
      /\ UNCHANGED session
  BY DEF CustomerDeactivated, PortalInv, TypeOK
<1>2. /\ \A c \in Addresses : c # a => account'[c] = account[c]
      /\ account'[a].password = account[a].password /\ account'[a].there = account[a].there
      /\ ~account'[a].active
  BY <1>1 DEF Account
<1>3. UNCHANGED KeyOf
  BY <1>2 DEF KeyOf
<1>4. \A b \in Browsers : session[b].address = a => ~Served(b)'
  BY <1>1, <1>2 DEF Served, MayUseThePortal
<1> QED BY <1>1, <1>2, <1>3, <1>4, DroppedServed, AbstractDeactivate

\* The other columns of an account decide nothing; a confirmation does, but no session is
\* of an account that is not confirmed.
LEMMA OtherWritersImplement ==
  ASSUME PortalInv,
         \/ \E h \in Handlers : \/ RecordFailedSignIn(h) \/ ClearFailedSignIns(h)
                                \/ ConfirmAddress(h)
         \/ \E a \in Addresses : LockLapses(a)
  PROVE  UNCHANGED Sessions!vars
<1>1. account \in [Addresses -> Account]
  BY DEF PortalInv, TypeOK
<1>2. /\ UNCHANGED session
      /\ \A c \in Addresses :
           /\ account'[c].there = account[c].there
           /\ account'[c].active = account[c].active
           /\ account'[c].password = account[c].password
           /\ account[c].confirmed => account'[c].confirmed = account[c].confirmed
  <2>1. CASE \E h \in Handlers : RecordFailedSignIn(h)
    <3>1. PICK h \in Handlers : RecordFailedSignIn(h)
      BY <2>1
    <3> DEFINE a == frame[h].address
    <3>2. a \in Addresses /\ UNCHANGED session
      BY <3>1, FrameHere DEF RecordFailedSignIn, At, FrameOK
    <3>3. \E n, m : account' = [account EXCEPT ![a].failed = n, ![a].locked = m]
      BY <3>1 DEF RecordFailedSignIn
    <3>4. PICK n, m : account' = [account EXCEPT ![a].failed = n, ![a].locked = m]
      BY <3>3
    <3> HIDE DEF a
    <3>5. \A c \in Addresses : c # a => account'[c] = account[c]
      BY <1>1, <3>4
    <3>6. account'[a] = [account[a] EXCEPT !.failed = n, !.locked = m]
      BY <1>1, <3>2, <3>4
    <3>7. /\ account'[a].there = account[a].there /\ account'[a].active = account[a].active
          /\ account'[a].password = account[a].password
          /\ account'[a].confirmed = account[a].confirmed
      BY <1>1, <3>2, <3>6 DEF Account
    <3> QED BY <3>2, <3>5, <3>7
  <2>2. CASE \E h \in Handlers : ClearFailedSignIns(h)
    BY <1>1, <2>2 DEF ClearFailedSignIns, Account
  <2>3. CASE \E h \in Handlers : ConfirmAddress(h)
    <3>1. PICK h \in Handlers : ConfirmAddress(h)
      BY <2>3
    <3> DEFINE a == frame[h].address
    <3>2. a \in Addresses /\ UNCHANGED session
      BY <3>1, FrameHere DEF ConfirmAddress, At, FrameOK
    <3>3. account' = [account EXCEPT ![a].confirmed = TRUE]
      BY <3>1 DEF ConfirmAddress
    <3> HIDE DEF a
    <3>4. \A c \in Addresses : c # a => account'[c] = account[c]
      BY <1>1, <3>3
    <3>5. account'[a] = [account[a] EXCEPT !.confirmed = TRUE]
      BY <1>1, <3>2, <3>3
    <3>6. /\ account'[a].there = account[a].there /\ account'[a].active = account[a].active
          /\ account'[a].password = account[a].password /\ account'[a].confirmed = TRUE
          /\ account[a].confirmed \in BOOLEAN
      BY <1>1, <3>2, <3>5 DEF Account
    <3>7. account[a].confirmed => account'[a].confirmed = account[a].confirmed
      BY <3>6
    <3> QED BY <3>2, <3>4, <3>6, <3>7
  <2>4. CASE \E a \in Addresses : LockLapses(a)
    BY <1>1, <2>4 DEF LockLapses, Account
  <2> QED BY <2>1, <2>2, <2>3, <2>4
<1>3. UNCHANGED KeyOf
  BY <1>2 DEF KeyOf
<1>4. UNCHANGED ServedAs
  <2>1. ASSUME NEW b \in Browsers, session[b].address # Nobody
        PROVE  session[b].address \in Addresses /\ account[session[b].address].confirmed
    BY <2>1 DEF PortalInv, TypeOK, Session, SessionsOK
  <2> QED BY <1>2, <2>1, SameServed
<1> QED BY <1>3, <1>4, AbstractStutter

LEMMA SessionWritersImplement ==
  ASSUME PortalInv, UNCHANGED account, NEW b \in Browsers, NEW s \in Session,
         session' = [session EXCEPT ![b] = s]
  PROVE  [Sessions!Next]_Sessions!vars
<1>1. session \in [Browsers -> Session] /\ account \in [Addresses -> Account]
  BY DEF PortalInv, TypeOK
<1>2. UNCHANGED KeyOf
  BY DEF KeyOf
<1>3. session'[b] = s /\ \A d \in Browsers : d # b => session'[d] = session[d]
  BY <1>1
<1>4. \A d \in Browsers : d # b => Served(d)' = Served(d)
  BY <1>3 DEF Served, MayUseThePortal
<1>5. CASE Served(b)'
  <2>1. ServedAs' = [ServedAs EXCEPT ![b] = s.address]
    <3>1. ASSUME NEW d \in Browsers
          PROVE  ServedAs'[d] = IF d = b THEN s.address ELSE ServedAs[d]
      BY <1>3, <1>4, <1>5 DEF ServedAs
    <3> QED BY <3>1, ServedAsIsAFunction
  <2>2. s.address \in Addresses /\ account[s.address].there
    BY <1>3, <1>5 DEF Served, MayUseThePortal, Session
  <2>3. KeyOf[s.address] # Nobody
    BY <1>1, <2>2, PortalAssumption DEF KeyOf, Account, Passwords
  <2> QED BY <1>2, <2>1, <2>2, <2>3, AbstractSignIn
<1>6. CASE ~Served(b)'
  <2>1. ServedAs' = [ServedAs EXCEPT ![b] = Nobody]
    <3>1. ASSUME NEW d \in Browsers
          PROVE  ServedAs'[d] = IF d = b THEN Nobody ELSE ServedAs[d]
      BY <1>3, <1>4, <1>6 DEF ServedAs
    <3> QED BY <3>1, ServedAsIsAFunction
  <2> QED BY <1>2, <2>1, AbstractLeave
<1> QED BY <1>5, <1>6

LEMMA SignInImplements ==
  ASSUME PortalInv, NEW h \in Handlers, SignInCustomer(h)
  PROVE  [Sessions!Next]_Sessions!vars
<1> DEFINE f == frame[h]
           s == [address |-> f.address, stamp |-> f.copy.password, proof |-> f.copy.password]
<1>1. f \in Frame /\ f.browser \in Browsers
  BY FrameHere DEF SignInCustomer, At, FrameOK
<1>2. s \in Session
  BY <1>1 DEF Frame, Account, Session
<1>3. session' = [session EXCEPT ![f.browser] = s] /\ UNCHANGED account
  BY DEF SignInCustomer
<1> QED
  <2> HIDE DEF s, f
  <2> QED BY <1>1, <1>2, <1>3, SessionWritersImplement

LEMMA SignOutImplements ==
  ASSUME PortalInv, NEW b \in Browsers, SignOut(b)
  PROVE  [Sessions!Next]_Sessions!vars
<1>1. NoSession \in Session
  BY PortalAssumption DEF NoSession, Session, Passwords
<1> QED BY <1>1, SessionWritersImplement DEF SignOut

\* Which steps write a session.
LEMMA SessionWriters ==
  ASSUME Next
  PROVE  \/ UNCHANGED session
         \/ \E h \in Handlers : SignInCustomer(h)
         \/ \E b \in Browsers : SignOut(b)
<1>1. ASSUME NEW h \in Handlers, Arrives(h) PROVE UNCHANGED session
  BY <1>1 DEF Arrives, BeginRegister, BeginResend, BeginForgot, BeginSignIn, BeginConfirm,
              BeginReset, BeginOnLink, Begin, stored
<1>2. ASSUME NEW h \in Handlers,
             \/ AskForStaff(h) \/ CreateAccount(h) \/ IssueLink(h) \/ RecordFailedSignIn(h)
             \/ ClearFailedSignIns(h) \/ ConsumeConfirmation(h) \/ ConfirmAddress(h)
             \/ SpendResetLink(h) \/ SavePassword(h) \/ InvalidateAll(h) \/ Dies(h)
      PROVE  UNCHANGED session
  BY <1>2 DEF AskForStaff, CreateAccount, IssueLink, RecordFailedSignIn, ClearFailedSignIns,
              ConsumeConfirmation, ConfirmAddress, SpendResetLink, SavePassword, InvalidateAll,
              Dies, stored
<1>3. ASSUME \/ \E l \in outbox : SendLink(l)
             \/ \E l \in Links : LinkLapses(l)
             \/ \E a \in Addresses : LockLapses(a) \/ CustomerDeactivated(a)
      PROVE  UNCHANGED session
  BY <1>3 DEF SendLink, LinkLapses, LockLapses, CustomerDeactivated
<1> QED BY <1>1, <1>2, <1>3 DEF Next, Handle

LEMMA StepsImplement == PortalInv /\ [Next]_vars => [Sessions!Next]_Sessions!vars
<1> SUFFICES ASSUME PortalInv, [Next]_vars PROVE [Sessions!Next]_Sessions!vars
  OBVIOUS
<1>1. CASE UNCHANGED <<account, session>>
  <2>1. UNCHANGED <<ServedAs, KeyOf>>
    BY <1>1 DEF ServedAs, KeyOf, Served, MayUseThePortal
  <2> QED BY <2>1, AbstractStutter
<1>2. CASE Next /\ ~(UNCHANGED session)
  BY <1>2, SessionWriters, SignInImplements, SignOutImplements
<1>3. CASE Next /\ ~(UNCHANGED account)
  BY <1>3, AccountWriters, CreateAccountImplements, SavePasswordImplements,
     DeactivationImplements, OtherWritersImplement
<1> QED BY <1>1, <1>2, <1>3 DEF vars, stored

\* The portal serves as PortalSessions promises, for any number of customers, browsers and
\* requests, with every interleaving and every death (customer_from_session).
THEOREM AccountsImplementSessions == Spec => ImplementsSessions
<1>1. Init => Sessions!Init
  BY DEF Init, Sessions!Init, Served, NoSession, NoAccount
<1> QED BY <1>1, StepsImplement, PortalInvariant, PTL DEF Spec, ImplementsSessions, Sessions!Spec
=============================================================================
