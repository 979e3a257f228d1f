----------------------------- MODULE AccountsProofs -----------------------------
(***************************************************************************)
(* Staff accounts for any number of people, scopes, browsers and requests: *)
(* no session outlives its account, however requests overlap or die, but   *)
(* in two named cases; and an administrator remains, as long as requests   *)
(* do not overlap.  The behaviours are those of MCAccounts, which looks at *)
(* one desk at a time; each of them is a behaviour of both desks.          *)
(***************************************************************************)
EXTENDS MCAccounts, PortalAccountProofs, TLAPS

\* What a frame carries at each label.
StaffFrameOK(f) ==
  /\ f.pc \in {"deactivate", "save", "login"} => f.actor \in People
  /\ f.pc = "login" => f.browser \in Consoles
  /\ f.pc \in {"insert", "move", "deactivate", "save", "terminate", "delete"} => f.target \in People
  /\ f.pc \in {"deactivate", "save"} => f.target # f.actor
  /\ f.pc = "insert" => f.made.there /\ f.made.active

\* What a frame promises of the accounts us, whatever else is under way: those it acts for
\* or on are there, and an account that was not active when it asked is not active now.
FrameTold(f, us) ==
  /\ f.pc = "login" => us[f.actor].there
  /\ f.pc \in {"deactivate", "save"} => us[f.target].there
  /\ f.pc = "save" /\ ~f.was => ~us[f.target].active

\* Sessions are of accounts that are there, and so are accounts that were deactivated.
UsersOK ==
  /\ \A b \in Consoles : cookie[b] # Nobody => user[cookie[b]].there
  /\ \A p \in People : ~user[p].active => user[p].there

\* What a frame promises as long as it is the only one: whoever deactivates another is an
\* administrator.
LoneFrameOK(f, us) ==
  f.pc \in {"deactivate", "save"} =>
    us[f.actor].there /\ us[f.actor].active /\ us[f.actor].role = "ADMINISTRATOR"

Lone == \A h, g \in Handlers : h # g => request[h] = Staff!Idle \/ request[g] = Staff!Idle

\* The handler h is about to end the session of b: to list it, or, having done so, to delete it.
Ends(h, b) ==
  /\ request[h].target = cookie[b]
  /\ \/ Staff!At(h, "terminate")
     \/ Staff!At(h, "delete") /\ b \in request[h].open

\* A session of a deactivated account is about to be ended, or is one of the named exceptions.
SessionEnding(b) ==
  cookie[b] # Nobody /\ ~user[cookie[b]].active =>
    b \in late \/ cookie[b] \in interrupted \/ \E h \in Handlers : Ends(h, b)

StaffAlone == crossed \/ (Lone /\ \A h \in Handlers : LoneFrameOK(request[h], user))

StaffInv ==
  /\ Staff!TypeOK /\ UsersOK /\ StaffAlone
  /\ \A h \in Handlers : StaffFrameOK(request[h]) /\ FrameTold(request[h], user)
  /\ \A b \in Consoles : SessionEnding(b)
-----------------------------------------------------------------------------
(* Frames.                                                                 *)

LEMMA StaffIdleOK ==
  /\ Staff!Idle \in Staff!Frame /\ Staff!NoUser \in Staff!User
  /\ Staff!Idle.pc = "idle"
  /\ StaffFrameOK(Staff!Idle) /\ \A us : LoneFrameOK(Staff!Idle, us) /\ FrameTold(Staff!Idle, us)
BY DEF Staff!Idle, Staff!Frame, Staff!NoUser, Staff!User, Staff!Labels, Staff!Roles,
       StaffFrameOK, LoneFrameOK, FrameTold

\* A handler's step moves one frame.
LEMMA StaffGoto ==
  ASSUME Staff!TypeOK, NEW h \in Handlers, NEW f \in Staff!Frame, Staff!Goto(h, f)
  PROVE  /\ request' \in [Handlers -> Staff!Frame]
         /\ request'[h] = f /\ \A g \in Handlers \ {h} : request'[g] = request[g]
BY DEF Staff!TypeOK, Staff!Goto

\* What the accounts may do under a frame's feet: come into being, and stop being active.
AccountsGoOn ==
  \A q \in People : /\ user[q].there => user'[q].there
                    /\ ~user[q].active => ~user'[q].active
                    /\ ~user'[q].active => user'[q].there

LEMMA ToldGoesOn ==
  ASSUME AccountsGoOn, NEW f, StaffFrameOK(f), FrameTold(f, user)
  PROVE  FrameTold(f, user')
BY DEF AccountsGoOn, StaffFrameOK, FrameTold

\* A request begins.
LEMMA BeginKeepsStaff ==
  ASSUME StaffInv, NEW h \in Handlers, NEW f \in Staff!Frame, Staff!Begin(h, f),
         StaffFrameOK(f), FrameTold(f, user), LoneFrameOK(f, user)
  PROVE  StaffInv'
<1>1. /\ request' \in [Handlers -> Staff!Frame]
      /\ request'[h] = f /\ \A g \in Handlers \ {h} : request'[g] = request[g]
  BY StaffGoto DEF StaffInv, Staff!Begin
<1>2. /\ UNCHANGED <<user, cookie, late, interrupted>>
      /\ crossed' = (crossed \/ ~Staff!Quiet) /\ crossed' \in BOOLEAN
      /\ request[h] = Staff!Idle
  BY DEF Staff!Begin, StaffInv, Staff!TypeOK
<1>3. Staff!TypeOK'
  BY <1>1, <1>2 DEF StaffInv, Staff!TypeOK
<1>4. UsersOK' /\ \A g \in Handlers : StaffFrameOK(request'[g]) /\ FrameTold(request'[g], user')
  BY <1>1, <1>2 DEF StaffInv, UsersOK
<1>5. ASSUME ~crossed' PROVE StaffAlone'
  <2>0. Staff!Quiet
    BY <1>2, <1>5
  <2>1. \A g \in Handlers \ {h} : request'[g] = Staff!Idle
    BY <1>1, <2>0 DEF Staff!Quiet
  <2>2. Lone'
    BY <2>1 DEF Lone
  <2>3. \A g \in Handlers : LoneFrameOK(request'[g], user')
    BY <1>1, <1>2, <2>1, StaffIdleOK
  <2> QED BY <2>2, <2>3 DEF StaffAlone
<1>6. StaffAlone'
  BY <1>5 DEF StaffAlone
<1>7. ASSUME NEW b \in Consoles PROVE SessionEnding(b)'
  <2>1. \A g \in Handlers : Ends(g, b) => Ends(g, b)'
    BY <1>1, <1>2, StaffIdleOK DEF Ends, Staff!At
  <2> QED BY <1>2, <2>1 DEF StaffInv, SessionEnding
<1> QED BY <1>3, <1>4, <1>6, <1>7 DEF StaffInv

\* The command line: an account comes into being, or is given a password.
LEMMA CommandKeepsStaff ==
  ASSUME StaffInv, NEW p \in People, NEW u \in Staff!User, user' = [user EXCEPT ![p] = u],
         u.there, u.active = user[p].active,
         UNCHANGED <<cookie, request, late, interrupted>>, crossed' = (crossed \/ ~Staff!Quiet)
  PROVE  StaffInv'
<1>1. /\ user' \in [People -> Staff!User] /\ user'[p] = u
      /\ \A q \in People \ {p} : user'[q] = user[q]
  BY DEF StaffInv, Staff!TypeOK
<1>2. Staff!TypeOK'
  BY <1>1 DEF StaffInv, Staff!TypeOK
<1>3. AccountsGoOn /\ \A q \in People : user'[q].active = user[q].active
  BY <1>1 DEF AccountsGoOn, StaffInv, UsersOK
<1>4. /\ UsersOK'
      /\ \A g \in Handlers : StaffFrameOK(request'[g]) /\ FrameTold(request'[g], user')
  <2>1. \A b \in Consoles : cookie[b] \in People \cup {Nobody}
    BY DEF StaffInv, Staff!TypeOK
  <2> QED BY <1>3, <2>1, ToldGoesOn DEF StaffInv, UsersOK, AccountsGoOn
<1>5. ASSUME ~crossed' PROVE StaffAlone'
  <2>1. Staff!Quiet
    BY <1>5
  <2> QED BY <2>1, StaffIdleOK DEF Lone, Staff!Quiet, StaffAlone
<1>6. StaffAlone'
  BY <1>5 DEF StaffAlone
<1>7. ASSUME NEW b \in Consoles PROVE SessionEnding(b)'
  <2>1. cookie[b] # Nobody => cookie[b] \in People
    BY DEF StaffInv, Staff!TypeOK
  <2>2. \A g \in Handlers : Ends(g, b) => Ends(g, b)'
    BY DEF Ends, Staff!At
  <2> QED BY <1>3, <2>1, <2>2 DEF StaffInv, SessionEnding
<1> QED BY <1>2, <1>4, <1>6, <1>7 DEF StaffInv

\* A handler's later step.  What it owes: types, its own promises, and the sessions.
LEMMA HandlerKeepsStaff ==
  ASSUME StaffInv, NEW h \in Handlers, request[h] # Staff!Idle,
         NEW f \in Staff!Frame, Staff!Goto(h, f), UNCHANGED crossed, user' \in [People -> Staff!User],
         cookie' \in [Consoles -> People \cup {Nobody}],
         late' \subseteq Consoles, interrupted' \subseteq People,
         StaffFrameOK(f), FrameTold(f, user'), ~crossed => LoneFrameOK(f, user'), AccountsGoOn,
         \A b \in Consoles : cookie'[b] # Nobody => cookie'[b] = cookie[b],
         \A b \in Consoles : SessionEnding(b)'
  PROVE  StaffInv'
<1>1. /\ request' \in [Handlers -> Staff!Frame]
      /\ request'[h] = f /\ \A g \in Handlers \ {h} : request'[g] = request[g]
  BY StaffGoto DEF StaffInv
<1>2. Staff!TypeOK'
  BY <1>1 DEF StaffInv, Staff!TypeOK
<1>3. \A g \in Handlers : StaffFrameOK(request'[g]) /\ FrameTold(request'[g], user')
  BY <1>1, ToldGoesOn DEF StaffInv
<1>4. UsersOK'
  <2>1. \A b \in Consoles : cookie'[b] # Nobody => cookie[b] \in People /\ user[cookie[b]].there
    BY DEF StaffInv, Staff!TypeOK, UsersOK
  <2> QED BY <2>1 DEF UsersOK, AccountsGoOn
<1>5. ASSUME ~crossed PROVE StaffAlone'
  <2>1. \A g \in Handlers \ {h} : request'[g] = Staff!Idle
    BY <1>1, <1>5 DEF StaffInv, StaffAlone, Lone
  <2>2. Lone' /\ \A g \in Handlers : LoneFrameOK(request'[g], user')
    BY <1>1, <1>5, <2>1, StaffIdleOK DEF Lone
  <2> QED BY <1>5, <2>2 DEF StaffAlone
<1>6. StaffAlone'
  BY <1>5 DEF StaffAlone
<1> QED BY <1>2, <1>3, <1>4, <1>6 DEF StaffInv

\* What a step of h does not disturb: the sessions that other handlers are about to end.
LEMMA OthersEnd ==
  ASSUME StaffInv, NEW h \in Handlers, NEW f \in Staff!Frame, Staff!Goto(h, f),
         NEW b \in Consoles, cookie'[b] = cookie[b], NEW g \in Handlers, Ends(g, b), g # h
  PROVE  Ends(g, b)'
BY StaffGoto DEF StaffInv, Ends, Staff!At

\* A step of a handler that is not ending sessions, and leaves active who is.
LEMMA SessionsGoOn ==
  ASSUME StaffInv, NEW h \in Handlers, request[h].pc \notin {"terminate", "delete"},
         NEW f \in Staff!Frame, Staff!Goto(h, f), UNCHANGED <<cookie, late, interrupted>>,
         \A q \in People : user'[q].active = user[q].active
  PROVE  \A b \in Consoles : SessionEnding(b)'
<1> SUFFICES ASSUME NEW b \in Consoles PROVE SessionEnding(b)'
  OBVIOUS
<1>1. \A g \in Handlers : Ends(g, b) => Ends(g, b)'
  BY OthersEnd DEF Ends, Staff!At
<1>2. cookie[b] # Nobody => cookie[b] \in People
  BY DEF StaffInv, Staff!TypeOK
<1> QED BY <1>1, <1>2 DEF StaffInv, SessionEnding
-----------------------------------------------------------------------------
(* What arrives.                                                           *)

\* What is known of who is served.
LEMMA ServedHere ==
  ASSUME StaffInv, NEW b \in Consoles, Staff!Served(b) \in Staff!Administrators
  PROVE  LET a == Staff!Served(b) IN
         /\ a \in People /\ user[a].there /\ user[a].active
         /\ user[a].role = "ADMINISTRATOR"
BY DEF Staff!Administrators

\* An administrator's request begins.
LEMMA AdministerKeeps ==
  ASSUME StaffInv, NEW h \in Handlers, NEW b \in Consoles, NEW f \in Staff!Frame,
         Staff!Administer(h, b, f), f.pc \in {"insert", "move", "deactivate"},
         f.target \in People,
         f.pc = "deactivate" => f.target # Staff!Served(b) /\ user[f.target].there,
         f.pc = "insert" => f.made.there /\ f.made.active
  PROVE  StaffInv'
<1> DEFINE a == Staff!Served(b)
           e == [f EXCEPT !.actor = a]
<1>1. /\ a \in People /\ user[a].there /\ user[a].active
      /\ user[a].role = "ADMINISTRATOR" /\ Staff!Begin(h, e)
  BY ServedHere DEF Staff!Administer
<1>2. /\ e \in Staff!Frame /\ e.pc = f.pc /\ e.target = f.target /\ e.made = f.made
      /\ e.actor = a
  BY <1>1 DEF Staff!Frame
<1> HIDE DEF a, e
<1>3. StaffFrameOK(e) /\ LoneFrameOK(e, user) /\ FrameTold(e, user)
  BY <1>1, <1>2 DEF StaffFrameOK, LoneFrameOK, FrameTold, a
<1> QED BY <1>1, <1>2, <1>3, BeginKeepsStaff

LEMMA ArrivalsKeepStaff ==
  ASSUME StaffInv, NEW h \in Handlers, NEW b \in Consoles, Staff!Arrives(h, b)
  PROVE  StaffInv'
<1>1. ASSUME NEW p \in People, Staff!BeginSignIn(h, b, p) PROVE StaffInv'
  <2> DEFINE f == [Staff!Idle EXCEPT !.pc = "login", !.actor = p, !.browser = b]
  <2>1. f \in Staff!Frame /\ f.pc = "login" /\ f.actor = p /\ f.browser = b
    BY StaffIdleOK DEF Staff!Frame, Staff!Labels
  <2>2. Staff!Begin(h, f) /\ user[p].there /\ user[p].active
    BY <1>1 DEF Staff!BeginSignIn
  <2> HIDE DEF f
  <2>3. StaffFrameOK(f) /\ LoneFrameOK(f, user) /\ FrameTold(f, user)
    BY <2>1, <2>2 DEF StaffFrameOK, LoneFrameOK, FrameTold
  <2> QED BY <2>1, <2>2, <2>3, BeginKeepsStaff
<1>2. ASSUME NEW p \in People, Staff!BeginDeactivate(h, b, p) PROVE StaffInv'
  <2> DEFINE f == [Staff!Idle EXCEPT !.pc = "deactivate", !.target = p]
  <2>1. f \in Staff!Frame /\ f.pc = "deactivate" /\ f.target = p
    BY StaffIdleOK DEF Staff!Frame, Staff!Labels
  <2>2. Staff!Administer(h, b, f) /\ p # Staff!Served(b) /\ user[p].there
    BY <1>2 DEF Staff!BeginDeactivate, Staff!InScopeOf
  <2> HIDE DEF f
  <2> QED BY <2>1, <2>2, AdministerKeeps
<1>3. ASSUME NEW p \in People, NEW s \in Scopes, Staff!BeginUserScope(h, b, p, s)
      PROVE  StaffInv'
  <2> DEFINE f == [Staff!Idle EXCEPT !.pc = "move", !.target = p, !.made.scope = s]
  <2>1. f \in Staff!Frame /\ f.pc = "move" /\ f.target = p
    BY StaffIdleOK DEF Staff!Frame, Staff!Labels, Staff!User
  <2>2. Staff!Administer(h, b, f)
    BY <1>3 DEF Staff!BeginUserScope
  <2> HIDE DEF f
  <2> QED BY <2>1, <2>2, AdministerKeeps
<1>4. ASSUME NEW s \in Scopes, Staff!BeginOwnScope(h, b, s) PROVE StaffInv'
  <2> DEFINE p == Staff!Served(b)
             f == [Staff!Idle EXCEPT !.pc = "move", !.target = p, !.made.scope = s]
  <2>1. Staff!Administer(h, b, f)
    BY <1>4 DEF Staff!BeginOwnScope
  <2>2. p \in People
    BY <2>1, ServedHere DEF Staff!Administer
  <2> HIDE DEF p
  <2>3. f \in Staff!Frame /\ f.pc = "move" /\ f.target = p
    BY <2>2, StaffIdleOK DEF Staff!Frame, Staff!Labels, Staff!User
  <2> HIDE DEF f
  <2> QED BY <2>1, <2>2, <2>3, AdministerKeeps
<1>5. ASSUME NEW p \in People, NEW s \in Scopes, NEW role \in Staff!Roles,
             Staff!BeginUserNew(h, b, p, role, s)
      PROVE  StaffInv'
  <2> DEFINE u == [Staff!NoUser EXCEPT !.there = TRUE, !.role = role, !.scope = s]
             f == [Staff!Idle EXCEPT !.pc = "insert", !.target = p, !.made = u]
  <2>1. u \in Staff!User /\ u.there /\ u.active
    BY DEF Staff!NoUser, Staff!User, Staff!Roles
  <2>2. Staff!Administer(h, b, f)
    BY <1>5 DEF Staff!BeginUserNew
  <2> HIDE DEF u
  <2>3. f \in Staff!Frame /\ f.pc = "insert" /\ f.target = p /\ f.made = u
    BY <2>1, StaffIdleOK DEF Staff!Frame, Staff!Labels
  <2> HIDE DEF f
  <2> QED BY <2>1, <2>2, <2>3, AdministerKeeps
<1> QED BY <1>1, <1>2, <1>3, <1>4, <1>5 DEF Staff!Arrives

LEMMA CommandsKeepStaff ==
  ASSUME StaffInv, NEW p \in People,
         \/ Staff!CreateSuperuser(p) \/ Staff!ChangePassword(p)
         \/ \E s \in Scopes : Staff!BootstrapAdmin(p, s)
  PROVE  StaffInv'
<1>1. CASE Staff!CreateSuperuser(p)
  <2> DEFINE u == [Staff!NoUser EXCEPT !.there = TRUE, !.role = "ADMINISTRATOR", !.key = TRUE]
  <2>1. u \in Staff!User /\ u.there /\ u.active
    BY DEF Staff!NoUser, Staff!User, Staff!Roles
  <2>2. ~user[p].there /\ user' = [user EXCEPT ![p] = u]
        /\ UNCHANGED <<cookie, request, late, interrupted>>
        /\ crossed' = (crossed \/ ~Staff!Quiet)
    BY <1>1 DEF Staff!CreateSuperuser
  <2> HIDE DEF u
  <2>3. user[p].active
    BY <2>2 DEF StaffInv, UsersOK, Staff!TypeOK, Staff!User
  <2> QED BY <2>1, <2>2, <2>3, CommandKeepsStaff
<1>2. CASE Staff!ChangePassword(p)
  <2> DEFINE u == [user[p] EXCEPT !.key = TRUE]
  <2>1. user[p] \in Staff!User
    BY DEF StaffInv, Staff!TypeOK
  <2>2. user[p].there /\ user' = [user EXCEPT ![p] = u]
        /\ UNCHANGED <<cookie, request, late, interrupted>>
        /\ crossed' = (crossed \/ ~Staff!Quiet)
    BY <1>2 DEF Staff!ChangePassword
  <2>3. u \in Staff!User /\ u.there /\ u.active = user[p].active
    BY <2>1, <2>2 DEF Staff!User
  <2> HIDE DEF u
  <2> QED BY <2>2, <2>3, CommandKeepsStaff
<1>3. ASSUME NEW s \in Scopes, Staff!BootstrapAdmin(p, s) PROVE StaffInv'
  <2> DEFINE u == [Staff!NoUser EXCEPT !.there = TRUE, !.role = "ADMINISTRATOR", !.scope = s]
  <2>1. u \in Staff!User /\ u.there /\ u.active
    BY DEF Staff!NoUser, Staff!User, Staff!Roles
  <2>2. ~user[p].there /\ user' = [user EXCEPT ![p] = u]
        /\ UNCHANGED <<cookie, request, late, interrupted>>
        /\ crossed' = (crossed \/ ~Staff!Quiet)
    BY <1>3 DEF Staff!BootstrapAdmin
  <2> HIDE DEF u
  <2>3. user[p].active
    BY <2>2 DEF StaffInv, UsersOK, Staff!TypeOK, Staff!User
  <2> QED BY <2>1, <2>2, <2>3, CommandKeepsStaff
<1> QED BY <1>1, <1>2, <1>3
-----------------------------------------------------------------------------
(* What handlers do next.                                                  *)

\* What is known where a step starts.
LEMMA StaffHere ==
  ASSUME StaffInv, NEW h \in Handlers
  PROVE  /\ request[h] \in Staff!Frame /\ StaffFrameOK(request[h]) /\ FrameTold(request[h], user)
         /\ user \in [People -> Staff!User] /\ cookie \in [Consoles -> People \cup {Nobody}]
         /\ late \subseteq Consoles /\ interrupted \subseteq People
         /\ \A b \in Consoles : cookie[b] # Nobody => user[cookie[b]].there
         /\ \A p \in People : ~user[p].active => user[p].there
         /\ ~crossed => LoneFrameOK(request[h], user)
BY DEF StaffInv, Staff!TypeOK, UsersOK, StaffAlone

LEMMA LoginKeeps ==
  ASSUME StaffInv, NEW h \in Handlers, Staff!Login(h)
  PROVE  StaffInv'
<1> DEFINE b == request[h].browser
           p == request[h].actor
<1>1. request[h].pc = "login" /\ b \in Consoles /\ p \in People /\ user[p].there
  BY StaffHere DEF Staff!Login, Staff!At, StaffFrameOK, FrameTold
<1>2. /\ cookie' = [cookie EXCEPT ![b] = p]
      /\ request' = [g \in Handlers |->
                       IF g = h THEN Staff!Idle ELSE [request[g] EXCEPT !.open = @ \ {b}]]
      /\ late' = IF user[p].active THEN late \ {b} ELSE late \cup {b}
      /\ UNCHANGED <<user, crossed, interrupted>>
  BY DEF Staff!Login
<1> HIDE DEF b, p
<1>3. /\ cookie' \in [Consoles -> People \cup {Nobody}]
      /\ cookie'[b] = p /\ \A c \in Consoles \ {b} : cookie'[c] = cookie[c]
  BY <1>1, <1>2, StaffHere
<1>4. ASSUME NEW g \in Handlers, g # h
      PROVE  /\ request'[g] \in Staff!Frame
             /\ request'[g].open = request[g].open \ {b}
             /\ request'[g].pc = request[g].pc /\ request'[g].actor = request[g].actor
             /\ request'[g].browser = request[g].browser
             /\ request'[g].target = request[g].target
             /\ request'[g].made = request[g].made /\ request'[g].was = request[g].was
             /\ request[g] = Staff!Idle => request'[g] = Staff!Idle
  <2>1. request[g] \in Staff!Frame
    BY StaffHere
  <2>2. request'[g] = [request[g] EXCEPT !.open = @ \ {b}]
    BY <1>2, <1>4
  <2> QED BY <2>1, <2>2 DEF Staff!Frame, Staff!Idle
<1>5. request'[h] = Staff!Idle
  BY <1>2
<1>6. Staff!TypeOK'
  <2>1. request' \in [Handlers -> Staff!Frame]
    BY <1>2, <1>4, <1>5, StaffIdleOK
  <2>2. late' \subseteq Consoles
    BY <1>1, <1>2, StaffHere
  <2> QED BY <1>2, <1>3, <2>1, <2>2 DEF StaffInv, Staff!TypeOK
<1>7. UsersOK'
  BY <1>1, <1>2, <1>3, StaffHere DEF UsersOK
<1>8. ASSUME NEW g \in Handlers
      PROVE  /\ StaffFrameOK(request'[g]) /\ FrameTold(request'[g], user')
             /\ ~crossed => LoneFrameOK(request'[g], user')
  <2>1. CASE g = h
    BY <1>5, <2>1, StaffIdleOK
  <2>2. CASE g # h
    <3>1. /\ StaffFrameOK(request[g]) /\ FrameTold(request[g], user)
          /\ ~crossed => LoneFrameOK(request[g], user)
      BY StaffHere
    <3>2. StaffFrameOK(request'[g])
      BY <1>4, <2>2, <3>1 DEF StaffFrameOK
    <3>3. FrameTold(request'[g], user')
      BY <1>2, <1>4, <2>2, <3>1 DEF FrameTold
    <3> QED BY <1>2, <1>4, <2>2, <3>1, <3>2, <3>3 DEF LoneFrameOK
  <2> QED BY <2>1, <2>2
<1>9. StaffAlone'
  BY <1>2, <1>4, <1>5, <1>8 DEF StaffInv, StaffAlone, Lone
<1>10. ASSUME NEW c \in Consoles PROVE SessionEnding(c)'
  <2>1. CASE c = b
    BY <1>1, <1>2, <1>3, <2>1 DEF SessionEnding
  <2>2. CASE c # b
    <3>1. cookie'[c] = cookie[c] /\ (c \in late => c \in late')
      BY <1>2, <1>3, <2>2
    <3>2. ASSUME NEW g \in Handlers, Ends(g, c) PROVE Ends(g, c)'
      <4>1. g # h
        BY <1>1, <3>2 DEF Ends, Staff!At
      <4> QED BY <1>4, <2>2, <3>1, <3>2, <4>1 DEF Ends, Staff!At
    <3> QED BY <1>2, <3>1, <3>2 DEF StaffInv, SessionEnding
  <2> QED BY <2>1, <2>2
<1> QED BY <1>6, <1>7, <1>8, <1>9, <1>10 DEF StaffInv

LEMMA InsertKeeps ==
  ASSUME StaffInv, NEW h \in Handlers, Staff!InsertUser(h)
  PROVE  StaffInv'
<1> DEFINE p == request[h].target
           u == request[h].made
<1>1. request[h].pc = "insert" /\ p \in People /\ u \in Staff!User /\ u.there /\ u.active
  BY StaffHere DEF Staff!InsertUser, Staff!At, StaffFrameOK, Staff!Frame
<1>2. /\ user' = IF user[p].there THEN user ELSE [user EXCEPT ![p] = u]
      /\ Staff!Goto(h, Staff!Idle) /\ UNCHANGED <<cookie, crossed, late, interrupted>>
  BY DEF Staff!InsertUser, Staff!history
<1> HIDE DEF p, u
<1>3. /\ user' \in [People -> Staff!User]
      /\ \A q \in People : user'[q] # user[q] => q = p /\ ~user[p].there /\ user'[p] = u
  <2>1. user \in [People -> Staff!User]
    BY StaffHere
  <2> QED BY <1>1, <1>2, <2>1
<1>4. \A q \in People : user'[q].active = user[q].active
  BY <1>1, <1>3, StaffHere DEF Staff!User
<1>5. AccountsGoOn
  BY <1>1, <1>3, <1>4, StaffHere DEF AccountsGoOn
<1>6. \A b \in Consoles : SessionEnding(b)'
  BY <1>1, <1>2, <1>4, SessionsGoOn, StaffIdleOK
<1> QED BY <1>1, <1>2, <1>3, <1>5, <1>6, HandlerKeepsStaff, StaffIdleOK, StaffHere

LEMMA MoveKeeps ==
  ASSUME StaffInv, NEW h \in Handlers, Staff!MoveUser(h)
  PROVE  StaffInv'
<1> DEFINE p == request[h].target
           s == request[h].made.scope
<1>1. request[h].pc = "move" /\ p \in People /\ s \in Scopes \cup {Nowhere}
  BY StaffHere DEF Staff!MoveUser, Staff!At, StaffFrameOK, Staff!Frame, Staff!User
<1>2. /\ user' = [user EXCEPT ![p].scope = s]
      /\ Staff!Goto(h, Staff!Idle) /\ UNCHANGED <<cookie, crossed, late, interrupted>>
  BY DEF Staff!MoveUser, Staff!history
<1> HIDE DEF p, s
<1>3. user' \in [People -> Staff!User]
  BY <1>1, <1>2, StaffHere DEF Staff!User
<1>4. \A q \in People : user'[q].there = user[q].there /\ user'[q].active = user[q].active
  BY <1>1, <1>2, StaffHere DEF Staff!User
<1>5. AccountsGoOn
  BY <1>4, StaffHere DEF AccountsGoOn
<1>6. \A b \in Consoles : SessionEnding(b)'
  BY <1>1, <1>2, <1>4, SessionsGoOn, StaffIdleOK
<1> QED BY <1>1, <1>2, <1>3, <1>5, <1>6, HandlerKeepsStaff, StaffIdleOK, StaffHere

LEMMA ReadKeeps ==
  ASSUME StaffInv, NEW h \in Handlers, Staff!ReadWasActive(h)
  PROVE  StaffInv'
<1> DEFINE p == request[h].target
           f == [request[h] EXCEPT !.pc = "save", !.was = user[p].active]
<1>1. request[h].pc = "deactivate" /\ p \in People /\ request[h] \in Staff!Frame
  BY StaffHere DEF Staff!ReadWasActive, Staff!At, StaffFrameOK
<1>2. Staff!Goto(h, f) /\ UNCHANGED <<user, cookie, crossed, late, interrupted>>
  BY DEF Staff!ReadWasActive, Staff!history
<1>3. user[p].active \in BOOLEAN
  BY <1>1, StaffHere DEF Staff!User
<1>4. /\ f \in Staff!Frame /\ f.pc = "save" /\ f.actor = request[h].actor
      /\ f.target = request[h].target /\ f.was = user[p].active
  BY <1>1, <1>3 DEF Staff!Frame, Staff!Labels
<1> HIDE DEF f
<1>5. StaffFrameOK(f) /\ FrameTold(f, user) /\ (~crossed => LoneFrameOK(f, user))
  BY <1>1, <1>4, StaffHere DEF StaffFrameOK, FrameTold, LoneFrameOK
<1>6. AccountsGoOn
  BY <1>2, StaffHere DEF AccountsGoOn
<1>7. \A b \in Consoles : SessionEnding(b)'
  BY <1>1, <1>2, <1>4, SessionsGoOn
<1> QED BY <1>1, <1>2, <1>4, <1>5, <1>6, <1>7, HandlerKeepsStaff, StaffIdleOK, StaffHere

LEMMA DeactivateKeeps ==
  ASSUME StaffInv, NEW h \in Handlers, Staff!DeactivateUser(h)
  PROVE  StaffInv'
<1> DEFINE p == request[h].target
           e == [request[h] EXCEPT !.pc = "terminate"]
           f == IF request[h].was THEN e ELSE Staff!Idle
<1>1. /\ request[h].pc = "save" /\ p \in People /\ request[h] \in Staff!Frame
      /\ user[p].there /\ (~request[h].was => ~user[p].active)
  BY StaffHere DEF Staff!DeactivateUser, Staff!At, StaffFrameOK, FrameTold
<1>2. /\ user' = [user EXCEPT ![p].active = FALSE]
      /\ Staff!Goto(h, f) /\ UNCHANGED <<cookie, crossed, late, interrupted>>
  BY DEF Staff!DeactivateUser, Staff!history
<1>3. e \in Staff!Frame /\ e.pc = "terminate" /\ e.target = p
  BY <1>1 DEF Staff!Frame, Staff!Labels
<1> HIDE DEF p, e
<1>4. StaffFrameOK(e) /\ \A us : LoneFrameOK(e, us) /\ FrameTold(e, us)
  BY <1>1, <1>3 DEF StaffFrameOK, LoneFrameOK, FrameTold
<1>5. /\ f \in Staff!Frame /\ StaffFrameOK(f) /\ (\A us : LoneFrameOK(f, us) /\ FrameTold(f, us))
      /\ request[h].was => f.pc = "terminate" /\ f.target = p
  BY <1>3, <1>4, StaffIdleOK
<1> HIDE DEF f
<1>6. user \in [People -> Staff!User] /\ user[p] \in Staff!User
  BY <1>1, StaffHere
<1>7. /\ user' \in [People -> Staff!User]
      /\ \A q \in People : /\ user'[q].there = user[q].there
                           /\ q # p => user'[q].active = user[q].active
                           /\ q = p => ~user'[q].active
  <2>1. user' = [user EXCEPT ![p] = [user[p] EXCEPT !.active = FALSE]]
    BY <1>2
  <2>2. /\ [user[p] EXCEPT !.active = FALSE] \in Staff!User
        /\ [user[p] EXCEPT !.active = FALSE].there = user[p].there
        /\ ~[user[p] EXCEPT !.active = FALSE].active
    BY <1>6 DEF Staff!User
  <2> QED BY <1>1, <1>6, <2>1, <2>2
<1>8. AccountsGoOn
  BY <1>1, <1>7, StaffHere DEF AccountsGoOn
<1>9. ASSUME NEW b \in Consoles PROVE SessionEnding(b)'
  <2>1. \A g \in Handlers : Ends(g, b) => Ends(g, b)'
    BY <1>1, <1>2, <1>5, OthersEnd DEF Ends, Staff!At
  <2>2. cookie[b] # Nobody => cookie[b] \in People
    BY StaffHere
  <2>3. CASE cookie[b] = p /\ request[h].was
    <3>1. request'[h] = f
      BY <1>2, <1>5, StaffGoto DEF StaffInv
    <3> QED BY <1>2, <1>5, <2>3, <3>1 DEF SessionEnding, Ends, Staff!At
  <2>4. CASE cookie[b] # p \/ ~request[h].was
    BY <1>1, <1>2, <1>7, <2>1, <2>2, <2>4 DEF StaffInv, SessionEnding
  <2> QED BY <2>3, <2>4
<1> QED BY <1>1, <1>2, <1>5, <1>7, <1>8, <1>9, HandlerKeepsStaff, StaffIdleOK, StaffHere

\* What the loop over the listed sessions leaves in the frame.
LEMMA EndingOK ==
  ASSUME NEW f \in Staff!Frame, f.target \in People, NEW bs \in SUBSET Consoles
  PROVE  LET e == Staff!Ending(f, bs) IN
         /\ e \in Staff!Frame /\ StaffFrameOK(e)
         /\ \A us : LoneFrameOK(e, us) /\ FrameTold(e, us)
         /\ bs # {} => e.pc = "delete" /\ e.open = bs /\ e.target = f.target
<1> DEFINE d == [f EXCEPT !.pc = "delete", !.open = bs]
<1>1. d \in Staff!Frame /\ d.pc = "delete" /\ d.open = bs /\ d.target = f.target
  BY DEF Staff!Frame, Staff!Labels
<1>2. Staff!Ending(f, bs) = IF bs = {} THEN Staff!Idle ELSE d
  BY DEF Staff!Ending
<1> HIDE DEF d
<1>3. StaffFrameOK(d) /\ \A us : LoneFrameOK(d, us) /\ FrameTold(d, us)
  BY <1>1 DEF StaffFrameOK, LoneFrameOK, FrameTold
<1> QED BY <1>1, <1>2, <1>3, StaffIdleOK

LEMMA ListKeeps ==
  ASSUME StaffInv, NEW h \in Handlers, Staff!ListSessions(h)
  PROVE  StaffInv'
<1> DEFINE p == request[h].target
           bs == {b \in Consoles : cookie[b] = p}
           f == Staff!Ending(request[h], bs)
<1>1. request[h].pc = "terminate" /\ p \in People /\ request[h] \in Staff!Frame
  BY StaffHere DEF Staff!ListSessions, Staff!At, StaffFrameOK
<1>2. Staff!Goto(h, f) /\ UNCHANGED <<user, cookie, crossed, late, interrupted>>
  BY DEF Staff!ListSessions, Staff!history
<1>3. /\ f \in Staff!Frame /\ StaffFrameOK(f) /\ (\A us : LoneFrameOK(f, us) /\ FrameTold(f, us))
      /\ bs # {} => f.pc = "delete" /\ f.open = bs /\ f.target = p
  <2>1. bs \in SUBSET Consoles
    OBVIOUS
  <2> HIDE DEF bs
  <2> QED BY <1>1, <2>1, EndingOK
<1> HIDE DEF f
<1>4. AccountsGoOn
  BY <1>2, StaffHere DEF AccountsGoOn
<1>5. ASSUME NEW b \in Consoles PROVE SessionEnding(b)'
  <2>1. \A g \in Handlers \ {h} : Ends(g, b) => Ends(g, b)'
    BY <1>2, <1>3, OthersEnd
  <2>2. Ends(h, b) => Ends(h, b)'
    <3>1. SUFFICES ASSUME Ends(h, b) PROVE Ends(h, b)'
      OBVIOUS
    <3>2. b \in bs
      BY <3>1 DEF Ends
    <3>3. request'[h] = f
      BY <1>2, <1>3, StaffGoto DEF StaffInv
    <3> QED BY <1>2, <1>3, <3>2, <3>3 DEF Ends, Staff!At
  <2> QED BY <1>2, <2>1, <2>2 DEF StaffInv, SessionEnding
<1> QED BY <1>1, <1>2, <1>3, <1>4, <1>5, HandlerKeepsStaff, StaffIdleOK, StaffHere

LEMMA DeleteKeeps ==
  ASSUME StaffInv, NEW h \in Handlers, NEW b \in Consoles, Staff!DeleteSession(h, b)
  PROVE  StaffInv'
<1> DEFINE bs == request[h].open \ {b}
           f == Staff!Ending(request[h], bs)
<1>1. /\ request[h].pc = "delete" /\ request[h].target \in People
      /\ request[h] \in Staff!Frame /\ bs \in SUBSET Consoles
  BY StaffHere DEF Staff!DeleteSession, Staff!At, StaffFrameOK, Staff!Frame
<1>2. /\ cookie' = [cookie EXCEPT ![b] = Nobody] /\ late' = late \ {b}
      /\ Staff!Goto(h, f) /\ UNCHANGED <<user, crossed, interrupted>>
  BY DEF Staff!DeleteSession
<1> HIDE DEF bs
<1>3. /\ f \in Staff!Frame /\ StaffFrameOK(f) /\ (\A us : LoneFrameOK(f, us) /\ FrameTold(f, us))
      /\ bs # {} => f.pc = "delete" /\ f.open = bs /\ f.target = request[h].target
  BY <1>1, EndingOK
<1> HIDE DEF f
<1>4. AccountsGoOn
  BY <1>2, StaffHere DEF AccountsGoOn
<1>5. /\ cookie' \in [Consoles -> People \cup {Nobody}] /\ cookie'[b] = Nobody
      /\ \A c \in Consoles \ {b} : cookie'[c] = cookie[c]
  BY <1>2, StaffHere
<1>6. ASSUME NEW c \in Consoles PROVE SessionEnding(c)'
  <2>1. CASE c = b
    BY <1>5, <2>1 DEF SessionEnding
  <2>2. CASE c # b
    <3>1. cookie'[c] = cookie[c] /\ (c \in late => c \in late')
      BY <1>2, <1>5, <2>2
    <3>2. \A g \in Handlers \ {h} : Ends(g, c) => Ends(g, c)'
      BY <1>2, <1>3, <3>1, OthersEnd
    <3>3. Ends(h, c) => Ends(h, c)'
      <4>1. SUFFICES ASSUME Ends(h, c) PROVE Ends(h, c)'
        OBVIOUS
      <4>2. c \in bs
        BY <1>1, <2>2, <4>1 DEF Ends, Staff!At, bs
      <4>3. request'[h] = f
        BY <1>2, <1>3, StaffGoto DEF StaffInv
      <4> QED BY <1>3, <3>1, <4>1, <4>2, <4>3 DEF Ends, Staff!At
    <3> QED BY <1>2, <3>1, <3>2, <3>3 DEF StaffInv, SessionEnding
  <2> QED BY <2>1, <2>2
<1>7. /\ late' \subseteq Consoles /\ interrupted' \subseteq People
      /\ \A c \in Consoles : cookie'[c] # Nobody => cookie'[c] = cookie[c]
  BY <1>2, <1>5, StaffHere
<1> QED BY <1>1, <1>2, <1>3, <1>4, <1>5, <1>6, <1>7, HandlerKeepsStaff, StaffIdleOK, StaffHere

LEMMA DeathKeeps ==
  ASSUME StaffInv, NEW h \in Handlers, Staff!HandlerDies(h)
  PROVE  StaffInv'
<1> DEFINE p == request[h].target
           ending == request[h].pc \in {"terminate", "delete"}
<1>1. /\ request[h] # Staff!Idle /\ Staff!Goto(h, Staff!Idle)
      /\ interrupted' = (IF ending THEN interrupted \cup {p} ELSE interrupted)
      /\ UNCHANGED <<user, cookie, crossed, late>>
  BY DEF Staff!HandlerDies
<1>2. ending => p \in People
  BY StaffHere DEF StaffFrameOK
<1>3. AccountsGoOn
  BY <1>1, StaffHere DEF AccountsGoOn
<1>4. ASSUME NEW b \in Consoles PROVE SessionEnding(b)'
  <2>1. \A g \in Handlers \ {h} : Ends(g, b) => Ends(g, b)'
    BY <1>1, OthersEnd, StaffIdleOK
  <2>2. Ends(h, b) => cookie[b] \in interrupted'
    BY <1>1 DEF Ends, Staff!At
  <2> QED BY <1>1, <2>1, <2>2 DEF StaffInv, SessionEnding
<1> QED BY <1>1, <1>2, <1>3, <1>4, HandlerKeepsStaff, StaffIdleOK, StaffHere

LEMMA SignOutKeeps ==
  ASSUME StaffInv, NEW b \in Consoles, Staff!SignOut(b)
  PROVE  StaffInv'
<1>1. /\ cookie' = [cookie EXCEPT ![b] = Nobody] /\ late' = late \ {b}
      /\ UNCHANGED <<user, request, crossed, interrupted>>
  BY DEF Staff!SignOut
<1>2. /\ cookie' \in [Consoles -> People \cup {Nobody}] /\ cookie'[b] = Nobody
      /\ \A c \in Consoles \ {b} : cookie'[c] = cookie[c]
  BY <1>1 DEF StaffInv, Staff!TypeOK
<1>3. /\ Staff!TypeOK' /\ UsersOK' /\ StaffAlone'
      /\ \A h \in Handlers : StaffFrameOK(request'[h]) /\ FrameTold(request'[h], user')
  BY <1>1, <1>2 DEF StaffInv, Staff!TypeOK, UsersOK, StaffAlone, Lone
<1>4. ASSUME NEW c \in Consoles PROVE SessionEnding(c)'
  <2>1. CASE c = b
    BY <1>2, <2>1 DEF SessionEnding
  <2>2. CASE c # b
    BY <1>1, <1>2, <2>2 DEF StaffInv, SessionEnding, Ends, Staff!At
  <2> QED BY <2>1, <2>2
<1> QED BY <1>3, <1>4 DEF StaffInv
-----------------------------------------------------------------------------
(* The invariant.                                                          *)

LEMMA StaffStep == StaffInv /\ [Staff!Next]_(Staff!vars) => StaffInv'
<1> SUFFICES ASSUME StaffInv, [Staff!Next]_(Staff!vars) PROVE StaffInv'
  OBVIOUS
<1>1. CASE UNCHANGED Staff!vars
  BY <1>1 DEF Staff!vars, Staff!history, StaffInv, Staff!TypeOK, UsersOK, StaffAlone, Lone,
              SessionEnding, Ends, Staff!At
<1>2. CASE Staff!Next
  BY <1>2, CommandsKeepStaff, ArrivalsKeepStaff, LoginKeeps, InsertKeeps, MoveKeeps, ReadKeeps,
     DeactivateKeeps, ListKeeps, DeleteKeeps, DeathKeeps, SignOutKeeps
     DEF Staff!Next, Staff!Handle
<1> QED BY <1>1, <1>2

LEMMA StaffInvariant == Staff!Spec => []StaffInv
<1>1. Staff!Init => StaffInv
  <2> SUFFICES ASSUME Staff!Init PROVE StaffInv
    OBVIOUS
  <2>1. Staff!TypeOK
    BY StaffIdleOK DEF Staff!Init, Staff!TypeOK
  <2>2. UsersOK /\ \A h \in Handlers : StaffFrameOK(request[h]) /\ FrameTold(request[h], user)
    BY StaffIdleOK DEF Staff!Init, UsersOK, Staff!NoUser
  <2>3. StaffAlone /\ \A b \in Consoles : SessionEnding(b)
    BY StaffIdleOK DEF Staff!Init, StaffAlone, Lone, SessionEnding
  <2> QED BY <2>1, <2>2, <2>3 DEF StaffInv
<1> QED BY <1>1, StaffStep, PTL DEF Staff!Spec

\* A behaviour of the two desks is one of each of them.
LEMMA EachDesk == BothSpec => Spec /\ Staff!Spec
<1>1. BothInit => Init /\ Staff!Init
  BY DEF BothInit
<1>2. [BothNext]_both => [Next]_vars
  BY DEF BothNext, both
<1>3. [BothNext]_both => [Staff!Next]_(Staff!vars)
  BY DEF BothNext, both, staffVars, Staff!vars, Staff!history
<1> QED BY <1>1, <1>2, <1>3, PTL DEF BothSpec, Spec, Staff!Spec
-----------------------------------------------------------------------------
(* The theorems.                                                           *)

\* FR-026: once nothing is under way, every session that is left is of an active account,
\* whatever overlapped, but for a sign-in that landed after its account's end and a
\* deactivation that died before it had ended all sessions (User.save, terminate_sessions).
THEOREM SessionsEndWithTheirAccount == BothSpec => []NoSessionOutlivesItsAccount
<1>1. StaffInv => NoSessionOutlivesItsAccount
  <2> SUFFICES ASSUME StaffInv, Staff!Quiet, NEW b \in Consoles,
                      b \notin late, cookie[b] \notin interrupted
               PROVE  cookie[b] = Staff!Served(b)
    BY DEF NoSessionOutlivesItsAccount, Staff!NoSessionOutlivesItsAccount
  <2>1. cookie[b] # Nobody => user[cookie[b]].active
    BY StaffIdleOK DEF StaffInv, SessionEnding, Ends, Staff!Quiet, Staff!At
  <2> QED BY <2>1 DEF Staff!Served
<1> QED BY <1>1, EachDesk, StaffInvariant, PTL

\* An account changes to another role or is deactivated only by its deactivation.
LEMMA WhoLosesIt ==
  ASSUME StaffInv, [Staff!Next]_(Staff!vars), NEW p \in Staff!Administrators
  PROVE  \/ p \in Staff!Administrators'
         \/ \E h \in Handlers : Staff!DeactivateUser(h) /\ request[h].target = p
<1>1. p \in People /\ user[p] \in Staff!User /\ user[p].there /\ user[p].active
      /\ user[p].role = "ADMINISTRATOR" /\ user \in [People -> Staff!User]
  BY DEF Staff!Administrators, StaffInv, Staff!TypeOK
<1>2. SUFFICES \/ /\ user'[p].there /\ user'[p].active
                  /\ user'[p].role = "ADMINISTRATOR"
               \/ \E h \in Handlers : Staff!DeactivateUser(h) /\ request[h].target = p
  BY <1>1 DEF Staff!Administrators
<1>3. CASE UNCHANGED user
  BY <1>1, <1>3
<1>4. ASSUME NEW q \in People,
             \/ Staff!CreateSuperuser(q) \/ Staff!ChangePassword(q)
             \/ \E s \in Scopes : Staff!BootstrapAdmin(q, s)
      PROVE  /\ user'[p].there /\ user'[p].active
             /\ user'[p].role = "ADMINISTRATOR"
  <2>1. CASE q # p
    BY <1>1, <1>4, <2>1 DEF Staff!CreateSuperuser, Staff!ChangePassword, Staff!BootstrapAdmin
  <2>2. CASE q = p
    BY <1>1, <1>4, <2>2 DEF Staff!CreateSuperuser, Staff!ChangePassword, Staff!BootstrapAdmin,
                            Staff!User
  <2> QED BY <2>1, <2>2
<1>5. ASSUME NEW h \in Handlers, Staff!InsertUser(h)
      PROVE  user'[p] = user[p]
  BY <1>1, <1>5 DEF Staff!InsertUser
<1>6. ASSUME NEW h \in Handlers, Staff!MoveUser(h)
      PROVE  /\ user'[p].there = user[p].there /\ user'[p].active = user[p].active
             /\ user'[p].role = user[p].role
  BY <1>1, <1>6 DEF Staff!MoveUser, Staff!User
<1>7. ASSUME NEW h \in Handlers, Staff!DeactivateUser(h), request[h].target # p
      PROVE  user'[p] = user[p]
  BY <1>1, <1>7 DEF Staff!DeactivateUser
<1>8. ASSUME NEW h \in Handlers,
             \/ Staff!Login(h) \/ Staff!ReadWasActive(h) \/ Staff!ListSessions(h)
             \/ Staff!HandlerDies(h) \/ \E b \in Consoles : Staff!DeleteSession(h, b)
             \/ \E b \in Consoles : Staff!Arrives(h, b)
      PROVE  UNCHANGED user
  BY <1>8 DEF Staff!Login, Staff!ReadWasActive, Staff!ListSessions, Staff!HandlerDies,
              Staff!DeleteSession, Staff!Arrives, Staff!BeginSignIn,
              Staff!BeginDeactivate, Staff!BeginUserScope, Staff!BeginOwnScope,
              Staff!BeginUserNew, Staff!Administer, Staff!Begin
<1>9. ASSUME NEW b \in Consoles, Staff!SignOut(b) PROVE UNCHANGED user
  BY <1>9 DEF Staff!SignOut
<1>10. CASE Staff!Next
  BY <1>1, <1>3, <1>4, <1>5, <1>6, <1>7, <1>8, <1>9, <1>10 DEF Staff!Next, Staff!Handle
<1> QED BY <1>3, <1>10 DEF Staff!vars

\* "You cannot deactivate your own account": whoever deactivates another remains, if requests
\* have not overlapped (user_deactivate).
THEOREM AdministratorsRemain == BothSpec => AnAdministratorRemains
<1>1. ASSUME StaffInv, [Staff!Next]_(Staff!vars), Staff!Administrators # {}, ~crossed
      PROVE  Staff!Administrators' # {}
  <2>1. PICK p : p \in Staff!Administrators
    BY <1>1
  <2>2. CASE \E h \in Handlers : Staff!DeactivateUser(h) /\ request[h].target = p
    <3>1. PICK h \in Handlers : Staff!DeactivateUser(h) /\ request[h].target = p
      BY <2>2
    <3> DEFINE a == request[h].actor
    <3>2. request[h].pc = "save"
      BY <3>1 DEF Staff!DeactivateUser, Staff!At
    <3>3. a \in People /\ a # p /\ a \in Staff!Administrators
      BY <1>1, <3>1, <3>2, StaffHere DEF StaffFrameOK, LoneFrameOK, Staff!Administrators
    <3>4. user'[a] = user[a]
      BY <1>1, <3>1, <3>3, StaffHere DEF Staff!DeactivateUser
    <3>5. a \in Staff!Administrators'
      BY <3>3, <3>4 DEF Staff!Administrators
    <3> QED BY <3>5
  <2>3. CASE p \in Staff!Administrators'
    BY <2>3
  <2> QED BY <1>1, <2>1, <2>2, <2>3, WhoLosesIt
<1>2. StaffInv /\ [Staff!Next]_(Staff!vars) =>
        [Staff!Administrators # {} => Staff!Administrators' # {} \/ crossed]_(Staff!vars)
  BY <1>1
<1> QED BY <1>2, EachDesk, StaffInvariant, PTL
        DEF Staff!Spec, AnAdministratorRemains, Staff!AnAdministratorRemains

\* Both desks keep their types, for any number of everything (User, CustomerAccount).
THEOREM BothTypesCorrect == BothSpec => []BothTypeOK
<1>1. StaffInv /\ TypeOK => BothTypeOK
  BY DEF StaffInv, BothTypeOK
<1> QED BY <1>1, EachDesk, StaffInvariant, TypeCorrect, PTL
=============================================================================
