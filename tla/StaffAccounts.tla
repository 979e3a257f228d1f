---------------------------- MODULE StaffAccounts ----------------------------
(***************************************************************************)
(* Staff accounts: who administers whom, and sessions that end with the    *)
(* account.                                                                *)
(*                                                                         *)
(* A handler is one request.  It is admitted on the account its session    *)
(* names, as that account was when the request began (request.user), and   *)
(* then writes; between the two, and between its writes, other requests    *)
(* may run; it may die before any of them.  A scope is a department and a  *)
(* branch together.                                                        *)
(*                                                                         *)
(* Left out: names, languages, Django's own admin, and the demonstration   *)
(* sign-in that no production setting allows.                              *)
(***************************************************************************)
EXTENDS FiniteSets

CONSTANTS People,    \* addresses that are, or may become, a member of staff's
          Scopes,
          Nowhere,   \* no department and no branch
          Browsers, Handlers, Nobody

\* What the constants are, which the module that gives them values assumes.
StaffAssumption == Nowhere \notin Scopes /\ Nobody \notin People

VARIABLES user,       \* accounts_user, by address
          session,    \* the user id in each browser's session
          frame,      \* each handler's frame
          overlapped, \* history: two requests have been under way at once
          late,       \* history: the browsers whose sign-in landed after its account's end
          interrupted \* history: whose deactivation died before all sessions were ended

history == <<overlapped, late, interrupted>>
vars == <<user, session, frame, history>>
-----------------------------------------------------------------------------
Roles == {"AGENT", "SUPERVISOR", "ADMINISTRATOR"}

\* `key`: a usable password has been set.
User == [there: BOOLEAN, active: BOOLEAN, key: BOOLEAN, role: Roles,
         scope: Scopes \cup {Nowhere}]

NoUser == [there |-> FALSE, active |-> TRUE, key |-> FALSE, role |-> "AGENT", scope |-> Nowhere]

Labels == {"idle", "login", "insert", "move", "deactivate", "save", "terminate", "delete"}

\* `made` is the account a user_new form asks for, or its scope alone for a move; `was` is
\* User.save's was_active; `open` are the listed sessions of the account, yet to be deleted.
Frame == [pc: Labels, actor: People \cup {Nobody}, browser: Browsers \cup {Nobody},
          target: People \cup {Nobody}, made: User, was: BOOLEAN, open: SUBSET Browsers]

Idle == [pc |-> "idle", actor |-> Nobody, browser |-> Nobody, target |-> Nobody, made |-> NoUser,
         was |-> FALSE, open |-> {}]

Quiet == \A h \in Handlers : frame[h] = Idle

Goto(h, f) == frame' = [frame EXCEPT ![h] = f]

At(h, label) == frame[h].pc = label

\* Whom a session is served as: the user backend drops who is not active.
Served(b) == IF session[b] # Nobody /\ user[session[b]].active THEN session[b] ELSE Nobody

Administrators == {p \in People : user[p].there /\ user[p].active /\ user[p].role = "ADMINISTRATOR"}

\* _users_in_scope; with no scope, those who have none either.
InScopeOf(p) == {q \in People : user[q].there /\ user[q].scope = user[p].scope}

Begin(h, f) ==
  /\ frame[h] = Idle
  /\ Goto(h, f)
  /\ overlapped' = (overlapped \/ ~Quiet)
  /\ UNCHANGED <<user, session, late, interrupted>>

\* A request to an administration screen, past administrator_required.
Administer(h, b, f) ==
  /\ Served(b) \in Administrators
  /\ Begin(h, [f EXCEPT !.actor = Served(b)])
-----------------------------------------------------------------------------
Init ==
  /\ user = [p \in People |-> NoUser]
  /\ session = [b \in Browsers |-> Nobody]
  /\ frame = [h \in Handlers |-> Idle]
  /\ overlapped = FALSE /\ late = {} /\ interrupted = {}

\* bootstrap_admin: one transaction, and no usable password.
BootstrapAdmin(p, s) ==
  /\ ~user[p].there
  /\ user' = [user EXCEPT ![p] =
       [NoUser EXCEPT !.there = TRUE, !.role = "ADMINISTRATOR", !.scope = s]]
  /\ UNCHANGED <<session, frame, late, interrupted>>
  /\ overlapped' = (overlapped \/ ~Quiet)

\* create_superuser: an administrator with a password and no scope.
CreateSuperuser(p) ==
  /\ ~user[p].there
  /\ user' = [user EXCEPT ![p] =
       [NoUser EXCEPT !.there = TRUE, !.role = "ADMINISTRATOR", !.key = TRUE]]
  /\ UNCHANGED <<session, frame, late, interrupted>>
  /\ overlapped' = (overlapped \/ ~Quiet)

\* External: manage.py changepassword.
ChangePassword(p) ==
  /\ user[p].there /\ ~user[p].key
  /\ user' = [user EXCEPT ![p].key = TRUE]
  /\ UNCHANGED <<session, frame, late, interrupted>>
  /\ overlapped' = (overlapped \/ ~Quiet)
-----------------------------------------------------------------------------
(* Signing in and out.                                                     *)

\* authenticate, which refuses an account that is not active.
BeginSignIn(h, b, p) ==
  /\ user[p].there /\ user[p].active /\ user[p].key
  /\ Begin(h, [Idle EXCEPT !.pc = "login", !.actor = p, !.browser = b])

\* The session gets a new key: one listed for deletion is no longer the browser's.
Login(h) ==
  LET b == frame[h].browser
  IN  /\ At(h, "login")
      /\ session' = [session EXCEPT ![b] = frame[h].actor]
      /\ frame' = [g \in Handlers |->
                    IF g = h THEN Idle ELSE [frame[g] EXCEPT !.open = @ \ {b}]]
      /\ late' = IF user[frame[h].actor].active THEN late \ {b} ELSE late \cup {b}
      /\ UNCHANGED <<user, overlapped, interrupted>>

SignOut(b) ==
  /\ session[b] # Nobody
  /\ session' = [session EXCEPT ![b] = Nobody]
  /\ late' = late \ {b}
  /\ UNCHANGED <<user, frame, overlapped, interrupted>>
-----------------------------------------------------------------------------
(* Administration.                                                         *)

\* user_new: in the administrator's own scope, for an address no user has.
BeginUserNew(h, b, p, role, s) ==
  /\ ~user[p].there
  /\ Served(b) # Nobody => user[Served(b)].scope = s
  /\ Administer(h, b, [Idle EXCEPT !.pc = "insert", !.target = p,
                       !.made = [NoUser EXCEPT !.there = TRUE, !.role = role, !.scope = s]])

\* The address is unique: a second insert fails.
InsertUser(h) ==
  LET f == frame[h]
  IN  /\ At(h, "insert")
      /\ user' = IF user[f.target].there THEN user ELSE [user EXCEPT ![f.target] = f.made]
      /\ Goto(h, Idle)
      /\ UNCHANGED <<session, history>>

\* user_scope: an account in sight is moved anywhere.
BeginUserScope(h, b, p, s) ==
  /\ Served(b) # Nobody /\ p \in InScopeOf(Served(b))
  /\ Administer(h, b, [Idle EXCEPT !.pc = "move", !.target = p, !.made.scope = s])

\* own_scope: for an administrator who has none.
BeginOwnScope(h, b, s) ==
  /\ Served(b) # Nobody /\ user[Served(b)].scope = Nowhere
  /\ Administer(h, b, [Idle EXCEPT !.pc = "move", !.target = Served(b), !.made.scope = s])

\* Saves the department and the branch alone.
MoveUser(h) ==
  LET f == frame[h]
  IN  /\ At(h, "move")
      /\ user' = [user EXCEPT ![f.target].scope = f.made.scope]
      /\ Goto(h, Idle)
      /\ UNCHANGED <<session, history>>

\* Mutant: one's own account too.
BeginDeactivateAnyone(h, b, p) ==
  /\ Served(b) # Nobody /\ p \in InScopeOf(Served(b))
  /\ Administer(h, b, [Idle EXCEPT !.pc = "deactivate", !.target = p])

\* user_deactivate: an account in sight, and not one's own.
BeginDeactivate(h, b, p) ==
  /\ Served(b) # Nobody /\ p \in InScopeOf(Served(b)) \ {Served(b)}
  /\ Administer(h, b, [Idle EXCEPT !.pc = "deactivate", !.target = p])

\* User.save asks what the account was before it saves it.
ReadWasActive(h) ==
  /\ At(h, "deactivate")
  /\ Goto(h, [frame[h] EXCEPT !.pc = "save", !.was = user[frame[h].target].active])
  /\ UNCHANGED <<user, session, history>>

\* User.save: the sessions of an account that was active are ended next.
DeactivateUser(h) ==
  LET f == frame[h]
  IN  /\ At(h, "save")
      /\ user' = [user EXCEPT ![f.target].active = FALSE]
      /\ Goto(h, IF f.was THEN [f EXCEPT !.pc = "terminate"] ELSE Idle)
      /\ UNCHANGED <<session, history>>

\* The loop of terminate_sessions, with bs yet to be deleted; when it is over follows
\* release_live_conversations, which is ChatDesk's dismissal.
Ending(f, bs) == IF bs = {} THEN Idle ELSE [f EXCEPT !.pc = "delete", !.open = bs]

\* Mutant: the sessions of whoever asks are listed, not the account's.
ListOwnSessions(h) ==
  /\ At(h, "terminate")
  /\ Goto(h, Ending(frame[h], {b \in Browsers : session[b] = frame[h].actor}))
  /\ UNCHANGED <<user, session, history>>

\* terminate_sessions reads every session there is.
ListSessions(h) ==
  /\ At(h, "terminate")
  /\ Goto(h, Ending(frame[h], {b \in Browsers : session[b] = frame[h].target}))
  /\ UNCHANGED <<user, session, history>>

\* session.delete, one at a time.
DeleteSession(h, b) ==
  /\ At(h, "delete") /\ b \in frame[h].open
  /\ session' = [session EXCEPT ![b] = Nobody]
  /\ late' = late \ {b}
  /\ Goto(h, Ending(frame[h], frame[h].open \ {b}))
  /\ UNCHANGED <<user, overlapped, interrupted>>

\* The process dies, or the database or the cache fails it: nothing encloses the two.
HandlerDies(h) ==
  /\ frame[h] # Idle
  /\ Goto(h, Idle)
  /\ interrupted' = IF frame[h].pc \in {"terminate", "delete"}
                    THEN interrupted \cup {frame[h].target} ELSE interrupted
  /\ UNCHANGED <<user, session, overlapped, late>>
-----------------------------------------------------------------------------
Arrives(h, b) ==
  \E p \in People :
    \/ BeginSignIn(h, b, p) \/ BeginDeactivate(h, b, p)
    \/ \E s \in Scopes :
         \/ BeginUserScope(h, b, p, s) \/ BeginOwnScope(h, b, s)
         \/ \E role \in Roles : BeginUserNew(h, b, p, role, s)

Handle(h) ==
  \/ Login(h) \/ InsertUser(h) \/ MoveUser(h)
  \/ ReadWasActive(h) \/ DeactivateUser(h) \/ ListSessions(h) \/ HandlerDies(h)
  \/ \E b \in Browsers : DeleteSession(h, b)

Next ==
  \/ \E p \in People :
       \/ CreateSuperuser(p) \/ ChangePassword(p) \/ \E s \in Scopes : BootstrapAdmin(p, s)
  \/ \E h \in Handlers : Handle(h) \/ \E b \in Browsers : Arrives(h, b)
  \/ \E b \in Browsers : SignOut(b)

Spec == Init /\ [][Next]_vars
-----------------------------------------------------------------------------
(* Properties.                                                             *)

TypeOK ==
  /\ user \in [People -> User]
  /\ session \in [Browsers -> People \cup {Nobody}]
  /\ frame \in [Handlers -> Frame]
  /\ overlapped \in BOOLEAN /\ late \subseteq Browsers /\ interrupted \subseteq People

\* FR-026: once nothing is under way no session of a deactivated account is left to come
\* back to, however requests overlapped, but where a sign-in that had been let in landed
\* after the account's end, or the deactivation died before it had ended all sessions (and
\* asked again ends none, since the account was inactive by then).
NoSessionOutlivesItsAccount ==
  Quiet => \A b \in Browsers :
             session[b] = Served(b) \/ b \in late \/ session[b] \in interrupted

\* "You cannot deactivate your own account": an organization that has an administrator
\* keeps one, as long as requests do not overlap.
AnAdministratorRemains ==
  [][Administrators # {} => Administrators' # {} \/ overlapped]_vars
=============================================================================
