----------------------------- MODULE ServiceProofs -----------------------------
(***************************************************************************)
(* The properties of the ticket desk's run, proved for any number of       *)
(* everything.  A behaviour of ServiceSpec is one of each component, at    *)
(* rest or not, so that what holds of a component's specification holds of *)
(* the service.  What is proved of CustomerRecords and Transcript in       *)
(* modules of their own is cited; Watching, ChatSilence and Whispers are   *)
(* proved here, through their instances.                                   *)
(***************************************************************************)
EXTENDS MCService, TicketDeskProofs
-----------------------------------------------------------------------------
(* Watching                                                                *)

\* A record is open from the first step to the last but one, and a page that is loaded and
\* not yet on the line says nothing and misses whoever is there.
WatchingInv ==
  /\ Observing!TypeOK /\ Observing!WatchersAreKnown
  /\ \A w \in Watchers : watcher[w] \notin {"new", "over"} => observation[w] = "open"
  /\ line = "loaded" => /\ told = {}
                        /\ \A w \in Watchers : watcher[w] = "watching" => w \in missed

LEMMA WatchingStep == WatchingInv /\ [Observing!Next]_(Observing!vars) => WatchingInv'
<1> SUFFICES ASSUME WatchingInv, [Observing!Next]_(Observing!vars) PROVE WatchingInv'
  OBVIOUS
<1> USE DEF WatchingInv, Observing!TypeOK, Observing!WatchersAreKnown, Observing!Sees
<1>1. ASSUME NEW w \in Watchers, Observing!OpenObservation(w) PROVE WatchingInv'
  BY <1>1 DEF Observing!OpenObservation, Observing!Step, Observing!Record
<1>2. ASSUME NEW w \in Watchers, Observing!JoinStaff(w) PROVE WatchingInv'
  BY <1>2 DEF Observing!JoinStaff, Observing!Step
<1>3. ASSUME NEW w \in Watchers, Observing!AnnounceToAgent(w) PROVE WatchingInv'
  BY <1>3 DEF Observing!AnnounceToAgent, Observing!Step
<1>4. ASSUME NEW w \in Watchers, Observing!AnnounceDeparture(w) PROVE WatchingInv'
  BY <1>4 DEF Observing!AnnounceDeparture, Observing!Step
<1>5. ASSUME NEW w \in Watchers, Observing!LeaveStaff(w) PROVE WatchingInv'
  BY <1>5 DEF Observing!LeaveStaff, Observing!Step
<1>6. ASSUME NEW w \in Watchers, Observing!CloseObservation(w) PROVE WatchingInv'
  BY <1>6 DEF Observing!CloseObservation, Observing!Step, Observing!Record
<1>7. ASSUME NEW w \in Watchers, Observing!WatcherDies(w) PROVE WatchingInv'
  BY <1>7 DEF Observing!WatcherDies
<1>8. CASE Observing!AgentLoads
  BY <1>8 DEF Observing!AgentLoads
<1>9. CASE Observing!AgentJoins
  BY <1>9 DEF Observing!AgentJoins
<1>10. CASE Observing!AgentDrops
  BY <1>10 DEF Observing!AgentDrops
<1>11. CASE UNCHANGED Observing!vars
  BY <1>11 DEF Observing!vars
<1> QED BY <1>1, <1>2, <1>3, <1>4, <1>5, <1>6, <1>7, <1>8, <1>9, <1>10, <1>11 DEF Observing!Next

LEMMA WatchingInvariant == Observing!Spec => []WatchingInv
<1>1. Observing!Init => WatchingInv
  BY DEF Observing!Init, WatchingInv, Observing!TypeOK, Observing!WatchersAreKnown, Observing!Sees
<1> QED BY <1>1, WatchingStep, PTL DEF Observing!Spec
-----------------------------------------------------------------------------
(* Silence                                                                 *)

\* What a sweep's reading is still good for while nobody broke it.
JudgeOK(f) ==
  f.pc = "judge" /\ ~f.broken =>
    f.idle <= idle /\ (f.warned => silence.told \/ silence.misled)

SilenceInv ==
  /\ Quiet!TypeOK
  /\ warned => silence.told \/ silence.misled
  /\ silence.noticed => silence.told \/ silence.misled
  /\ \A p \in connected : seen[p] < Grace \/ (p = "agent" /\ unseeded)
  /\ \A h \in Handlers : JudgeOK(sweep[h])
  /\ \A h \in Handlers, p \in Quiet!Parties :
       Quiet!At(h, p) /\ ~sweep[h].broken => p \notin connected

LEMMA SilenceIdle == Quiet!Idle \in Quiet!Frame /\ Quiet!Idle.pc = "idle"
<1>1. 0 \in 0..2
  OBVIOUS
<1> QED BY <1>1 DEF Quiet!Idle, Quiet!Frame

LEMMA SilenceGoto ==
  ASSUME Quiet!SilenceAssumption, SilenceInv, NEW h \in Handlers, NEW f \in Quiet!Frame,
         Quiet!Goto(h, f),
         UNCHANGED <<state, idle, warned, silence, Quiet!clocks>>, JudgeOK(f),
         \A p \in Quiet!Parties : f.pc = p /\ ~f.broken => p \notin connected
  PROVE  SilenceInv'
<1>1. sweep' \in [Handlers -> Quiet!Frame] /\ sweep'[h] = f
      /\ \A g \in Handlers \ {h} : sweep'[g] = sweep[g]
  BY DEF Quiet!Goto, SilenceInv, Quiet!TypeOK
<1>2. UNCHANGED <<state, idle, warned, silence, unseeded, seen, connected>>
  BY DEF Quiet!clocks
<1> QED BY <1>1, <1>2 DEF SilenceInv, Quiet!TypeOK, JudgeOK, Quiet!At

LEMMA BreakOK ==
  ASSUME SilenceInv, Quiet!Break
  PROVE  /\ sweep' \in [Handlers -> Quiet!Frame]
         /\ \A h \in Handlers : sweep'[h] = Quiet!Idle \/ sweep'[h].broken
<1>1. ASSUME NEW h \in Handlers PROVE [sweep[h] EXCEPT !.broken = TRUE] \in Quiet!Frame
  BY DEF SilenceInv, Quiet!TypeOK, Quiet!Frame
<1>2. ASSUME NEW h \in Handlers PROVE [sweep[h] EXCEPT !.broken = TRUE].broken
  BY DEF SilenceInv, Quiet!TypeOK, Quiet!Frame
<1> QED BY <1>1, <1>2, SilenceIdle DEF Quiet!Break

LEMMA BrokenOK ==
  ASSUME SilenceInv, Quiet!Break
  PROVE  /\ sweep' \in [Handlers -> Quiet!Frame]
         /\ \A h \in Handlers : JudgeOK(sweep[h])'
         /\ \A h \in Handlers, p \in Quiet!Parties :
              (Quiet!At(h, p) /\ ~sweep[h].broken => p \notin connected)'
  BY BreakOK, SilenceIdle DEF JudgeOK, Quiet!At, Quiet!Parties

LEMMA SilenceStep ==
  ASSUME Quiet!SilenceAssumption
  PROVE  SilenceInv /\ [Quiet!Next]_(Quiet!vars) => SilenceInv'
<1> SUFFICES ASSUME SilenceInv, [Quiet!Next]_(Quiet!vars) PROVE SilenceInv'
  OBVIOUS
<1>a. Grace \in Nat \ {0} /\ Quiet!Parties = {"visitor", "agent"}
      /\ seen \in [Quiet!Parties -> 0..Grace]
      /\ connected \subseteq Quiet!Parties /\ idle \in 0..2
  BY DEF Quiet!SilenceAssumption, Quiet!Parties, SilenceInv, Quiet!TypeOK
<1>1. CASE Quiet!FallsSilent
  <2>1. idle' = idle + 1 /\ idle' \in 0..2
        /\ UNCHANGED <<state, warned, silence, unseeded, seen, connected, sweep>>
    BY <1>1, <1>a DEF Quiet!FallsSilent, Quiet!clocks
  <2>2. \A h \in Handlers : sweep[h].idle \in 0..2
    BY DEF SilenceInv, Quiet!TypeOK, Quiet!Frame
  <2> QED BY <2>1, <2>2, <1>a DEF SilenceInv, Quiet!TypeOK, JudgeOK, Quiet!At
<1>2. CASE Quiet!Tick
  <2>1. /\ seen' \in [Quiet!Parties -> 0..Grace]
        /\ \A p \in connected : seen[p] < Grace => seen'[p] < Grace
        /\ UNCHANGED <<state, idle, warned, silence, unseeded, connected, sweep>>
    BY <1>2, <1>a DEF Quiet!Tick, Quiet!Older
  <2> QED BY <2>1, <1>a DEF SilenceInv, Quiet!TypeOK, JudgeOK, Quiet!At
<1>3. CASE Quiet!Write
  <2>1. /\ idle' = 0 /\ silence' = Quiet!NewSilence /\ warned' = FALSE /\ Quiet!Break
        /\ UNCHANGED <<state, unseeded, seen, connected>>
    BY <1>3 DEF Quiet!Write, Quiet!clocks
  <2>2. silence' \in Quiet!Silence /\ ~silence'.noticed /\ idle' \in 0..2
    BY <2>1 DEF Quiet!Silence, Quiet!NewSilence
  <2> QED BY <2>1, <2>2, <1>a, BrokenOK DEF SilenceInv, Quiet!TypeOK
<1>4. CASE Quiet!Assign
  <2>1. /\ state' = "ACTIVE" /\ unseeded' = TRUE /\ Quiet!Break
        /\ connected' \in {connected \cup {"agent"}, connected \ {"agent"}}
        /\ UNCHANGED <<idle, warned, silence, seen>>
    BY <1>4 DEF Quiet!Assign
  <2> QED BY <2>1, <1>a, BrokenOK DEF SilenceInv, Quiet!TypeOK
<1>5. CASE Quiet!SeedAgent
  <2>1. /\ unseeded' = FALSE /\ seen' = [seen EXCEPT !["agent"] = 0]
        /\ UNCHANGED <<state, idle, warned, silence, connected, sweep>>
    BY <1>5 DEF Quiet!SeedAgent, Quiet!Seen
  <2>2. seen' \in [Quiet!Parties -> 0..Grace] /\ \A p \in connected : seen'[p] < Grace
    BY <2>1, <1>a DEF SilenceInv
  <2> QED BY <2>1, <2>2 DEF SilenceInv, Quiet!TypeOK, JudgeOK, Quiet!At
<1>6. CASE Quiet!End
  BY <1>6 DEF Quiet!End, Quiet!clocks, SilenceInv, Quiet!TypeOK, JudgeOK, Quiet!At
<1>7. ASSUME NEW p \in Quiet!Parties, Quiet!Connect(p) PROVE SilenceInv'
  <2>1. /\ connected' = connected \cup {p} /\ seen' = [seen EXCEPT ![p] = 0] /\ Quiet!Break
        /\ UNCHANGED <<state, idle, warned, silence, unseeded>>
    BY <1>7 DEF Quiet!Connect, Quiet!Seen
  <2>2. seen' \in [Quiet!Parties -> 0..Grace] /\ connected' \subseteq Quiet!Parties
        /\ \A q \in connected' : seen'[q] < Grace \/ (q = "agent" /\ unseeded)
    BY <2>1, <1>a DEF SilenceInv
  <2> QED BY <2>1, <2>2, BrokenOK DEF SilenceInv, Quiet!TypeOK
<1>8. ASSUME NEW p \in Quiet!Parties, Quiet!Heartbeat(p) PROVE SilenceInv'
  <2>1. seen' = [seen EXCEPT ![p] = 0]
        /\ UNCHANGED <<state, idle, warned, silence, unseeded, connected, sweep>>
    BY <1>8 DEF Quiet!Heartbeat, Quiet!Seen
  <2>2. seen' \in [Quiet!Parties -> 0..Grace]
        /\ \A q \in connected : seen'[q] < Grace \/ (q = "agent" /\ unseeded)
    BY <2>1, <1>a DEF SilenceInv
  <2> QED BY <2>1, <2>2 DEF SilenceInv, Quiet!TypeOK, JudgeOK, Quiet!At
<1>9. ASSUME NEW p \in Quiet!Parties, Quiet!Disconnect(p) PROVE SilenceInv'
  BY <1>9, <1>a DEF Quiet!Disconnect, SilenceInv, Quiet!TypeOK, JudgeOK, Quiet!At
<1>10. ASSUME NEW h \in Handlers, Quiet!BeginIdleSweep(h) PROVE SilenceInv'
  <2> DEFINE f == [Quiet!Idle EXCEPT !.pc = "judge", !.idle = idle, !.warned = warned]
  <2>1. Quiet!Goto(h, f) /\ UNCHANGED <<state, idle, warned, silence, Quiet!clocks>>
    BY <1>10 DEF Quiet!BeginIdleSweep
  <2>2. f \in Quiet!Frame /\ f.pc = "judge" /\ f.idle = idle /\ f.warned = warned
    BY <1>a DEF Quiet!Idle, Quiet!Frame, SilenceInv, Quiet!TypeOK
  <2> HIDE DEF f
  <2>3. JudgeOK(f)
    BY <2>2, <1>a DEF JudgeOK, SilenceInv
  <2> QED BY <2>1, <2>2, <2>3, SilenceGoto DEF Quiet!Parties
<1>11. ASSUME NEW h \in Handlers, Quiet!Goto(h, Quiet!Idle),
              UNCHANGED <<idle, warned, silence, Quiet!clocks>>, state' \in {state, "ENDED"}
       PROVE  SilenceInv'
  <2>1. sweep' \in [Handlers -> Quiet!Frame] /\ sweep'[h].pc = "idle"
        /\ \A g \in Handlers \ {h} : sweep'[g] = sweep[g]
    BY <1>11, SilenceIdle DEF Quiet!Goto, SilenceInv, Quiet!TypeOK
  <2>2. UNCHANGED <<idle, warned, silence, unseeded, seen, connected>>
    BY <1>11 DEF Quiet!clocks
  <2> QED BY <1>11, <2>1, <2>2 DEF SilenceInv, Quiet!TypeOK, JudgeOK, Quiet!At, Quiet!Parties
<1>12. ASSUME NEW h \in Handlers,
              Quiet!CloseIdle(h) \/ Quiet!EndInterrupted(h) \/ Quiet!SweepDies(h)
       PROVE  SilenceInv'
  BY <1>11, <1>12 DEF Quiet!CloseIdle, Quiet!EndInterrupted, Quiet!SweepDies
<1>13. ASSUME NEW h \in Handlers, Quiet!WarnIdle(h) \/ Quiet!PassBy(h) PROVE SilenceInv'
  <2> DEFINE s == silence'
  <2>1. /\ Quiet!At(h, "judge") /\ Quiet!Goto(h, Quiet!Idle)
        /\ UNCHANGED <<state, idle, unseeded, seen, connected>>
    BY <1>13 DEF Quiet!WarnIdle, Quiet!PassBy, Quiet!clocks
  <2>2. sweep' \in [Handlers -> Quiet!Frame] /\ sweep'[h].pc = "idle"
        /\ \A g \in Handlers \ {h} : sweep'[g] = sweep[g]
    BY <2>1, SilenceIdle DEF Quiet!Goto, SilenceInv, Quiet!TypeOK
  <2>3. silence \in Quiet!Silence /\ sweep[h] \in Quiet!Frame /\ JudgeOK(sweep[h])
    BY DEF SilenceInv, Quiet!TypeOK
  <2>4. /\ Quiet!Noticed(h) \in Quiet!Silence
        /\ Quiet!Noticed(h).told = silence.told /\ Quiet!Noticed(h).misled = silence.misled
        /\ sweep[h].broken => Quiet!Noticed(h) = silence
    BY <2>3 DEF Quiet!Noticed, Quiet!Silence
  <2>5. /\ s \in Quiet!Silence /\ warned' \in BOOLEAN
        /\ silence.told \/ silence.misled => s.told \/ s.misled
        /\ warned' => s.told \/ s.misled
        /\ s.noticed => s.told \/ s.misled
    <3>1. CASE Quiet!WarnIdle(h)
      <4> DEFINE n == Quiet!Noticed(h)
      <4>1. s = [n EXCEPT !.told = @ \/ ~sweep[h].broken, !.misled = @ \/ sweep[h].broken]
            /\ warned' = TRUE
        BY <3>1 DEF Quiet!WarnIdle
      <4>2. sweep[h].broken \in BOOLEAN
        BY <2>3 DEF Quiet!Frame
      <4> HIDE DEF n, s
      <4>3. s \in Quiet!Silence /\ (s.told \/ s.misled)
        BY <4>1, <4>2, <2>4 DEF Quiet!Silence, n
      <4> QED BY <4>1, <4>3 DEF s
    <3>2. CASE Quiet!PassBy(h)
      <4>1. s = Quiet!Noticed(h) /\ warned' = warned
        BY <3>2 DEF Quiet!PassBy
      <4>2. s.noticed /\ ~silence.noticed => ~sweep[h].broken /\ sweep[h].idle = 1
        BY <4>1, <2>3 DEF Quiet!Noticed, Quiet!Silence
      <4>3. sweep[h].idle = 1 => sweep[h].warned
        BY <3>2 DEF Quiet!PassBy
      <4> QED
        BY <4>1, <4>2, <4>3, <2>1, <2>3, <2>4 DEF SilenceInv, Quiet!TypeOK, JudgeOK, Quiet!At
    <3> QED BY <1>13, <3>1, <3>2
  <2> QED BY <2>1, <2>2, <2>5 DEF SilenceInv, Quiet!TypeOK, JudgeOK, Quiet!At, Quiet!Parties
<1>14. ASSUME NEW h \in Handlers, Quiet!BeginInterruptedSweep(h) PROVE SilenceInv'
  <2> DEFINE f == [Quiet!Idle EXCEPT !.pc = "look"]
  <2>1. Quiet!Goto(h, f) /\ UNCHANGED <<state, idle, warned, silence, Quiet!clocks>>
    BY <1>14 DEF Quiet!BeginInterruptedSweep
  <2>2. f \in Quiet!Frame /\ f.pc = "look"
    BY SilenceIdle DEF Quiet!Idle, Quiet!Frame
  <2> HIDE DEF f
  <2> QED BY <2>1, <2>2, SilenceGoto DEF Quiet!Parties, JudgeOK
<1>15. ASSUME NEW h \in Handlers, Quiet!Look(h) PROVE SilenceInv'
  <2> DEFINE v == [Quiet!Idle EXCEPT !.pc = "visitor"]
             a == [Quiet!Idle EXCEPT !.pc = "agent", !.broken = unseeded]
  <2>1. /\ UNCHANGED <<state, idle, warned, silence, Quiet!clocks>>
        /\ \/ Quiet!Gone("visitor") /\ Quiet!Goto(h, v)
           \/ Quiet!Gone("agent") /\ Quiet!Goto(h, a)
           \/ Quiet!Goto(h, Quiet!Idle)
    BY <1>15 DEF Quiet!Look
  <2>2. v \in Quiet!Frame /\ v.pc = "visitor" /\ a \in Quiet!Frame /\ a.pc = "agent"
        /\ a.broken = unseeded
    BY SilenceIdle DEF Quiet!Idle, Quiet!Frame, SilenceInv, Quiet!TypeOK
  <2> HIDE DEF v, a
  <2>3. CASE Quiet!Gone("visitor") /\ Quiet!Goto(h, v)
    <3>1. "visitor" \notin connected
      BY <2>3, <1>a DEF Quiet!Gone, SilenceInv
    <3> QED BY <2>1, <2>2, <2>3, <3>1, SilenceGoto DEF Quiet!Parties, JudgeOK
  <2>4. CASE Quiet!Gone("agent") /\ Quiet!Goto(h, a)
    <3>1. ~a.broken => "agent" \notin connected
      BY <2>2, <2>4, <1>a DEF Quiet!Gone, SilenceInv
    <3> QED BY <2>1, <2>2, <2>4, <3>1, SilenceGoto DEF Quiet!Parties, JudgeOK
  <2>5. CASE Quiet!Goto(h, Quiet!Idle)
    BY <2>1, <2>5, <1>11 DEF Quiet!clocks
  <2> QED BY <2>1, <2>3, <2>4, <2>5
<1>16. ASSUME NEW h \in Handlers, Quiet!HandOver(h) PROVE SilenceInv'
  <2>1. /\ state' = "WAITING" /\ Quiet!Goto(h, Quiet!Idle)
        /\ seen' = [seen EXCEPT !["visitor"] = 0]
        /\ UNCHANGED <<idle, warned, silence, unseeded, connected>>
    BY <1>16 DEF Quiet!HandOver, Quiet!Seen
  <2>2. sweep' \in [Handlers -> Quiet!Frame] /\ sweep'[h].pc = "idle"
        /\ \A g \in Handlers \ {h} : sweep'[g] = sweep[g]
    BY <2>1, SilenceIdle DEF Quiet!Goto, SilenceInv, Quiet!TypeOK
  <2>3. seen' \in [Quiet!Parties -> 0..Grace]
        /\ \A q \in connected : seen'[q] < Grace \/ (q = "agent" /\ unseeded)
    BY <2>1, <1>a DEF SilenceInv
  <2> QED BY <2>1, <2>2, <2>3 DEF SilenceInv, Quiet!TypeOK, JudgeOK, Quiet!At, Quiet!Parties
<1>17. CASE UNCHANGED Quiet!vars
  BY <1>17 DEF Quiet!vars, Quiet!clocks, SilenceInv, Quiet!TypeOK, JudgeOK, Quiet!At
<1> QED
  BY <1>1, <1>2, <1>3, <1>4, <1>5, <1>6, <1>7, <1>8, <1>9, <1>10, <1>12, <1>13, <1>14, <1>15,
     <1>16, <1>17 DEF Quiet!Next

LEMMA SilenceInvariant == ASSUME Quiet!SilenceAssumption PROVE Quiet!Spec => []SilenceInv
<1>1. Quiet!Init => SilenceInv
  <2>1. ASSUME Quiet!Init PROVE Quiet!TypeOK
    <3>1. 0 \in 0..2 /\ 0 \in 0..Grace /\ Grace \in 0..Grace
      BY DEF Quiet!SilenceAssumption
    <3> QED
      BY <2>1, <3>1, SilenceIdle DEF Quiet!Init, Quiet!TypeOK, Quiet!Silence, Quiet!NewSilence,
      Quiet!Parties
  <2>2. ASSUME Quiet!Init, NEW h \in Handlers
        PROVE  JudgeOK(sweep[h]) /\ \A p \in Quiet!Parties : ~Quiet!At(h, p)
    BY <2>2, SilenceIdle DEF Quiet!Init, JudgeOK, Quiet!At, Quiet!Parties
  <2>3. ASSUME Quiet!Init PROVE warned = FALSE /\ connected = {} /\ silence.noticed = FALSE
    BY <2>3 DEF Quiet!Init, Quiet!NewSilence
  <2> QED BY <2>1, <2>2, <2>3 DEF SilenceInv
<1> QED BY <1>1, SilenceStep, PTL DEF Quiet!Spec

-----------------------------------------------------------------------------
(* Whispers                                                                *)

\* A drain or a socket that still has the note to show or to give up.
Carries(s, n) == n \in console[s].replay

\* A socket has an agent while it is there, notes in hand between reading and sending, and has
\* joined, once it has come that far, if its agent held the conversation when it opened.
SocketOK(s) ==
  /\ console[s].pc = "off" <=> console[s].agent = Nobody
  /\ console[s].joined => console[s].pc # "off"
  /\ console[s].pc # "join" => console[s].joined = console[s].held
  /\ console[s].pc \notin {"delete", "send"} => console[s].replay = {}

\* A note is held and in hand only once it has been judged, and for its addressee.
NoteOK(n) ==
  /\ note[n].held => note[n].pc = "over" /\ note[n].to \in Agents
  /\ note[n].steady => note[n].pc # "none" /\ note[n].to \in Agents
  /\ note[n].pc # "over" => note[n].replayed = 0
  /\ \A s \in Consoles : Carries(s, n) => note[n].pc = "over" /\ note[n].to = console[s].agent

\* Some socket of the agent's, another than s, has set the key and not begun to close.
MarkedBeside(s, a) == \E r \in Coaching!Of(a) \ {s} : Coaching!Marked(r)

\* The key's history is what it says.
KeyOK(a) ==
  key[a] \in {"set", "gone"} <=> \E s \in Coaching!Of(a) : Coaching!Marked(s)

HeldNothing(a) == \A s \in Coaching!Of(a) : ~console[s].held

\* While a steady note is on its way, its addressee's connection stands still.
BroadcastOK(n) ==
  note[n].steady /\ note[n].pc = "broadcast" =>
    /\ Coaching!Settled(note[n].to)
    /\ note[n].heard <=> Coaching!Listening(note[n].to)
    /\ note[n].late <=> HeldNothing(note[n].to)

\* A steady note that has been judged was heard, or is held, or is in one socket's hands, or
\* was replayed, or has lapsed, or the key misled: and no two of the first four, but that one
\* that was heard beside a key that had gone is held too.
JudgedOK(n) ==
  note[n].steady /\ note[n].pc = "over" =>
    /\ note[n].heard /\ note[n].judged # "gone" =>
         ~note[n].held /\ note[n].replayed = 0 /\ \A s \in Consoles : ~Carries(s, n)
    /\ note[n].held => /\ note[n].replayed = 0
                       /\ \A s \in Consoles : Carries(s, n) => console[s].pc = "delete"
                       /\ \A s \in Consoles : console[s].agent = note[n].to
                                            /\ console[s].pc = "delete" => Carries(s, n)
    /\ \A s \in Consoles : Carries(s, n) =>
         /\ note[n].replayed = 0
         /\ console[s].pc = "delete" => note[n].held \/ note[n].lapsed
    /\ \A s, r \in Consoles : Carries(s, n) /\ Carries(r, n) => s = r
    /\ note[n].replayed \in {0, 1}
    /\ \/ note[n].heard \/ note[n].held \/ note[n].replayed = 1 \/ note[n].lapsed
       \/ Coaching!MissedByKey(n)
       \/ \E s \in Consoles : Carries(s, n)

WhispersInv ==
  /\ Coaching!TypeOK
  /\ \A s \in Consoles : SocketOK(s)
  /\ \A a \in Agents : KeyOK(a)
  /\ \A n \in Notes : NoteOK(n) /\ BroadcastOK(n) /\ JudgedOK(n)
-----------------------------------------------------------------------------
LEMMA NoSocketOK ==
  /\ Coaching!NoSocket \in Coaching!Socket /\ Coaching!NoSocket.pc = "off"
  /\ Coaching!NoSocket.agent = Nobody
  /\ Coaching!NoSocket.joined = FALSE /\ Coaching!NoSocket.held = FALSE /\ Coaching!NoSocket.replay = {}
  BY DEF Coaching!NoSocket, Coaching!Socket

LEMMA NoNoteOK == Coaching!NoNote \in Coaching!Note
<1>1. 0 \in 0..2 /\ "none" \in Coaching!Key
  BY DEF Coaching!Key
<1> QED BY <1>1 DEF Coaching!NoNote, Coaching!Note

LEMMA SocketHere ==
  ASSUME WhispersInv, NEW s \in Consoles
  PROVE  /\ console[s] \in Coaching!Socket /\ SocketOK(s)
         /\ console[s].pc # "off" => console[s].agent \in Agents
  BY DEF WhispersInv, Coaching!TypeOK, SocketOK, Coaching!Socket

LEMMA NoteHere ==
  ASSUME WhispersInv, NEW n \in Notes
  PROVE  note[n] \in Coaching!Note /\ NoteOK(n) /\ BroadcastOK(n) /\ JudgedOK(n)
  BY DEF WhispersInv, Coaching!TypeOK

\* Shaking a note takes its steadiness, and nothing else.
LEMMA ShakenOK ==
  ASSUME WhispersInv, NEW a, NEW n \in Notes
  PROVE  /\ Coaching!Shaken(a)[n] \in Coaching!Note
         /\ Coaching!Shaken(a)[n].pc = note[n].pc /\ Coaching!Shaken(a)[n].to = note[n].to
         /\ Coaching!Shaken(a)[n].heard = note[n].heard
         /\ Coaching!Shaken(a)[n].held = note[n].held
         /\ Coaching!Shaken(a)[n].replayed = note[n].replayed
         /\ Coaching!Shaken(a)[n].lapsed = note[n].lapsed
         /\ Coaching!Shaken(a)[n].late = note[n].late
         /\ Coaching!Shaken(a)[n].judged = note[n].judged
         /\ Coaching!Shaken(a)[n].steady => note[n].steady
         /\ note[n].pc = "broadcast" /\ note[n].to = a => ~Coaching!Shaken(a)[n].steady
  BY NoteHere DEF Coaching!Shaken, Coaching!Note

\* The key's history, with one socket told from the others, before its step and after.
LEMMA KeyBefore ==
  ASSUME WhispersInv, NEW s \in Consoles, NEW b \in Agents
  PROVE  key[b] \in {"set", "gone"}
           <=> (console[s].agent = b /\ Coaching!Marked(s)) \/ MarkedBeside(s, b)
<1>1. KeyOK(b)
  BY DEF WhispersInv
<1> QED BY <1>1 DEF KeyOK, MarkedBeside, Coaching!Of

LEMMA KeyAfter ==
  ASSUME WhispersInv, NEW s \in Consoles, NEW b \in Agents, NEW f \in Coaching!Socket,
         Coaching!Step(s, f),
         key'[b] \in {"set", "gone"}
           <=> (f.agent = b /\ f.pc \in {"drain", "delete", "send", "open"})
               \/ MarkedBeside(s, b)
  PROVE  KeyOK(b)'
<1>1. console'[s] = f /\ \A r \in Consoles \ {s} : console'[r] = console[r]
  BY DEF Coaching!Step, WhispersInv, Coaching!TypeOK
<1>2. MarkedBeside(s, b) <=>
        \E r \in Consoles \ {s} :
          console'[r].agent = b /\ console'[r].pc \in {"drain", "delete", "send", "open"}
  BY <1>1 DEF MarkedBeside, Coaching!Of, Coaching!Marked
<1>3. (\E r \in Coaching!Of(b) : Coaching!Marked(r))' <=>
        \E r \in Consoles :
          console'[r].agent = b /\ console'[r].pc \in {"drain", "delete", "send", "open"}
  BY DEF Coaching!Of, Coaching!Marked
<1> QED BY <1>1, <1>2, <1>3 DEF KeyOK

\* What one agent's socket does is nothing to another's connection.
LEMMA OthersStand ==
  ASSUME WhispersInv, NEW s \in Consoles, NEW b \in Agents, NEW f \in Coaching!Socket,
         Coaching!Step(s, f),
         console[s].agent \in {b, Nobody}, f.agent \in {b, Nobody}, Coaching!WhispersAssumption,
         NEW a \in Agents, a # b
  PROVE  /\ Coaching!Settled(a)' <=> Coaching!Settled(a)
         /\ Coaching!Listening(a)' <=> Coaching!Listening(a)
         /\ HeldNothing(a)' <=> HeldNothing(a)
         /\ key'[a] = key[a] => KeyOK(a)'
<1>1. \A r \in Consoles \ {s} : console'[r] = console[r]
  BY DEF Coaching!Step, WhispersInv, Coaching!TypeOK
<1>2. s \notin Coaching!Of(a) /\ s \notin Coaching!Of(a)'
  BY DEF Coaching!Step, Coaching!Of, Coaching!WhispersAssumption, WhispersInv, Coaching!TypeOK
<1>3. Coaching!Of(a)' = Coaching!Of(a) /\ \A r \in Coaching!Of(a) : console'[r] = console[r]
  BY <1>1, <1>2 DEF Coaching!Of
<1>4. ASSUME key'[a] = key[a] PROVE KeyOK(a)'
  <2>1. KeyOK(a)
    BY DEF WhispersInv
  <2> QED BY <1>3, <1>4, <2>1 DEF KeyOK, Coaching!Marked
<1> QED BY <1>3, <1>4 DEF Coaching!Settled, Coaching!Listening, HeldNothing

\* What is said of a note on its way stands while the sockets do.
LEMMA BroadcastStands ==
  ASSUME WhispersInv, NEW n \in Notes, UNCHANGED console,
         note'[n].pc = note[n].pc, note'[n].to = note[n].to, note'[n].heard = note[n].heard,
         note'[n].late = note[n].late, note'[n].steady => note[n].steady
  PROVE  BroadcastOK(n)'
<1>1. /\ Coaching!Settled(note[n].to)' <=> Coaching!Settled(note[n].to)
      /\ Coaching!Listening(note[n].to)' <=> Coaching!Listening(note[n].to)
      /\ HeldNothing(note[n].to)' <=> HeldNothing(note[n].to)
  BY DEF Coaching!Settled, Coaching!Listening, HeldNothing, Coaching!Of
<1> QED BY <1>1, NoteHere DEF BroadcastOK

\* A step of one socket that keeps what is said of judged notes.
LEMMA SocketStep ==
  ASSUME WhispersInv, Coaching!WhispersAssumption, NEW s \in Consoles, NEW b \in Agents,
         NEW f \in Coaching!Socket, Coaching!Step(s, f),
         console[s].agent \in {b, Nobody}, f.agent \in {b, Nobody},
         f.pc = "off" <=> f.agent = Nobody, f.joined => f.pc # "off",
         f.pc # "join" => f.joined = f.held, KeyOK(b)',
         f.pc \notin {"delete", "send"} => f.replay = {},
         key' \in [Agents -> Coaching!Key], \A a \in Agents \ {b} : key'[a] = key[a],
         UNCHANGED <<assigned, observer>>,
         note' \in [Notes -> Coaching!Note],
         \A n \in Notes :
           /\ note'[n].pc = note[n].pc /\ note'[n].to = note[n].to
           /\ note'[n].heard = note[n].heard /\ note'[n].late = note[n].late
           /\ note'[n].held => note[n].held
           /\ note[n].pc # "over" => note'[n].replayed = note[n].replayed
           /\ note'[n].steady => note[n].steady
           /\ note[n].pc = "broadcast" /\ note[n].to = b => ~note'[n].steady
           /\ n \in f.replay => note[n].pc = "over" /\ note[n].to = f.agent,
         \A n \in Notes : JudgedOK(n)'
  PROVE  WhispersInv'
<1>1. console' \in [Consoles -> Coaching!Socket] /\ console'[s] = f
      /\ \A r \in Consoles \ {s} : console'[r] = console[r]
  BY DEF Coaching!Step, WhispersInv, Coaching!TypeOK
<1>2. Coaching!TypeOK'
  BY <1>1 DEF WhispersInv, Coaching!TypeOK
<1>3. ASSUME NEW r \in Consoles PROVE SocketOK(r)'
  BY <1>1, SocketHere DEF SocketOK
<1>4. ASSUME NEW n \in Notes PROVE NoteOK(n)'
  <2>1. \A r \in Consoles :
          Carries(r, n)' => note[n].pc = "over" /\ note[n].to = console'[r].agent
    BY <1>1, NoteHere DEF NoteOK, Carries
  <2> QED BY <2>1, NoteHere DEF NoteOK
<1>5. ASSUME NEW n \in Notes PROVE BroadcastOK(n)'
  <2>1. CASE ~(note'[n].steady /\ note'[n].pc = "broadcast")
    BY <2>1 DEF BroadcastOK
  <2>2. CASE note'[n].steady /\ note'[n].pc = "broadcast"
    <3>1. PICK a \in Agents \ {b} : a = note[n].to
      BY <2>2, NoteHere DEF NoteOK
    <3>2. /\ Coaching!Settled(a) /\ (note[n].heard <=> Coaching!Listening(a))
          /\ note[n].late <=> HeldNothing(a)
      BY <2>2, <3>1, NoteHere DEF BroadcastOK
    <3>3. /\ Coaching!Settled(a)' /\ (Coaching!Listening(a)' <=> Coaching!Listening(a))
          /\ HeldNothing(a)' <=> HeldNothing(a)
      BY <3>1, <3>2, OthersStand
    <3>4. note'[n].to = a /\ note'[n].heard = note[n].heard /\ note'[n].late = note[n].late
      BY <3>1
    <3>5. /\ Coaching!Settled(note[n].to)'
          /\ Coaching!Listening(note[n].to)' <=> Coaching!Listening(a)
          /\ HeldNothing(note[n].to)' <=> HeldNothing(a)
      BY <3>3, <3>4 DEF Coaching!Settled, Coaching!Listening, HeldNothing, Coaching!Of
    <3>6. (note[n].heard)' <=> Coaching!Listening(a)
      BY <3>2, <3>4
    <3>7. (note[n].late)' <=> HeldNothing(a)
      BY <3>2, <3>4
    <3> QED BY <3>5, <3>6, <3>7 DEF BroadcastOK
  <2> QED BY <2>1, <2>2
<1>6. ASSUME NEW a \in Agents PROVE KeyOK(a)'
  <2>1. CASE a = b
    BY <2>1
  <2>2. CASE a # b
    BY <2>2, OthersStand
  <2> QED BY <2>1, <2>2
<1> QED BY <1>2, <1>3, <1>4, <1>5, <1>6 DEF WhispersInv

\* What is said of a judged note stands if the step does nothing to it but shake it, and
\* whoever has it in hand keeps it where it is, at least while it is held.
LEMMA JudgedStands ==
  ASSUME WhispersInv, NEW n \in Notes,
         note'[n].pc = note[n].pc, note'[n].to = note[n].to, note'[n].heard = note[n].heard,
         note'[n].held = note[n].held, note'[n].replayed = note[n].replayed,
         note'[n].lapsed = note[n].lapsed, note'[n].steady => note[n].steady,
         note'[n].late = note[n].late, note'[n].judged = note[n].judged,
         \A r \in Consoles : Carries(r, n)' <=> Carries(r, n),
         \A r \in Consoles : Carries(r, n) =>
           /\ note[n].held => console'[r].pc = console[r].pc
           /\ console'[r].pc = "delete" => console[r].pc = "delete",
         note[n].held =>
           \A r \in Consoles : console'[r].agent = note[n].to /\ console'[r].pc = "delete" =>
             console[r].agent = note[n].to /\ console[r].pc = "delete"
  PROVE  JudgedOK(n)'
<1>1. CASE ~(note'[n].steady /\ note'[n].pc = "over")
  BY <1>1 DEF JudgedOK
<1>2. CASE note'[n].steady /\ note'[n].pc = "over"
  <2>1. note[n].steady /\ note[n].pc = "over" /\ JudgedOK(n)
    BY <1>2, NoteHere
  <2>2. note'[n].heard /\ note'[n].judged # "gone" =>
          ~note'[n].held /\ note'[n].replayed = 0 /\ \A s \in Consoles : ~Carries(s, n)'
    BY <2>1 DEF JudgedOK
  <2>3. note'[n].held =>
          /\ note'[n].replayed = 0
          /\ \A s \in Consoles : Carries(s, n)' => console'[s].pc = "delete"
          /\ \A s \in Consoles : console'[s].agent = note'[n].to /\ console'[s].pc = "delete" =>
               Carries(s, n)'
    BY <2>1 DEF JudgedOK
  <2>4. \A s \in Consoles : Carries(s, n)' =>
          /\ note'[n].replayed = 0
          /\ console'[s].pc = "delete" => note'[n].held \/ note'[n].lapsed
    BY <2>1 DEF JudgedOK
  <2>5. /\ \A s, r \in Consoles : Carries(s, n)' /\ Carries(r, n)' => s = r
        /\ note'[n].replayed \in {0, 1}
        /\ \/ note'[n].heard \/ note'[n].held \/ note'[n].replayed = 1 \/ note'[n].lapsed
           \/ Coaching!MissedByKey(n)'
           \/ \E s \in Consoles : Carries(s, n)'
    BY <2>1 DEF JudgedOK, Coaching!MissedByKey
  <2> QED BY <2>2, <2>3, <2>4, <2>5 DEF JudgedOK
<1> QED BY <1>1, <1>2

\* A step of one socket that has no notes in hand, before it or after.
LEMMA EmptyHanded ==
  ASSUME WhispersInv, Coaching!WhispersAssumption, NEW s \in Consoles, NEW b \in Agents,
         NEW f \in Coaching!Socket, Coaching!Step(s, f),
         console[s].agent \in {b, Nobody}, f.agent \in {b, Nobody},
         f.pc = "off" <=> f.agent = Nobody, f.joined => f.pc # "off",
         f.pc # "join" => f.joined = f.held, KeyOK(b)',
         f.pc \notin {"delete", "send"}, f.replay = {},
         console[s].pc \notin {"delete", "send"},
         key' \in [Agents -> Coaching!Key], \A a \in Agents \ {b} : key'[a] = key[a],
         UNCHANGED <<assigned, observer>>,
         note' = Coaching!Shaken(b)
  PROVE  WhispersInv'
<1>1. note' \in [Notes -> Coaching!Note]
  <2>1. \A n \in Notes : Coaching!Shaken(b)[n] \in Coaching!Note
    BY ShakenOK
  <2> QED BY <2>1 DEF Coaching!Shaken
<1>2. \A n \in Notes :
        /\ note'[n].pc = note[n].pc /\ note'[n].to = note[n].to
        /\ note'[n].heard = note[n].heard /\ note'[n].held = note[n].held
        /\ note'[n].replayed = note[n].replayed /\ note'[n].lapsed = note[n].lapsed
        /\ note'[n].late = note[n].late /\ note'[n].judged = note[n].judged
        /\ note'[n].steady => note[n].steady
        /\ note[n].pc = "broadcast" /\ note[n].to = b => ~note'[n].steady
  BY ShakenOK
<1>3. console'[s] = f /\ console[s].replay = {}
      /\ \A r \in Consoles \ {s} : console'[r] = console[r]
  BY SocketHere DEF Coaching!Step, WhispersInv, Coaching!TypeOK, SocketOK
<1>4. ASSUME NEW n \in Notes PROVE JudgedOK(n)'
  <2>1. \A r \in Consoles : Carries(r, n)' <=> Carries(r, n)
    BY <1>3 DEF Carries
  <2>2. \A r \in Consoles : /\ console'[r].pc = "delete" <=> console[r].pc = "delete"
                            /\ console'[r].pc = "delete" => console'[r].agent = console[r].agent
    BY <1>3
  <2>3. \A r \in Consoles : Carries(r, n) => console'[r] = console[r]
    BY <1>3 DEF Carries
  <2>4. /\ note'[n].pc = note[n].pc /\ note'[n].to = note[n].to
        /\ note'[n].heard = note[n].heard /\ note'[n].held = note[n].held
        /\ note'[n].replayed = note[n].replayed /\ note'[n].lapsed = note[n].lapsed
        /\ note'[n].late = note[n].late /\ note'[n].judged = note[n].judged
        /\ note'[n].steady => note[n].steady
    BY <1>2
  <2>5. \A r \in Consoles : Carries(r, n) =>
          /\ note[n].held => console'[r].pc = console[r].pc
          /\ console'[r].pc = "delete" => console[r].pc = "delete"
    BY <2>3
  <2>6. \A r \in Consoles : console'[r].agent = note[n].to /\ console'[r].pc = "delete" =>
          console[r].agent = note[n].to /\ console[r].pc = "delete"
    BY <2>2
  <2> QED BY <2>1, <2>4, <2>5, <2>6, JudgedStands
<1> QED BY <1>1, <1>2, <1>4, SocketStep

LEMMA QuietSocketsOK ==
  ASSUME WhispersInv, Coaching!WhispersAssumption, NEW s \in Consoles,
         \/ \E a \in Agents : Coaching!Connect(s, a)
         \/ Coaching!Join(s) \/ Coaching!MarkOpen(s)
         \/ Coaching!Disconnect(s) \/ Coaching!Leave(s)
  PROVE  WhispersInv'
<1>1. /\ console[s] \in Coaching!Socket /\ (console[s].pc = "off" <=> console[s].agent = Nobody)
      /\ console[s].pc # "off" => console[s].agent \in Agents
      /\ console[s].pc \notin {"delete", "send"} => console[s].replay = {}
      /\ console[s].pc # "join" => console[s].joined = console[s].held
  BY SocketHere DEF SocketOK
<1>2. key \in [Agents -> Coaching!Key] /\ {"none", "set", "gone"} \subseteq Coaching!Key
  BY DEF WhispersInv, Coaching!TypeOK, Coaching!Key
<1>3. ASSUME NEW a \in Agents, Coaching!Connect(s, a) PROVE WhispersInv'
  <2> DEFINE f == [Coaching!NoSocket EXCEPT !.pc = "join", !.agent = a, !.held = (assigned = a)]
  <2>1. f \in Coaching!Socket /\ f.pc = "join" /\ f.agent = a /\ f.replay = {}
    <3>1. (assigned = a) \in BOOLEAN
      OBVIOUS
    <3> QED BY <3>1 DEF Coaching!NoSocket, Coaching!Socket
  <2>2. console[s].pc = "off" /\ Coaching!Step(s, f) /\ note' = Coaching!Shaken(a)
        /\ UNCHANGED <<assigned, observer, key>>
    BY <1>3 DEF Coaching!Connect
  <2>3. a # Nobody
    BY DEF Coaching!WhispersAssumption
  <2> HIDE DEF f
  <2>4. KeyOK(a)'
    BY <1>1, <2>1, <2>2, <2>3, KeyBefore, KeyAfter
  <2> QED BY <1>1, <1>2, <2>1, <2>2, <2>3, <2>4, EmptyHanded
<1>4. CASE Coaching!Join(s)
  <2> DEFINE f == [console[s] EXCEPT !.pc = "mark", !.joined = console[s].held]
  <2>1. console[s].pc = "join" /\ Coaching!Step(s, f) /\ note' = Coaching!Shaken(console[s].agent)
        /\ UNCHANGED <<assigned, observer, key>>
    BY <1>4 DEF Coaching!Join
  <2>2. f \in Coaching!Socket /\ f.pc = "mark" /\ f.agent = console[s].agent
        /\ f.replay = console[s].replay /\ f.joined = f.held
    BY <1>1 DEF Coaching!Socket
  <2> HIDE DEF f
  <2>3. PICK b \in Agents : b = console[s].agent
    BY <1>1, <2>1
  <2>4. KeyOK(b)'
    BY <2>1, <2>2, <2>3, KeyBefore, KeyAfter DEF Coaching!Marked
  <2> QED BY <1>1, <1>2, <2>1, <2>2, <2>3, <2>4, EmptyHanded
<1>5. CASE Coaching!MarkOpen(s)
  <2> DEFINE f == [console[s] EXCEPT !.pc = IF console[s].held THEN "drain" ELSE "open"]
  <2>1. console[s].pc = "mark" /\ Coaching!Step(s, f) /\ note' = Coaching!Shaken(console[s].agent)
        /\ key' = [key EXCEPT ![console[s].agent] = "set"] /\ UNCHANGED <<assigned, observer>>
    BY <1>5 DEF Coaching!MarkOpen
  <2>2. /\ f \in Coaching!Socket /\ f.pc \in {"drain", "open"} /\ f.agent = console[s].agent
        /\ f.replay = console[s].replay /\ f.joined = f.held
    BY <1>1, <2>1 DEF Coaching!Socket
  <2> HIDE DEF f
  <2>3. PICK b \in Agents : b = console[s].agent
    BY <1>1, <2>1
  <2>4. key'[b] = "set" /\ key' \in [Agents -> Coaching!Key]
        /\ \A a \in Agents \ {b} : key'[a] = key[a]
    BY <1>2, <2>1, <2>3
  <2>5. KeyOK(b)'
    BY <2>1, <2>2, <2>3, <2>4, KeyAfter
  <2> QED BY <1>1, <1>2, <2>1, <2>2, <2>3, <2>4, <2>5, EmptyHanded
<1>6. CASE Coaching!Disconnect(s)
  <2> DEFINE f == [console[s] EXCEPT !.pc = "leave"]
  <2>1. console[s].pc = "open" /\ Coaching!Step(s, f) /\ note' = Coaching!Shaken(console[s].agent)
        /\ key' = [key EXCEPT ![console[s].agent] = IF Coaching!LastMarked(s) THEN "none" ELSE "gone"]
        /\ UNCHANGED <<assigned, observer>>
    BY <1>6 DEF Coaching!Disconnect
  <2>2. f \in Coaching!Socket /\ f.pc = "leave" /\ f.agent = console[s].agent
        /\ f.replay = console[s].replay /\ f.joined = f.held
    BY <1>1, <2>1 DEF Coaching!Socket
  <2> HIDE DEF f
  <2>3. PICK b \in Agents : b = console[s].agent
    BY <1>1, <2>1
  <2>4. /\ key'[b] = (IF MarkedBeside(s, b) THEN "gone" ELSE "none")
        /\ key' \in [Agents -> Coaching!Key]
        /\ \A a \in Agents \ {b} : key'[a] = key[a]
    BY <1>2, <2>1, <2>3 DEF Coaching!LastMarked, MarkedBeside
  <2>5. KeyOK(b)'
    BY <2>1, <2>2, <2>3, <2>4, KeyAfter
  <2> QED BY <1>1, <1>2, <2>1, <2>2, <2>3, <2>4, <2>5, EmptyHanded
<1>7. CASE Coaching!Leave(s)
  <2>1. console[s].pc = "leave" /\ Coaching!Step(s, Coaching!NoSocket)
        /\ note' = Coaching!Shaken(console[s].agent)
        /\ UNCHANGED <<assigned, observer, key>>
    BY <1>7 DEF Coaching!Leave
  <2>2. PICK b \in Agents : b = console[s].agent
    BY <1>1, <2>1
  <2>3. KeyOK(b)'
    BY <2>1, <2>2, NoSocketOK, KeyBefore, KeyAfter DEF Coaching!Marked
  <2> QED BY <1>1, <1>2, <2>1, <2>2, <2>3, NoSocketOK, EmptyHanded
<1> QED BY <1>3, <1>4, <1>5, <1>6, <1>7
-----------------------------------------------------------------------------
\* Draining: what is read is all that is held, and steady only for one reader at a time.
LEMMA DrainReadOK ==
  ASSUME WhispersInv, Coaching!WhispersAssumption, NEW s \in Consoles, Coaching!DrainRead(s)
  PROVE  WhispersInv'
<1> DEFINE a == console[s].agent
           f == [console[s] EXCEPT !.pc = IF Coaching!HeldFor(a) = {} THEN "open" ELSE "delete",
                                  !.replay = Coaching!HeldFor(a)]
           shared == \E r \in Coaching!Of(a) \ {s} : console[r].pc = "delete"
<1>1. /\ console[s].pc = "drain" /\ Coaching!Step(s, f) /\ UNCHANGED <<assigned, observer, key>>
      /\ note' = [n \in Notes |-> IF shared /\ n \in Coaching!HeldFor(a)
                                  THEN [note[n] EXCEPT !.steady = FALSE]
                                  ELSE Coaching!Shaken(a)[n]]
  BY DEF Coaching!DrainRead
<1>2. a \in Agents /\ console[s].replay = {} /\ console[s] \in Coaching!Socket
      /\ key \in [Agents -> Coaching!Key]
  BY <1>1, SocketHere DEF SocketOK, WhispersInv, Coaching!TypeOK
<1>3. /\ f \in Coaching!Socket /\ f.agent = a /\ f.replay = Coaching!HeldFor(a)
      /\ f.pc \in {"open", "delete"} /\ f.joined = f.held
      /\ f.pc # "delete" => f.replay = {}
  BY <1>1, <1>2, SocketHere DEF Coaching!Socket, Coaching!HeldFor, SocketOK
<1>4. a # Nobody
  BY <1>2 DEF Coaching!WhispersAssumption
<1> HIDE DEF f
<1>5. ASSUME NEW n \in Notes
      PROVE  /\ note'[n] \in Coaching!Note
             /\ note'[n].pc = note[n].pc /\ note'[n].to = note[n].to
             /\ note'[n].heard = note[n].heard /\ note'[n].held = note[n].held
             /\ note'[n].replayed = note[n].replayed /\ note'[n].lapsed = note[n].lapsed
             /\ note'[n].late = note[n].late /\ note'[n].judged = note[n].judged
             /\ note'[n].steady => note[n].steady
             /\ note[n].pc = "broadcast" /\ note[n].to = a => ~note'[n].steady
             /\ shared /\ n \in Coaching!HeldFor(a) => ~note'[n].steady
  <2>1. CASE shared /\ n \in Coaching!HeldFor(a)
    <3>1. note'[n] = [note[n] EXCEPT !.steady = FALSE]
      BY <1>1, <2>1
    <3> QED BY <3>1, NoteHere DEF Coaching!Note
  <2>2. CASE ~(shared /\ n \in Coaching!HeldFor(a))
    <3>1. note'[n] = Coaching!Shaken(a)[n]
      BY <1>1, <2>2
    <3> QED BY <3>1, <2>2, ShakenOK
  <2> QED BY <2>1, <2>2
<1>6. note' \in [Notes -> Coaching!Note]
  BY <1>1, <1>5
<1>7. ASSUME NEW n \in Notes, n \in Coaching!HeldFor(a)
      PROVE  note[n].pc = "over" /\ note[n].to = a /\ note[n].held
  BY <1>7, NoteHere DEF Coaching!HeldFor, NoteOK
<1>8. console'[s] = f /\ \A r \in Consoles \ {s} : console'[r] = console[r]
  BY <1>1 DEF Coaching!Step, WhispersInv, Coaching!TypeOK
<1>9. ASSUME NEW n \in Notes PROVE JudgedOK(n)'
  <2>1. CASE ~note'[n].steady \/ note'[n].pc # "over"
    BY <2>1 DEF JudgedOK
  <2>2. CASE note'[n].steady /\ note'[n].pc = "over" /\ n \notin Coaching!HeldFor(a)
    <3>1. \A r \in Consoles : Carries(r, n)' <=> Carries(r, n)
      BY <1>2, <1>3, <1>8, <2>2 DEF Carries
    <3>2. note[n].to = a => ~note[n].held
      BY <2>2 DEF Coaching!HeldFor
    <3>3. \A r \in Consoles : Carries(r, n)' => console'[r] = console[r]
      BY <1>2, <1>8, <3>1 DEF Carries
    <3>4. note[n].held =>
            \A r \in Consoles : console'[r].agent = note[n].to => console'[r] = console[r]
      BY <1>3, <1>8, <3>2
    <3> QED BY <1>5, <3>1, <3>3, <3>4, JudgedStands
  <2>3. CASE note'[n].steady /\ note'[n].pc = "over" /\ n \in Coaching!HeldFor(a)
    <3>1. ~shared /\ note[n].steady /\ note[n].held /\ note[n].pc = "over" /\ note[n].to = a
      BY <1>5, <1>7, <2>3
    <3>2. ASSUME NEW r \in Consoles \ {s} PROVE ~Carries(r, n)
      BY <3>1, NoteHere DEF JudgedOK, NoteOK, Coaching!Of
    <3>3. (note[n].heard => note[n].judged = "gone") /\ note[n].replayed = 0
      BY <3>1, NoteHere DEF JudgedOK
    <3>4. \A r \in Consoles : Carries(r, n)' <=> r = s
      BY <1>3, <1>8, <2>3, <3>2 DEF Carries
    <3>5. f.pc = "delete"
      BY <1>3, <2>3
    <3>6. \A r \in Consoles : console'[r].agent = a /\ console'[r].pc = "delete" => r = s
      BY <1>8, <3>1 DEF Coaching!Of
    <3>7. note'[n].held /\ (note'[n].heard => note'[n].judged = "gone")
          /\ note'[n].replayed = 0 /\ note'[n].to = a /\ console'[s].pc = "delete"
      BY <1>5, <1>8, <3>1, <3>3, <3>5
    <3> QED BY <3>4, <3>6, <3>7 DEF JudgedOK
  <2> QED BY <2>1, <2>2, <2>3
<1>10. \A n \in Notes :
         /\ note'[n].pc = note[n].pc /\ note'[n].to = note[n].to
         /\ note'[n].heard = note[n].heard /\ note'[n].late = note[n].late
         /\ note'[n].held => note[n].held
         /\ note[n].pc # "over" => note'[n].replayed = note[n].replayed
         /\ note'[n].steady => note[n].steady
         /\ note[n].pc = "broadcast" /\ note[n].to = a => ~note'[n].steady
         /\ n \in f.replay => note[n].pc = "over" /\ note[n].to = f.agent
  BY <1>3, <1>5, <1>7
<1>11. console[s].agent = a
  OBVIOUS
<1> HIDE DEF a, shared
<1>12. PICK b \in Agents : b = a
  BY <1>2
<1>13. KeyOK(b)'
  BY <1>1, <1>3, <1>11, <1>12, KeyBefore, KeyAfter DEF Coaching!Marked
<1> QED BY <1>1, <1>2, <1>3, <1>4, <1>6, <1>9, <1>10, <1>11, <1>12, <1>13, SocketStep

LEMMA DrainDeleteOK ==
  ASSUME WhispersInv, Coaching!WhispersAssumption, NEW s \in Consoles, Coaching!DrainDelete(s)
  PROVE  WhispersInv'
<1> DEFINE a == console[s].agent
           f == [console[s] EXCEPT !.pc = "send"]
<1>1. /\ console[s].pc = "delete" /\ Coaching!Step(s, f) /\ UNCHANGED <<assigned, observer, key>>
      /\ note' = [n \in Notes |-> IF n \in Coaching!HeldFor(a)
                                  THEN [note[n] EXCEPT !.held = FALSE] ELSE Coaching!Shaken(a)[n]]
  BY DEF Coaching!DrainDelete
<1>2. a \in Agents /\ console[s] \in Coaching!Socket /\ key \in [Agents -> Coaching!Key] /\ a # Nobody
  BY <1>1, SocketHere DEF WhispersInv, Coaching!TypeOK, Coaching!WhispersAssumption
<1>3. /\ f \in Coaching!Socket /\ f.agent = a /\ f.replay = console[s].replay /\ f.pc = "send"
      /\ f.joined = f.held
  BY <1>1, <1>2, SocketHere DEF Coaching!Socket, SocketOK
<1> HIDE DEF f
<1>4. ASSUME NEW n \in Notes
      PROVE  /\ note'[n] \in Coaching!Note
             /\ note'[n].pc = note[n].pc /\ note'[n].to = note[n].to
             /\ note'[n].heard = note[n].heard
             /\ note'[n].held <=> note[n].held /\ n \notin Coaching!HeldFor(a)
             /\ note'[n].replayed = note[n].replayed /\ note'[n].lapsed = note[n].lapsed
             /\ note'[n].late = note[n].late /\ note'[n].judged = note[n].judged
             /\ note'[n].steady => note[n].steady
             /\ note[n].pc = "broadcast" /\ note[n].to = a => ~note'[n].steady
  <2>1. CASE n \in Coaching!HeldFor(a)
    <3>1. note'[n] = [note[n] EXCEPT !.held = FALSE]
      BY <1>1, <2>1
    <3>2. note[n].pc = "over"
      BY <2>1, NoteHere DEF Coaching!HeldFor, NoteOK
    <3> QED BY <2>1, <3>1, <3>2, NoteHere DEF Coaching!Note
  <2>2. CASE n \notin Coaching!HeldFor(a)
    <3>1. note'[n] = Coaching!Shaken(a)[n]
      BY <1>1, <2>2
    <3> QED BY <3>1, <2>2, ShakenOK
  <2> QED BY <2>1, <2>2
<1>5. note' \in [Notes -> Coaching!Note]
  BY <1>1, <1>4
<1>6. console'[s] = f /\ \A r \in Consoles \ {s} : console'[r] = console[r]
  BY <1>1 DEF Coaching!Step, WhispersInv, Coaching!TypeOK
<1>7. \A n \in Notes, r \in Consoles : Carries(r, n)' <=> Carries(r, n)
  BY <1>3, <1>6 DEF Carries
<1>8. ASSUME NEW n \in Notes PROVE JudgedOK(n)'
  <2> SUFFICES ASSUME note'[n].steady, note'[n].pc = "over" PROVE JudgedOK(n)'
    BY DEF JudgedOK
  <2>1. note[n].steady /\ note[n].pc = "over" /\ note[n].to \in Agents
    BY <1>4, NoteHere DEF NoteOK
  <2>2. Carries(s, n) => note[n].to = a
    BY NoteHere DEF NoteOK
  <2>3. CASE n \in Coaching!HeldFor(a)
    <3>1. note[n].held /\ note[n].to = a
      BY <2>3 DEF Coaching!HeldFor
    <3>2. Carries(s, n) /\ note[n].replayed = 0 /\ (note[n].heard => note[n].judged = "gone")
      BY <1>1, <2>1, <3>1, NoteHere DEF JudgedOK
    <3>3. \A r \in Consoles : Carries(r, n)' <=> r = s
      BY <1>7, <2>1, <3>2, NoteHere DEF JudgedOK
    <3>4. ~note'[n].held /\ (note'[n].heard => note'[n].judged = "gone")
          /\ note'[n].replayed = 0 /\ console'[s].pc = "send"
      BY <1>3, <1>4, <1>6, <2>3, <3>2
    <3> QED BY <3>3, <3>4 DEF JudgedOK
  <2>4. CASE n \notin Coaching!HeldFor(a)
    <3>1. note[n].held => note[n].to # a
      BY <2>4 DEF Coaching!HeldFor
    <3>2. \A r \in Consoles : Carries(r, n) =>
            /\ note[n].held => console'[r].pc = console[r].pc
            /\ console'[r].pc = "delete" => console[r].pc = "delete"
      BY <1>3, <1>6, <2>2, <3>1
    <3>3. \A r \in Consoles : console'[r].pc = "delete" => console'[r] = console[r]
      BY <1>3, <1>6
    <3>4. note'[n].held = note[n].held
      BY <1>4, <2>4, NoteHere DEF Coaching!Note
    <3> QED BY <1>4, <1>7, <3>2, <3>3, <3>4, JudgedStands
  <2> QED BY <2>3, <2>4
<1>9. ASSUME NEW n \in Notes, n \in f.replay PROVE note[n].pc = "over" /\ note[n].to = a
  BY <1>3, <1>9, NoteHere DEF NoteOK, Carries
<1>10. \A n \in Notes :
         /\ note'[n].pc = note[n].pc /\ note'[n].to = note[n].to
         /\ note'[n].heard = note[n].heard /\ note'[n].late = note[n].late
         /\ note'[n].held => note[n].held
         /\ note[n].pc # "over" => note'[n].replayed = note[n].replayed
         /\ note'[n].steady => note[n].steady
         /\ note[n].pc = "broadcast" /\ note[n].to = a => ~note'[n].steady
         /\ n \in f.replay => note[n].pc = "over" /\ note[n].to = f.agent
  BY <1>3, <1>4, <1>9
<1>11. console[s].agent = a
  OBVIOUS
<1> HIDE DEF a
<1>12. PICK b \in Agents : b = a
  BY <1>2
<1>13. KeyOK(b)'
  BY <1>1, <1>3, <1>11, <1>12, KeyBefore, KeyAfter DEF Coaching!Marked
<1> QED BY <1>1, <1>2, <1>3, <1>5, <1>8, <1>10, <1>11, <1>12, <1>13, SocketStep

LEMMA ReplayOK ==
  ASSUME WhispersInv, Coaching!WhispersAssumption, NEW s \in Consoles, Coaching!Replay(s)
  PROVE  WhispersInv'
<1> DEFINE a == console[s].agent
           f == [console[s] EXCEPT !.pc = "open", !.replay = {}]
<1>1. /\ console[s].pc = "send" /\ Coaching!Step(s, f) /\ UNCHANGED <<assigned, observer, key>>
      /\ note' = [n \in Notes |->
           IF n \in console[s].replay
           THEN [note[n] EXCEPT !.replayed = IF @ = 2 THEN 2 ELSE @ + 1]
           ELSE Coaching!Shaken(a)[n]]
  BY DEF Coaching!Replay
<1>2. a \in Agents /\ console[s] \in Coaching!Socket /\ key \in [Agents -> Coaching!Key] /\ a # Nobody
  BY <1>1, SocketHere DEF WhispersInv, Coaching!TypeOK, Coaching!WhispersAssumption
<1>3. f \in Coaching!Socket /\ f.agent = a /\ f.replay = {} /\ f.pc = "open" /\ f.joined = f.held
  BY <1>1, <1>2, SocketHere DEF Coaching!Socket, SocketOK
<1> HIDE DEF f
<1>4. ASSUME NEW n \in Notes
      PROVE  /\ note'[n] \in Coaching!Note
             /\ note'[n].pc = note[n].pc /\ note'[n].to = note[n].to
             /\ note'[n].heard = note[n].heard /\ note'[n].held = note[n].held
             /\ note'[n].lapsed = note[n].lapsed
             /\ note'[n].late = note[n].late /\ note'[n].judged = note[n].judged
             /\ note'[n].replayed = IF Carries(s, n) /\ note[n].replayed # 2
                                    THEN note[n].replayed + 1 ELSE note[n].replayed
             /\ note'[n].steady => note[n].steady
             /\ note[n].pc = "broadcast" /\ note[n].to = a => ~note'[n].steady
  <2>1. CASE Carries(s, n)
    <3> DEFINE k == IF note[n].replayed = 2 THEN 2 ELSE note[n].replayed + 1
    <3>1. note'[n] = [note[n] EXCEPT !.replayed = k]
      BY <1>1, <2>1 DEF Carries
    <3>2. k \in 0..2
      BY NoteHere DEF Coaching!Note
    <3>3. note[n].pc = "over"
      BY <2>1, NoteHere DEF NoteOK
    <3>4. k = IF note[n].replayed # 2 THEN note[n].replayed + 1 ELSE note[n].replayed
      OBVIOUS
    <3> HIDE DEF k
    <3> QED BY <2>1, <3>1, <3>2, <3>3, <3>4, NoteHere DEF Coaching!Note
  <2>2. CASE ~Carries(s, n)
    <3>1. note'[n] = Coaching!Shaken(a)[n]
      BY <1>1, <2>2 DEF Carries
    <3> QED BY <3>1, <2>2, ShakenOK
  <2> QED BY <2>1, <2>2
<1>5. note' \in [Notes -> Coaching!Note]
  BY <1>1, <1>4
<1>6. console'[s] = f /\ \A r \in Consoles \ {s} : console'[r] = console[r]
  BY <1>1 DEF Coaching!Step, WhispersInv, Coaching!TypeOK
<1>7. \A n \in Notes, r \in Consoles : Carries(r, n)' <=> Carries(r, n) /\ r # s
  BY <1>3, <1>6 DEF Carries
<1>8. ASSUME NEW n \in Notes PROVE JudgedOK(n)'
  <2> SUFFICES ASSUME note'[n].steady, note'[n].pc = "over" PROVE JudgedOK(n)'
    BY DEF JudgedOK
  <2>1. note[n].steady /\ note[n].pc = "over"
    BY <1>4
  <2>2. CASE Carries(s, n)
    <3>1. /\ note[n].replayed = 0 /\ (note[n].heard => note[n].judged = "gone") /\ ~note[n].held
          /\ \A r \in Consoles : Carries(r, n) => r = s
      BY <1>1, <2>1, <2>2, NoteHere DEF JudgedOK
    <3>2. note'[n].replayed = 1 /\ \A r \in Consoles : ~Carries(r, n)'
      BY <1>4, <1>7, <2>2, <3>1
    <3> QED BY <1>4, <3>1, <3>2 DEF JudgedOK
  <2>3. CASE ~Carries(s, n)
    <3>1. note'[n].replayed = note[n].replayed
      BY <1>4, <2>3
    <3>2. \A r \in Consoles : (Carries(r, n)' <=> Carries(r, n))
                             /\ (Carries(r, n) => console'[r] = console[r])
      BY <1>6, <1>7, <2>3
    <3>3. \A r \in Consoles : console'[r].pc = "delete" => console'[r] = console[r]
      BY <1>3, <1>6
    <3> QED BY <1>4, <3>1, <3>2, <3>3, JudgedStands
  <2> QED BY <2>2, <2>3
<1>9. ASSUME NEW n \in Notes, note[n].pc # "over" PROVE note'[n].replayed = note[n].replayed
  BY <1>4, <1>9, NoteHere DEF NoteOK
<1>10. \A n \in Notes :
         /\ note'[n].pc = note[n].pc /\ note'[n].to = note[n].to
         /\ note'[n].heard = note[n].heard /\ note'[n].late = note[n].late
         /\ note'[n].held => note[n].held
         /\ note[n].pc # "over" => note'[n].replayed = note[n].replayed
         /\ note'[n].steady => note[n].steady
         /\ note[n].pc = "broadcast" /\ note[n].to = a => ~note'[n].steady
         /\ n \in f.replay => note[n].pc = "over" /\ note[n].to = f.agent
  BY <1>3, <1>4, <1>9
<1>11. console[s].agent = a
  OBVIOUS
<1> HIDE DEF a
<1>12. PICK b \in Agents : b = a
  BY <1>2
<1>13. KeyOK(b)'
  BY <1>1, <1>3, <1>11, <1>12, KeyBefore, KeyAfter DEF Coaching!Marked
<1> QED BY <1>1, <1>2, <1>3, <1>5, <1>8, <1>10, <1>11, <1>12, <1>13, SocketStep

LEMMA SocketDiesOK ==
  ASSUME WhispersInv, Coaching!WhispersAssumption, NEW s \in Consoles, Coaching!SocketDies(s)
  PROVE  WhispersInv'
<1> DEFINE a == console[s].agent
           lost(n) == console[s].pc = "send" /\ n \in console[s].replay
<1>1. /\ console[s].pc # "off" /\ Coaching!Step(s, Coaching!NoSocket)
      /\ UNCHANGED <<assigned, observer>>
      /\ key' = [key EXCEPT ![a] = CASE Coaching!LastMarked(s) /\ @ = "set" -> "orphan"
                                     [] Coaching!LastMarked(s) /\ @ = "gone" -> "none"
                                     [] OTHER -> @]
      /\ note' = [n \in Notes |-> IF lost(n) THEN [note[n] EXCEPT !.steady = FALSE]
                                             ELSE Coaching!Shaken(a)[n]]
  BY DEF Coaching!SocketDies
<1>2. a \in Agents /\ key \in [Agents -> Coaching!Key] /\ a # Nobody
  BY <1>1, SocketHere DEF WhispersInv, Coaching!TypeOK, Coaching!WhispersAssumption
<1>4. ASSUME NEW n \in Notes
      PROVE  /\ note'[n] \in Coaching!Note
             /\ note'[n].pc = note[n].pc /\ note'[n].to = note[n].to
             /\ note'[n].heard = note[n].heard /\ note'[n].held = note[n].held
             /\ note'[n].replayed = note[n].replayed /\ note'[n].lapsed = note[n].lapsed
             /\ note'[n].late = note[n].late /\ note'[n].judged = note[n].judged
             /\ note'[n].steady => note[n].steady /\ ~lost(n)
             /\ note[n].pc = "broadcast" /\ note[n].to = a => ~note'[n].steady
  <2>1. CASE lost(n)
    <3>1. note'[n] = [note[n] EXCEPT !.steady = FALSE]
      BY <1>1, <2>1
    <3> QED BY <3>1, NoteHere DEF Coaching!Note
  <2>2. CASE ~lost(n)
    <3>1. note'[n] = Coaching!Shaken(a)[n]
      BY <1>1, <2>2
    <3> HIDE DEF lost
    <3> QED BY <3>1, <2>2, ShakenOK
  <2> QED BY <2>1, <2>2
<1>5. note' \in [Notes -> Coaching!Note]
  BY <1>1, <1>4
<1>6. console'[s] = Coaching!NoSocket /\ \A r \in Consoles \ {s} : console'[r] = console[r]
  BY <1>1 DEF Coaching!Step, WhispersInv, Coaching!TypeOK
<1>7. \A n \in Notes, r \in Consoles : Carries(r, n)' <=> Carries(r, n) /\ r # s
  BY <1>6, NoSocketOK DEF Carries
<1>8. ASSUME NEW n \in Notes PROVE JudgedOK(n)'
  <2> SUFFICES ASSUME note'[n].steady, note'[n].pc = "over" PROVE JudgedOK(n)'
    BY DEF JudgedOK
  <2>1. note[n].steady /\ note[n].pc = "over" /\ ~lost(n)
    BY <1>4
  <2>2. Carries(s, n) => console[s].pc = "delete"
    BY <2>1, SocketHere DEF SocketOK, Carries
  <2>3. \A r \in Consoles : console'[r].pc = "delete" => console'[r] = console[r] /\ r # s
    BY <1>6, NoSocketOK
  <2>4. \A r \in Consoles : Carries(r, n)' => Carries(r, n) /\ console'[r] = console[r]
    BY <1>6, <1>7
  <2>5. note'[n].heard \/ note'[n].held \/ note'[n].replayed = 1 \/ note'[n].lapsed
        \/ Coaching!MissedByKey(n)' \/ \E r \in Consoles : Carries(r, n)'
    <3>1. CASE Carries(s, n)
      <4>1. note[n].held \/ note[n].lapsed
        BY <2>1, <2>2, <3>1, NoteHere DEF JudgedOK
      <4> QED BY <1>4, <4>1
    <3>2. CASE ~Carries(s, n)
      BY <1>4, <1>7, <2>1, <3>2, NoteHere DEF JudgedOK, Coaching!MissedByKey
    <3> QED BY <3>1, <3>2
  <2>6. note'[n].heard /\ note'[n].judged # "gone" =>
          ~note'[n].held /\ note'[n].replayed = 0 /\ \A r \in Consoles : ~Carries(r, n)'
    BY <1>4, <2>1, <2>4, NoteHere DEF JudgedOK
  <2>7. note'[n].held =>
          /\ note'[n].replayed = 0
          /\ \A r \in Consoles : Carries(r, n)' => console'[r].pc = "delete"
          /\ \A r \in Consoles : console'[r].agent = note'[n].to /\ console'[r].pc = "delete" =>
               Carries(r, n)'
    BY <1>4, <1>7, <2>1, <2>3, <2>4, NoteHere DEF JudgedOK
  <2>8. \A r \in Consoles : Carries(r, n)' =>
          /\ note'[n].replayed = 0
          /\ console'[r].pc = "delete" => note'[n].held \/ note'[n].lapsed
    BY <1>4, <2>1, <2>4, NoteHere DEF JudgedOK
  <2>9. /\ \A p, r \in Consoles : Carries(p, n)' /\ Carries(r, n)' => p = r
        /\ note'[n].replayed \in {0, 1}
    BY <1>4, <2>1, <2>4, NoteHere DEF JudgedOK
  <2> QED BY <2>5, <2>6, <2>7, <2>8, <2>9 DEF JudgedOK
<1>10. \A n \in Notes :
         /\ note'[n].pc = note[n].pc /\ note'[n].to = note[n].to
         /\ note'[n].heard = note[n].heard /\ note'[n].late = note[n].late
         /\ note'[n].held => note[n].held
         /\ note[n].pc # "over" => note'[n].replayed = note[n].replayed
         /\ note'[n].steady => note[n].steady
         /\ note[n].pc = "broadcast" /\ note[n].to = a => ~note'[n].steady
         /\ n \in Coaching!NoSocket.replay =>
              note[n].pc = "over" /\ note[n].to = Coaching!NoSocket.agent
  BY <1>4, NoSocketOK
<1>11. console[s].agent = a
  OBVIOUS
<1> HIDE DEF a, lost
<1>12. PICK b \in Agents : b = a
  BY <1>2
<1>13. Coaching!LastMarked(s) <=> ~MarkedBeside(s, b)
  BY <1>11, <1>12 DEF Coaching!LastMarked, MarkedBeside
<1>14. /\ key' \in [Agents -> Coaching!Key] /\ \A c \in Agents \ {b} : key'[c] = key[c]
       /\ key'[b] = IF ~MarkedBeside(s, b) /\ key[b] = "set" THEN "orphan"
                    ELSE IF ~MarkedBeside(s, b) /\ key[b] = "gone" THEN "none" ELSE key[b]
  BY <1>1, <1>2, <1>12, <1>13 DEF Coaching!Key
<1>15. KeyOK(b)'
  BY <1>1, <1>12, <1>14, NoSocketOK, KeyBefore, KeyAfter
<1>16. \A n \in Notes :
         /\ note'[n].pc = note[n].pc /\ note'[n].to = note[n].to
         /\ note'[n].heard = note[n].heard /\ note'[n].late = note[n].late
         /\ note'[n].held => note[n].held
         /\ note[n].pc # "over" => note'[n].replayed = note[n].replayed
         /\ note'[n].steady => note[n].steady
         /\ note[n].pc = "broadcast" /\ note[n].to = b => ~note'[n].steady
         /\ n \in Coaching!NoSocket.replay =>
              note[n].pc = "over" /\ note[n].to = Coaching!NoSocket.agent
  BY <1>10, <1>12
<1>17. UNCHANGED <<assigned, observer>> /\ Coaching!Step(s, Coaching!NoSocket)
       /\ console[s].agent \in {b, Nobody}
  BY <1>1, <1>11, <1>12
<1> QED BY <1>5, <1>8, NoSocketOK, <1>14, <1>15, <1>16, <1>17, SocketStep
-----------------------------------------------------------------------------
\* A step that leaves the sockets alone.
LEMMA NotesStep ==
  ASSUME WhispersInv, UNCHANGED console,
         assigned' \in Agents \cup {Nobody}, observer' \in Agents \cup {Nobody},
         key' \in [Agents -> Coaching!Key],
         \A a \in Agents : key'[a] \in {"set", "gone"} <=> key[a] \in {"set", "gone"},
         note' \in [Notes -> Coaching!Note],
         \A n \in Notes : NoteOK(n)' /\ BroadcastOK(n)' /\ JudgedOK(n)'
  PROVE  WhispersInv'
<1>1. \A s \in Consoles : SocketOK(s)'
  BY SocketHere DEF SocketOK
<1>2. ASSUME NEW a \in Agents PROVE KeyOK(a)'
  <2>1. KeyOK(a)
    BY DEF WhispersInv
  <2> QED BY <2>1 DEF KeyOK, Coaching!Of, Coaching!Marked
<1> QED BY <1>1, <1>2 DEF WhispersInv, Coaching!TypeOK

\* The key's end, an assignment and the supervisor's look leave the notes alone.
LEMMA NotesStand ==
  ASSUME WhispersInv, UNCHANGED <<console, note>>,
         assigned' \in Agents \cup {Nobody}, observer' \in Agents \cup {Nobody},
         key' \in [Agents -> Coaching!Key],
         \A a \in Agents : key'[a] \in {"set", "gone"} <=> key[a] \in {"set", "gone"}
  PROVE  WhispersInv'
<1>1. note' \in [Notes -> Coaching!Note]
  BY DEF WhispersInv, Coaching!TypeOK
<1>2. ASSUME NEW n \in Notes PROVE NoteOK(n)' /\ BroadcastOK(n)' /\ JudgedOK(n)'
  <2>1. \A r \in Consoles : Carries(r, n)' <=> Carries(r, n)
    BY DEF Carries
  <2>2. NoteOK(n)'
    BY <2>1, NoteHere DEF NoteOK
  <2>3. BroadcastOK(n)'
    BY BroadcastStands
  <2> QED BY <2>1, <2>2, <2>3, JudgedStands
<1> QED BY <1>1, <1>2, NotesStep

\* What lapses is no longer held, and is known to have lapsed.
LEMMA LapseOK ==
  ASSUME WhispersInv, NEW a \in Agents,
         UNCHANGED <<console, key, observer>>, assigned' \in Agents \cup {Nobody},
         note' = Coaching!Forgotten(a)
  PROVE  WhispersInv'
<1>1. ASSUME NEW n \in Notes
      PROVE  /\ note'[n] \in Coaching!Note
             /\ note'[n].pc = note[n].pc /\ note'[n].to = note[n].to
             /\ note'[n].heard = note[n].heard /\ note'[n].replayed = note[n].replayed
             /\ note'[n].steady => note[n].steady
             /\ note'[n].late = note[n].late /\ note'[n].judged = note[n].judged
             /\ IF n \in Coaching!HeldFor(a) THEN ~note'[n].held /\ note'[n].lapsed
                ELSE note'[n].held = note[n].held /\ note'[n].lapsed = note[n].lapsed
  <2>1. CASE n \in Coaching!HeldFor(a)
    <3>1. note'[n] = [note[n] EXCEPT !.held = FALSE, !.lapsed = TRUE]
      BY <2>1 DEF Coaching!Forgotten
    <3> QED BY <2>1, <3>1, NoteHere DEF Coaching!Note
  <2>2. CASE n \notin Coaching!HeldFor(a)
    <3>1. note'[n] = note[n]
      BY <2>2 DEF Coaching!Forgotten
    <3> QED BY <2>2, <3>1, NoteHere
  <2> QED BY <2>1, <2>2
<1>2. note' \in [Notes -> Coaching!Note]
  BY <1>1 DEF Coaching!Forgotten
<1>3. \A n \in Notes, r \in Consoles : Carries(r, n)' <=> Carries(r, n)
  BY DEF Carries
<1>4. \A n \in Notes : n \in Coaching!HeldFor(a) => note[n].held /\ note[n].pc = "over"
  BY NoteHere DEF Coaching!HeldFor, NoteOK
<1>5. ASSUME NEW n \in Notes PROVE NoteOK(n)' /\ BroadcastOK(n)'
  <2>1. note'[n].held => note[n].held
    BY <1>1
  <2>2. NoteOK(n)'
    BY <1>1, <1>3, <2>1, NoteHere DEF NoteOK
  <2> QED BY <1>1, <2>2, BroadcastStands
<1>6. ASSUME NEW n \in Notes PROVE JudgedOK(n)'
  <2>1. CASE n \notin Coaching!HeldFor(a)
    BY <1>1, <1>3, <2>1, JudgedStands
  <2>2. CASE n \in Coaching!HeldFor(a)
    <3> SUFFICES ASSUME note'[n].steady PROVE JudgedOK(n)'
      BY DEF JudgedOK
    <3>1. /\ note[n].steady /\ note[n].pc = "over" /\ note[n].held
          /\ note[n].replayed = 0 /\ (note[n].heard => note[n].judged = "gone")
      BY <1>1, <1>4, <2>2, NoteHere DEF JudgedOK
    <3>2. \A r, q \in Consoles : Carries(r, n) /\ Carries(q, n) => r = q
      BY <3>1, NoteHere DEF JudgedOK
    <3>3. /\ ~note'[n].held /\ note'[n].lapsed /\ note'[n].replayed = 0
          /\ note'[n].heard => note'[n].judged = "gone"
      BY <1>1, <2>2, <3>1
    <3> QED BY <1>3, <3>2, <3>3 DEF JudgedOK
  <2> QED BY <2>1, <2>2
<1> QED BY <1>2, <1>5, <1>6, NotesStep DEF WhispersInv, Coaching!TypeOK

\* A new note is heard exactly if somebody listens.
LEMMA WhisperOK ==
  ASSUME WhispersInv, Coaching!WhispersAssumption, NEW n \in Notes, Coaching!Whisper(n)
  PROVE  WhispersInv'
<1> DEFINE a == observer
           there == a # Nobody /\ Coaching!Listening(a)
           still == a # Nobody /\ Coaching!Settled(a)
           late == Coaching!Settled(a) /\ HeldNothing(a)
           new == [Coaching!NoNote EXCEPT !.pc = "broadcast", !.to = a,
                                 !.heard = there, !.late = late, !.steady = still]
<1>1. note[n] = Coaching!NoNote /\ note' = [note EXCEPT ![n] = new]
      /\ UNCHANGED <<assigned, observer, console, key>>
  BY DEF Coaching!Whisper, HeldNothing
<1>2. a \in Agents \cup {Nobody}
  BY DEF WhispersInv, Coaching!TypeOK
<1>3. there \in BOOLEAN /\ still \in BOOLEAN /\ late \in BOOLEAN
  BY DEF Coaching!Settled, HeldNothing
<1> HIDE DEF there, still, late
<1>4. /\ new \in Coaching!Note /\ new.pc = "broadcast" /\ new.to = a /\ new.heard = there
      /\ new.held = FALSE /\ new.replayed = 0 /\ new.steady = still /\ new.late = late
  <2>1. 0 \in 0..2 /\ "none" \in Coaching!Key
    BY DEF Coaching!Key
  <2> QED BY <1>2, <1>3, <2>1 DEF Coaching!NoNote, Coaching!Note
<1> HIDE DEF new
<1>5. note' \in [Notes -> Coaching!Note] /\ note'[n] = new
      /\ \A m \in Notes \ {n} : note'[m] = note[m]
  BY <1>1, <1>4 DEF WhispersInv, Coaching!TypeOK
<1>6. \A m \in Notes, r \in Consoles : Carries(r, m)' <=> Carries(r, m)
  BY <1>1 DEF Carries
<1>7. \A r \in Consoles : ~Carries(r, n)
  BY <1>1, NoteHere DEF NoteOK, Coaching!NoNote
<1>8. still => /\ a \in Agents /\ Coaching!Settled(a) /\ (there <=> Coaching!Listening(a))
               /\ late <=> HeldNothing(a)
  BY <1>2 DEF still, there, late
<1>9. ASSUME NEW m \in Notes PROVE NoteOK(m)' /\ JudgedOK(m)'
  <2>1. CASE m = n
    BY <1>4, <1>5, <1>6, <1>7, <1>8, <2>1 DEF NoteOK, JudgedOK
  <2>2. CASE m # n
    <3>1. note'[m] = note[m] /\ UNCHANGED console
      BY <1>1, <1>5, <2>2
    <3>2. NoteOK(m)'
      BY <1>6, <3>1, NoteHere DEF NoteOK
    <3> QED BY <1>6, <3>1, <3>2, JudgedStands
  <2> QED BY <2>1, <2>2
<1>10. ASSUME NEW m \in Notes PROVE BroadcastOK(m)'
  <2>1. CASE m = n
    <3>1. /\ note'[n].to = a /\ note'[n].heard = there /\ note'[n].steady = still
          /\ note'[n].late = late
      BY <1>4, <1>5
    <3>2. still => /\ Coaching!Settled(note[n].to)'
                   /\ Coaching!Listening(note[n].to)' <=> Coaching!Listening(a)
                   /\ HeldNothing(note[n].to)' <=> HeldNothing(a)
      BY <1>1, <1>8, <3>1 DEF Coaching!Settled, Coaching!Listening, HeldNothing, Coaching!Of
    <3>3. still => /\ (note[n].heard)' <=> Coaching!Listening(a)
                   /\ (note[n].late)' <=> HeldNothing(a)
      BY <1>8, <3>1
    <3> QED BY <2>1, <3>1, <3>2, <3>3 DEF BroadcastOK
  <2>2. CASE m # n
    <3>1. note'[m] = note[m] /\ UNCHANGED console
      BY <1>1, <1>5, <2>2
    <3> QED BY <3>1, BroadcastStands
  <2> QED BY <2>1, <2>2
<1> HIDE DEF a
<1> QED BY <1>1, <1>5, <1>9, <1>10, NotesStep DEF WhispersInv, Coaching!TypeOK

\* A steady note that was not heard is held, unless the key misled; and one that was heard is
\* not, unless the key had gone.
LEMMA HoldStands ==
  ASSUME WhispersInv, Coaching!WhispersAssumption, NEW n \in Notes,
         Coaching!HoldUnlessListening(n)
  PROVE  WhispersInv'
<1> DEFINE a == note[n].to
           hold == a # Nobody /\ ~Coaching!HasKey(a)
           judged == IF note[n].steady THEN key[a] ELSE note[n].judged
<1>1. note[n].pc = "broadcast" /\ UNCHANGED <<assigned, observer, console, key>>
      /\ note' = [note EXCEPT ![n].pc = "over", ![n].held = hold, ![n].judged = judged]
  BY DEF Coaching!HoldUnlessListening
<1>2. hold \in BOOLEAN /\ (hold => a \in Agents) /\ judged \in Coaching!Key
  BY NoteHere DEF Coaching!Note, NoteOK, WhispersInv, Coaching!TypeOK
<1> HIDE DEF hold, judged
<1>3. /\ note'[n] = [note[n] EXCEPT !.pc = "over", !.held = hold, !.judged = judged]
      /\ \A m \in Notes \ {n} : note'[m] = note[m]
  BY <1>1 DEF WhispersInv, Coaching!TypeOK
<1>4. /\ note'[n] \in Coaching!Note /\ note'[n].pc = "over" /\ note'[n].to = a
      /\ note'[n].heard = note[n].heard /\ note'[n].held = hold
      /\ note'[n].replayed = note[n].replayed /\ note'[n].steady = note[n].steady
      /\ note'[n].late = note[n].late /\ note'[n].judged = judged
  BY <1>2, <1>3, NoteHere DEF Coaching!Note
<1>5. note' \in [Notes -> Coaching!Note]
  BY <1>1, <1>3, <1>4 DEF WhispersInv, Coaching!TypeOK
<1>6. \A m \in Notes, r \in Consoles : Carries(r, m)' <=> Carries(r, m)
  BY <1>1 DEF Carries
<1>7. note[n].replayed = 0 /\ \A r \in Consoles : ~Carries(r, n)
  BY <1>1, NoteHere DEF NoteOK
<1>8. ASSUME NEW m \in Notes, m # n PROVE NoteOK(m)' /\ BroadcastOK(m)' /\ JudgedOK(m)'
  <2>1. note'[m] = note[m] /\ UNCHANGED console
    BY <1>1, <1>3, <1>8
  <2>2. NoteOK(m)'
    BY <1>6, <2>1, NoteHere DEF NoteOK
  <2>3. BroadcastOK(m)'
    BY <2>1, BroadcastStands
  <2> QED BY <1>6, <2>1, <2>2, <2>3, JudgedStands
<1>9. NoteOK(n)' /\ BroadcastOK(n)'
  BY <1>2, <1>4, <1>6, <1>7, NoteHere DEF NoteOK, BroadcastOK
<1>10. JudgedOK(n)'
  <2>1. CASE ~note[n].steady
    BY <1>4, <2>1 DEF JudgedOK
  <2>2. CASE note[n].steady
    <3>1. /\ Coaching!Settled(a) /\ (note[n].heard <=> Coaching!Listening(a)) /\ a \in Agents
          /\ note[n].late <=> HeldNothing(a)
      BY <1>1, <2>2, NoteHere DEF BroadcastOK, NoteOK
    <3>2. \A s \in Consoles : console[s].agent = a =>
            console[s].pc = "open" /\ console[s].joined = console[s].held
      BY <3>1, SocketHere DEF Coaching!Settled, Coaching!Of, SocketOK
    <3>3. KeyOK(a) /\ key[a] \in Coaching!Key
      BY <3>1 DEF WhispersInv, Coaching!TypeOK
    <3>4. note[n].heard => key[a] \in {"set", "gone"}
      BY <3>1, <3>2, <3>3 DEF KeyOK, Coaching!Listening, Coaching!Marked, Coaching!Of
    <3>5. ~note[n].heard => note[n].late
      BY <3>1, <3>2 DEF Coaching!Listening, HeldNothing, Coaching!Of
    <3>6. judged = key[a] /\ (hold <=> key[a] \notin {"set", "orphan"})
      BY <2>2, <3>1 DEF hold, judged, Coaching!HasKey, Coaching!WhispersAssumption
    <3>7. /\ note'[n].heard /\ note'[n].judged # "gone" => ~note'[n].held
          /\ note'[n].heard \/ note'[n].held \/ Coaching!MissedByKey(n)'
      BY <1>4, <3>3, <3>4, <3>5, <3>6 DEF Coaching!MissedByKey, Coaching!Key
    <3>8. \A s \in Consoles : console'[s].agent = a => console'[s].pc # "delete"
      BY <1>1, <3>2
    <3>9. note'[n].replayed = 0 /\ \A s \in Consoles : ~Carries(s, n)'
      BY <1>4, <1>6, <1>7
    <3> QED BY <1>4, <3>7, <3>8, <3>9 DEF JudgedOK
  <2> QED BY <2>1, <2>2
<1>11. ASSUME NEW m \in Notes PROVE NoteOK(m)' /\ BroadcastOK(m)' /\ JudgedOK(m)'
  BY <1>8, <1>9, <1>10
<1> QED BY <1>1, <1>5, <1>11, NotesStep DEF WhispersInv, Coaching!TypeOK
-----------------------------------------------------------------------------
LEMMA WhispersStep ==
  ASSUME Coaching!WhispersAssumption
  PROVE  WhispersInv /\ [Coaching!Next]_(Coaching!vars) => WhispersInv'
<1> SUFFICES ASSUME WhispersInv, [Coaching!Next]_(Coaching!vars) PROVE WhispersInv'
  OBVIOUS
<1>1. ASSUME NEW s \in Consoles,
             \/ \E a \in Agents : Coaching!Connect(s, a)
             \/ Coaching!Join(s) \/ Coaching!MarkOpen(s) \/ Coaching!DrainRead(s)
             \/ Coaching!DrainDelete(s) \/ Coaching!Replay(s)
             \/ Coaching!Disconnect(s) \/ Coaching!Leave(s) \/ Coaching!SocketDies(s)
      PROVE  WhispersInv'
  BY <1>1, QuietSocketsOK, DrainReadOK, DrainDeleteOK, ReplayOK, SocketDiesOK
<1>2. ASSUME NEW a \in Agents, Coaching!KeyLapses(a) PROVE WhispersInv'
  <2>1. /\ key' \in [Agents -> Coaching!Key]
        /\ \A b \in Agents : key'[b] \in {"set", "gone"} <=> key[b] \in {"set", "gone"}
    BY <1>2 DEF Coaching!KeyLapses, Coaching!HasKey, Coaching!Key, WhispersInv, Coaching!TypeOK
  <2>2. UNCHANGED <<assigned, observer, console, note>>
    BY <1>2 DEF Coaching!KeyLapses
  <2> QED BY <2>1, <2>2, NotesStand DEF WhispersInv, Coaching!TypeOK
<1>3. ASSUME NEW a \in Agents, Coaching!HeldLapse(a) PROVE WhispersInv'
  BY <1>3, LapseOK DEF Coaching!HeldLapse, WhispersInv, Coaching!TypeOK
<1>4. CASE Coaching!Requeue
  <2>1. PICK a \in Agents : a = assigned
    BY <1>4 DEF Coaching!Requeue, WhispersInv, Coaching!TypeOK
  <2>2. /\ assigned' = Nobody /\ note' = Coaching!Forgotten(a)
        /\ UNCHANGED <<console, key, observer>>
    BY <1>4, <2>1 DEF Coaching!Requeue
  <2> QED BY <2>2, LapseOK
<1>5. CASE Coaching!Observe \/ UNCHANGED Coaching!vars \/ \E a \in Agents : Coaching!Assign(a)
  <2>1. UNCHANGED <<console, key, note>> /\ assigned' \in Agents \cup {Nobody}
        /\ observer' \in Agents \cup {Nobody}
    BY <1>5 DEF Coaching!Observe, Coaching!Assign, Coaching!vars, WhispersInv, Coaching!TypeOK
  <2> QED BY <2>1, NotesStand DEF WhispersInv, Coaching!TypeOK
<1>6. ASSUME NEW n \in Notes, Coaching!Whisper(n) \/ Coaching!HoldUnlessListening(n)
      PROVE  WhispersInv'
  BY <1>6, WhisperOK, HoldStands
<1> QED BY <1>1, <1>2, <1>3, <1>4, <1>5, <1>6 DEF Coaching!Next

LEMMA WhispersInvariant == ASSUME Coaching!WhispersAssumption PROVE Coaching!Spec => []WhispersInv
<1>1. ASSUME Coaching!Init PROVE WhispersInv
  <2>1. Coaching!TypeOK
    BY <1>1, NoSocketOK, NoNoteOK DEF Coaching!Init, Coaching!TypeOK, Coaching!Key
  <2>2. \A s \in Consoles : SocketOK(s) /\ console[s].replay = {} /\ console[s].pc = "off"
    BY <1>1, NoSocketOK DEF Coaching!Init, SocketOK
  <2>3. \A n \in Notes : note[n] = Coaching!NoNote
    BY <1>1 DEF Coaching!Init
  <2>4. ASSUME NEW n \in Notes PROVE NoteOK(n) /\ BroadcastOK(n) /\ JudgedOK(n)
    BY <2>2, <2>3 DEF Coaching!NoNote, NoteOK, BroadcastOK, JudgedOK, Carries
  <2>5. ASSUME NEW a \in Agents PROVE KeyOK(a)
    BY <1>1, <2>2 DEF Coaching!Init, KeyOK, Coaching!Of, Coaching!Marked
  <2> QED BY <2>1, <2>2, <2>4, <2>5 DEF WhispersInv
<1>2. WhispersInv /\ [Coaching!Next]_(Coaching!vars) => WhispersInv'
  BY WhispersStep
<1> QED BY <1>1, <1>2, PTL DEF Coaching!Spec

LEMMA SteadyFollows == ASSUME WhispersInv PROVE Coaching!ASteadyNoteArrivesOnce
<1> SUFFICES ASSUME NEW n \in Notes, note[n].pc = "over", note[n].steady
             PROVE  LET times == Coaching!One(note[n].heard) + note[n].replayed
                                 + Coaching!One(note[n].held \/ Coaching!OnItsWay(n)) IN
                    \/ times = 1
                    \/ times = 0 /\ (note[n].lapsed \/ Coaching!MissedByKey(n))
                    \/ times = 2 /\ note[n].heard /\ note[n].judged = "gone"
  BY DEF Coaching!ASteadyNoteArrivesOnce
<1>1. Coaching!OnItsWay(n) <=> \E s \in Consoles : Carries(s, n)
  BY SocketHere DEF Coaching!OnItsWay, Carries, SocketOK
<1>2. /\ note[n].replayed \in {0, 1}
      /\ note[n].heard /\ note[n].judged # "gone" =>
           ~note[n].held /\ note[n].replayed = 0 /\ ~Coaching!OnItsWay(n)
      /\ note[n].held \/ Coaching!OnItsWay(n) => note[n].replayed = 0
      /\ note[n].heard \/ note[n].held \/ note[n].replayed = 1 \/ note[n].lapsed
         \/ Coaching!MissedByKey(n) \/ Coaching!OnItsWay(n)
  BY <1>1, NoteHere DEF JudgedOK
<1>3. CASE note[n].heard /\ note[n].judged # "gone"
  BY <1>2, <1>3 DEF Coaching!One
<1>4. CASE note[n].heard /\ note[n].judged = "gone"
  BY <1>2, <1>4 DEF Coaching!One
<1>5. CASE ~note[n].heard /\ (note[n].held \/ Coaching!OnItsWay(n))
  BY <1>2, <1>5 DEF Coaching!One
<1>6. CASE ~note[n].heard /\ ~(note[n].held \/ Coaching!OnItsWay(n))
  BY <1>2, <1>6 DEF Coaching!One
<1> QED BY <1>3, <1>4, <1>5, <1>6
-----------------------------------------------------------------------------
(* The service                                                             *)

LEMMA Assumed ==
  /\ Records!RecordsAssumption /\ Chat!TranscriptAssumption
  /\ Coaching!WhispersAssumption /\ Quiet!SilenceAssumption
  BY ServiceAssumption

\* Every component's part of a behaviour of the service is a behaviour of the component.
LEMMA EachComponent ==
  ServiceSpec => /\ Spec /\ Records!Spec /\ Chat!Spec
                 /\ Coaching!Spec /\ Quiet!Spec /\ Observing!Spec
<1>1. ServiceInit => /\ Init /\ Records!Init /\ Chat!Init
                     /\ Coaching!Init /\ Quiet!Init /\ Observing!Init
  BY DEF ServiceInit
<1>2. [ServiceNext]_allVars => [Next]_vars
  BY DEF ServiceNext, Replying, Receiving, allVars, vars
<1>3. [ServiceNext]_allVars => [Records!Next]_(Records!vars)
  BY DEF ServiceNext, allVars, recordsVars, Records!vars
<1>4. [ServiceNext]_allVars => [Chat!Next]_(Chat!vars)
  BY DEF ServiceNext, allVars, transcriptVars, Chat!vars
<1>5. [ServiceNext]_allVars => [Coaching!Next]_(Coaching!vars)
  BY DEF ServiceNext, allVars, whispersVars, Coaching!vars
<1>6. [ServiceNext]_allVars => [Quiet!Next]_(Quiet!vars)
  BY DEF ServiceNext, allVars, silenceVars, Quiet!vars
<1>7. [ServiceNext]_allVars => [Observing!Next]_(Observing!vars)
  BY DEF ServiceNext, allVars, watchingVars, Observing!vars
<1> QED
  BY <1>1, <1>2, <1>3, <1>4, <1>5, <1>6, <1>7, PTL
     DEF ServiceSpec, Spec, Records!Spec, Chat!Spec, Coaching!Spec, Quiet!Spec, Observing!Spec

\* Every component's state has its type in every behaviour, whichever it is about.
THEOREM EveryTypeCorrect == ServiceSpec => []EveryTypeOK
<1>1. Spec => []TypeOK
  BY TypeCorrect
<1>2. Records!Spec => []Records!TypeOK
  BY Records!TypeCorrect, Assumed
<1>3. Chat!Spec => []Chat!TypeOK
  BY Chat!TypeCorrect, Assumed
<1>4. Coaching!Spec => []WhispersInv
  BY WhispersInvariant, Assumed
<1>5. Quiet!Spec => []SilenceInv
  BY SilenceInvariant, Assumed
<1>6. Observing!Spec => []WatchingInv
  BY WatchingInvariant
<1>7. /\ TypeOK /\ Records!TypeOK /\ Chat!TypeOK /\ WhispersInv /\ SilenceInv /\ WatchingInv
      => EveryTypeOK
  BY DEF WhispersInv, SilenceInv, WatchingInv, EveryTypeOK
<1> QED BY <1>1, <1>2, <1>3, <1>4, <1>5, <1>6, <1>7, EachComponent, PTL

\* An opening leaves a contact, their ticket and its number, or none of them, but for the
\* contact that a chat's start commits by itself (open_ticket, chat.views.start, next_value).
THEOREM OpeningsAreAllOrNothing == ServiceSpec => []OpeningIsAllOrNothing
<1>1. Records!Spec => []Records!OpeningIsAllOrNothing
  BY Records!OpeningsAreAllOrNothing, Assumed
<1> QED BY <1>1, EachComponent, PTL DEF OpeningIsAllOrNothing

\* Only a ticket that was being opened while its contact was linked is without their
\* organization (open_ticket, link_contact).
THEOREM OnlyLateTicketsAreMissed == ServiceSpec => []OnlyALateTicketIsMissed
<1>1. Records!Spec => []Records!OnlyALateTicketIsMissed
  BY Records!OnlyLateTicketsAreMissed, Assumed
<1> QED BY <1>1, EachComponent, PTL DEF OnlyALateTicketIsMissed

\* A ticket stays with the organization it was raised under (link_contact).
THEOREM AttributionsStand == ServiceSpec => AttributionStands
<1>1. Records!Spec => Records!AttributionStands
  BY Records!AttributionsStand, Assumed
<1> QED BY <1>1, EachComponent DEF AttributionStands

\* What was said is on the ticket the conversation is on, but for what was written from a
\* copy out of date and for attaches that met (move_to).
THEOREM TranscriptsMoveWhole == ServiceSpec => []TranscriptMovesWhole
<1>1. Chat!Spec => []Chat!TranscriptMovesWhole
  BY Chat!TranscriptsMoveWhole, Assumed
<1> QED BY <1>1, EachComponent, PTL DEF TranscriptMovesWhole

\* Two conversations are going on over one ticket only if the attaches that brought them
\* there met (can_attach_to).
THEOREM LiveTranscriptsAreOne == ServiceSpec => []OneLiveTranscript
<1>1. Chat!Spec => []Chat!OneLiveTranscript
  BY Chat!LiveTranscriptsAreOne, Assumed
<1> QED BY <1>1, EachComponent, PTL DEF OneLiveTranscript

\* A note whose addressee's sockets stood still while it was on its way is shown to them once,
\* or was held until it lapsed, however long they are connected and whatever became of the
\* key: it is repeated, and once at most, only to an agent whose key had gone while they were
\* connected, and lost only to a key that a process left as it died or to sockets opened
\* before the conversation was theirs (drain, socket_opened, AgentConsumer.connect,
\* _hold_if_the_agent_is_not_listening).
THEOREM SteadyNotesArriveOnce == ServiceSpec => []ASteadyNoteArrivesOnce
<1>1. WhispersInv => ASteadyNoteArrivesOnce
  BY SteadyFollows DEF ASteadyNoteArrivesOnce
<1>2. Coaching!Spec => []WhispersInv
  BY WhispersInvariant, Assumed
<1> QED BY <1>1, <1>2, EachComponent, PTL

\* A conversation is closed as idle only when nobody has written for the limit, and only
\* after a warning of this silence, if any sweep came by in time to give one; unless
\* somebody wrote while a sweep was between reading and acting (sweep_idle_conversations).
THEOREM TheNoticedAreWarned == ServiceSpec => WarnedIfNoticed
<1>1. SilenceInv =>
        [\A h \in Handlers :
           Quiet!Closes(h) /\ ~sweep[h].broken /\ ~silence.misled =>
             idle = 2 /\ (silence.noticed => silence.told)]_(Quiet!vars)
  BY DEF SilenceInv, Quiet!TypeOK, JudgeOK, Quiet!Closes, Quiet!At
<1>2. Quiet!Spec => []SilenceInv
  BY SilenceInvariant, Assumed
<1> QED BY <1>1, <1>2, EachComponent, PTL DEF WarnedIfNoticed, Quiet!WarnedIfNoticed

\* Nobody who is on the line is taken for gone, unless they came back, or another agent took
\* over, while the sweep was acting, or the agent had only just been assigned
\* (sweep_interrupted_conversations, liveness).
THEOREM WhoIsOnTheLineIsNotGone == ServiceSpec => NobodyOnTheLineIsGone
<1>1. SilenceInv =>
        [\A h \in Handlers, p \in Quiet!Parties :
           Quiet!At(h, p) /\ ~sweep[h].broken /\ sweep'[h] = Quiet!Idle /\ state' # state =>
             p \notin connected]_(Quiet!vars)
  BY DEF SilenceInv
<1>2. Quiet!Spec => []SilenceInv
  BY SilenceInvariant, Assumed
<1> QED BY <1>1, <1>2, EachComponent, PTL DEF NobodyOnTheLineIsGone, Quiet!NobodyOnTheLineIsGone

\* Whoever sees a conversation is on record as watching it, and the agent on the line knows
\* of everybody who came while they were (SupervisorConsumer).
THEOREM WatchersAreOnRecord == ServiceSpec => []WatchersAreKnown
<1>1. WatchingInv => WatchersAreKnown
  BY DEF WatchingInv, WatchersAreKnown
<1>2. Observing!Spec => []WatchingInv
  BY WatchingInvariant
<1> QED BY <1>1, <1>2, EachComponent, PTL
==============================================================================
