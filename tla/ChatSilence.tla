----------------------------- MODULE ChatSilence -----------------------------
(***************************************************************************)
(* One conversation whose parties fall silent, and the two sweeps that act *)
(* on it: one warns and then closes a conversation nobody writes in, the   *)
(* other ends it when the customer, or hands it over when the agent, has   *)
(* not been on the line for the grace period.                              *)
(*                                                                         *)
(* A sweep reads its conversations at the start, judges by that reading    *)
(* and by the keys in Redis, and acts later; what is said in between it    *)
(* does not see.  The clocks are counted in the steps the code compares:   *)
(* idle time by its two thresholds, a key by the heartbeats it outlives.   *)
(*                                                                         *)
(* Left out: slots, the queue and who the agent is (ChatDesk), and what is *)
(* broadcast other than the warning.                                       *)
(***************************************************************************)
EXTENDS Naturals, FiniteSets

CONSTANTS Handlers,  \* sweeps that may be under way at once
          Grace,     \* the grace period, in heartbeats
          Punctual   \* whether no sweep is ever later than the warning is early

\* What the constants are, which the module that gives them values assumes.
SilenceAssumption == Grace \in Nat \ {0} /\ Punctual \in BOOLEAN

VARIABLES state,      \* of the conversation
          idle,       \* 0, past the warning's threshold (1), or past the limit (2)
          warned,     \* idle_warned_at is set
          silence,    \* history of this silence
          unseeded,   \* an assignment has been committed and the agent's key not set
          seen,       \* each party's key: heartbeats since it was set; Grace is no key
          connected,  \* the parties whose socket is open
          frame

vars == <<state, idle, warned, silence, unseeded, seen, connected, frame>>
clocks == <<unseeded, seen, connected>>
-----------------------------------------------------------------------------
Parties == {"visitor", "agent"}

\* `noticed`: a sweep dealt with the conversation between the thresholds; `told`: it
\* broadcast the warning; `misled`: it set the mark by a reading of an earlier silence.
Silence == [noticed: BOOLEAN, told: BOOLEAN, misled: BOOLEAN]

NewSilence == [noticed |-> FALSE, told |-> FALSE, misled |-> FALSE]

\* `broken` is history: since the reading somebody wrote, came back or took over.
Frame == [pc: {"idle", "judge", "look", "visitor", "agent"}, idle: 0..2, warned: BOOLEAN,
          broken: BOOLEAN]

Idle == [pc |-> "idle", idle |-> 0, warned |-> FALSE, broken |-> FALSE]

Goto(h, f) == frame' = [frame EXCEPT ![h] = f]

At(h, label) == frame[h].pc = label

Older(n, max) == IF n < max THEN n + 1 ELSE n

\* start seeds the customer's key.
Init ==
  /\ state = "WAITING"
  /\ idle = 0 /\ warned = FALSE /\ silence = NewSilence
  /\ unseeded = FALSE
  /\ seen = [p \in Parties |-> IF p = "visitor" THEN 0 ELSE Grace]
  /\ connected = {}
  /\ frame = [h \in Handlers |-> Idle]
-----------------------------------------------------------------------------
(* Time                                                                    *)

\* The next threshold passes.
FallsSilent ==
  /\ idle < 2
  /\ Punctual /\ idle = 1 /\ state = "ACTIVE" => silence.noticed
  /\ idle' = idle + 1
  /\ UNCHANGED <<state, warned, silence, clocks, frame>>

\* A heartbeat's time passes.  A client that is connected loses heartbeats, but not so many
\* that its key runs out.
Tick ==
  /\ \A p \in connected : seen[p] # Grace - 1
  /\ seen' = [p \in Parties |-> Older(seen[p], Grace)]
  /\ UNCHANGED <<state, idle, warned, silence, unseeded, connected, frame>>
-----------------------------------------------------------------------------
(* The parties                                                             *)

Break == frame' = [h \in Handlers |-> IF frame[h] = Idle THEN Idle
                                      ELSE [frame[h] EXCEPT !.broken = TRUE]]

\* liveness.seen
Seen(p) == seen' = [seen EXCEPT ![p] = 0]

\* A socket opens; the customer's only while the conversation is open.  The agent's
\* refreshes the conversations they hold, and any frame does the same.
Connect(p) ==
  /\ p \notin connected
  /\ state \in (IF p = "visitor" THEN {"WAITING", "ACTIVE"} ELSE {"ACTIVE"})
  /\ connected' = connected \cup {p}
  /\ Seen(p)
  /\ Break
  /\ UNCHANGED <<state, idle, warned, silence, unseeded>>

Heartbeat(p) ==
  /\ p \in connected
  /\ p = "agent" => state = "ACTIVE"
  /\ Seen(p)
  /\ UNCHANGED <<state, idle, warned, silence, unseeded, connected, frame>>

\* A socket is gone, with or without a word: neither touches the key.
Disconnect(p) ==
  /\ p \in connected
  /\ connected' = connected \ {p}
  /\ UNCHANGED <<state, idle, warned, silence, unseeded, seen, frame>>

\* Mutant: the mark of the last warning stays.
WriteKeepingTheMark ==
  /\ connected # {}
  /\ idle' = 0 /\ silence' = NewSilence
  /\ Break
  /\ UNCHANGED <<state, warned, clocks>>

\* record_and_broadcast, for a message that is not a note.
Write ==
  /\ connected # {}
  /\ idle' = 0 /\ silence' = NewSilence
  /\ warned' = FALSE
  /\ Break
  /\ UNCHANGED <<state, clocks>>

\* assign commits the row: whoever it is for is there, with a socket or between two ...
Assign ==
  /\ state = "WAITING"
  /\ state' = "ACTIVE"
  /\ unseeded' = TRUE
  /\ connected' \in {connected \cup {"agent"}, connected \ {"agent"}}
  /\ Break
  /\ UNCHANGED <<idle, warned, silence, seen>>

\* Mutant: nobody sets the key for the agent.
LeaveUnseeded ==
  /\ unseeded
  /\ unseeded' = FALSE
  /\ UNCHANGED <<state, idle, warned, silence, seen, connected, frame>>

\* ... and then sets their key.
SeedAgent ==
  /\ unseeded
  /\ unseeded' = FALSE
  /\ Seen("agent")
  /\ UNCHANGED <<state, idle, warned, silence, connected, frame>>

\* Somebody ends it (lifecycle.end, from anywhere but the sweeps).
End ==
  /\ state # "ENDED"
  /\ state' = "ENDED"
  /\ UNCHANGED <<idle, warned, silence, clocks, frame>>
-----------------------------------------------------------------------------
(* sweep_idle_conversations                                                *)

BeginIdleSweep(h) ==
  /\ frame[h] = Idle
  /\ state = "ACTIVE"
  /\ Goto(h, [Idle EXCEPT !.pc = "judge", !.idle = idle, !.warned = warned])
  /\ UNCHANGED <<state, idle, warned, silence, clocks>>

CloseIdle(h) ==
  /\ At(h, "judge")
  /\ frame[h].idle = 2
  /\ state' = "ENDED"
  /\ Goto(h, Idle)
  /\ UNCHANGED <<idle, warned, silence, clocks>>

Noticed(h) == IF frame[h].broken THEN silence
              ELSE [silence EXCEPT !.noticed = frame[h].idle = 1 \/ @]

WarnIdle(h) ==
  /\ At(h, "judge")
  /\ frame[h].idle = 1 /\ ~frame[h].warned
  /\ warned' = TRUE
  /\ silence' = [Noticed(h) EXCEPT !.told = @ \/ ~frame[h].broken,
                                   !.misled = @ \/ frame[h].broken]
  /\ Goto(h, Idle)
  /\ UNCHANGED <<state, idle, clocks>>

PassBy(h) ==
  /\ At(h, "judge")
  /\ frame[h].idle = 0 \/ (frame[h].idle = 1 /\ frame[h].warned)
  /\ silence' = Noticed(h)
  /\ Goto(h, Idle)
  /\ UNCHANGED <<state, idle, warned, clocks>>
-----------------------------------------------------------------------------
(* sweep_interrupted_conversations                                         *)

BeginInterruptedSweep(h) ==
  /\ frame[h] = Idle
  /\ state = "ACTIVE"
  /\ Goto(h, [Idle EXCEPT !.pc = "look"])
  /\ UNCHANGED <<state, idle, warned, silence, clocks>>

Gone(p) == seen[p] = Grace

\* `broken` now counts from here, and holds if the agent is not seeded yet.
Look(h) ==
  /\ At(h, "look")
  /\ Goto(h, CASE Gone("visitor") -> [Idle EXCEPT !.pc = "visitor"]
               [] ~Gone("visitor") /\ Gone("agent") ->
                    [Idle EXCEPT !.pc = "agent", !.broken = unseeded]
               [] OTHER -> Idle)
  /\ UNCHANGED <<state, idle, warned, silence, clocks>>

\* visitor_gone
EndInterrupted(h) ==
  /\ At(h, "visitor")
  /\ state' = "ENDED"
  /\ Goto(h, Idle)
  /\ UNCHANGED <<idle, warned, silence, clocks>>

\* agent_gone: requeue gives the customer's grace period a new start.
HandOver(h) ==
  /\ At(h, "agent")
  /\ state' = "WAITING"
  /\ Seen("visitor")
  /\ Goto(h, Idle)
  /\ UNCHANGED <<idle, warned, silence, unseeded, connected>>

SweepDies(h) ==
  /\ frame[h] # Idle
  /\ Goto(h, Idle)
  /\ UNCHANGED <<state, idle, warned, silence, clocks>>
-----------------------------------------------------------------------------
Next ==
  \/ FallsSilent \/ Tick \/ Write \/ Assign \/ SeedAgent \/ End
  \/ \E p \in Parties : Connect(p) \/ Heartbeat(p) \/ Disconnect(p)
  \/ \E h \in Handlers :
       \/ BeginIdleSweep(h) \/ CloseIdle(h) \/ WarnIdle(h) \/ PassBy(h)
       \/ BeginInterruptedSweep(h) \/ Look(h) \/ EndInterrupted(h) \/ HandOver(h)
       \/ SweepDies(h)

Spec == Init /\ [][Next]_vars
-----------------------------------------------------------------------------
(* Properties.                                                             *)

TypeOK ==
  /\ state \in {"WAITING", "ACTIVE", "ENDED"}
  /\ idle \in 0..2
  /\ warned \in BOOLEAN
  /\ silence \in Silence
  /\ unseeded \in BOOLEAN
  /\ seen \in [Parties -> 0..Grace]
  /\ connected \subseteq Parties
  /\ frame \in [Handlers -> Frame]

Closes(h) == At(h, "judge") /\ frame[h].idle = 2 /\ frame'[h] = Idle /\ state' = "ENDED"

\* A conversation is closed as idle only when nobody has written for the limit, and only
\* after a warning of this silence, if any sweep came by in time to give one; unless
\* somebody wrote while a sweep was between reading and acting (sweep_idle_conversations).
WarnedIfNoticed ==
  [][\A h \in Handlers :
       Closes(h) /\ ~frame[h].broken /\ ~silence.misled =>
         idle = 2 /\ (silence.noticed => silence.told)]_vars

\* The same without exception: "the warning comes *before* the close, not with it"
\* (tasks.py).
WarnedBeforeClosed == [][\A h \in Handlers : Closes(h) => silence.told]_vars

\* Nobody who is on the line is taken for gone, unless they came back, or another agent
\* took over, while the sweep was acting, or the agent had only just been assigned (sweep_interrupted_conversations, liveness).
NobodyOnTheLineIsGone ==
  [][\A h \in Handlers, p \in Parties :
       At(h, p) /\ ~frame[h].broken /\ frame'[h] = Idle /\ state' # state =>
         p \notin connected]_vars
=============================================================================
