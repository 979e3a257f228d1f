------------------------------ MODULE MCService ------------------------------
(***************************************************************************)
(* Instances of TicketDesk, CustomerRecords, Transcript, Whispers,         *)
(* ChatSilence and Watching for TLC.  None changes what another reads; a   *)
(* behaviour is about one of them, chosen at the start, with the others at *)
(* rest in an initial state, so that one run answers for all six without   *)
(* multiplying their states.                                               *)
(***************************************************************************)
EXTENDS TicketDesk, TLC

\* KeptTickets are the tickets customers have before they chat.
CONSTANTS Addresses, Contacts, Organizations, MaxTickets,        \* CustomerRecords'
          Conversations, ChatTickets, KeptTickets, Messages, ChatSockets,  \* Transcript's
          Consoles, Notes,                                       \* Whispers'
          Watchers,                                              \* Watching's
          Grace, Punctual                                        \* ChatSilence's

VARIABLES part,   \* the component this behaviour is about
          contact, organization, numbered, last, holder, opening,
          chatTicket, conversation, message, chatSocket, chatFrame,
          assigned, observer, console, key, note,
          state, idle, warned, silence, unseeded, seen, connected, sweep,
          watcher, observation, line, told, missed, dead

recordsVars == <<contact, organization, numbered, last, holder, opening>>
transcriptVars == <<chatTicket, conversation, message, chatSocket, chatFrame>>
whispersVars == <<assigned, observer, console, key, note>>
silenceVars == <<state, idle, warned, silence, unseeded, seen, connected, sweep>>
watchingVars == <<watcher, observation, line, told, missed, dead>>
allVars == <<part, vars, recordsVars, transcriptVars, whispersVars, silenceVars, watchingVars>>

\* Taken with what is proved of them, for ServiceProofs to cite.
Records == INSTANCE CustomerRecordsProofs WITH ticket <- numbered, frame <- opening

Chat == INSTANCE TranscriptProofs WITH
  Tickets <- ChatTickets, Sockets <- ChatSockets,
  ticket <- chatTicket, socket <- chatSocket, frame <- chatFrame

Coaching == INSTANCE Whispers WITH Sockets <- Consoles, socket <- console

Quiet == INSTANCE ChatSilence WITH frame <- sweep

Observing == INSTANCE Watching

ASSUME ServiceAssumption ==
  /\ Records!RecordsAssumption
  /\ Chat!TranscriptAssumption
  /\ Coaching!WhispersAssumption
  /\ Quiet!SilenceAssumption

\* Where a component has several initial states, one will do for it to rest in.
ServiceInit ==
  /\ Init /\ Records!Init /\ Chat!Init /\ Coaching!Init /\ Quiet!Init /\ Observing!Init
  /\ part \in {"replies", "mail", "records", "transcript", "whispers", "silence", "watching"}
  /\ part # "mail" => transport = "imap"
  /\ part \notin {"replies", "mail"} => \A t \in Tickets : ticket[t] = NoTicket
  /\ \A t \in ChatTickets : chatTicket[t] = "listed" <=> t \in KeptTickets
  /\ part # "whispers" => assigned = Nobody
  /\ part # "watching" => line = "off"

\* The ticket desk in two halves, which meet in the ticket's status: what agents do when no
\* mail comes in, and mail coming in while agents change the status.
Replying == Next /\ mail' = mail

Receiving == Next /\ \A h \in Handlers : frame'[h].task \in {"none", "status", "collect"}

ServiceNext ==
  /\ UNCHANGED part
  /\ \/ /\ part = "replies" /\ Replying
        /\ UNCHANGED <<recordsVars, transcriptVars, whispersVars, silenceVars, watchingVars>>
     \/ /\ part = "mail" /\ Receiving
        /\ UNCHANGED <<recordsVars, transcriptVars, whispersVars, silenceVars, watchingVars>>
     \/ /\ part = "records" /\ Records!Next
        /\ UNCHANGED <<vars, transcriptVars, whispersVars, silenceVars, watchingVars>>
     \/ /\ part = "transcript" /\ Chat!Next
        /\ UNCHANGED <<vars, recordsVars, whispersVars, silenceVars, watchingVars>>
     \/ /\ part = "whispers" /\ Coaching!Next
        /\ UNCHANGED <<vars, recordsVars, transcriptVars, silenceVars, watchingVars>>
     \/ /\ part = "silence" /\ Quiet!Next
        /\ UNCHANGED <<vars, recordsVars, transcriptVars, whispersVars, watchingVars>>
     \/ /\ part = "watching" /\ Observing!Next
        /\ UNCHANGED <<vars, recordsVars, transcriptVars, whispersVars, silenceVars>>

ServiceSpec == ServiceInit /\ [][ServiceNext]_allVars

\* The run gives sets of different components the same members, so that two permutations
\* do for all of them.
Symmetry == Permutations(Agents) \cup Permutations(Handlers)
-----------------------------------------------------------------------------
(* The components' properties, named here for the run.                     *)

\* Every component's state has its type, the one the behaviour is about at least.
EveryTypeOK ==
  /\ part \in {"replies", "mail"} => TypeOK
  /\ part = "records" => Records!TypeOK
  /\ part = "transcript" => Chat!TypeOK
  /\ part = "whispers" => Coaching!TypeOK
  /\ part = "silence" => Quiet!TypeOK
  /\ part = "watching" => Observing!TypeOK

\* See CustomerRecords.
OpeningIsAllOrNothing == Records!OpeningIsAllOrNothing
OnlyALateTicketIsMissed == Records!OnlyALateTicketIsMissed
AttributionStands == Records!AttributionStands

\* See Transcript.
TranscriptMovesWhole == Chat!TranscriptMovesWhole
OneLiveTranscript == Chat!OneLiveTranscript

\* See Whispers.
ASteadyNoteArrivesOnce == Coaching!ASteadyNoteArrivesOnce

\* See ChatSilence.
WarnedIfNoticed == Quiet!WarnedIfNoticed
NobodyOnTheLineIsGone == Quiet!NobodyOnTheLineIsGone

\* See Watching.
WatchersAreKnown == Observing!WatchersAreKnown
=============================================================================
