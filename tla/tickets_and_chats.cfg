CONSTANTS
  Tickets = {t1}
  Agents = {q1, q2}
  Handlers = {p1, p2}
  Replies = {r1}
  Mails = {x1, x2}
  MaxRetries = 1
  MaxCrashes = 1
  Addresses = {q1, q2}
  Contacts = {k1, k2}
  Organizations = {o1, o2}
  MaxTickets = 2
  Conversations = {q1, q2}
  ChatTickets = {t1, t2, t3}
  KeptTickets = {t3}
  Messages = {m1}
  ChatSockets = {s1}
  Consoles = {p1, p2}
  Notes = {n1}
  Watchers = {p1, p2}
  Grace = 2
  Punctual = FALSE
  Nobody = Nobody
SPECIFICATION ServiceSpec
SYMMETRY Symmetry
INVARIANTS EveryTypeOK TheRowHangsTogether SeenIsStoredOnce TheSenderLeavesItsMark OpeningIsAllOrNothing OnlyALateTicketIsMissed TranscriptMovesWhole  ASteadyNoteArrivesOnce WatchersAreKnown
PROPERTIES TakenIsKept ACurrentReplyReopens AttributionStands WarnedIfNoticed NobodyOnTheLineIsGone
CHECK_DEADLOCK FALSE
