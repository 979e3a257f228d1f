CONSTANTS
  Conversations = {c1, c2}
  Tickets = {t1, t2, t3}
  Messages = {m1}
  Sockets = {s1}
  Handlers = {h1, h2}
  Nobody = Nobody
SPECIFICATION Spec
INVARIANTS TheTranscriptIsWhole
CHECK_DEADLOCK FALSE
