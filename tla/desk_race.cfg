SPECIFICATION RaceSpec
CONSTANTS
  c1 = c1  c2 = c2  c3 = c3
  a1 = a1  a2 = a2
  w1 = w1  w2 = w2
  Callers = {c1}
  Nobody = Nobody
  Conversations = {c1}
  Agents = {a1, a2}
  Workers = {w1, w2}
  Capacity = 1
INVARIANTS TypeOK RowConsistent
PROPERTIES NeverStolen
SYMMETRY Symmetry
CHECK_DEADLOCK FALSE
