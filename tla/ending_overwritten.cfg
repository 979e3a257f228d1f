SPECIFICATION SocketSpec
CONSTANTS
  c1 = c1  c2 = c2  c3 = c3
  a1 = a1  a2 = a2
  w1 = w1  w2 = w2
  Callers = {c1, c2}
  Nobody = Nobody
  Conversations = {c1, c2}
  Agents = {a1, a2}
  Workers = {w1}
  Capacity = 1
PROPERTIES FirstEndingStands
CHECK_DEADLOCK FALSE
