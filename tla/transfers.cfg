SPECIFICATION MCSpec
CONSTANTS
  s1 = s1
  s2 = s2
  p1 = p1
  p2 = p2
  o1 = o1
  o2 = o2
  w = w
  Sources = {s1, s2}
  Destinations = {p1, p2}
  Workspaces = {w}
  MaxId = 2
  Amounts = {1, 2}
  Start = 2
  Operators = {o1, o2}
  Limit = 1
  Budget = 2
  MaxFaults = 2
  MaxMoves = 1
CHECK_DEADLOCK FALSE
PROPERTIES ValueMovesOnce RecoveryResolves
