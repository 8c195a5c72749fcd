SPECIFICATION MCSpec
CONSTANTS
  a1 = a1
  a2 = a2
  d1 = d1
  d2 = d2
  w1 = w1
  w2 = w2
  Auths = {a1, a2}
  Deliveries = {d1, d2}
  Workers = {w1, w2}
  Holds <- MCHolds
  Terminals <- MCTerminals
  Snapshots = {2}
  Credits = 4
  KeyLimit = 4
  MaxAttempts = 2
  InCommit = {a1}
  BooksSnapshots = TRUE
  MaxFaults = 2
CHECK_DEADLOCK FALSE
INVARIANTS EvidenceIsKept AnswersAreTrue
PROPERTIES ChargedOnce PromiseKept
