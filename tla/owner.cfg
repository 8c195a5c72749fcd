SPECIFICATION MCSpec
CONSTANTS
  Scenarios = {"publish", "lapse", "reap", "adopt", "audit", "end"}
  Auths = {a1, a2, a3}
  Granted = 5
  Estimates = {2}
  Charges = {1, 3}
  Overrun <- MCOverrun
  Ceiling <- MCCeiling
  Modes = {"request", "stream", "declared"}
  Actors = {"auditor", "close", "frontdoor", "handoff", "lapse", "reaper",
            "revoke", "round", "stop", "switch", "writer"}
  MaxRecords = 4
  MaxDrain = 2
  MaxFailures = 2
SYMMETRY AuthSymmetry
CHECK_DEADLOCK FALSE
INVARIANTS NoGap StoredPrefixCovers OneTerminal BooksBalance RowFollowsRecords LastRecordListsHolds
PROPERTIES DrainedRowsWin
