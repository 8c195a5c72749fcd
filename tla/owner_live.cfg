SPECIFICATION MCFairSpec
CONSTANTS
  Scenarios = {"retry", "finish"}
  Auths = {a1}
  Granted = 2
  Estimates = {2}
  Charges = {1, 3}
  Overrun <- MCNoOverrun
  Ceiling <- MCCeiling
  Modes = {"request"}
  Actors = {"close", "lapse", "round", "writer"}
  MaxRecords = 2
  MaxDrain = 0
  MaxFailures = 1
CHECK_DEADLOCK FALSE
PROPERTIES RecordsReachLog ShortfallStored ClosedLeaseEnds
