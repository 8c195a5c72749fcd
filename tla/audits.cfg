SPECIFICATION MCSpec
CONSTANTS
    Members = {m1, m2}
    Auths = {a1}
    Charge <- Charges
    MaxRecords = 3
    MaxRows = 1
    MaxCrashes = 1
    MaxLost = 1
CHECK_DEADLOCK FALSE
INVARIANTS BookedOnce AckedIsDurable NothingLeftBehind NoFalseGap
PROPERTIES LeaseCloses
