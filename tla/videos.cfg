CONSTANTS
    a1 = a1
    Jobs = {j1, j2}
    Auths = {a1}
    AuthOf <- OneAuth
    Pollers = {p1, p2}
    None = None
    SubmitWait = 2
    PollWait = 1
    Retention = 2
    Lease = 1
    MaxTime = 8
    MaxFaults = 3
SPECIFICATION Spec
SYMMETRY Symmetric
CHECK_DEADLOCK FALSE
INVARIANTS NothingForgotten SubmittedOnce
