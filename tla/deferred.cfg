SPECIFICATION MCSpec
CONSTANTS
    r1 = r1
    r2 = r2
    r3 = r3
    w1 = w1
    w2 = w2
    Requests = {r1, r2, r3}
    Workspaces = {w1, w2}
    WorkspaceOf <- TwoWorkspaces
    Known = {w1}
    Clients = {c1, c2}
    Forwarders = {f1, f2}
    Estimate = 2
    Costs = {1, 3}
    Cap = 3
    DailyCap = 3
    KeyLimit = 6
    PassLimit = 1
    MaxFaults = 1
CHECK_DEADLOCK FALSE
INVARIANTS CountersAreExact DebtBookedOnce ExposureIsCapped
PROPERTIES DebtIsDelivered
