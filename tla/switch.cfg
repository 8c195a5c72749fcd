SPECIFICATION MCSpec
CONSTANTS
    w1 = w1
    w2 = w2
    Workspaces = {w1, w2}
    Usage <- ByUsage
    MaxRank = 1
    Margin = 0
    Cap = 1
    MaxEnables = 1
    Facts = {"good", "mid", "low", "latched", "deleted"}
    MaxDeaths = 1
CHECK_DEADLOCK FALSE
INVARIANTS StopsStand LeasesFollowSwitch
PROPERTIES EnablerSettles
