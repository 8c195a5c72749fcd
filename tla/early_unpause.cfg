SPECIFICATION MCSpec
CONSTANTS
    r1 = r1
    r2 = r2
    Reqs = {r1, r2}
    Estimates = {1, 2}
    Actuals = {0, 1, 3}
    Amounts = {1, 3}
    ShardCounts = {1, 2, 3}
    Payments <- TwoPayments
    Paid <- TwoPaid
    Credited <- TwoCredited
    Refs <- ThreeRefs
    KindOf <- ThreeKinds
    PaymentOf <- ThreeAbout
    RefundOf <- ThreeRefunds
    MaxStory = 3
    MaxMoves = 3
    EveryNotice = TRUE
CHECK_DEADLOCK FALSE
INVARIANTS OwedIsPaused
