SPECIFICATION MCSpec
CONSTANTS
    c1 = c1
    c2 = c2
    w1 = w1
    w2 = w2
    Cashouts = {c1, c2}
    Payouts = {p1}
    Moves = {m1}
    Workers = {w1, w2}
    CashAmount = 2
    MoveAmount = 1
    EarnAmount = 3
    Nobody = Nobody
    MaxChanges = 5
    MaxDenials = 1
CHECK_DEADLOCK FALSE
INVARIANTS BooksBalance ReleasedIsUnpaid
PROPERTIES PaidIsRecorded
