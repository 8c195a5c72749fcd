------------------------------ MODULE CreditDebt ------------------------------
(***************************************************************************)
(* The debt rules of credit_debt.py, which every write to a workspace's    *)
(* credit rows ends with.  The rows are given by their headroom: a         *)
(* function h from the shards 0 .. n-1 to integers, credits less usage     *)
(* less reservations.  The operators only compute; CreditRows applies them *)
(* to the rows.                                                            *)
(***************************************************************************)
EXTENDS Integers, FiniteSets, FiniteSetsExt, Functions

Least(a, b) == IF a < b THEN a ELSE b
AtLeastZero(a) == IF a > 0 THEN a ELSE 0

\* The workspace's signed sum: an overspent row counts against the others.
Signed(h) == SumFunction(h)

Negative(h) == {s \in DOMAIN h : h[s] < 0}
Positive(h) == {s \in DOMAIN h : h[s] > 0}

----------------------------------------------------------------------------
(* Covering and squaring.                                                  *)

\* One turn of cover's loop: the lowest negative row takes from the lowest
\* positive one.
CoverStep(h) ==
    IF Negative(h) = {} THEN h
    ELSE LET neg == Min(Negative(h))
             pos == Min(Positive(h))
             moved == Least(-h[neg], h[pos])
         IN  [h EXCEPT ![neg] = @ + moved, ![pos] = @ - moved]

\* Every turn brings a row to zero, so n turns suffice.
Cover(h) ==
    LET turn[i \in 0 .. Cardinality(DOMAIN h)] ==
            IF i = 0 THEN h ELSE CoverStep(turn[i - 1])
    IN  turn[Cardinality(DOMAIN h)]

\* What any write to the rows ends with: mark them if the sum is negative,
\* and otherwise cover every negative row.
Square(h) ==
    IF Signed(h) < 0
    THEN [headroom |-> h, marked |-> TRUE]
    ELSE [headroom |-> Cover(h), marked |-> FALSE]

----------------------------------------------------------------------------
(* Money coming in.                                                        *)

\* What is taken of an amount from sources that are asked in turn, each giving
\* what it has (c) as far as it is needed; earlier[s] are those asked before s.
TakeInTurn(c, earlier, amount) ==
    [s \in DOMAIN c |->
        Least(c[s], AtLeastZero(amount - SumFunctionOnSet(c, earlier[s])))]

Lower(S) == [s \in S |-> {t \in S : t < s}]

Debts(h) == [s \in DOMAIN h |-> AtLeastZero(-h[s])]
Spare(h) == [s \in DOMAIN h |-> AtLeastZero(h[s])]

\* Spend amount on the negative rows, lowest first, each at most to zero.
Repay(h, amount) ==
    LET paid == TakeInTurn(Debts(h), Lower(DOMAIN h), amount)
    IN  [s \in DOMAIN h |-> h[s] + paid[s]]

\* Repay, then square; left is what repaid nothing and is on no row yet.
TakeInflow(h, amount) ==
    LET repaid == Repay(h, amount)
    IN  IF Signed(repaid) < 0
        THEN [headroom |-> repaid, marked |-> TRUE, left |-> 0]
        ELSE [headroom |-> Cover(repaid), marked |-> FALSE,
              left |-> AtLeastZero(amount - SumFunction(Debts(h)))]

\* distribute_credit_amount: an even split, the remainder on shard zero.
Distribute(amount, n) ==
    LET size == IF amount < 0 THEN -amount ELSE amount
        sign == IF amount < 0 THEN -1 ELSE 1
    IN  [s \in 0 .. n - 1 |->
            sign * ((size \div n) + (IF s = 0 THEN size % n ELSE 0))]

\* What is taken from the positive rows, lowest first, to find amount or as
\* much of it as there is.
TakeAscending(h, amount) == TakeInTurn(Spare(h), Lower(DOMAIN h), amount)

=============================================================================
