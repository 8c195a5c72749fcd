---------------------------- MODULE CashoutsProofs ----------------------------
(***************************************************************************)
(* Creators' cash-outs, for every value of Cashouts' CONSTANTS: the books   *)
(* say of every cash-out how often it was held (BooksBalance), and earnings *)
(* are not given back while Routable may pay them (ReleasedIsUnpaid).       *)
(***************************************************************************)
EXTENDS Cashouts, FiniteSetTheorems, TLAPS

Balances == {"none", "reserved", "paid", "released"}
CashRow == [balance : Balances, revision : Nat]
Ats == {"idle", "find", "create", "wait", "reject", "apply", "hook"}
WorkerTask ==
  [at : Ats, c : Cashouts \cup {Nobody}, status : Statuses \cup {"none"}, event : Nat]
PayableStatus == Statuses \cup {"none", "rejected"}

Types ==
  /\ earned \in Nat /\ transferred \in Nat
  /\ done \subseteq Payouts \cup Moves
  /\ cash \in [Cashouts -> CashRow]
  /\ worker \in [Workers -> WorkerTask]
  /\ transit \subseteq Cashouts
  /\ payable \in [Cashouts -> PayableStatus]
  /\ changes \in [Cashouts -> 0 .. MaxChanges]
  /\ notices \in [Cashouts -> SUBSET Nat]
  /\ denials \in 0 .. MaxDenials

-----------------------------------------------------------------------------
(* The ledger, of the books' values.                                        *)

HeldIn(k) == {c \in Cashouts : k[c].balance \in {"reserved", "paid"}}
Of(m, kind, c) == {x \in m : x[1] = kind /\ x[2] = c}
CountIn(m, kind, c) == Cardinality(Of(m, kind, c))
AliveIn(k, m) == {c \in Cashouts : c \in HeldIn(k) /\ CountIn(m, "reinstated", c) > 0}
Net(m, c) == CountIn(m, "cashout", c) + CountIn(m, "reinstated", c) - CountIn(m, "reversal", c)

\* BooksBalance, and what makes it inductive: the movements are finitely many,
\* and a cash-out that was never made has none.
TransfersSum(t, d, k) ==
  t = MoveAmount * Cardinality(d \cap Moves) + CashAmount * Cardinality(HeldIn(k))
MovementsSum(k, m) == \A c \in Cashouts : (IF c \in HeldIn(k) THEN 1 ELSE 0) = Net(m, c)
Overdrawn(e, t, k, m) == t - e <= CashAmount * Cardinality(AliveIn(k, m))
NoneYet(k, m) == \A c \in Cashouts : k[c].balance = "none" => <<"cashout", c, 0>> \notin m

Ledger(e, t, d, k, m) ==
  /\ IsFiniteSet(m) /\ NoneYet(k, m)
  /\ TransfersSum(t, d, k) /\ MovementsSum(k, m) /\ Overdrawn(e, t, k, m)

Balanced == Ledger(earned, transferred, done, cash, movements)

-----------------------------------------------------------------------------
(* What workers and Routable know.                                          *)

Made(c) == cash[c].balance # "none"

\* Routable has heard only of cash-outs that were made, and reports only
\* statuses of payables.
RoutableHeard == \A c \in Cashouts :
  /\ c \in transit \/ payable[c] # "none" => Made(c)
  /\ notices[c] # {} => payable[c] \in Statuses

\* A worker's cash-out was made; one that will release it has read that its
\* payable was canceled or rejected, unless it was denied an answer.
Knows(v, rows, status, denied) ==
  /\ v.at # "idle" => v.c \in Cashouts /\ rows[v.c].balance # "none"
  /\ v.at \in {"apply", "hook"} =>
        v.status \in Statuses /\ (v.status = "canceled" => status[v.c] = "canceled")
  /\ v.at = "reject" /\ denied = 0 => status[v.c] = "rejected"

WorkersKnow == \A w \in Workers : Knows(worker[w], cash, payable, denials)

\* A released cash-out's payable is at an end.
ReleasedAtEnd == denials = 0 => \A c \in Cashouts :
  cash[c].balance = "released" => payable[c] \in {"rejected", "canceled"}

Inv == Types /\ Balanced /\ RoutableHeard /\ WorkersKnow /\ ReleasedAtEnd

-----------------------------------------------------------------------------
(* The ledger's steps.                                                      *)

\* A movement that was not there counts once, for its cash-out and kind only.
Counts(m, m2, kind, c) ==
  \A k, b : /\ CountIn(m, k, b) \in Nat
            /\ CountIn(m2, k, b)
                 = IF k = kind /\ b = c THEN CountIn(m, k, b) + 1 ELSE CountIn(m, k, b)

LEMMA CountAdded ==
  ASSUME NEW m, IsFiniteSet(m), NEW kind, NEW c, NEW r, <<kind, c, r>> \notin m
  PROVE  /\ IsFiniteSet(m \cup {<<kind, c, r>>})
         /\ Counts(m, m \cup {<<kind, c, r>>}, kind, c)
<1> DEFINE x == <<kind, c, r>>
<1>1. x[1] = kind /\ x[2] = c
  OBVIOUS
<1> HIDE DEF x
<1>2. IsFiniteSet(m \cup {x})
  BY FS_AddElement
<1>3. ASSUME NEW k, NEW b
      PROVE  /\ CountIn(m, k, b) \in Nat
             /\ CountIn(m \cup {x}, k, b)
                  = IF k = kind /\ b = c THEN CountIn(m, k, b) + 1 ELSE CountIn(m, k, b)
  <2>1. Of(m, k, b) \in SUBSET m
    BY DEF Of
  <2>2. IsFiniteSet(Of(m, k, b))
    BY <2>1, FS_Subset
  <2>3. CountIn(m, k, b) \in Nat
    BY <2>2, FS_CardinalityType DEF CountIn
  <2>4. CASE k = kind /\ b = c
    <3>1. Of(m \cup {x}, k, b) = Of(m, k, b) \cup {x}
      BY <1>1, <2>4 DEF Of
    <3>2. x \notin Of(m, k, b)
      BY DEF Of, x
    <3>3. Cardinality(Of(m, k, b) \cup {x}) = Cardinality(Of(m, k, b)) + 1
      BY <2>2, <3>2, FS_AddElement
    <3>4. CountIn(m \cup {x}, k, b) = CountIn(m, k, b) + 1
      BY <3>1, <3>3 DEF CountIn
    <3> QED BY <2>3, <2>4, <3>4
  <2>5. CASE ~(k = kind /\ b = c)
    <3>1. Of(m \cup {x}, k, b) = Of(m, k, b)
      BY <1>1, <2>5 DEF Of
    <3> QED BY <2>3, <2>5, <3>1 DEF CountIn
  <2> QED BY <2>3, <2>4, <2>5
<1> QED BY <1>2, <1>3 DEF x, Counts

\* The sets the ledger counts are finite.
LEMMA Counted ==
  ASSUME NEW d, NEW k, NEW m
  PROVE  /\ IsFiniteSet(HeldIn(k)) /\ Cardinality(HeldIn(k)) \in Nat
         /\ IsFiniteSet(AliveIn(k, m)) /\ Cardinality(AliveIn(k, m)) \in Nat
         /\ IsFiniteSet(d \cap Moves) /\ Cardinality(d \cap Moves) \in Nat
<1>1. HeldIn(k) \in SUBSET Cashouts /\ AliveIn(k, m) \in SUBSET Cashouts
  BY DEF HeldIn, AliveIn
<1>2. d \cap Moves \in SUBSET Moves
  OBVIOUS
<1>3. IsFiniteSet(HeldIn(k)) /\ IsFiniteSet(AliveIn(k, m)) /\ IsFiniteSet(d \cap Moves)
  BY <1>1, <1>2, CashoutAssumption, FS_Subset
<1> QED BY <1>3, FS_CardinalityType

\* A product with one more, and with one less.
LEMMA OneMore ==
  ASSUME NEW n \in Nat, NEW x \in Nat
  PROVE  /\ n * (x + 1) = n * x + n /\ n * (x - 1) = n * x - n
         /\ n * x \in Nat
OBVIOUS

\* A cash-out comes to be held: reserved for the first time, or found alive.
LEMMA HoldsOneMore ==
  ASSUME NEW e \in Nat, NEW t \in Nat, NEW d, NEW k, NEW m, Ledger(e, t, d, k, m),
         NEW c \in Cashouts, c \notin HeldIn(k),
         NEW row, NEW kind, NEW r, k \in [Cashouts -> CashRow],
         row \in CashRow, row.balance \in {"reserved", "paid"},
         <<kind, c, r>> \notin m,
         \/ kind = "cashout" /\ e - t >= CashAmount
         \/ kind = "reinstated" /\ k[c].balance = "released"
  PROVE  Ledger(e, t + CashAmount, d, [k EXCEPT ![c] = row], m \cup {<<kind, c, r>>})
<1> DEFINE x == <<kind, c, r>>
           k2 == [k EXCEPT ![c] = row]
           m2 == m \cup {x}
<1>1. CashAmount \in Nat /\ MoveAmount \in Nat
  BY CashoutAssumption
<1>2. k2 \in [Cashouts -> CashRow] /\ k2[c] = row /\ \A b \in Cashouts : b # c => k2[b] = k[b]
  OBVIOUS
<1>3. IsFiniteSet(m2) /\ Counts(m, m2, kind, c)
  <2>1. IsFiniteSet(m)
    BY DEF Ledger
  <2> QED BY <2>1, CountAdded, Zenon
<1>4. x[1] = kind /\ x[2] = c
  OBVIOUS
<1>5. NoneYet(k2, m2)
  <2> SUFFICES ASSUME NEW b \in Cashouts, k2[b].balance = "none"
               PROVE  <<"cashout", b, 0>> \notin m2
    BY DEF NoneYet
  <2>1. b # c
    BY <1>2
  <2>2. <<"cashout", b, 0>> # x
    BY <2>1
  <2>3. <<"cashout", b, 0>> \notin m
    BY <1>2, <2>1 DEF Ledger, NoneYet
  <2> QED BY <2>2, <2>3
<1> HIDE DEF x, k2, m2
<1>6. HeldIn(k2) = HeldIn(k) \cup {c}
  BY <1>2 DEF HeldIn
<1>7. Cardinality(HeldIn(k2)) = Cardinality(HeldIn(k)) + 1
  BY <1>6, Counted, FS_AddElement
<1>8. TransfersSum(t + CashAmount, d, k2)
  <2> DEFINE n == Cardinality(HeldIn(k))
             j == MoveAmount * Cardinality(d \cap Moves)
  <2>1. n \in Nat /\ t = j + CashAmount * n
    BY Counted DEF Ledger, TransfersSum, Overdrawn
  <2>2. j \in Nat
    BY Counted, <1>1, OneMore
  <2>3. CashAmount * (n + 1) = CashAmount * n + CashAmount /\ CashAmount * n \in Nat
    BY <1>1, <2>1, OneMore
  <2> HIDE DEF n, j
  <2>4. Cardinality(HeldIn(k2)) = n + 1
    BY <1>7 DEF n
  <2>5. t + CashAmount = j + CashAmount * (n + 1)
    BY <1>1, <2>1, <2>2, <2>3
  <2> QED BY <2>4, <2>5 DEF j, TransfersSum
<1>9. MovementsSum(k2, m2)
  <2> SUFFICES ASSUME NEW b \in Cashouts
               PROVE  (IF b \in HeldIn(k2) THEN 1 ELSE 0) = Net(m2, b)
    BY DEF MovementsSum
  <2>1. (IF b \in HeldIn(k) THEN 1 ELSE 0) = Net(m, b)
    BY DEF Ledger, MovementsSum
  <2>2. CASE b = c
    BY <1>3, <1>6, <2>1, <2>2 DEF Net, Counts
  <2>3. CASE b # c
    <3>1. Net(m2, b) = Net(m, b)
      BY <1>3, <2>3 DEF Net, Counts
    <3> QED BY <1>6, <2>1, <2>3, <3>1
  <2> QED BY <2>2, <2>3
<1>10. Overdrawn(e, t + CashAmount, k2, m2)
  <2>1. CASE kind = "cashout"
    <3>1. (t + CashAmount) - e <= 0
      BY <1>1, <2>1
    <3>2. CashAmount * Cardinality(AliveIn(k2, m2)) \in Nat
      BY <1>1, Counted, OneMore
    <3> QED BY <1>1, <3>1, <3>2 DEF Overdrawn
  <2>2. CASE kind = "reinstated"
    <3>1. AliveIn(k2, m2) = AliveIn(k, m) \cup {c} /\ c \notin AliveIn(k, m)
      <4>1. \A b \in Cashouts : b # c => (b \in AliveIn(k2, m2) <=> b \in AliveIn(k, m))
        BY <1>3, <1>6 DEF AliveIn, Counts
      <4>2. c \in AliveIn(k2, m2)
        BY <1>3, <1>6, <2>2 DEF AliveIn, Counts
      <4>3. c \notin AliveIn(k, m) /\ AliveIn(k, m) \subseteq Cashouts
            /\ AliveIn(k2, m2) \subseteq Cashouts
        BY DEF AliveIn, Counts
      <4> QED BY <4>1, <4>2, <4>3
    <3> DEFINE n == Cardinality(AliveIn(k, m))
               n2 == Cardinality(AliveIn(k2, m2))
    <3>2. n \in Nat /\ t - e <= CashAmount * n
      BY Counted DEF Ledger, TransfersSum, Overdrawn
    <3>3. n2 = n + 1
      BY <3>1, Counted, FS_AddElement
    <3> HIDE DEF n, n2
    <3>4. CashAmount * (n + 1) = CashAmount * n + CashAmount /\ CashAmount * n \in Nat
      BY <1>1, <3>2, OneMore
    <3>5. (t + CashAmount) - e <= CashAmount * n2
      BY <1>1, <3>2, <3>3, <3>4
    <3> QED BY <3>5 DEF n2, Overdrawn
  <2> QED BY <2>1, <2>2
<1>11. Ledger(e, t + CashAmount, d, k2, m2)
  BY <1>3, <1>5, <1>8, <1>9, <1>10, Zenon DEF Ledger
<1> QED BY <1>11 DEF k2, m2, x

\* A cash-out is released.
LEMMA HoldsOneLess ==
  ASSUME NEW e \in Nat, NEW t \in Nat, NEW d, NEW k, NEW m, Ledger(e, t, d, k, m),
         NEW c \in Cashouts, c \in HeldIn(k),
         NEW row, NEW r, k \in [Cashouts -> CashRow],
         row \in CashRow, row.balance = "released", <<"reversal", c, r>> \notin m
  PROVE  Ledger(e, t - CashAmount, d, [k EXCEPT ![c] = row], m \cup {<<"reversal", c, r>>})
<1> DEFINE x == <<"reversal", c, r>>
           k2 == [k EXCEPT ![c] = row]
           m2 == m \cup {x}
<1>1. CashAmount \in Nat /\ MoveAmount \in Nat
  BY CashoutAssumption
<1>2. k2 \in [Cashouts -> CashRow] /\ k2[c] = row /\ \A b \in Cashouts : b # c => k2[b] = k[b]
  OBVIOUS
<1>3. IsFiniteSet(m2) /\ Counts(m, m2, "reversal", c)
  <2>1. IsFiniteSet(m)
    BY DEF Ledger
  <2> QED BY <2>1, CountAdded, Zenon
<1>5. NoneYet(k2, m2)
  <2> SUFFICES ASSUME NEW b \in Cashouts, k2[b].balance = "none"
               PROVE  <<"cashout", b, 0>> \notin m2
    BY DEF NoneYet
  <2>1. b # c
    BY <1>2
  <2>2. <<"cashout", b, 0>> # x
    BY <2>1
  <2>3. <<"cashout", b, 0>> \notin m
    BY <1>2, <2>1 DEF Ledger, NoneYet
  <2> QED BY <2>2, <2>3
<1> HIDE DEF x, k2, m2
<1>6. HeldIn(k2) = HeldIn(k) \ {c}
  BY <1>2 DEF HeldIn
<1>7. Cardinality(HeldIn(k2)) = Cardinality(HeldIn(k)) - 1
  BY <1>6, Counted, FS_RemoveElement
<1>8. TransfersSum(t - CashAmount, d, k2)
  <2> DEFINE n == Cardinality(HeldIn(k))
             j == MoveAmount * Cardinality(d \cap Moves)
  <2>1. n \in Nat /\ t = j + CashAmount * n
    BY Counted DEF Ledger, TransfersSum, Overdrawn
  <2>2. j \in Nat
    BY Counted, <1>1, OneMore
  <2>3. CashAmount * (n - 1) = CashAmount * n - CashAmount /\ CashAmount * n \in Nat
    BY <1>1, <2>1, OneMore
  <2> HIDE DEF n, j
  <2>4. Cardinality(HeldIn(k2)) = n - 1
    BY <1>7 DEF n
  <2>5. t - CashAmount = j + CashAmount * (n - 1)
    BY <1>1, <2>1, <2>2, <2>3
  <2> QED BY <2>4, <2>5 DEF j, TransfersSum
<1>9. MovementsSum(k2, m2)
  <2> SUFFICES ASSUME NEW b \in Cashouts
               PROVE  (IF b \in HeldIn(k2) THEN 1 ELSE 0) = Net(m2, b)
    BY DEF MovementsSum
  <2>1. (IF b \in HeldIn(k) THEN 1 ELSE 0) = Net(m, b)
    BY DEF Ledger, MovementsSum
  <2>2. CASE b = c
    BY <1>3, <1>6, <2>1, <2>2 DEF Net, Counts
  <2>3. CASE b # c
    <3>1. Net(m2, b) = Net(m, b)
      BY <1>3, <2>3 DEF Net, Counts
    <3> QED BY <1>6, <2>1, <2>3, <3>1
  <2> QED BY <2>2, <2>3
<1>10. Overdrawn(e, t - CashAmount, k2, m2)
  <2>1. AliveIn(k2, m2) = AliveIn(k, m) \ {c}
    BY <1>3, <1>6 DEF AliveIn, Counts
  <2> DEFINE n == Cardinality(AliveIn(k, m))
             n2 == Cardinality(AliveIn(k2, m2))
  <2>2. n \in Nat /\ t - e <= CashAmount * n
    BY Counted DEF Ledger, TransfersSum, Overdrawn
  <2>3. n2 = n \/ n2 = n - 1
    BY <2>1, Counted, FS_RemoveElement
  <2> HIDE DEF n, n2
  <2>4. CashAmount * (n - 1) = CashAmount * n - CashAmount /\ CashAmount * n \in Nat
    BY <1>1, <2>2, OneMore
  <2>5. t - CashAmount - e <= CashAmount * n2
    BY <1>1, <2>2, <2>3, <2>4
  <2> QED BY <2>5 DEF n2, Overdrawn
<1>11. Ledger(e, t - CashAmount, d, k2, m2)
  BY <1>3, <1>5, <1>8, <1>9, <1>10, Zenon DEF Ledger
<1> QED BY <1>11 DEF k2, m2, x

\* A row is rewritten and as much held as before.
LEMMA HoldsAsMany ==
  ASSUME NEW e, NEW t, NEW d, NEW k, NEW m, Ledger(e, t, d, k, m),
         NEW c \in Cashouts, NEW row, k \in [Cashouts -> CashRow],
         k[c].balance # "none", row.balance # "none",
         k[c].balance \in {"reserved", "paid"} <=> row.balance \in {"reserved", "paid"}
  PROVE  Ledger(e, t, d, [k EXCEPT ![c] = row], m)
<1> DEFINE k2 == [k EXCEPT ![c] = row]
<1>1. k2[c] = row /\ \A b \in Cashouts : b # c => k2[b] = k[b]
  OBVIOUS
<1> HIDE DEF k2
<1>2. HeldIn(k2) = HeldIn(k)
  BY <1>1 DEF HeldIn
<1>3. AliveIn(k2, m) = AliveIn(k, m)
  BY <1>2 DEF AliveIn
<1>4. NoneYet(k2, m)
  BY <1>1 DEF Ledger, NoneYet
<1>5. MovementsSum(k2, m)
  BY <1>2 DEF Ledger, MovementsSum
<1>6. TransfersSum(t, d, k2) /\ Overdrawn(e, t, k2, m)
  BY <1>2, <1>3 DEF Ledger, TransfersSum, Overdrawn
<1>7. Ledger(e, t, d, k2, m)
  BY <1>4, <1>5, <1>6 DEF Ledger
<1> QED BY <1>7 DEF k2

-----------------------------------------------------------------------------
(* The books' steps.                                                        *)

BooksTyped ==
  /\ earned \in Nat /\ transferred \in Nat
  /\ done \subseteq Payouts \cup Moves
  /\ cash \in [Cashouts -> CashRow]

\* A step of the books that concerns c only, and releases it only if it may.
Books(c, may) ==
  /\ BooksTyped' /\ Balanced'
  /\ cash'[c].balance # "none"
  /\ cash'[c].balance = "released" => cash[c].balance = "released" \/ may
  /\ \A b \in Cashouts : b # c => cash'[b] = cash[b]

LEMMA ReleaseBooks ==
  ASSUME BooksTyped, Balanced, NEW c \in Cashouts, Made(c), ReleaseCash(c), NEW may, may
  PROVE  Books(c, may)
<1> DEFINE r == cash[c].revision + 1
           row == [balance |-> "released", revision |-> r]
<1>1. cash[c] \in CashRow /\ r \in Nat
  BY DEF BooksTyped, CashRow
<1>2. CASE Releasable(c)
  <2>1. /\ transferred >= CashAmount /\ <<"reversal", c, r>> \notin movements
        /\ cash' = [cash EXCEPT ![c] = row]
        /\ transferred' = transferred - CashAmount
        /\ movements' = movements \cup {<<"reversal", c, r>>}
        /\ earned' = earned /\ done' = done
    BY <1>2 DEF ReleaseCash
  <2>2. c \in HeldIn(cash)
    BY <1>1, <1>2 DEF HeldIn, Releasable, CashRow, Balances
  <2>3. row \in CashRow /\ row.balance = "released"
    BY <1>1 DEF CashRow, Balances
  <2> HIDE DEF row, r
  <2>4. Ledger(earned, transferred - CashAmount, done, [cash EXCEPT ![c] = row],
               movements \cup {<<"reversal", c, r>>})
    BY <2>1, <2>2, <2>3, HoldsOneLess DEF Balanced, BooksTyped
  <2>5. Balanced'
    BY <2>1, <2>4 DEF Balanced
  <2>6. transferred - CashAmount \in Nat
    BY <2>1, CashoutAssumption DEF BooksTyped
  <2>7. BooksTyped'
    BY <2>1, <2>3, <2>6 DEF BooksTyped
  <2>8. cash'[c] = row /\ \A b \in Cashouts : b # c => cash'[b] = cash[b]
    BY <2>1 DEF BooksTyped
  <2> QED BY <2>3, <2>5, <2>7, <2>8 DEF Books
<1>3. CASE ~Releasable(c)
  <2>1. UNCHANGED books
    BY <1>3 DEF ReleaseCash
  <2> QED BY <2>1 DEF Books, books, BooksTyped, Balanced, Made
<1> QED BY <1>2, <1>3

LEMMA MarkBooks ==
  ASSUME BooksTyped, Balanced, NEW c \in Cashouts, Made(c),
         NEW status, Mark(c, status), NEW may
  PROVE  Books(c, may)
<1> DEFINE reinstates == cash[c].balance = "released" /\ status \in Pending \cup Paid
           r == cash[c].revision + 1
<1>1. cash[c] \in CashRow /\ r \in Nat /\ cash[c].balance \in Balances /\ cash[c].balance # "none"
  BY DEF BooksTyped, CashRow, Made
<1>2. CASE reinstates
  <2> DEFINE bal == MarkedBalance("reserved", status)
             row == [balance |-> bal, revision |-> r]
  <2>1. /\ <<"reinstated", c, r>> \notin movements
        /\ cash' = [cash EXCEPT ![c] = row]
        /\ transferred' = transferred + CashAmount
        /\ movements' = movements \cup {<<"reinstated", c, r>>}
        /\ earned' = earned /\ done' = done
    BY <1>2 DEF Mark
  <2>2. row \in CashRow /\ row.balance \in {"reserved", "paid"}
    BY <1>1 DEF CashRow, Balances, MarkedBalance
  <2>3. c \notin HeldIn(cash)
    BY <1>2 DEF HeldIn
  <2> HIDE DEF row, r
  <2>4. Ledger(earned, transferred + CashAmount, done, [cash EXCEPT ![c] = row],
               movements \cup {<<"reinstated", c, r>>})
    BY <1>2, <2>1, <2>2, <2>3, HoldsOneMore DEF Balanced, BooksTyped
  <2>5. Balanced'
    BY <2>1, <2>4 DEF Balanced
  <2>6. transferred + CashAmount \in Nat
    BY CashoutAssumption DEF BooksTyped
  <2>7. BooksTyped'
    BY <2>1, <2>2, <2>6 DEF BooksTyped
  <2>8. cash'[c] = row /\ \A b \in Cashouts : b # c => cash'[b] = cash[b]
    BY <2>1 DEF BooksTyped
  <2> QED BY <2>2, <2>5, <2>7, <2>8 DEF Books
<1>3. CASE ~reinstates
  <2> DEFINE bal == MarkedBalance(cash[c].balance, status)
             row == [cash[c] EXCEPT !.balance = bal]
  <2>1. /\ cash' = [cash EXCEPT ![c] = row]
        /\ earned' = earned /\ transferred' = transferred /\ done' = done
        /\ movements' = movements
    BY <1>3 DEF Mark
  <2>2. /\ bal \in Balances /\ bal # "none"
        /\ bal \in {"reserved", "paid"} <=> cash[c].balance \in {"reserved", "paid"}
        /\ bal = "released" => cash[c].balance = "released"
    BY <1>1, <1>3 DEF MarkedBalance, Balances
  <2>3. row \in CashRow /\ row.balance = bal
    BY <1>1, <2>2 DEF CashRow
  <2> HIDE DEF row, bal
  <2>4. Ledger(earned, transferred, done, [cash EXCEPT ![c] = row], movements)
    BY <1>1, <2>2, <2>3, HoldsAsMany DEF Balanced, BooksTyped
  <2>5. Balanced'
    BY <2>1, <2>4 DEF Balanced
  <2>6. BooksTyped'
    BY <2>1, <2>3 DEF BooksTyped
  <2>7. cash'[c] = row /\ \A b \in Cashouts : b # c => cash'[b] = cash[b]
    BY <2>1 DEF BooksTyped
  <2> QED BY <2>2, <2>3, <2>5, <2>6, <2>7 DEF Books
<1> QED BY <1>2, <1>3

LEMMA ReserveBooks ==
  ASSUME BooksTyped, Balanced, NEW c \in Cashouts, NEW w, Reserve(w, c), NEW may
  PROVE  Books(c, may)
<1> DEFINE row == [balance |-> "reserved", revision |-> 0]
<1>1. /\ cash[c].balance = "none" /\ earned - transferred >= CashAmount
      /\ cash' = [cash EXCEPT ![c] = row]
      /\ transferred' = transferred + CashAmount
      /\ movements' = movements \cup {<<"cashout", c, 0>>}
      /\ earned' = earned /\ done' = done
  BY DEF Reserve, NoCash, Affords, Available
<1>2. row \in CashRow /\ row.balance = "reserved"
  BY DEF CashRow, Balances
<1>3. c \notin HeldIn(cash) /\ <<"cashout", c, 0>> \notin movements
  BY <1>1 DEF HeldIn, Balanced, Ledger, NoneYet
<1> HIDE DEF row
<1>4. Ledger(earned, transferred + CashAmount, done, [cash EXCEPT ![c] = row],
             movements \cup {<<"cashout", c, 0>>})
  BY <1>1, <1>2, <1>3, HoldsOneMore DEF Balanced, BooksTyped
<1>5. Balanced'
  BY <1>1, <1>4 DEF Balanced
<1>6. transferred + CashAmount \in Nat
  BY CashoutAssumption DEF BooksTyped
<1>7. BooksTyped'
  BY <1>1, <1>2, <1>6 DEF BooksTyped
<1>8. cash'[c] = row /\ \A b \in Cashouts : b # c => cash'[b] = cash[b]
  BY <1>1 DEF BooksTyped
<1> QED BY <1>2, <1>5, <1>7, <1>8 DEF Books

\* Earnings credited to the creator.
LEMMA EarnBooks ==
  ASSUME BooksTyped, Balanced, NEW e \in Payouts, Earn(e)
  PROVE  BooksTyped' /\ Balanced'
<1>1. /\ earned' = earned + EarnAmount /\ done' = done \cup {e}
      /\ transferred' = transferred /\ cash' = cash /\ movements' = movements
  BY DEF Earn
<1>2. EarnAmount \in Nat /\ CashAmount \in Nat /\ e \notin Moves
  BY CashoutAssumption
<1>3. BooksTyped'
  BY <1>1, <1>2 DEF BooksTyped
<1>4. (done \cup {e}) \cap Moves = done \cap Moves
  BY <1>2
<1>5. TransfersSum(transferred, done \cup {e}, cash)
  BY <1>4 DEF Balanced, Ledger, TransfersSum
<1>6. Overdrawn(earned + EarnAmount, transferred, cash, movements)
  <2> DEFINE n == CashAmount * Cardinality(AliveIn(cash, movements))
  <2>1. n \in Nat
    BY <1>2, Counted, OneMore
  <2>2. transferred - earned <= n
    BY DEF Balanced, Ledger, Overdrawn
  <2> HIDE DEF n
  <2>3. transferred - (earned + EarnAmount) <= n
    BY <1>2, <2>1, <2>2 DEF BooksTyped
  <2> QED BY <2>3 DEF n, Overdrawn
<1>7. Ledger(earned + EarnAmount, transferred, done \cup {e}, cash, movements)
  BY <1>5, <1>6 DEF Balanced, Ledger
<1>8. Balanced'
  BY <1>1, <1>7 DEF Balanced
<1> QED BY <1>3, <1>8

\* Earnings moved to a workspace.
LEMMA TransferBooks ==
  ASSUME BooksTyped, Balanced, NEW e \in Moves, Transfer(e)
  PROVE  BooksTyped' /\ Balanced'
<1>1. /\ earned' = earned /\ done' = done \cup {e} /\ e \notin done
      /\ earned - transferred >= MoveAmount
      /\ transferred' = transferred + MoveAmount /\ cash' = cash /\ movements' = movements
  BY DEF Transfer, Affords, Available
<1>2. MoveAmount \in Nat /\ CashAmount \in Nat
  BY CashoutAssumption
<1>3. BooksTyped'
  BY <1>1, <1>2 DEF BooksTyped
<1>4. TransfersSum(transferred + MoveAmount, done \cup {e}, cash)
  <2> DEFINE s == done \cap Moves
             n == Cardinality(s)
             n2 == Cardinality((done \cup {e}) \cap Moves)
             j == CashAmount * Cardinality(HeldIn(cash))
  <2>1. (done \cup {e}) \cap Moves = s \cup {e} /\ e \notin s
    BY <1>1
  <2>2. n \in Nat /\ IsFiniteSet(s) /\ j \in Nat
    BY <1>2, Counted, OneMore
  <2>3. n2 = n + 1
    BY <2>1, <2>2, FS_AddElement
  <2>4. transferred = MoveAmount * n + j
    BY DEF Balanced, Ledger, TransfersSum
  <2> HIDE DEF s, n, n2, j
  <2>5. MoveAmount * (n + 1) = MoveAmount * n + MoveAmount /\ MoveAmount * n \in Nat
    BY <1>2, <2>2, OneMore
  <2>6. transferred + MoveAmount = MoveAmount * n2 + j
    BY <1>2, <2>2, <2>3, <2>4, <2>5
  <2> QED BY <2>6 DEF n2, j, TransfersSum
<1>5. Overdrawn(earned, transferred + MoveAmount, cash, movements)
  <2> DEFINE n == CashAmount * Cardinality(AliveIn(cash, movements))
  <2>1. n \in Nat
    BY <1>2, Counted, OneMore
  <2> HIDE DEF n
  <2>2. (transferred + MoveAmount) - earned <= n
    BY <1>1, <1>2, <2>1 DEF BooksTyped
  <2> QED BY <2>2 DEF n, Overdrawn
<1>6. Ledger(earned, transferred + MoveAmount, done \cup {e}, cash, movements)
  BY <1>4, <1>5 DEF Balanced, Ledger
<1>7. Balanced'
  BY <1>1, <1>6 DEF Balanced
<1> QED BY <1>3, <1>7

-----------------------------------------------------------------------------
(* The steps of workers and of Routable.                                    *)

\* What workers know stays true: cash-outs stay made, and a payable that is
\* canceled or rejected stays that.
Keeps ==
  /\ \A c \in Cashouts : cash[c].balance # "none" => cash'[c].balance # "none"
  /\ \A c \in Cashouts : payable[c] \in {"canceled", "rejected"} => payable'[c] = payable[c]
  /\ denials' = 0 => denials = 0

LEMMA KnowsStill ==
  ASSUME NEW v, Knows(v, cash, payable, denials), Keeps
  PROVE  Knows(v, cash', payable', denials')
BY DEF Knows, Keeps

LEMMA WorkerStep ==
  ASSUME worker \in [Workers -> WorkerTask], WorkersKnow, Keeps,
         NEW w \in Workers, NEW v, v \in WorkerTask, Goes(w, v),
         Knows(v, cash', payable', denials')
  PROVE  worker' \in [Workers -> WorkerTask] /\ WorkersKnow'
<1>1. worker' = [worker EXCEPT ![w] = v]
  BY DEF Goes
<1>2. worker' \in [Workers -> WorkerTask]
  BY <1>1
<1>3. ASSUME NEW x \in Workers PROVE Knows(worker'[x], cash', payable', denials')
  <2>1. CASE x = w
    BY <1>1, <2>1
  <2>2. CASE x # w
    <3>1. worker'[x] = worker[x]
      BY <1>1, <2>2
    <3>2. Knows(worker[x], cash', payable', denials')
      BY KnowsStill DEF WorkersKnow
    <3> QED BY <3>1, <3>2
  <2> QED BY <2>1, <2>2
<1> QED BY <1>2, <1>3 DEF WorkersKnow

LEMMA IdleKnows ==
  ASSUME NEW k, NEW p, NEW n
  PROVE  Idle \in WorkerTask /\ Knows(Idle, k, p, n)
BY DEF Idle, WorkerTask, Ats, Knows

LEMMA TaskFields ==
  ASSUME NEW at \in Ats, NEW c \in Cashouts, NEW status \in Statuses \cup {"none"}, NEW n \in Nat
  PROVE  /\ Task(at, c, status, n) \in WorkerTask
         /\ Task(at, c, status, n).at = at /\ Task(at, c, status, n).c = c
         /\ Task(at, c, status, n).status = status
BY DEF Task, WorkerTask

\* A worker's step of the books of c, Routable left alone.
LEMMA BooksStep ==
  ASSUME Inv, NEW c \in Cashouts, NEW may, Books(c, may),
         may /\ denials = 0 => payable[c] \in {"rejected", "canceled"},
         NEW w \in Workers, NEW v, v \in WorkerTask, Goes(w, v), v.at # "idle" => v.c = c,
         v.at \in {"idle", "find"},
         UNCHANGED <<transit, payable, changes, denials>>,
         notices' \in [Cashouts -> SUBSET Nat],
         \A b \in Cashouts : notices'[b] \subseteq notices[b]
  PROVE  Inv'
<1>1. cash'[c].balance # "none" /\ \A b \in Cashouts : b # c => cash'[b] = cash[b]
  BY DEF Books
<1>2. Keeps
  BY <1>1 DEF Keeps
<1>3. Knows(v, cash', payable', denials')
  BY <1>1 DEF Knows
<1>4. worker' \in [Workers -> WorkerTask] /\ WorkersKnow'
  BY <1>2, <1>3, WorkerStep DEF Inv, Types
<1>5. Types'
  BY <1>4 DEF Inv, Types, Books, BooksTyped
<1>6. RoutableHeard'
  <2> SUFFICES ASSUME NEW b \in Cashouts
               PROVE  /\ b \in transit \/ payable[b] # "none" => cash'[b].balance # "none"
                      /\ notices'[b] # {} => payable[b] \in Statuses
    BY DEF RoutableHeard, Made
  <2> QED BY <1>1 DEF Inv, RoutableHeard, Made
<1>7. ReleasedAtEnd'
  BY <1>1 DEF Inv, ReleasedAtEnd, Books
<1> QED BY <1>4, <1>5, <1>6, <1>7 DEF Inv, Books

\* A worker goes on; the books stay.
LEMMA TaskStep ==
  ASSUME Inv, UNCHANGED <<books, payable, changes, notices>>,
         transit' \subseteq Cashouts,
         \A b \in Cashouts : b \in transit' => b \in transit \/ Made(b),
         denials' \in 0 .. MaxDenials, denials' >= denials,
         NEW w \in Workers, NEW v, v \in WorkerTask, Goes(w, v),
         Knows(v, cash, payable, denials')
  PROVE  Inv'
<1>1. cash' = cash /\ payable' = payable /\ notices' = notices /\ changes' = changes
  BY DEF books
<1>2. denials' = 0 => denials = 0
  BY CashoutAssumption DEF Inv, Types
<1>3. Keeps
  BY <1>1, <1>2 DEF Keeps
<1>4. worker' \in [Workers -> WorkerTask] /\ WorkersKnow'
  BY <1>1, <1>3, WorkerStep DEF Inv, Types
<1>5. Types'
  BY <1>1, <1>4 DEF Inv, Types, books
<1>6. Balanced'
  BY DEF Inv, Balanced, books
<1>7. RoutableHeard'
  BY <1>1 DEF Inv, RoutableHeard, Made
<1>8. ReleasedAtEnd'
  BY <1>1, <1>2 DEF Inv, ReleasedAtEnd
<1> QED BY <1>4, <1>5, <1>6, <1>7, <1>8 DEF Inv

\* Routable's step: a payable at an end stays there.
LEMMA RoutableStep ==
  ASSUME Inv, NEW c \in Cashouts, NEW status \in Statuses \cup {"rejected"},
         Changed(c, status), payable[c] \notin {"canceled", "rejected"}, Made(c),
         status = "rejected" => payable[c] = "none",
         UNCHANGED <<books, worker, denials>>, transit' \subseteq transit
  PROVE  Inv'
<1> DEFINE n == changes[c] + 1
           sent == IF status \in Statuses THEN notices[c] \cup {n} ELSE notices[c]
<1>1. changes \in [Cashouts -> 0 .. MaxChanges] /\ notices \in [Cashouts -> SUBSET Nat]
      /\ payable \in [Cashouts -> PayableStatus] /\ MaxChanges \in Nat
  BY CashoutAssumption DEF Inv, Types
<1>2. n \in 0 .. MaxChanges /\ changes' = [changes EXCEPT ![c] = n] /\ changes'[c] = n
  BY <1>1 DEF Changed
<1>3. payable' = [payable EXCEPT ![c] = status]
  BY DEF Changed
<1>4. notices' = [notices EXCEPT ![c] = sent]
  BY <1>2 DEF Changed
<1>5. sent \in SUBSET Nat
  BY <1>1, <1>2
<1> HIDE DEF n, sent
<1>6. changes' \in [Cashouts -> 0 .. MaxChanges] /\ notices' \in [Cashouts -> SUBSET Nat]
      /\ payable' \in [Cashouts -> PayableStatus]
  BY <1>1, <1>2, <1>3, <1>4, <1>5 DEF PayableStatus
<1>7. payable'[c] = status /\ \A b \in Cashouts : b # c => payable'[b] = payable[b]
  BY <1>1, <1>3
<1>8. notices'[c] = sent /\ \A b \in Cashouts : b # c => notices'[b] = notices[b]
  BY <1>1, <1>4
<1>9. cash' = cash /\ worker' = worker /\ denials' = denials
  BY DEF books
<1>10. Types'
  BY <1>6, <1>9 DEF Inv, Types, books
<1>11. Balanced'
  BY DEF Inv, Balanced, books
<1>12. RoutableHeard'
  <2> SUFFICES ASSUME NEW b \in Cashouts
               PROVE  /\ b \in transit' \/ payable'[b] # "none" => cash[b].balance # "none"
                      /\ notices'[b] # {} => payable'[b] \in Statuses
    BY <1>9 DEF RoutableHeard, Made
  <2>1. CASE b = c
    <3>1. cash[c].balance # "none"
      BY DEF Made
    <3>2. CASE status \in Statuses
      BY <1>7, <2>1, <3>1, <3>2
    <3>3. CASE status \notin Statuses
      <4>1. payable[c] = "none" /\ sent = notices[c]
        BY <3>3 DEF sent
      <4>2. notices[c] = {}
        BY <4>1 DEF Inv, RoutableHeard, Statuses, Pending, Paid, Release
      <4> QED BY <1>8, <2>1, <3>1, <4>1, <4>2
    <3> QED BY <3>2, <3>3
  <2>2. CASE b # c
    BY <1>7, <1>8, <2>2 DEF Inv, RoutableHeard, Made
  <2> QED BY <2>1, <2>2
<1>13. Keeps
  BY <1>7, <1>9 DEF Keeps
<1>14. WorkersKnow'
  <2> SUFFICES ASSUME NEW w \in Workers PROVE Knows(worker[w], cash', payable', denials')
    BY <1>9 DEF WorkersKnow
  <2> QED BY <1>13, KnowsStill DEF Inv, WorkersKnow
<1>15. ReleasedAtEnd'
  BY <1>7, <1>9 DEF Inv, ReleasedAtEnd
<1> QED BY <1>10, <1>11, <1>12, <1>14, <1>15 DEF Inv

-----------------------------------------------------------------------------
(* Every step keeps the invariant.                                          *)

LEMMA InitInv == Init => Inv
<1> SUFFICES ASSUME Init PROVE Inv
  OBVIOUS
<1>1. NoCash \in CashRow /\ NoCash.balance = "none"
  BY DEF NoCash, CashRow, Balances
<1>2. \A c \in Cashouts : cash[c] = NoCash
  BY DEF Init
<1>3. Types
  BY <1>1, IdleKnows, CashoutAssumption DEF Init, Types, PayableStatus
<1>4. HeldIn(cash) = {}
  BY <1>1, <1>2 DEF HeldIn
<1>5. AliveIn(cash, movements) = {}
  BY <1>4 DEF AliveIn
<1>6. \A kind, c : CountIn(movements, kind, c) = 0
  <2> SUFFICES ASSUME NEW kind, NEW c PROVE CountIn(movements, kind, c) = 0
    OBVIOUS
  <2>1. Of(movements, kind, c) = {}
    BY DEF Init, Of
  <2> QED BY <2>1, FS_EmptySet DEF CountIn
<1>7. MovementsSum(cash, movements)
  BY <1>4, <1>6 DEF MovementsSum, Net
<1>8. CashAmount \in Nat /\ MoveAmount \in Nat /\ CashAmount * 0 = 0 /\ MoveAmount * 0 = 0
  BY CashoutAssumption
<1>9. TransfersSum(transferred, done, cash) /\ Overdrawn(earned, transferred, cash, movements)
  <2>1. done \cap Moves = {}
    BY DEF Init
  <2>2. /\ Cardinality(done \cap Moves) = 0 /\ Cardinality(HeldIn(cash)) = 0
        /\ Cardinality(AliveIn(cash, movements)) = 0
    BY <1>4, <1>5, <2>1, FS_EmptySet
  <2>3. TransfersSum(transferred, done, cash)
    BY <1>8, <2>2 DEF Init, TransfersSum
  <2>4. Overdrawn(earned, transferred, cash, movements)
    BY <1>8, <2>2 DEF Init, Overdrawn
  <2> QED BY <2>3, <2>4
<1>10. IsFiniteSet(movements) /\ NoneYet(cash, movements)
  BY FS_EmptySet DEF Init, NoneYet
<1>11. Balanced
  BY <1>7, <1>9, <1>10 DEF Balanced, Ledger
<1>12. RoutableHeard
  BY DEF Init, RoutableHeard
<1>13. WorkersKnow
  BY IdleKnows DEF Init, WorkersKnow
<1>14. ReleasedAtEnd
  BY <1>1, <1>2 DEF ReleasedAtEnd
<1> QED BY <1>3, <1>11, <1>12, <1>13, <1>14 DEF Inv

\* A status read from Routable is applied by a request or by a webhook.
LEMMA ApplyBooks ==
  ASSUME Inv, NEW w \in Workers, worker[w].at \in {"apply", "hook"},
         Apply(worker[w].c, worker[w].status)
  PROVE  /\ worker[w].c \in Cashouts
         /\ \E may \in BOOLEAN :
               /\ Books(worker[w].c, may)
               /\ may => payable[worker[w].c] = "canceled"
<1> DEFINE c == worker[w].c
           s == worker[w].status
<1>1. Knows(worker[w], cash, payable, denials)
  BY DEF Inv, WorkersKnow
<1>2. c \in Cashouts /\ cash[c].balance # "none" /\ (s = "canceled" => payable[c] = "canceled")
  BY <1>1 DEF Knows
<1>3. BooksTyped /\ Balanced
  BY DEF Inv, Types, BooksTyped
<1>4. Apply(c, s)
  OBVIOUS
<1> HIDE DEF c, s
<1>5. CASE s \in Release
  <2>1. PICK may \in BOOLEAN : may = TRUE
    OBVIOUS
  <2>2. ReleaseCash(c)
    BY <1>4, <1>5 DEF Apply
  <2>3. Books(c, may)
    BY <1>2, <1>3, <2>1, <2>2, ReleaseBooks DEF Made
  <2>4. payable[c] = "canceled"
    BY <1>2, <1>5 DEF Release
  <2> QED BY <1>2, <2>3, <2>4 DEF c
<1>6. CASE s \notin Release
  <2>1. PICK may \in BOOLEAN : may = FALSE
    OBVIOUS
  <2>2. Mark(c, s)
    BY <1>4, <1>6 DEF Apply
  <2>3. Books(c, may)
    BY <1>2, <1>3, <2>2, MarkBooks DEF Made
  <2> QED BY <1>2, <2>1, <2>3 DEF c
<1> QED BY <1>5, <1>6

\* A worker's own steps.
LEMMA TaskSteps ==
  ASSUME Inv, NEW w \in Workers,
         \/ \E c \in Cashouts : Retry(w, c) \/ Retrieve(w, c)
         \/ Find(w) \/ Create(w) \/ Answered(w) \/ TimesOut(w) \/ Denied(w) \/ Dies(w)
  PROVE  Inv'
<1>1. /\ worker[w] \in WorkerTask /\ transit \subseteq Cashouts /\ denials \in 0 .. MaxDenials
      /\ MaxDenials \in Nat /\ \A c \in Cashouts : payable[c] \in PayableStatus
  BY CashoutAssumption DEF Inv, Types
<1>2. Knows(worker[w], cash, payable, denials)
  BY DEF Inv, WorkersKnow
<1>3. CASE \E c \in Cashouts : Retry(w, c)
  <2>1. PICK c \in Cashouts : Retry(w, c)
    BY <1>3
  <2> DEFINE v == Task("find", c, "none", 0)
  <2>2. v \in WorkerTask /\ v.at = "find" /\ v.c = c
    BY TaskFields DEF Ats
  <2>3. /\ Goes(w, v) /\ cash[c].balance # "none" /\ UNCHANGED <<books, routable, denials>>
    BY <2>1 DEF Retry
  <2> HIDE DEF v
  <2>4. Knows(v, cash, payable, denials')
    BY <2>2, <2>3 DEF Knows
  <2> QED BY <1>1, <2>2, <2>3, <2>4, TaskStep DEF routable
<1>4. CASE \E c \in Cashouts : Retrieve(w, c)
  <2>1. PICK c \in Cashouts : Retrieve(w, c)
    BY <1>4
  <2>2. PICK n \in notices[c] : Goes(w, Task("hook", c, payable[c], n))
    BY <2>1 DEF Retrieve
  <2> DEFINE v == Task("hook", c, payable[c], n)
  <2>3. UNCHANGED <<books, routable, denials>>
    BY <2>1 DEF Retrieve
  <2>4. n \in Nat /\ payable[c] \in Statuses /\ cash[c].balance # "none"
    BY <1>1, <2>2 DEF Inv, Types, RoutableHeard, Made, Statuses, Pending, Paid, Release
  <2>5. v \in WorkerTask /\ v.at = "hook" /\ v.c = c /\ v.status = payable[c] /\ Goes(w, v)
    BY <2>2, <2>4, TaskFields DEF Ats
  <2> HIDE DEF v
  <2>6. Knows(v, cash, payable, denials')
    BY <2>4, <2>5 DEF Knows
  <2> QED BY <1>1, <2>3, <2>5, <2>6, TaskStep DEF routable
<1>5. CASE Find(w)
  <2> DEFINE c == worker[w].c
  <2>1. UNCHANGED <<books, routable, denials>>
    BY <1>5 DEF Find
  <2>2. c \in Cashouts /\ cash[c].balance # "none"
    BY <1>2, <1>5 DEF Find, Knows
  <2>3. CASE payable[c] \in Statuses
    <3> DEFINE v == Task("apply", c, payable[c], 0)
    <3>1. Goes(w, v)
      BY <1>5, <2>3 DEF Find
    <3>2. v \in WorkerTask /\ v.at = "apply" /\ v.c = c /\ v.status = payable[c]
      BY <2>2, <2>3, TaskFields DEF Ats
    <3> HIDE DEF v, c
    <3>3. Knows(v, cash, payable, denials')
      BY <2>2, <2>3, <3>2 DEF Knows
    <3> QED BY <1>1, <2>1, <3>1, <3>2, <3>3, TaskStep DEF routable
  <2>4. CASE payable[c] \notin Statuses
    <3> DEFINE v == Task("create", c, "none", 0)
    <3>1. Goes(w, v)
      BY <1>5, <2>4 DEF Find
    <3>2. v \in WorkerTask /\ v.at = "create" /\ v.c = c
      BY <2>2, TaskFields DEF Ats
    <3> HIDE DEF v, c
    <3>3. Knows(v, cash, payable, denials')
      BY <2>2, <3>2 DEF Knows
    <3> QED BY <1>1, <2>1, <3>1, <3>2, <3>3, TaskStep DEF routable
  <2> QED BY <2>3, <2>4
<1>6. CASE Create(w)
  <2> DEFINE c == worker[w].c
             v == [worker[w] EXCEPT !.at = "wait"]
  <2>1. /\ transit' = transit \cup {c} /\ Goes(w, v)
        /\ UNCHANGED <<books, payable, changes, notices, denials>>
    BY <1>6 DEF Create
  <2>2. c \in Cashouts /\ cash[c].balance # "none"
    BY <1>2, <1>6 DEF Create, Knows
  <2>3. v \in WorkerTask /\ v.at = "wait" /\ v.c = c
    BY <1>1 DEF WorkerTask, Ats
  <2> HIDE DEF v, c
  <2>4. Knows(v, cash, payable, denials')
    BY <2>2, <2>3 DEF Knows
  <2>5. transit' \subseteq Cashouts /\ \A b \in Cashouts : b \in transit' => b \in transit \/ Made(b)
    BY <1>1, <2>1, <2>2 DEF Made
  <2>6. denials' \in 0 .. MaxDenials /\ denials' >= denials
    BY <1>1, <2>1
  <2> QED BY <2>1, <2>3, <2>4, <2>5, <2>6, TaskStep
<1>7. CASE Answered(w)
  <2> DEFINE c == worker[w].c
  <2>1. UNCHANGED <<books, routable, denials>>
    BY <1>7 DEF Answered
  <2>2. c \in Cashouts /\ cash[c].balance # "none"
    BY <1>2, <1>7 DEF Answered, Knows
  <2>3. CASE payable[c] = "rejected"
    <3> DEFINE v == Task("reject", c, "none", 0)
    <3>1. Goes(w, v)
      BY <1>7, <2>3 DEF Answered
    <3>2. v \in WorkerTask /\ v.at = "reject" /\ v.c = c
      BY <2>2, TaskFields DEF Ats
    <3> HIDE DEF v, c
    <3>3. Knows(v, cash, payable, denials')
      BY <2>2, <2>3, <3>2 DEF Knows
    <3> QED BY <1>1, <2>1, <3>1, <3>2, <3>3, TaskStep DEF routable
  <2>4. CASE payable[c] # "rejected"
    <3> DEFINE v == Task("apply", c, payable[c], 0)
    <3>1. Goes(w, v) /\ payable[c] # "none"
      BY <1>7, <2>4 DEF Answered
    <3>2. payable[c] \in Statuses
      BY <1>1, <2>2, <2>4, <3>1 DEF PayableStatus
    <3>3. v \in WorkerTask /\ v.at = "apply" /\ v.c = c /\ v.status = payable[c]
      BY <2>2, <3>2, TaskFields DEF Ats
    <3> HIDE DEF v, c
    <3>4. Knows(v, cash, payable, denials')
      BY <2>2, <3>2, <3>3 DEF Knows
    <3> QED BY <1>1, <2>1, <3>1, <3>3, <3>4, TaskStep DEF routable
  <2> QED BY <2>3, <2>4
<1>8. CASE TimesOut(w) \/ Dies(w)
  <2>1. Goes(w, Idle) /\ UNCHANGED <<books, routable, denials>>
    BY <1>8 DEF TimesOut, Dies, Ambiguous
  <2> QED BY <1>1, <2>1, IdleKnows, TaskStep DEF routable
<1>9. CASE Denied(w)
  <2> DEFINE v == [worker[w] EXCEPT !.at = "reject"]
  <2>1. /\ denials < MaxDenials /\ denials' = denials + 1 /\ Goes(w, v)
        /\ UNCHANGED <<books, routable>>
    BY <1>9 DEF Denied
  <2>2. v \in WorkerTask /\ v.at = "reject" /\ v.c = worker[w].c
    BY <1>1 DEF WorkerTask, Ats
  <2>3. worker[w].c \in Cashouts /\ cash[worker[w].c].balance # "none"
    BY <1>2, <1>9 DEF Denied, Knows
  <2>4. denials' \in 0 .. MaxDenials /\ denials' >= denials /\ denials' # 0
    BY <1>1, <2>1
  <2> HIDE DEF v
  <2>5. Knows(v, cash, payable, denials')
    BY <2>2, <2>3, <2>4 DEF Knows
  <2> QED BY <1>1, <2>1, <2>2, <2>4, <2>5, TaskStep DEF routable
<1> QED BY <1>3, <1>4, <1>5, <1>6, <1>7, <1>8, <1>9

\* The steps that write the books.
LEMMA BooksSteps ==
  ASSUME Inv, NEW w \in Workers,
         (\E c \in Cashouts : Reserve(w, c)) \/ Reject(w) \/ Reconcile(w) \/ ProcessEvent(w)
  PROVE  Inv'
<1>1. BooksTyped /\ Balanced /\ notices \in [Cashouts -> SUBSET Nat]
  BY DEF Inv, Types, BooksTyped
<1>2. Idle \in WorkerTask /\ Idle.at = "idle"
  BY IdleKnows DEF Idle
<1>3. CASE \E c \in Cashouts : Reserve(w, c)
  <2>1. PICK c \in Cashouts : Reserve(w, c)
    BY <1>3
  <2>2. PICK may \in BOOLEAN : may = FALSE
    OBVIOUS
  <2>3. Books(c, may)
    BY <1>1, <2>1, ReserveBooks
  <2> DEFINE v == Task("find", c, "none", 0)
  <2>4. v \in WorkerTask /\ v.at = "find" /\ v.c = c
    BY TaskFields DEF Ats
  <2>5. Goes(w, v) /\ UNCHANGED <<transit, payable, changes, notices, denials>>
    BY <2>1 DEF Reserve, routable
  <2> HIDE DEF v
  <2> QED BY <1>1, <2>2, <2>3, <2>4, <2>5, BooksStep
<1>4. CASE Reject(w)
  <2> DEFINE c == worker[w].c
  <2>1. Goes(w, Idle) /\ ReleaseCash(c) /\ UNCHANGED <<transit, payable, changes, notices, denials>>
    BY <1>4 DEF Reject, routable
  <2>2. c \in Cashouts /\ Made(c) /\ (denials = 0 => payable[c] = "rejected")
    BY <1>4 DEF Reject, Inv, WorkersKnow, Knows, Made
  <2>3. PICK may \in BOOLEAN : may = TRUE
    OBVIOUS
  <2> HIDE DEF c
  <2>4. Books(c, may)
    BY <1>1, <2>1, <2>2, <2>3, ReleaseBooks
  <2> QED BY <1>1, <1>2, <2>1, <2>2, <2>4, BooksStep
<1>5. CASE Reconcile(w)
  <2> DEFINE c == worker[w].c
  <2>1. Goes(w, Idle) /\ UNCHANGED <<transit, payable, changes, notices, denials>>
    BY <1>5 DEF Reconcile, routable
  <2>2. c \in Cashouts /\ \E may \in BOOLEAN : Books(c, may) /\ (may => payable[c] = "canceled")
    BY <1>5, ApplyBooks DEF Reconcile
  <2> HIDE DEF c
  <2>3. PICK may \in BOOLEAN : Books(c, may) /\ (may => payable[c] = "canceled")
    BY <2>2
  <2> QED BY <1>1, <1>2, <2>1, <2>2, <2>3, BooksStep
<1>6. CASE ProcessEvent(w)
  <2> DEFINE c == worker[w].c
  <2>1. Goes(w, Idle) /\ UNCHANGED <<transit, payable, changes, denials>>
    BY <1>6 DEF ProcessEvent
  <2>2. c \in Cashouts /\ \E may \in BOOLEAN : Books(c, may) /\ (may => payable[c] = "canceled")
    BY <1>6, ApplyBooks DEF ProcessEvent
  <2>3. notices' = [notices EXCEPT ![c] = notices[c] \ {worker[w].event}]
    BY <1>6 DEF ProcessEvent
  <2>4. /\ notices' \in [Cashouts -> SUBSET Nat]
        /\ \A b \in Cashouts : notices'[b] \subseteq notices[b]
    BY <1>1, <2>2, <2>3
  <2> HIDE DEF c
  <2>5. PICK may \in BOOLEAN : Books(c, may) /\ (may => payable[c] = "canceled")
    BY <2>2
  <2> QED BY <1>2, <2>1, <2>2, <2>4, <2>5, BooksStep
<1> QED BY <1>3, <1>4, <1>5, <1>6

\* Routable's steps.
LEMMA RoutableSteps ==
  ASSUME Inv, NEW c \in Cashouts, Takes(c) \/ Moved(c)
  PROVE  Inv'
<1>1. {"pending", "failed", "completed", "canceled"} \subseteq Statuses
  BY DEF Statuses, Pending, Paid, Release
<1>2. CASE Moved(c)
  <2>1. UNCHANGED <<books, worker, transit, denials>>
    BY <1>2 DEF Moved
  <2>2. PICK status \in {"pending", "failed", "completed", "canceled"} : Changed(c, status)
    BY <1>2 DEF Moved
  <2>3. payable[c] \in {"pending", "failed", "completed"}
    BY <1>2 DEF Moved
  <2>4. Made(c)
    BY <2>3 DEF Inv, RoutableHeard
  <2> QED BY <1>1, <2>1, <2>2, <2>3, <2>4, RoutableStep
<1>3. CASE Takes(c) /\ payable[c] = "none"
  <2>1. UNCHANGED <<books, worker, denials>> /\ transit' \subseteq transit
    BY <1>3 DEF Takes
  <2>2. PICK status \in {"pending", "rejected"} : Changed(c, status)
    BY <1>3 DEF Takes
  <2>3. Made(c)
    BY <1>3 DEF Takes, Inv, RoutableHeard
  <2> QED BY <1>1, <1>3, <2>1, <2>2, <2>3, RoutableStep
<1>4. CASE Takes(c) /\ payable[c] # "none"
  <2>1. UNCHANGED <<books, worker, denials, payable, changes, notices>>
        /\ transit' = transit \ {c}
    BY <1>4 DEF Takes
  <2>2. Types' /\ Balanced'
    BY <2>1 DEF Inv, Types, Balanced, books
  <2>3. RoutableHeard'
    BY <2>1 DEF Inv, RoutableHeard, Made, books
  <2>4. WorkersKnow' /\ ReleasedAtEnd'
    BY <2>1 DEF Inv, WorkersKnow, ReleasedAtEnd, books
  <2> QED BY <2>2, <2>3, <2>4 DEF Inv
<1> QED BY <1>2, <1>3, <1>4

LEMMA NextInv == Inv /\ [Next]_vars => Inv'
<1> SUFFICES ASSUME Inv, [Next]_vars PROVE Inv'
  OBVIOUS
<1>1. BooksTyped /\ Balanced
  BY DEF Inv, Types, BooksTyped
<1>2. CASE (\E e \in Payouts : Earn(e)) \/ (\E e \in Moves : Transfer(e))
  <2>1. BooksTyped' /\ Balanced'
    BY <1>1, <1>2, EarnBooks, TransferBooks
  <2>2. UNCHANGED <<cash, worker, transit, payable, changes, notices, denials>>
    BY <1>2 DEF Earn, Transfer, routable
  <2>3. Types'
    BY <2>1, <2>2 DEF Inv, Types, BooksTyped
  <2>4. RoutableHeard' /\ WorkersKnow' /\ ReleasedAtEnd'
    BY <2>2 DEF Inv, RoutableHeard, Made, WorkersKnow, ReleasedAtEnd
  <2> QED BY <2>1, <2>3, <2>4 DEF Inv
<1>3. CASE \E w \in Workers :
             \/ \E c \in Cashouts : Retry(w, c) \/ Retrieve(w, c)
             \/ Find(w) \/ Create(w) \/ Answered(w) \/ TimesOut(w) \/ Denied(w) \/ Dies(w)
  BY <1>3, TaskSteps
<1>4. CASE \E w \in Workers :
             (\E c \in Cashouts : Reserve(w, c)) \/ Reject(w) \/ Reconcile(w) \/ ProcessEvent(w)
  BY <1>4, BooksSteps
<1>5. CASE \E c \in Cashouts : Takes(c) \/ Moved(c)
  BY <1>5, RoutableSteps
<1>6. CASE UNCHANGED vars
  <2>1. Types' /\ Balanced' /\ RoutableHeard'
    BY <1>6 DEF vars, Inv, Types, Balanced, RoutableHeard, Made
  <2>2. WorkersKnow' /\ ReleasedAtEnd'
    BY <1>6 DEF vars, Inv, WorkersKnow, ReleasedAtEnd
  <2> QED BY <2>1, <2>2 DEF Inv
<1>7. Next \/ UNCHANGED vars
  OBVIOUS
<1> QED BY <1>2, <1>3, <1>4, <1>5, <1>6, <1>7 DEF Next

\* The invariant holds throughout.
THEOREM InvCorrect == Spec => []Inv
<1> QED BY InitInv, NextInv, PTL DEF Spec

\* What cash-outs, workers and Routable's payables are is typed, whatever
\* order answers and events arrive in.
THEOREM TypeCorrect == Spec => []TypeOK
<1>1. Inv => TypeOK
  <2> SUFFICES ASSUME Inv PROVE TypeOK
    OBVIOUS
  <2>1. \A w \in Workers :
          /\ worker[w].at \in Ats
          /\ worker[w].at \in {"apply", "hook"} => worker[w].status \in Statuses
    BY DEF Inv, Types, WorkersKnow, Knows, WorkerTask
  <2> QED BY <2>1 DEF Inv, Types, TypeOK, CashRow, Balances, PayableStatus, Ats
<1> QED BY <1>1, InvCorrect, PTL

\* transfer_earnings_to_workspace, the reservation, the releases and the
\* reinstatements of cash-outs keep the balance row and the movements in step,
\* and only reinstatements overdraw the creator's earnings (BooksBalance).
THEOREM EarningsBalance == Spec => []BooksBalance
<1>1. Inv => BooksBalance
  <2> SUFFICES ASSUME Inv PROVE BooksBalance
    OBVIOUS
  <2>1. \A c \in Cashouts : Held(c) <=> c \in HeldIn(cash)
    BY DEF Held, HeldIn
  <2>2. {c \in Cashouts : Held(c)} = HeldIn(cash)
    BY <2>1 DEF HeldIn
  <2>3. \A kind, c : Count(kind, c) = CountIn(movements, kind, c)
    BY DEF Count, CountIn, Of
  <2>4. {c \in Cashouts : Held(c) /\ Count("reinstated", c) > 0} = AliveIn(cash, movements)
    BY <2>1, <2>3 DEF AliveIn
  <2>5. transferred = MoveAmount * Cardinality(done \cap Moves)
                      + CashAmount * Cardinality({c \in Cashouts : Held(c)})
    BY <2>2 DEF Inv, Balanced, Ledger, TransfersSum
  <2>6. \A c \in Cashouts :
          (IF Held(c) THEN 1 ELSE 0)
            = Count("cashout", c) + Count("reinstated", c) - Count("reversal", c)
    BY <2>1, <2>3 DEF Inv, Balanced, Ledger, MovementsSum, Net
  <2>7. -Available <= CashAmount *
          Cardinality({c \in Cashouts : Held(c) /\ Count("reinstated", c) > 0})
    <3> DEFINE n == CashAmount * Cardinality(AliveIn(cash, movements))
    <3>1. transferred - earned <= n
      BY DEF Inv, Balanced, Ledger, Overdrawn
    <3>2. n \in Nat
      BY Counted, OneMore, CashoutAssumption
    <3> HIDE DEF n
    <3>3. -Available <= n
      BY <3>1, <3>2 DEF Inv, Types, Available
    <3> QED BY <2>4, <3>3 DEF n
  <2> QED BY <2>5, <2>6, <2>7 DEF BooksBalance
<1> QED BY <1>1, InvCorrect, PTL

\* While Routable denies no call, release_earnings_cashout gives earnings back
\* only when the payable is rejected or canceled for good (ReleasedIsUnpaid).
THEOREM ReleasesAreUnpaid == Spec => []ReleasedIsUnpaid
<1>1. Inv => ReleasedIsUnpaid
  BY DEF Inv, ReleasedAtEnd, ReleasedIsUnpaid
<1> QED BY <1>1, InvCorrect, PTL

=============================================================================
