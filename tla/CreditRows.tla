------------------------------ MODULE CreditRows ------------------------------
(***************************************************************************)
(* One workspace's credit in Spanner: its tr_credit_balance rows, one per  *)
(* shard, and the payment facts of tr_trust_event with the principal that  *)
(* refunds and disputes claim back from them.  Every action is one         *)
(* transaction, so the hard part is what a long mix of them leaves behind: *)
(* overruns, debts, claims, returns, pauses and reshards, with the payment *)
(* provider's notices duplicated, reordered and ahead of their payment.    *)
(***************************************************************************)
EXTENDS Integers, Sequences, FiniteSets, FiniteSetsExt, CreditDebt

CONSTANTS
    Reqs,           \* requests; each takes at most one hold
    Estimates,      \* what a hold may ask for
    Actuals,        \* what a settled request may cost
    Amounts,        \* what a grant, debit, transfer or booking may move
    ShardCounts,    \* the shard counts an operator may choose
    Payments,       \* 1 .. n, in the order in which they occurred
    Paid,           \* each payment's amount, fees included
    Credited,       \* the part of it credited to the workspace
    Refs,           \* the provider's refunds and disputes
    KindOf,         \* "refund" or "dispute"
    PaymentOf,      \* the payment each is about
    RefundOf,       \* the amount a refund gives back
    MaxStory,       \* bound on the statuses of a refund or dispute
    MaxMoves,       \* bound on the operations outside requests and payments
    EveryNotice     \* the inbox keeps every notice (PayPal, Adyen), or one
                    \* per refund or dispute (Stripe, x402)

ASSUME PaymentsAssumption ==
    /\ IsFiniteSet(Payments) /\ Payments = 1 .. Cardinality(Payments)
    /\ Paid \in [Payments -> Nat \ {0}] /\ Credited \in [Payments -> Nat]
    /\ PaymentOf \in [Refs -> Payments] /\ RefundOf \in [Refs -> Nat]
    /\ KindOf \in [Refs -> {"refund", "dispute"}] /\ IsFiniteSet(Refs)
    /\ EveryNotice \in BOOLEAN
ASSUME AmountsAssumption ==
    /\ Estimates \cup Amounts \subseteq Nat \ {0} /\ Actuals \subseteq Nat
    /\ ShardCounts \subseteq Nat \ {0} /\ MaxMoves \in Nat /\ MaxStory \in Nat
    /\ IsFiniteSet(Reqs)

VARIABLES
    ws,      \* the workspace: rows, marked, claims, facts, causes
    holds,   \* each request's open hold
    story,   \* each refund's or dispute's statuses so far, at the provider
    heard,   \* the notices delivered at least once
    inbox,   \* each payment's notices, kept until it is credited, oldest first
    money,   \* what grants and payments put in, less what was taken out
    moves

vars == <<ws, holds, story, heard, inbox, money, moves>>

NoHold == [shard |-> 0, amount |-> 0]
NoClaim == [credited |-> FALSE, target |-> 0, recovered |-> 0, unrecovered |-> 0]
NoFact == [status |-> "none", watermark |-> 0]
Causes == {"principal_recovery", "migration"}
Statuses == {"pending", "succeeded", "failed", "reversed", "won", "lost", "closed"}
Notices == [ref : Refs, watermark : 1 .. MaxStory, status : Statuses]

----------------------------------------------------------------------------
(* The rows.                                                               *)

Headroom(w) == [s \in DOMAIN w.rows |->
                    w.rows[s].credits - w.rows[s].usage - w.rows[s].reserved]

ShardCount(w) == Cardinality(DOMAIN w.rows)
Total(w, field) == SumFunction([s \in DOMAIN w.rows |-> w.rows[s][field]])

\* Only credit is written, shard by shard.
WithCredits(w, c) ==
    [w EXCEPT !.rows = [s \in DOMAIN w.rows |-> [w.rows[s] EXCEPT !.credits = c[s]]]]

\* write_credit_rows: credit moves so that each row ends with headroom h, and
\* one mark is set on all of them.
WriteRows(w, h, mark) ==
    [WithCredits(w, [s \in DOMAIN w.rows |->
                        w.rows[s].credits + h[s] - Headroom(w)[s]])
        EXCEPT !.marked = mark]

\* cover_or_mark, after a write that took money out.
CoverOrMark(w) == LET sq == Square(Headroom(w)) IN WriteRows(w, sq.headroom, sq.marked)

\* Take the amounts t off the rows' credit, shard by shard.
TakeOff(w, t) == WithCredits(w, [s \in DOMAIN w.rows |-> w.rows[s].credits - t[s]])

----------------------------------------------------------------------------
(* Payment claims.                                                         *)

Unrecovered(w) == {p \in Payments : w.claims[p].unrecovered > 0}

\* _sync_principal_recovery_pause_tx, which replicates the cause to every row.
SyncPause(w, pause) ==
    [w EXCEPT !.causes = IF pause THEN @ \cup {"principal_recovery"}
                                  ELSE @ \ {"principal_recovery"}]

\* What the claims take of an offer, oldest payment first.
ClaimTakes(w, offered) ==
    TakeInTurn([p \in Payments |-> w.claims[p].unrecovered], Lower(Payments), offered)

\* Mutant: what an offer leaves over is taken too.
AbsorbedAll(w, offered) == IF Unrecovered(w) = {} THEN 0 ELSE offered

Absorbed(w, offered) == SumFunction(ClaimTakes(w, offered))

\* absorb_unrecovered_recovery_tx: later credit pays the oldest claims, and
\* the pause follows what is still unrecovered.
Absorb(w, offered) ==
    IF Unrecovered(w) = {} THEN w
    ELSE LET t == ClaimTakes(w, offered)
             paid == [w EXCEPT !.claims = [p \in Payments |-> [w.claims[p] EXCEPT
                            !.recovered = @ + t[p], !.unrecovered = @ - t[p]]]]
         IN  SyncPause(paid, Unrecovered(paid) # {})

----------------------------------------------------------------------------
(* Money coming in.                                                        *)

\* New money, on no row yet: it repays the negative rows, then claims, and
\* what is left is spread over the rows.  A restored claim absorbs none.
NewMoney(w, amount, absorbing) ==
    LET in == TakeInflow(Headroom(w), amount)
        offer == IF in.marked \/ ~absorbing THEN 0 ELSE in.left
        spread == Distribute(in.left - Absorbed(w, offer), ShardCount(w))
        h == [s \in DOMAIN in.headroom |-> in.headroom[s] + spread[s]]
        done == WriteRows(w, h, in.marked)
    IN  IF offer > 0 THEN Absorb(done, offer) ELSE done

\* Money a release freed on row s, which already holds it.
Returned(w, amount, s) ==
    LET in == TakeInflow([Headroom(w) EXCEPT ![s] = @ - amount], amount)
        offer == IF in.marked THEN 0 ELSE in.left
        h == [in.headroom EXCEPT ![s] = @ + in.left - Absorbed(w, offer)]
        done == WriteRows(w, h, in.marked)
    IN  IF offer > 0 THEN Absorb(done, offer) ELSE done

----------------------------------------------------------------------------
(* Holds: reserve_credit and release_credit.                               *)

\* The hold's row has the headroom, is not in debt, and nothing pauses it.
Reservable(w, s, est) ==
    /\ w.causes = {}
    /\ Headroom(w)[s] >= est
    /\ ~w.marked

Reserve(r, s, est) ==
    /\ holds[r] = NoHold
    /\ Reservable(ws, s, est)
    /\ ws' = [ws EXCEPT !.rows[s].reserved = @ + est]
    /\ holds' = [holds EXCEPT ![r] = [shard |-> s, amount |-> est]]
    /\ UNCHANGED <<story, heard, inbox, money, moves>>

\* Row s gives a hold back and books a usage.
SpentRow(row, hold, actual) == [row EXCEPT !.reserved = @ - hold, !.usage = @ + actual]
Spent(w, s, hold, actual) == [w EXCEPT !.rows[s] = SpentRow(@, hold, actual)]

\* Mutant: an overrun is left on its row.
ReleasedUncovered(w, s, hold, actual) ==
    LET own == Spent(w, s, hold, actual)
        free == hold - actual
    IN  IF free <= 0 THEN own ELSE Returned(own, free, s)

\* Release the exact hold and book the usage.  An overrun covers its row or
\* marks them all.  Money freed on a marked or negative row repays first;
\* otherwise only claims may take it, off the row it is on.
Released(w, s, hold, actual) ==
    LET own == Spent(w, s, hold, actual)
        free == hold - actual
        left == Headroom(own)[s]
    IN  CASE free < 0 -> IF left < 0 /\ ~w.marked THEN CoverOrMark(own) ELSE own
          [] free = 0 -> own
          [] OTHER -> IF w.marked \/ left - free < 0
                      THEN Returned(own, free, s)
                      ELSE Absorb([own EXCEPT !.rows[s].credits =
                                      @ - Absorbed(w, free)], free)

Release(r, actual) ==
    /\ holds[r] # NoHold
    /\ ws' = Released(ws, holds[r].shard, holds[r].amount, actual)
    /\ holds' = [holds EXCEPT ![r] = NoHold]
    /\ UNCHANGED <<story, heard, inbox, money, moves>>

----------------------------------------------------------------------------
(* Grants, debits, transfers and bookings.                                 *)

Move(w, in) ==
    /\ moves < MaxMoves
    /\ ws' = w
    /\ money' = money + in
    /\ moves' = moves + 1
    /\ UNCHANGED <<holds, story, heard, inbox>>

\* _credit_workspace_balance_tx.
Grant(amount) == Move(NewMoney(ws, amount, TRUE), amount)

\* A transfer from another plane, or an escrow's return: no claim takes of it.
TransferIn(amount) == Move(NewMoney(ws, amount, FALSE), amount)

\* A negative grant is spread like a grant, then the rows are squared.
NegativeGrant(amount) ==
    Move(CoverOrMark(TakeOff(ws, Distribute(amount, ShardCount(ws)))), -amount)

\* debit_workspace_guarded: shard zero alone, and its headroom must cover it.
Debitable(w, amount) == Headroom(w)[0] >= amount
Debit(amount) ==
    /\ Debitable(ws, amount)
    /\ Move([ws EXCEPT !.rows[0].credits = @ - amount], -amount)

\* A transfer out or an escrow: the signed sum must cover it, and the
\* positive rows give it, lowest first.
Transferable(w, amount) == Signed(Headroom(w)) >= amount
TransferOut(amount) ==
    /\ Transferable(ws, amount)
    /\ Move(TakeOff(ws, TakeAscending(Headroom(ws), amount)), -amount)

\* Usage a peer plane booked: on shard zero, whatever its headroom.
FederatedUsage(cost) ==
    LET own == Spent(ws, 0, 0, cost)
    IN  Move(IF Headroom(own)[0] < 0 /\ ~ws.marked THEN CoverOrMark(own) ELSE own, 0)

----------------------------------------------------------------------------
(* Moving idle headroom between rows.                                      *)

\* What each donor gives a target row for an estimate: the largest headroom
\* first, the higher shard on a tie.
Donations(h, target, est) ==
    LET earlier == [s \in DOMAIN h |->
                        {d \in DOMAIN h : h[d] > h[s] \/ (h[d] = h[s] /\ d > s)}]
    IN  TakeInTurn([Spare(h) EXCEPT ![target] = 0], earlier, est - h[target])

\* rebalance_credit_for_estimate: affordable by the signed sum, and the target
\* short of the estimate.
Rebalance(target, est) ==
    LET h == Headroom(ws)
        give == Donations(h, target, est)
    IN  /\ Signed(h) >= est
        /\ h[target] < est
        /\ Move(TakeOff(ws, [s \in DOMAIN h |->
                    IF s = target THEN h[target] - est ELSE give[s]]), 0)

\* Mutant: reservations are spread like credit.
SplitRowsAll(w, n) ==
    LET held == Distribute(Total(w, "reserved"), n)
        free == Distribute(Signed(Headroom(w)), n)
        used == Distribute(Total(w, "usage"), n)
    IN  [s \in 0 .. n - 1 |-> [usage |-> used[s], reserved |-> held[s],
                              credits |-> used[s] + held[s] + free[s]]]

\* reshard_credit_account of a paused workspace.  A split may keep its holds:
\* usage and reservations stay on their rows and free credit is spread again.
\* Otherwise nothing may be held, and each counter is split again.
SplitRows(w, n) ==
    LET free == Distribute(Signed(Headroom(w)), n)
        At(s, f) == IF s \in DOMAIN w.rows THEN w.rows[s][f] ELSE 0
    IN  [s \in 0 .. n - 1 |->
            [usage |-> At(s, "usage"), reserved |-> At(s, "reserved"),
             credits |-> At(s, "usage") + At(s, "reserved") + free[s]]]

EvenRows(w, n) ==
    [s \in 0 .. n - 1 |-> [credits |-> Distribute(Total(w, "credits"), n)[s],
                           usage |-> Distribute(Total(w, "usage"), n)[s],
                           reserved |-> 0]]

Reshardable(w, n) ==
    /\ w.causes # {}
    /\ n # ShardCount(w)
    /\ ~w.marked
    /\ Negative(Headroom(w)) = {}

Reshard(n, keepHolds) ==
    /\ Reshardable(ws, n)
    /\ IF keepHolds THEN n > ShardCount(ws)
       ELSE /\ \A r \in Reqs : holds[r] = NoHold
            /\ Total(ws, "reserved") = 0
            /\ \A s \in 0 .. n - 1 :
                  EvenRows(ws, n)[s].usage <= EvenRows(ws, n)[s].credits
    /\ Move([ws EXCEPT !.rows = IF keepHolds THEN SplitRows(ws, n)
                                             ELSE EvenRows(ws, n),
                       !.marked = FALSE], 0)

\* An operator pauses the workspace to reshard it, and lets it go again.
PauseToReshard ==
    /\ moves < MaxMoves
    /\ "migration" \notin ws.causes
    /\ ws' = [ws EXCEPT !.causes = @ \cup {"migration"}]
    /\ UNCHANGED <<holds, story, heard, inbox, money, moves>>
Unpause ==
    /\ "migration" \in ws.causes
    /\ ws' = [ws EXCEPT !.causes = @ \ {"migration"}]
    /\ UNCHANGED <<holds, story, heard, inbox, money, moves>>

----------------------------------------------------------------------------
(* Refunds and disputes.                                                   *)

\* _REFUND_TRANSITIONS and _DISPUTE_TRANSITIONS, "none" for no row yet.
Follows(kind, old) ==
    IF kind = "refund"
    THEN CASE old \in {"none", "pending"} -> {"pending", "succeeded", "failed", "reversed"}
           [] old = "succeeded" -> {"reversed"}
           [] OTHER -> {}
    ELSE CASE old \in {"none", "pending"} -> {"pending", "succeeded", "won", "lost", "closed"}
           [] old = "succeeded" -> {"won", "lost", "closed"}
           [] old = "lost" -> {"closed"}
           [] OTHER -> {}

\* adverse_transition_outcome.
Outcome(fact, n) ==
    IF fact.status = n.status THEN "replay"
    ELSE IF fact.status # "none" /\ n.watermark <= fact.watermark THEN "stale"
    ELSE IF n.status \notin Follows(KindOf[n.ref], fact.status) THEN "illegal"
    ELSE "applied"

\* payment_recovery_target: a standing dispute claims all that was credited,
\* and refunds their share of it, rounded down.
RecoveryTarget(facts, p) ==
    LET About == {f \in Refs : PaymentOf[f] = p}
        refunded == Least(Paid[p], SumFunctionOnSet(RefundOf,
                        {f \in About : KindOf[f] = "refund"
                                       /\ facts[f].status = "succeeded"}))
        disputed == \E f \in About : /\ KindOf[f] = "dispute"
                                     /\ facts[f].status \in {"succeeded", "lost", "closed"}
    IN  IF disputed THEN Credited[p] ELSE (Credited[p] * refunded) \div Paid[p]

\* A claim's new target, and what that adds to its two parts.
Retarget(claim, target, recovered, unrecovered) ==
    [claim EXCEPT !.target = target, !.recovered = @ + recovered,
                  !.unrecovered = @ + unrecovered]

\* A larger target is debited from the positive rows as far as they go.
Debited(w, p, target) ==
    LET more == target - w.claims[p].target
        t == TakeAscending(Headroom(w), more)
        got == SumFunction(t)
    IN  [TakeOff(w, t) EXCEPT !.claims[p] = Retarget(@, target, got, more - got)]

\* A smaller one cancels what is unrecovered, then gives back the rest.
Restored(w, p, target) ==
    LET less == w.claims[p].target - target
        canceled == Least(less, w.claims[p].unrecovered)
        restored == Least(less - canceled, w.claims[p].recovered)
    IN  [NewMoney(w, restored, FALSE) EXCEPT !.claims[p] =
            Retarget(@, target, -restored, -canceled)]

\* apply_adverse_trust_event_tx.  The pause follows this payment's claim.  A
\* replay with a later watermark restamps the fact and moves no money.
ApplyNotice(w, n) ==
    LET p == PaymentOf[n.ref]
        outcome == Outcome(w.facts[n.ref], n)
        noted == [w EXCEPT !.facts[n.ref] = [status |-> n.status, watermark |-> n.watermark]]
        target == RecoveryTarget(noted.facts, p)
        booked == CASE target > w.claims[p].target -> Debited(noted, p, target)
                    [] target < w.claims[p].target -> Restored(noted, p, target)
                    [] OTHER -> noted
    IN  CASE outcome = "applied" -> SyncPause(booked, booked.claims[p].unrecovered > 0)
          [] outcome = "replay" /\ n.watermark > w.facts[n.ref].watermark -> noted
          [] OTHER -> w

\* External: the provider moves a refund or a dispute on, or sends its status
\* again under a later watermark; its notices may then be delivered at any time,
\* in any order, any number of times.
Provider(f, status) ==
    /\ Len(story[f]) < MaxStory
    /\ LET now == IF story[f] = <<>> THEN "none" ELSE story[f][Len(story[f])]
       IN  status \in Follows(KindOf[f], now) \cup {now}
    /\ story' = [story EXCEPT ![f] = Append(@, status)]
    /\ UNCHANGED <<ws, holds, heard, inbox, money, moves>>

\* Mutant: the first notice of a refund or dispute is the one kept.
KeptFirst(rows, n) ==
    IF \E i \in DOMAIN rows : rows[i].ref = n.ref THEN rows ELSE Append(rows, n)

\* insert_trust_inbox_tx: a second row with the same key is not written.
Kept(rows, n) ==
    IF \E i \in DOMAIN rows :
          rows[i].ref = n.ref /\ (EveryNotice => rows[i].watermark = n.watermark)
    THEN rows
    ELSE Append(rows, n)

\* record_adverse_trust_event, of the k-th status of f.
Notice(f, k) ==
    LET n == [ref |-> f, watermark |-> k, status |-> story[f][k]]
        p == PaymentOf[f]
    IN  /\ k \in 1 .. Len(story[f])
        /\ heard' = heard \cup {n}
        /\ IF ws.claims[p].credited
           THEN ws' = ApplyNotice(ws, n) /\ UNCHANGED inbox
           ELSE inbox' = [inbox EXCEPT ![p] = Kept(@, n)] /\ UNCHANGED ws
        /\ UNCHANGED <<holds, story, money, moves>>

\* Of the inbox's rows S the one that is drained last: by watermark for PayPal
\* and Adyen, as they were received for the others.
LastDrained(rows, S) ==
    LET Before(i, j) == IF EveryNotice /\ rows[i].watermark # rows[j].watermark
                        THEN rows[i].watermark < rows[j].watermark
                        ELSE i < j
    IN  CHOOSE j \in S : \A i \in S \ {j} : Before(i, j)

\* drain_matching_trust_inbox_tx.
Drained(w, rows) ==
    LET after[S \in SUBSET DOMAIN rows] ==
            IF S = {} THEN w
            ELSE LET j == LastDrained(rows, S) IN ApplyNotice(after[S \ {j}], rows[j])
    IN  after[DOMAIN rows]

\* credit_workspace_typed_direct for a payment, once: the money comes in, and
\* the notices that were waiting for the payment are applied with it.
CreditPayment(p) ==
    /\ ~ws.claims[p].credited
    /\ ws' = Drained(NewMoney([ws EXCEPT !.claims[p].credited = TRUE], Credited[p], TRUE),
                     inbox[p])
    /\ inbox' = [inbox EXCEPT ![p] = <<>>]
    /\ money' = money + Credited[p]
    /\ UNCHANGED <<holds, story, heard, moves>>

----------------------------------------------------------------------------
Init ==
    /\ \E n \in ShardCounts :
          ws = [rows |-> [s \in 0 .. n - 1 |-> [credits |-> 0, usage |-> 0, reserved |-> 0]],
                marked |-> FALSE,
                claims |-> [p \in Payments |-> NoClaim],
                facts |-> [f \in Refs |-> NoFact],
                causes |-> {}]
    /\ holds = [r \in Reqs |-> NoHold]
    /\ story = [f \in Refs |-> <<>>]
    /\ heard = {}
    /\ inbox = [p \in Payments |-> <<>>]
    /\ money = 0
    /\ moves = 0

Next ==
    \/ \E r \in Reqs, s \in DOMAIN ws.rows, est \in Estimates : Reserve(r, s, est)
    \/ \E r \in Reqs, actual \in Actuals : Release(r, actual)
    \/ \E a \in Amounts : Grant(a) \/ NegativeGrant(a) \/ Debit(a)
                          \/ TransferIn(a) \/ TransferOut(a) \/ FederatedUsage(a)
    \/ \E s \in DOMAIN ws.rows, est \in Estimates : Rebalance(s, est)
    \/ \E n \in ShardCounts, keep \in BOOLEAN : Reshard(n, keep)
    \/ PauseToReshard \/ Unpause
    \/ \E f \in Refs, status \in Statuses : Provider(f, status)
    \/ \E f \in Refs, k \in 1 .. MaxStory : Notice(f, k)
    \/ \E p \in Payments : CreditPayment(p)

Spec == Init /\ [][Next]_vars

----------------------------------------------------------------------------
(* What must hold of the rows and the claims.                              *)

(* The types: the rows are those of one shard count, no row's usage or     *)
(* reservation is negative, and every hold is on a row there is.           *)
TypeOK ==
    /\ ws = [rows |-> ws.rows, marked |-> ws.marked, claims |-> ws.claims,
             facts |-> ws.facts, causes |-> ws.causes]
    /\ \E n \in ShardCounts :
          /\ ws.rows \in [0 .. n - 1 -> [credits : Int, usage : Nat, reserved : Nat]]
          /\ holds \in [Reqs -> [shard : 0 .. n - 1, amount : Nat]]
    /\ ws.marked \in BOOLEAN
    /\ ws.claims \in [Payments -> [credited : BOOLEAN, target : Nat,
                                   recovered : Nat, unrecovered : Nat]]
    /\ ws.facts \in [Refs -> [status : Statuses \cup {"none"}, watermark : 0 .. MaxStory]]
    /\ ws.causes \subseteq Causes
    /\ story \in [Refs -> Seq(Statuses)] /\ \A f \in Refs : Len(story[f]) <= MaxStory
    /\ heard \subseteq Notices
    /\ inbox \in [Payments -> Seq(Notices)]
    /\ money \in Int /\ moves \in 0 .. MaxMoves

(* No row is negative unless the rows are marked, and they are marked only  *)
(* while the signed sum is negative: no overrun, booking, refund, return or *)
(* reshard leaves a debt a reservation would miss, or leaves a customer who *)
(* paid behind a mark.                                                      *)
DebtIsMarked ==
    /\ Negative(Headroom(ws)) # {} => ws.marked
    /\ ws.marked => Signed(Headroom(ws)) < 0

(* A row's reservation is exactly the open holds placed on it, through      *)
(* every reshard: a release always finds its hold on its row.               *)
HoldsAreReserved ==
    \A s \in DOMAIN ws.rows :
        ws.rows[s].reserved = SumFunctionOnSet([r \in Reqs |-> holds[r].amount],
                                               {r \in Reqs : holds[r].shard = s})

(* The rows' credit is the money that came in, less what went out and what *)
(* claims recovered, and every claim is split exactly between what was     *)
(* recovered and what was not, for the target its refunds and disputes set.*)
ClaimsBalance ==
    /\ Total(ws, "credits") =
          money - SumFunction([p \in Payments |-> ws.claims[p].recovered])
    /\ \A p \in Payments :
          LET c == ws.claims[p]
          IN  /\ c.target = c.recovered + c.unrecovered
              /\ c.credited => c.target = RecoveryTarget(ws.facts, p)

(* Whatever order notices came in, and however many came before their       *)
(* payment, the fact of a refund or dispute is the latest that was heard,   *)
(* of a provider whose every notice the inbox keeps (EveryNotice).          *)
LatestWins ==
    \A n \in heard :
        (/\ ws.claims[PaymentOf[n.ref]].credited
         /\ \A m \in heard : m.ref = n.ref => m.watermark <= n.watermark)
            => ws.facts[n.ref] = [status |-> n.status, watermark |-> n.watermark]

(* A workspace stands paused for recovery as long as a claim of its is      *)
(* unrecovered: "A strong sum after our guarded updates is the              *)
(* authoritative cause-clear predicate, including claims that this credit   *)
(* did not fully absorb" (storage_gcp_trust.py).                            *)
OwedIsPaused == Unrecovered(ws) # {} => "principal_recovery" \in ws.causes

=============================================================================
