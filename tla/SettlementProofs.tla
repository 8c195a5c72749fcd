-------------------------- MODULE SettlementProofs --------------------------
(***************************************************************************)
(* Settlement, for every value of its CONSTANTS: an outstanding intent      *)
(* keeps its records (EvidenceIsKept), the enclave is told what is so       *)
(* (AnswersAreTrue), and the workspace's books and the key's each refine    *)
(* ChargeOnce (ChargedOnce).                                                *)
(*                                                                          *)
(* A step touches the records of one authorization and one of its rows, so  *)
(* the invariant is stated of one authorization's records, one delivery and *)
(* one worker at a time, each as a predicate of the values it is about.     *)
(***************************************************************************)
EXTENDS Settlement, TLAPS

-----------------------------------------------------------------------------
(* The inductive invariant.                                                 *)

DecidedRes(r) == r.state \in {"settled", "deleted"}
Present(r, g) == r.state \in {"open", "settled"} /\ g.state \in {"live", "settled"}

\* A reservation r and its authorization g are made together and settled
\* together; one that is not decided has booked nothing, and only a hold on
\* credit has heartbeats.
RecordsRight(r, g) ==
  /\ r.state = None <=> g.state = None
  /\ r.state = "open" <=> g.state = "live"
  /\ r.state = None => r.credit = 0 /\ r.key = 0 /\ g.snapshot = 0
  /\ ~DecidedRes(r) => r.actual = 0 /\ ~r.byok /\ g.outcome = None
  /\ g.snapshot > 0 => r.credit > 0 /\ g.snapshot \in Snapshots

\* An intent q has a reservation; it is done only once that is decided, and
\* while it is outstanding the records are there, with no deletion armed.
RowRight(q, r, g) ==
  /\ q.status # None => r.state # None
  /\ q.status = "done" => DecidedRes(r)
  /\ q.status \in GuardStatuses => Present(r, g) /\ ~r.armed /\ ~g.armed
  /\ q.status = "pending" => q.attempts < MaxAttempts

\* What the settle route knows of its authorization's records at each point.
DeliveryRight(x, r, g, q) ==
  /\ r.state # None
  /\ r.credit = 0 => x.byok
  /\ x.pc # "answered" => Present(r, g) /\ x.answer = None
  /\ x.pc \in {"refresh", "finalize", "read"} => q.status # None
  /\ x.pc = "mark" => g.outcome \in {"settled", "refunded"}
  /\ x.pc = "mark" \/ x.answer = "finalized" =>
       DecidedRes(r) /\ r.actual = Actual(x) /\ r.byok = x.byok
  /\ x.answer = "intent_durable" => q.status # None \/ DecidedRes(r)

\* What a worker knows of its row and of the authorization's records.
DecidingOutcomes == DoneOutcomes \union {"already_released_free"}
WorkerRight(x, r, g, q) ==
  /\ q.status \in {"pending", "dead", "done"}
  /\ x.pc = "checked" => g.outcome # "reaped_snapshot"
  /\ x.pc = "applied" => x.outcome # None
  /\ x.pc = "applied" /\ x.outcome \in DecidingOutcomes => DecidedRes(r)

\* Some delivery asked for this cost: what rows and workers carry was asked.
AskedFor(a, k, v, deliveries) ==
  \E d \in Deliveries :
    /\ deliveries[d].pc # "idle"
    /\ deliveries[d].auth = a /\ deliveries[d].kind = k
    /\ deliveries[d].cost = v.cost /\ deliveries[d].byok = v.byok
    /\ v.cost \in Costs

\* A delivery x, with the records rs, au and rw, and a worker x, with the
\* deliveries dl too.
DeliveryAgrees(x, rs, au, rw) ==
  IF x.pc = "idle"
  THEN x.auth = None /\ x.answer = None /\ ~x.inflight
  ELSE /\ x.auth \in Auths /\ x.cost \in Costs
       /\ DeliveryRight(x, rs[x.auth], au[x.auth], rw[Of(x)])
WorkerAgrees(x, rs, au, rw, dl) ==
  IF x.pc = "idle"
  THEN x = Idle
  ELSE /\ x.auth \in Auths
       /\ WorkerRight(x, rs[x.auth], au[x.auth], rw[Of(x)])
       /\ AskedFor(x.auth, x.kind, x, dl)

RecordsAgree == \A a \in Auths : RecordsRight(res[a], auth[a])
RowsAgree == \A a \in Auths, k \in Kinds : RowRight(row[<<a, k>>], res[a], auth[a])
RowsAsked ==
  \A a \in Auths, k \in Kinds :
    row[<<a, k>>].status # None => AskedFor(a, k, row[<<a, k>>], delivery)
SnapshotsKept ==
  \A a \in Auths : auth[a].outcome = "reaped_snapshot" => generation[a] = "heartbeat"
DeliveriesAgree == \A d \in Deliveries : DeliveryAgrees(delivery[d], res, auth, row)
WorkersAgree == \A w \in Workers : WorkerAgrees(worker[w], res, auth, row, delivery)

Inv ==
  /\ TypeOK
  /\ RecordsAgree /\ RowsAgree /\ RowsAsked /\ SnapshotsKept
  /\ DeliveriesAgree /\ WorkersAgree

LEMMA InitInv == Init => Inv
<1> SUFFICES ASSUME Init PROVE Inv
  OBVIOUS
<1>1. NoRow \in OutboxRow /\ NoRow.status = None
  BY MaxAttemptsAssumption DEF NoRow, OutboxRow
<1>2. Idle \in Worker /\ Idle.pc = "idle"
  BY DEF Idle, Worker, Kinds, Outcomes
<1>3. TypeOK
  BY <1>1, <1>2, MaxFaultsAssumption
  DEF Init, TypeOK, Reservation, Authorization, Delivery, Kinds
<1>4. \A a \in Auths, k \in Kinds : row[<<a, k>>] = NoRow
  BY DEF Init
<1>5. RowsAgree /\ RowsAsked
  BY <1>1, <1>4 DEF RowsAgree, RowsAsked, RowRight, GuardStatuses, None
<1>6. RecordsAgree
  BY DEF Init, RecordsAgree, RecordsRight, DecidedRes, None
<1>7. DeliveriesAgree /\ WorkersAgree
  BY <1>2 DEF Init, DeliveriesAgree, WorkersAgree, DeliveryAgrees, WorkerAgrees
<1>8. SnapshotsKept
  BY DEF Init, SnapshotsKept, None
<1> QED BY <1>3, <1>5, <1>6, <1>7, <1>8 DEF Inv

-----------------------------------------------------------------------------
(* A step on the records of one authorization and one of its rows.          *)

\* A reservation stays, with its hold; a decision stands.
RecordsGrow(r, g, r2, g2) ==
  /\ r.state # None => r2.state # None /\ r2.credit = r.credit
  /\ DecidedRes(r) => /\ DecidedRes(r2)
                      /\ r2.actual = r.actual /\ r2.byok = r.byok
                      /\ g2.outcome = g.outcome

Touches(a, k, r, g, q) ==
  /\ res' = [res EXCEPT ![a] = r]
  /\ auth' = [auth EXCEPT ![a] = g]
  /\ row' = [row EXCEPT ![<<a, k>>] = q]

AtWork == {"pending", "dead", "done"}

\* What the records r, g and the row q of authorization a may become.
Follows(a, k, r, g, q) ==
  /\ RecordsGrow(res[a], auth[a], r, g)
  /\ Present(res[a], auth[a]) => Present(r, g) \/ Quiet(a)
  /\ g.outcome = "reaped_snapshot" =>
       \/ auth[a].outcome = "reaped_snapshot"
       \/ ~Guarded(row, a) /\ ~DecidedRes(res[a])
  /\ row[<<a, k>>].status # None => q.status # None
  /\ row[<<a, k>>].status \in AtWork => q.status \in AtWork \/ Quiet(a)

Legal(a, k, r, g, q) ==
  /\ r \in Reservation /\ g \in Authorization /\ q \in OutboxRow
  /\ RecordsRight(r, g)
  /\ RowRight(q, r, g) /\ RowRight(row[<<a, Other(k)>>], r, g)
  /\ Follows(a, k, r, g, q)

\* The same, of every authorization and row, whatever the step.
Grows ==
  \A a \in Auths, k \in Kinds : Follows(a, k, res'[a], auth'[a], row'[<<a, k>>])

LEMMA Still ==
  ASSUME Inv, UNCHANGED <<res, auth, row>>
  PROVE  Grows /\ RecordsAgree' /\ RowsAgree'
BY DEF Inv, Grows, Follows, RecordsGrow, RecordsAgree, RowsAgree

LEMMA KindsAreTwo ==
  ASSUME NEW k \in Kinds
  PROVE  /\ Other(k) \in Kinds /\ Other(k) # k
         /\ \A j \in Kinds : j = k \/ j = Other(k)
BY DEF Kinds, Other

LEMMA RecordsStep ==
  ASSUME Inv, NEW a \in Auths, NEW k \in Kinds, NEW r, NEW g, NEW q,
         Touches(a, k, r, g, q), Legal(a, k, r, g, q)
  PROVE  /\ res' \in [Auths -> Reservation] /\ auth' \in [Auths -> Authorization]
         /\ row' \in [Auths \X Kinds -> OutboxRow]
         /\ RecordsAgree' /\ RowsAgree' /\ Grows
<1>1. /\ res \in [Auths -> Reservation] /\ auth \in [Auths -> Authorization]
      /\ row \in [Auths \X Kinds -> OutboxRow]
  BY DEF Inv, TypeOK
<1>2. r \in Reservation /\ g \in Authorization /\ q \in OutboxRow
  BY DEF Legal
<1>3. res' \in [Auths -> Reservation] /\ auth' \in [Auths -> Authorization]
  BY <1>1, <1>2 DEF Touches
<1>4. row' \in [Auths \X Kinds -> OutboxRow]
  BY <1>1, <1>2 DEF Touches
<1>5. \A b \in Auths : /\ res'[b] = IF b = a THEN r ELSE res[b]
                       /\ auth'[b] = IF b = a THEN g ELSE auth[b]
  BY <1>1 DEF Touches
<1>6. \A b \in Auths, j \in Kinds :
        row'[<<b, j>>] = IF b = a /\ j = k THEN q ELSE row[<<b, j>>]
  BY <1>1 DEF Touches
<1>7. RecordsAgree'
  BY <1>5 DEF Inv, RecordsAgree, Legal
<1>8. RowsAgree'
  <2> SUFFICES ASSUME NEW b \in Auths, NEW j \in Kinds
               PROVE  RowRight(row'[<<b, j>>], res'[b], auth'[b])
    BY DEF RowsAgree
  <2>1. RowRight(row[<<b, j>>], res[b], auth[b])
    BY DEF Inv, RowsAgree
  <2>2. CASE b = a /\ j = k
    BY <2>2, <1>5, <1>6 DEF Legal
  <2>3. CASE b = a /\ j = Other(k)
    BY <2>3, <1>5, <1>6, KindsAreTwo DEF Legal
  <2>4. CASE b # a
    BY <2>4, <2>1, <1>5, <1>6
  <2> QED BY <2>2, <2>3, <2>4, KindsAreTwo
<1>9. Grows
  <2> SUFFICES ASSUME NEW b \in Auths, NEW j \in Kinds
               PROVE  Follows(b, j, res'[b], auth'[b], row'[<<b, j>>])
    BY DEF Grows
  <2>1. CASE b = a /\ j = k
    BY <2>1, <1>5, <1>6 DEF Legal
  <2>2. CASE b = a /\ j # k
    BY <2>2, <1>5, <1>6 DEF Legal, Follows
  <2>3. CASE b # a
    BY <2>3, <1>5, <1>6 DEF Follows, RecordsGrow
  <2> QED BY <2>1, <2>2, <2>3
<1> QED BY <1>3, <1>4, <1>7, <1>8, <1>9

-----------------------------------------------------------------------------
(* The deliveries and the workers of a step.                                *)

\* Once received, a delivery keeps what it asks for.
AsksKept ==
  \A d \in Deliveries : delivery[d].pc # "idle" =>
    /\ delivery'[d].pc # "idle"
    /\ delivery'[d].auth = delivery[d].auth /\ delivery'[d].kind = delivery[d].kind
    /\ delivery'[d].cost = delivery[d].cost /\ delivery'[d].byok = delivery[d].byok

LEMMA AskedStays ==
  ASSUME AsksKept, NEW a \in Auths, NEW k \in Kinds, NEW v, AskedFor(a, k, v, delivery)
  PROVE  AskedFor(a, k, v, delivery')
BY DEF AsksKept, AskedFor

LEMMA DeliveryStays ==
  ASSUME Inv, Grows, NEW d \in Deliveries
  PROVE  DeliveryAgrees(delivery[d], res', auth', row')
<1> DEFINE x == delivery[d]
<1>1. DeliveryAgrees(x, res, auth, row) /\ x \in Delivery
  BY DEF Inv, TypeOK, DeliveriesAgree
<1>2. CASE x.pc = "idle"
  BY <1>1, <1>2 DEF DeliveryAgrees
<1>3. CASE x.pc # "idle"
  <2>1. x.auth \in Auths /\ x.kind \in Kinds /\ x.cost \in Costs
    BY <1>1, <1>3 DEF DeliveryAgrees, Delivery
  <2> DEFINE a == x.auth
             k == x.kind
  <2>2. Follows(a, k, res'[a], auth'[a], row'[<<a, k>>])
    BY <2>1 DEF Grows
  <2>3. DeliveryRight(x, res[a], auth[a], row[<<a, k>>])
    BY <1>1, <1>3 DEF DeliveryAgrees, Of
  <2>4. Quiet(a) => x.pc = "answered"
    BY DEF Quiet
  <2>6. x.pc = "mark" \/ x.answer = "finalized" => DecidedRes(res[a])
    BY <2>3 DEF DeliveryRight
  <2>5. DeliveryRight(x, res'[a], auth'[a], row'[<<a, k>>])
    <3> HIDE DEF x, a, k
    <3> QED BY <2>2, <2>3, <2>4, <2>6 DEF Follows, RecordsGrow, DeliveryRight
  <2> QED BY <2>1, <2>5, <1>3 DEF DeliveryAgrees, Of
<1> QED BY <1>2, <1>3

LEMMA WorkerStays ==
  ASSUME Inv, Grows, AsksKept, NEW w \in Workers
  PROVE  WorkerAgrees(worker[w], res', auth', row', delivery')
<1> DEFINE x == worker[w]
<1>1. WorkerAgrees(x, res, auth, row, delivery) /\ x \in Worker
  BY DEF Inv, TypeOK, WorkersAgree
<1>2. CASE x.pc = "idle"
  BY <1>1, <1>2 DEF WorkerAgrees
<1>3. CASE x.pc # "idle"
  <2>1. x.auth \in Auths /\ x.kind \in Kinds
    BY <1>1, <1>3 DEF WorkerAgrees, Worker
  <2> DEFINE a == x.auth
             k == x.kind
  <2>2. Follows(a, k, res'[a], auth'[a], row'[<<a, k>>])
    BY <2>1 DEF Grows
  <2>3. WorkerRight(x, res[a], auth[a], row[<<a, k>>]) /\ AskedFor(a, k, x, delivery)
    BY <1>1, <1>3 DEF WorkerAgrees, Of
  <2>4. ~Quiet(a)
    BY <1>3 DEF Quiet
  <2>5. RowRight(row[<<a, k>>], res[a], auth[a])
    BY <2>1 DEF Inv, RowsAgree
  <2>6. ~Guarded(row, a) => row[<<a, k>>].status \notin GuardStatuses
    BY <2>1 DEF Guarded
  <2>7. WorkerRight(x, res'[a], auth'[a], row'[<<a, k>>])
    <3> HIDE DEF x, a, k
    <3> QED BY <2>2, <2>3, <2>4, <2>5, <2>6
        DEF Follows, RecordsGrow, WorkerRight, RowRight, GuardStatuses, AtWork, None
  <2>8. AskedFor(a, k, x, delivery')
    BY <2>1, <2>3, AskedStays
  <2> QED BY <2>1, <2>7, <2>8, <1>3 DEF WorkerAgrees, Of
<1> QED BY <1>2, <1>3

\* A step in which delivery d becomes x.
LEMMA DeliveryMoves ==
  ASSUME Inv, Grows, NEW d \in Deliveries, NEW x \in Delivery,
         delivery' = [delivery EXCEPT ![d] = x],
         DeliveryAgrees(x, res', auth', row'),
         delivery[d].pc # "idle" => /\ x.pc # "idle"
           /\ x.auth = delivery[d].auth /\ x.kind = delivery[d].kind
           /\ x.cost = delivery[d].cost /\ x.byok = delivery[d].byok
  PROVE  AsksKept /\ DeliveriesAgree' /\ delivery' \in [Deliveries -> Delivery]
<1>1. delivery \in [Deliveries -> Delivery]
  BY DEF Inv, TypeOK
<1>2. delivery' \in [Deliveries -> Delivery]
  BY <1>1
<1>3. \A e \in Deliveries : delivery'[e] = IF e = d THEN x ELSE delivery[e]
  BY <1>1
<1>4. AsksKept
  BY <1>3 DEF AsksKept
<1>5. DeliveriesAgree'
  BY <1>3, DeliveryStays DEF DeliveriesAgree
<1> QED BY <1>2, <1>4, <1>5

LEMMA DeliveriesStay ==
  ASSUME Inv, Grows, UNCHANGED delivery
  PROVE  AsksKept /\ DeliveriesAgree' /\ delivery' \in [Deliveries -> Delivery]
BY DeliveryStays DEF Inv, TypeOK, AsksKept, DeliveriesAgree

LEMMA WorkersStay ==
  ASSUME Inv, Grows, AsksKept, UNCHANGED worker
  PROVE  WorkersAgree' /\ worker' \in [Workers -> Worker]
BY WorkerStays DEF Inv, TypeOK, WorkersAgree

\* A step in which worker w becomes x.
LEMMA WorkerMoves ==
  ASSUME Inv, Grows, AsksKept, NEW w \in Workers, NEW x \in Worker,
         worker' = [worker EXCEPT ![w] = x],
         WorkerAgrees(x, res', auth', row', delivery')
  PROVE  WorkersAgree' /\ worker' \in [Workers -> Worker]
<1>1. worker \in [Workers -> Worker]
  BY DEF Inv, TypeOK
<1>2. worker' \in [Workers -> Worker]
  BY <1>1
<1>3. \A v \in Workers : worker'[v] = IF v = w THEN x ELSE worker[v]
  BY <1>1
<1> QED BY <1>2, <1>3, WorkerStays DEF WorkersAgree

-----------------------------------------------------------------------------
(* What the transactions are made of.                                       *)

LEMMA AskedRows ==
  ASSUME Inv, AsksKept, NEW a \in Auths, NEW k \in Kinds, NEW q,
         row' = [row EXCEPT ![<<a, k>>] = q],
         q.status # None =>
           \/ AskedFor(a, k, q, delivery')
           \/ /\ row[<<a, k>>].status # None
              /\ q.cost = row[<<a, k>>].cost /\ q.byok = row[<<a, k>>].byok
  PROVE  RowsAsked'
<1>1. row \in [Auths \X Kinds -> OutboxRow]
  BY DEF Inv, TypeOK
<1>2. \A b \in Auths, j \in Kinds :
        row'[<<b, j>>] = IF b = a /\ j = k THEN q ELSE row[<<b, j>>]
  BY <1>1
<1> SUFFICES ASSUME NEW b \in Auths, NEW j \in Kinds, row'[<<b, j>>].status # None
             PROVE  AskedFor(b, j, row'[<<b, j>>], delivery')
  BY DEF RowsAsked
<1>3. row[<<b, j>>].status # None => AskedFor(b, j, row[<<b, j>>], delivery')
  BY AskedStays DEF Inv, RowsAsked
<1>4. CASE b = a /\ j = k
  <2>1. row'[<<b, j>>] = q
    BY <1>2, <1>4
  <2>2. CASE AskedFor(a, k, q, delivery')
    BY <2>1, <2>2, <1>4
  <2>3. CASE ~AskedFor(a, k, q, delivery')
    BY <2>1, <2>3, <1>3, <1>4 DEF AskedFor
  <2> QED BY <2>2, <2>3
<1>5. CASE ~(b = a /\ j = k)
  BY <1>2, <1>3, <1>5
<1> QED BY <1>4, <1>5

LEMMA RowsStayAsked ==
  ASSUME Inv, AsksKept, UNCHANGED row
  PROVE  RowsAsked'
BY AskedStays DEF Inv, RowsAsked

LEMMA Faults ==
  ASSUME Inv, Fault \/ UNCHANGED faults
  PROVE  faults' \in 0 .. MaxFaults
BY MaxFaultsAssumption DEF Inv, TypeOK, Fault

LEMMA BookTypes ==
  ASSUME Inv, NEW a \in Auths, NEW x \in Nat, NEW b \in BOOLEAN,
         Covered(a), Book(a, x, b)
  PROVE  credit' \in [usage : Nat, reserved : Nat]
         /\ key' \in [usage : Nat, byok : Nat, reserved : Nat]
<1>1. /\ credit \in [usage : Nat, reserved : Nat]
      /\ key \in [usage : Nat, byok : Nat, reserved : Nat]
      /\ res[a].credit \in Nat /\ res[a].key \in Nat
  BY DEF Inv, TypeOK, Reservation
<1>2. credit.reserved - res[a].credit \in Nat /\ key.reserved - res[a].key \in Nat
  BY <1>1 DEF Covered
<1>3. CASE b
  BY <1>1, <1>2, <1>3 DEF Book
<1>4. CASE ~b
  BY <1>1, <1>2, <1>4 DEF Book
<1> QED BY <1>3, <1>4

\* The records that a claim settles.
LEMMA SettledRight ==
  ASSUME Inv, NEW a \in Auths, NEW x \in Nat, NEW b \in BOOLEAN,
         NEW o \in {"settled", "refunded", "reaped_snapshot"}, Claimable(a),
         NEW r, NEW g, r = Settled(a, x, b), g = SettledAuth(a, o)
  PROVE  /\ r \in Reservation /\ g \in Authorization
         /\ r.state = "settled" /\ g.state = "settled"
         /\ r.actual = x /\ r.byok = b /\ r.armed = res[a].armed
         /\ r.credit = res[a].credit /\ r.key = res[a].key
         /\ g.outcome = o /\ g.armed = auth[a].armed /\ g.snapshot = auth[a].snapshot
         /\ RecordsRight(r, g) /\ DecidedRes(r) /\ Present(r, g)
         /\ RecordsGrow(res[a], auth[a], r, g)
<1>1. res[a] \in Reservation /\ auth[a] \in Authorization
  BY DEF Inv, TypeOK
<1>2. /\ r \in Reservation /\ g \in Authorization
      /\ r.state = "settled" /\ g.state = "settled"
      /\ r.actual = x /\ r.byok = b /\ r.armed = res[a].armed
      /\ r.credit = res[a].credit /\ r.key = res[a].key
      /\ g.outcome = o /\ g.armed = auth[a].armed /\ g.snapshot = auth[a].snapshot
  BY <1>1 DEF Settled, SettledAuth, Reservation, Authorization
<1>3. RecordsRight(res[a], auth[a]) /\ res[a].state = "open"
  BY DEF Inv, RecordsAgree, Claimable
<1> QED BY <1>2, <1>3 DEF RecordsRight, DecidedRes, Present, RecordsGrow, None

\* The retention of a done mark, where the sibling's intent is outstanding.
LEMMA Retention ==
  ASSUME Inv, NEW a \in Auths, NEW k \in Kinds, NEW q, NEW rec,
         rec.armed \in BOOLEAN
  PROVE  LET armed == DoneArmed(rec, [row EXCEPT ![<<a, k>>] = q], a, k) IN
         /\ armed \in BOOLEAN
         /\ row[<<a, Other(k)>>].status \in GuardStatuses => ~armed
<1> DEFINE rows == [row EXCEPT ![<<a, k>>] = q]
<1>1. rows[<<a, Other(k)>>] = row[<<a, Other(k)>>]
  BY KindsAreTwo DEF Inv, TypeOK
<1>2. CASE row[<<a, Other(k)>>].status \in GuardStatuses
  BY <1>1, <1>2 DEF DoneArmed
<1>3. CASE row[<<a, Other(k)>>].status \notin GuardStatuses
  <2>1. DoneArmed(rec, rows, a, k) = (rec.armed \/ (rec.state = "settled" /\ ~Guarded(rows, a)))
    BY <1>1, <1>3 DEF DoneArmed
  <2> QED BY <2>1, <1>3
<1> QED BY <1>2, <1>3

LEMMA MarkDoneStep ==
  ASSUME Inv, NEW a \in Auths, NEW k \in Kinds, NEW q \in OutboxRow,
         NEW r \in Reservation, NEW g \in Authorization,
         q.status = "done", DecidedRes(r), Present(r, g), RecordsRight(r, g),
         RecordsGrow(res[a], auth[a], r, g),
         g.outcome = "reaped_snapshot" => auth[a].outcome = "reaped_snapshot",
         MarkDone(a, k, [row EXCEPT ![<<a, k>>] = q], r, g)
  PROVE  \E b \in BOOLEAN, c \in BOOLEAN :
           /\ Touches(a, k, [r EXCEPT !.armed = b], [g EXCEPT !.armed = c], q)
           /\ Legal(a, k, [r EXCEPT !.armed = b], [g EXCEPT !.armed = c], q)
<1> DEFINE rows == [row EXCEPT ![<<a, k>>] = q]
           b == DoneArmed(r, rows, a, k)
           c == DoneArmed(g, rows, a, k)
           r2 == [r EXCEPT !.armed = b]
           g2 == [g EXCEPT !.armed = c]
           o == row[<<a, Other(k)>>]
<1>1. Touches(a, k, r2, g2, q)
  BY DEF MarkDone, Touches
<1>2. r.armed \in BOOLEAN /\ g.armed \in BOOLEAN
  BY DEF Reservation, Authorization
<1>3. /\ b \in BOOLEAN /\ c \in BOOLEAN
      /\ o.status \in GuardStatuses => ~b /\ ~c
  BY <1>2, Retention
<1>4. RowRight(o, res[a], auth[a])
  BY KindsAreTwo DEF Inv, RowsAgree
<1> HIDE DEF b, c, o
<1>5. /\ r2 \in Reservation /\ r2.state = r.state /\ r2.credit = r.credit
      /\ r2.key = r.key /\ r2.actual = r.actual /\ r2.byok = r.byok /\ r2.armed = b
  BY <1>3 DEF Reservation
<1>6. /\ g2 \in Authorization /\ g2.state = g.state /\ g2.outcome = g.outcome
      /\ g2.snapshot = g.snapshot /\ g2.armed = c
  BY <1>3 DEF Authorization
<1> HIDE DEF r2, g2
<1>7. RecordsRight(r2, g2)
  BY <1>5, <1>6 DEF RecordsRight, DecidedRes
<1>8. RowRight(q, r2, g2)
  BY <1>5 DEF RowRight, DecidedRes, GuardStatuses, None
<1>9. RowRight(o, r2, g2)
  BY <1>3, <1>4, <1>5, <1>6 DEF RowRight, DecidedRes, Present, None
<1>10. Follows(a, k, r2, g2, q)
  BY <1>5, <1>6 DEF Follows, RecordsGrow, DecidedRes, Present, AtWork, None
<1>11. Legal(a, k, r2, g2, q)
  BY <1>5, <1>6, <1>7, <1>8, <1>9, <1>10 DEF Legal, o
<1> QED BY <1>1, <1>3, <1>11 DEF r2, g2

-----------------------------------------------------------------------------
(* The steps of the settle route.                                           *)

\* A step of delivery d that writes no record.
LEMMA RouteStep ==
  ASSUME Inv, NEW d \in Deliveries, NEW x \in Delivery,
         delivery' = [delivery EXCEPT ![d] = x],
         DeliveryAgrees(x, res, auth, row),
         delivery[d].pc # "idle" => /\ x.pc # "idle"
           /\ x.auth = delivery[d].auth /\ x.kind = delivery[d].kind
           /\ x.cost = delivery[d].cost /\ x.byok = delivery[d].byok,
         UNCHANGED <<money, records, row, worker>>, Fault \/ UNCHANGED faults
  PROVE  Inv'
<1>1. Grows /\ RecordsAgree' /\ RowsAgree'
  BY Still DEF records
<1>2. AsksKept /\ DeliveriesAgree' /\ delivery' \in [Deliveries -> Delivery]
  BY <1>1, DeliveryMoves DEF records
<1>3. WorkersAgree' /\ worker' \in [Workers -> Worker]
  BY <1>1, <1>2, WorkersStay
<1>4. RowsAsked'
  BY <1>2, RowsStayAsked
<1>5. faults' \in 0 .. MaxFaults
  BY Faults
<1> QED BY <1>1, <1>2, <1>3, <1>4, <1>5 DEF Inv, TypeOK, SnapshotsKept, money, records

LEMMA ReceiveStep ==
  ASSUME Inv, NEW d \in Deliveries, NEW a \in Auths, NEW t \in Terminals, Receive(d, a, t)
  PROVE  Inv'
<1>1. /\ delivery[d] \in Delivery /\ delivery[d].pc = "idle"
      /\ delivery[d].answer = None
  BY DEF Inv, TypeOK, DeliveriesAgree, DeliveryAgrees, Receive
<1>2. t \in [kind : Kinds, cost : Nat, byok : BOOLEAN] /\ t.cost \in Costs
  BY TerminalsAssumption DEF Kinds, Costs
<1> DEFINE asked == [delivery[d] EXCEPT !.auth = a, !.kind = t.kind,
                                        !.cost = t.cost, !.byok = t.byok]
<1>3. /\ asked \in Delivery /\ asked.auth = a /\ asked.kind = t.kind
      /\ asked.cost = t.cost /\ asked.byok = t.byok /\ asked.answer = None
  BY <1>1, <1>2 DEF Delivery
<1>4. RecordsRight(res[a], auth[a]) /\ (res[a].credit = 0 => t.byok)
  BY DEF Inv, RecordsAgree, Receive
<1>5. auth[a] \in Authorization /\ res[a] \in Reservation
  BY DEF Inv, TypeOK
<1> HIDE DEF asked
<1> SUFFICES ASSUME NEW x \in Delivery, x.auth = a, x.kind = t.kind,
                    x.cost = t.cost, x.byok = t.byok,
                    \/ /\ x.pc = "commit" /\ auth[a].state = "live" /\ x.answer = None
                    \/ x.pc = "answered" /\ x.answer \in {"already_settled", "not_found"},
                    delivery' = [delivery EXCEPT ![d] = x]
             PROVE  Inv'
  <2>1. CASE auth[a].state = "live"
    <3> DEFINE x == [asked EXCEPT !.pc = "commit"]
    <3>1. delivery' = [delivery EXCEPT ![d] = x]
      BY <2>1 DEF Receive, asked
    <3>2. x \in Delivery /\ x.auth = a /\ x.kind = t.kind /\ x.cost = t.cost
          /\ x.byok = t.byok /\ x.pc = "commit" /\ x.answer = None
      BY <1>3 DEF Delivery
    <3> QED BY <2>1, <3>1, <3>2
  <2>2. CASE auth[a].state = "settled"
    <3> DEFINE x == [asked EXCEPT !.pc = "answered", !.answer = "already_settled"]
    <3>1. delivery' = [delivery EXCEPT ![d] = x]
      BY <2>2 DEF Receive, asked
    <3>2. x \in Delivery /\ x.auth = a /\ x.kind = t.kind /\ x.cost = t.cost
          /\ x.byok = t.byok /\ x.pc = "answered" /\ x.answer = "already_settled"
      BY <1>3 DEF Delivery
    <3> QED BY <3>1, <3>2
  <2>3. CASE auth[a].state = "deleted"
    <3> DEFINE x == [asked EXCEPT !.pc = "answered", !.answer = "not_found"]
    <3>1. delivery' = [delivery EXCEPT ![d] = x]
      BY <2>3 DEF Receive, asked
    <3>2. x \in Delivery /\ x.auth = a /\ x.kind = t.kind /\ x.cost = t.cost
          /\ x.byok = t.byok /\ x.pc = "answered" /\ x.answer = "not_found"
      BY <1>3 DEF Delivery
    <3> QED BY <3>1, <3>2
  <2>4. auth[a].state # None
    BY DEF Receive
  <2> QED BY <1>5, <2>1, <2>2, <2>3, <2>4 DEF Authorization
<1>6. res[a].state # None
  BY <1>4 DEF Receive, RecordsRight
<1>7. DeliveryRight(x, res[a], auth[a], row[Of(x)])
  BY <1>4, <1>6 DEF DeliveryRight, RecordsRight, Present, None
<1>8. DeliveryAgrees(x, res, auth, row)
  BY <1>2, <1>7 DEF DeliveryAgrees
<1> QED BY <1>1, <1>8, RouteStep DEF Receive

\* What a delivery that is under way has, and what it is after a step.
LEMMA UnderWay ==
  ASSUME Inv, NEW d \in Deliveries, delivery[d].pc # "idle"
  PROVE  /\ delivery[d] \in Delivery
         /\ delivery[d].auth \in Auths /\ delivery[d].kind \in Kinds
         /\ delivery[d].cost \in Costs /\ delivery[d].cost \in Nat
         /\ delivery[d].byok \in BOOLEAN /\ Actual(delivery[d]) \in Nat
         /\ Of(delivery[d]) \in Auths \X Kinds
         /\ DeliveryRight(delivery[d], res[delivery[d].auth], auth[delivery[d].auth],
                          row[Of(delivery[d])])
BY DEF Inv, TypeOK, DeliveriesAgree, DeliveryAgrees, Delivery, Of, Actual

\* The delivery x with another pc, answer, and marks of its attempt.
Moved(x, y) ==
  /\ y \in Delivery /\ y.pc # "idle"
  /\ y.auth = x.auth /\ y.kind = x.kind /\ y.cost = x.cost /\ y.byok = x.byok

LEMMA Goes ==
  ASSUME NEW x \in Delivery, NEW pc \in {"insert", "refresh", "finalize", "mark", "read"}
  PROVE  LET y == [x EXCEPT !.pc = pc] IN
         Moved(x, y) /\ y.pc = pc /\ y.answer = x.answer
BY DEF Moved, Delivery

LEMMA GoesFailed ==
  ASSUME NEW x \in Delivery, NEW t \in BOOLEAN, NEW f \in BOOLEAN
  PROVE  /\ LET y == [x EXCEPT !.pc = "insert", !.transient = t, !.inflight = f] IN
            Moved(x, y) /\ y.pc = "insert" /\ y.answer = x.answer
         /\ LET y == [x EXCEPT !.pc = "insert", !.transient = t] IN
            Moved(x, y) /\ y.pc = "insert" /\ y.answer = x.answer
BY DEF Moved, Delivery

LEMMA Answers ==
  ASSUME NEW x \in Delivery,
         NEW o \in {"finalized", "already_settled", "intent_durable", "unavailable", "lost"}
  PROVE  LET y == [x EXCEPT !.pc = "answered", !.answer = o] IN
         Moved(x, y) /\ y.pc = "answered" /\ y.answer = o
BY DEF Moved, Delivery

\* A step of the route from x to y that writes no record.
LEMMA MovedStep ==
  ASSUME Inv, NEW d \in Deliveries, NEW y, delivery[d].pc # "idle",
         Moved(delivery[d], y), delivery' = [delivery EXCEPT ![d] = y],
         DeliveryRight(y, res[delivery[d].auth], auth[delivery[d].auth],
                       row[Of(delivery[d])]),
         UNCHANGED <<money, records, row, worker>>, Fault \/ UNCHANGED faults
  PROVE  Inv'
<1>1. DeliveryAgrees(y, res, auth, row)
  BY UnderWay DEF Moved, DeliveryAgrees, Of
<1> QED BY <1>1, RouteStep DEF Moved

LEMMA OneCommitDeclinedStep ==
  ASSUME Inv, NEW d \in Deliveries, OneCommitDeclined(d)
  PROVE  Inv'
<1> DEFINE x == delivery[d]
           y == [x EXCEPT !.pc = "insert"]
<1>1. x.pc = "commit" /\ delivery' = [delivery EXCEPT ![d] = y]
  BY DEF OneCommitDeclined, To
<1>2. Moved(x, y) /\ y.pc = "insert" /\ y.answer = x.answer
  BY <1>1, Goes, UnderWay
<1>3. DeliveryRight(y, res[x.auth], auth[x.auth], row[Of(x)])
  BY <1>1, <1>2, UnderWay DEF DeliveryRight, Moved, None
<1> QED BY <1>1, <1>2, <1>3, MovedStep DEF OneCommitDeclined

LEMMA OneCommitFailsStep ==
  ASSUME Inv, NEW d \in Deliveries, OneCommitFails(d)
  PROVE  Inv'
<1> DEFINE x == delivery[d]
<1>1. PICK t \in BOOLEAN, f \in BOOLEAN :
        delivery' = [delivery EXCEPT ![d].pc = "insert", ![d].transient = t,
                                     ![d].inflight = f]
  BY DEF OneCommitFails
<1> DEFINE y == [x EXCEPT !.pc = "insert", !.transient = t, !.inflight = f]
<1>2. x.pc = "commit" /\ delivery' = [delivery EXCEPT ![d] = y]
  BY <1>1 DEF OneCommitFails
<1>3. Moved(x, y) /\ y.pc = "insert" /\ y.answer = x.answer
  <2>1. x \in Delivery
    BY <1>2, UnderWay
  <2> QED BY <2>1 DEF Moved, Delivery
<1>4. DeliveryRight(y, res[x.auth], auth[x.auth], row[Of(x)])
  BY <1>2, <1>3, UnderWay DEF DeliveryRight, Moved, None
<1> QED BY <1>2, <1>3, <1>4, MovedStep DEF OneCommitFails

LEMMA InsertExistsStep ==
  ASSUME Inv, NEW d \in Deliveries, InsertExists(d)
  PROVE  Inv'
<1> DEFINE x == delivery[d]
           y == [x EXCEPT !.pc = "refresh"]
<1>1. x.pc = "insert" /\ delivery' = [delivery EXCEPT ![d] = y]
  BY DEF InsertExists, To
<1>2. Moved(x, y) /\ y.pc = "refresh" /\ y.answer = x.answer
  BY <1>1, Goes, UnderWay
<1>3. DeliveryRight(y, res[x.auth], auth[x.auth], row[Of(x)])
  BY <1>1, <1>2, UnderWay DEF InsertExists, DeliveryRight, Moved, None
<1> QED BY <1>1, <1>2, <1>3, MovedStep DEF InsertExists

LEMMA FinalizeLostStep ==
  ASSUME Inv, NEW d \in Deliveries, FinalizeLost(d)
  PROVE  Inv'
<1> DEFINE x == delivery[d]
           y == [x EXCEPT !.pc = "read"]
<1>1. x.pc = "finalize" /\ delivery' = [delivery EXCEPT ![d] = y]
  BY DEF FinalizeLost, To
<1>2. Moved(x, y) /\ y.pc = "read" /\ y.answer = x.answer
  BY <1>1, Goes, UnderWay
<1>3. DeliveryRight(y, res[x.auth], auth[x.auth], row[Of(x)])
  BY <1>1, <1>2, UnderWay DEF DeliveryRight, Moved, None
<1> QED BY <1>1, <1>2, <1>3, MovedStep DEF FinalizeLost

\* The steps that only answer.
LEMMA AnswerStep ==
  ASSUME Inv, NEW d \in Deliveries,
         EnqueueFails(d) \/ FinalizeFails(d) \/ ReadBack(d) \/ LoseDelivery(d)
  PROVE  Inv'
<1> DEFINE x == delivery[d]
           y(o) == [x EXCEPT !.pc = "answered", !.answer = o]
<1>1. x.pc \notin {"idle", "answered"}
  BY DEF EnqueueFails, FinalizeFails, ReadBack, LoseDelivery
<1>2. PICK o \in {"already_settled", "intent_durable", "unavailable", "lost"} :
        /\ delivery' = [delivery EXCEPT ![d] = y(o)]
        /\ o = "intent_durable" => x.pc \in {"finalize", "read"}
  BY DEF EnqueueFails, FinalizeFails, ReadBack, LoseDelivery, Answer
<1>3. Moved(x, y(o)) /\ y(o).pc = "answered" /\ y(o).answer = o
  <2>1. x \in Delivery
    BY <1>1, UnderWay
  <2> QED BY <2>1 DEF Moved, Delivery
<1>4. DeliveryRight(y(o), res[x.auth], auth[x.auth], row[Of(x)])
  BY <1>1, <1>2, <1>3, UnderWay DEF DeliveryRight, Moved, None
<1>5. UNCHANGED <<money, records, row, worker>> /\ (Fault \/ UNCHANGED faults)
  BY DEF EnqueueFails, FinalizeFails, ReadBack, LoseDelivery
<1> QED BY <1>1, <1>2, <1>3, <1>4, <1>5, MovedStep

\* The row q comes from what delivery x asks for, or keeps what it had.
Carries(q, x, old) ==
  \/ q.cost = x.cost /\ q.byok = x.byok
  \/ old.status # None /\ q.cost = old.cost /\ q.byok = old.byok

\* No generation is written over but authorization a's.
Generates(a, g) ==
  /\ generation' \in [Auths -> {None, "terminal", "heartbeat"}]
  /\ \A b \in Auths : b # a => generation'[b] = generation[b]
  /\ g.outcome = "reaped_snapshot" => generation'[a] = "heartbeat"

LEMMA SnapshotsStay ==
  ASSUME Inv, NEW a \in Auths, NEW g, auth' = [auth EXCEPT ![a] = g], Generates(a, g)
  PROVE  SnapshotsKept'
<1>1. \A b \in Auths : auth'[b] = IF b = a THEN g ELSE auth[b]
  BY DEF Inv, TypeOK
<1> QED BY <1>1 DEF Inv, SnapshotsKept, Generates

\* A step of delivery d, to y, that writes its authorization's records.
LEMMA WritingStep ==
  ASSUME Inv, NEW d \in Deliveries, NEW y, delivery[d].pc # "idle",
         Moved(delivery[d], y), delivery' = [delivery EXCEPT ![d] = y],
         NEW r, NEW g, NEW q,
         Touches(delivery[d].auth, delivery[d].kind, r, g, q),
         Legal(delivery[d].auth, delivery[d].kind, r, g, q),
         DeliveryRight(y, r, g, q), Carries(q, delivery[d], row[Of(delivery[d])]),
         Generates(delivery[d].auth, g),
         credit' \in [usage : Nat, reserved : Nat],
         key' \in [usage : Nat, byok : Nat, reserved : Nat],
         UNCHANGED worker, Fault \/ UNCHANGED faults
  PROVE  Inv'
<1> DEFINE x == delivery[d]
           a == x.auth
           k == x.kind
<1>1. x \in Delivery /\ a \in Auths /\ k \in Kinds /\ x.cost \in Costs
  BY UnderWay
<1>2. /\ res' \in [Auths -> Reservation] /\ auth' \in [Auths -> Authorization]
      /\ row' \in [Auths \X Kinds -> OutboxRow]
      /\ RecordsAgree' /\ RowsAgree' /\ Grows
  BY <1>1, RecordsStep
<1>3. res'[a] = r /\ auth'[a] = g /\ row'[Of(x)] = q
  BY <1>1 DEF Touches, Inv, TypeOK, Of
<1>4. DeliveryAgrees(y, res', auth', row')
  BY <1>1, <1>3 DEF Moved, DeliveryAgrees, Of
<1>5. y \in Delivery
  BY DEF Moved
<1>6. AsksKept /\ DeliveriesAgree' /\ delivery' \in [Deliveries -> Delivery]
  BY <1>2, <1>4, <1>5, DeliveryMoves DEF Moved
<1>7. WorkersAgree' /\ worker' \in [Workers -> Worker]
  BY <1>2, <1>6, WorkersStay
<1>8. q.cost = x.cost /\ q.byok = x.byok => AskedFor(a, k, q, delivery')
  <2>1. delivery'[d] = y
    BY DEF Inv, TypeOK
  <2> QED BY <2>1, <1>1 DEF AskedFor, Moved
<1>9. RowsAsked'
  BY <1>1, <1>6, <1>8, AskedRows DEF Carries, Touches, Of
<1>10. SnapshotsKept'
  BY <1>1, SnapshotsStay DEF Touches
<1>11. faults' \in 0 .. MaxFaults
  BY Faults
<1> QED BY <1>2, <1>6, <1>7, <1>9, <1>10, <1>11 DEF Inv, TypeOK, Generates

\* The terminal x, of a delivery or a worker, settles its authorization.
Settles(x, r, g) ==
  /\ r.state = "settled" /\ g.state = "settled"
  /\ r.credit = res[x.auth].credit /\ r.key = res[x.auth].key
  /\ r.actual = Actual(x) /\ r.byok = x.byok
  /\ g.outcome = Outcome(x) /\ g.snapshot = auth[x.auth].snapshot

IsTerminal(x) ==
  x.auth \in Auths /\ x.kind \in Kinds /\ x.cost \in Nat /\ x.byok \in BOOLEAN

LEMMA IntentIsRow ==
  ASSUME NEW x, x.cost \in Nat, x.byok \in BOOLEAN
  PROVE  /\ Intent(x) \in OutboxRow /\ Intent(x).cost = x.cost /\ Intent(x).byok = x.byok
         /\ Intent(x).status = "pending" /\ Intent(x).attempts = 0
<1>1. NoRow \in OutboxRow /\ NoRow.attempts = 0
  BY MaxAttemptsAssumption DEF NoRow, OutboxRow
<1> QED BY <1>1 DEF Intent, OutboxRow

LEMMA CommitOneSettles ==
  ASSUME Inv, NEW x, IsTerminal(x), CommitOne(x)
  PROVE  \E r, g, q :
           /\ Touches(x.auth, x.kind, r, g, q) /\ Legal(x.auth, x.kind, r, g, q)
           /\ Settles(x, r, g)
           /\ q.status = "done" /\ q.cost = x.cost /\ q.byok = x.byok
<1> DEFINE a == x.auth
           k == x.kind
           r == Settled(a, Actual(x), x.byok)
           g == SettledAuth(a, Outcome(x))
           q == [Intent(x) EXCEPT !.status = "done", !.attempts = 1]
<1>1. a \in Auths /\ k \in Kinds /\ x.cost \in Nat /\ x.byok \in BOOLEAN
  BY DEF IsTerminal
<1>2. Claimable(a) /\ MarkDone(a, k, [row EXCEPT ![<<a, k>>] = q], r, g)
  BY DEF CommitOne, OneCommits, Of
<1>3. q \in OutboxRow /\ q.status = "done" /\ q.cost = x.cost /\ q.byok = x.byok
  <2>1. Intent(x) \in OutboxRow /\ Intent(x).cost = x.cost /\ Intent(x).byok = x.byok
    BY <1>1, IntentIsRow
  <2>2. 1 \in 0 .. MaxAttempts
    BY MaxAttemptsAssumption
  <2> QED BY <2>1, <2>2 DEF OutboxRow
<1>4. Actual(x) \in Nat /\ Outcome(x) \in {"settled", "refunded"}
  BY <1>1 DEF Actual, Outcome
<1>5. /\ r \in Reservation /\ g \in Authorization
      /\ r.state = "settled" /\ g.state = "settled"
      /\ r.actual = Actual(x) /\ r.byok = x.byok
      /\ r.credit = res[a].credit /\ r.key = res[a].key
      /\ g.outcome = Outcome(x) /\ g.snapshot = auth[a].snapshot
      /\ RecordsRight(r, g) /\ DecidedRes(r) /\ Present(r, g)
      /\ RecordsGrow(res[a], auth[a], r, g)
  BY <1>1, <1>2, <1>4, SettledRight
<1> HIDE DEF a, k, r, g, q
<1>6. PICK b \in BOOLEAN, c \in BOOLEAN :
        /\ Touches(a, k, [r EXCEPT !.armed = b], [g EXCEPT !.armed = c], q)
        /\ Legal(a, k, [r EXCEPT !.armed = b], [g EXCEPT !.armed = c], q)
  BY <1>1, <1>2, <1>3, <1>4, <1>5, MarkDoneStep
<1>7. Settles(x, [r EXCEPT !.armed = b], [g EXCEPT !.armed = c])
  BY <1>5 DEF Settles, Reservation, Authorization, a
<1> QED BY <1>3, <1>6, <1>7 DEF a, k

\* Another intent that waits, or is dead, is left with its records in place.
LEMMA SettlesBeside ==
  ASSUME Inv, NEW a \in Auths, NEW k \in Kinds, NEW r, NEW g,
         r \in Reservation, g \in Authorization,
         RecordsRight(r, g), DecidedRes(r), Present(r, g),
         RecordsGrow(res[a], auth[a], r, g),
         r.armed = res[a].armed, g.armed = auth[a].armed,
         g.outcome \in {"settled", "refunded"}
  PROVE  Legal(a, k, r, g, row[<<a, k>>])
<1>1. \A j \in Kinds : RowRight(row[<<a, j>>], res[a], auth[a])
  BY DEF Inv, RowsAgree
<1>2. \A j \in Kinds : RowRight(row[<<a, j>>], r, g)
  BY <1>1 DEF RowRight, DecidedRes, None
<1>3. row[<<a, k>>] \in OutboxRow
  BY DEF Inv, TypeOK
<1>4. Follows(a, k, r, g, row[<<a, k>>])
  BY DEF Follows
<1> QED BY <1>2, <1>3, <1>4, KindsAreTwo DEF Legal

LEMMA CommitFinalizeSettles ==
  ASSUME Inv, NEW x, IsTerminal(x), NEW marks \in BOOLEAN, CommitFinalize(x, marks)
  PROVE  \E r, g, q :
           /\ Touches(x.auth, x.kind, r, g, q) /\ Legal(x.auth, x.kind, r, g, q)
           /\ Settles(x, r, g)
           /\ \/ q = row[Of(x)]
              \/ row[Of(x)].status = "pending" /\ q.status = "done"
           /\ q.cost = row[Of(x)].cost /\ q.byok = row[Of(x)].byok
<1> DEFINE a == x.auth
           k == x.kind
           r == Settled(a, Actual(x), x.byok)
           g == SettledAuth(a, Outcome(x))
           old == row[<<a, k>>]
           q == Resolved(<<a, k>>, old.attempts + 1)
<1>1. a \in Auths /\ k \in Kinds /\ x.cost \in Nat /\ x.byok \in BOOLEAN
  BY DEF IsTerminal
<1>2. Claimable(a)
  BY DEF CommitFinalize
<1>3. old \in OutboxRow /\ RowRight(old, res[a], auth[a])
  BY <1>1 DEF Inv, TypeOK, RowsAgree
<1>4. Actual(x) \in Nat /\ Outcome(x) \in {"settled", "refunded"}
  BY <1>1 DEF Actual, Outcome
<1>5. /\ r \in Reservation /\ g \in Authorization
      /\ r.state = "settled" /\ g.state = "settled"
      /\ r.actual = Actual(x) /\ r.byok = x.byok /\ r.armed = res[a].armed
      /\ r.credit = res[a].credit /\ r.key = res[a].key
      /\ g.outcome = Outcome(x) /\ g.snapshot = auth[a].snapshot
      /\ g.armed = auth[a].armed
      /\ RecordsRight(r, g) /\ DecidedRes(r) /\ Present(r, g)
      /\ RecordsGrow(res[a], auth[a], r, g)
  BY <1>1, <1>2, <1>4, SettledRight
<1>6. CASE marks /\ Pending(Of(x)) /\ row[Of(x)].owner = None
  <2>1. MarkDone(a, k, [row EXCEPT ![<<a, k>>] = q], r, g)
    BY <1>6, <1>1 DEF CommitFinalize, Of, Inv, TypeOK
  <2>2. old.status = "pending" /\ old.attempts < MaxAttempts
    BY <1>6, <1>3 DEF Pending, Of, RowRight
  <2>3. /\ q \in OutboxRow /\ q.status = "done"
        /\ q.cost = old.cost /\ q.byok = old.byok
    <3>1. old.attempts + 1 \in 0 .. MaxAttempts
      BY <2>2, <1>3, MaxAttemptsAssumption DEF OutboxRow
    <3>2. q = [old EXCEPT !.status = "done", !.owner = None, !.lapsed = FALSE,
                          !.attempts = old.attempts + 1]
      BY DEF Resolved
    <3> HIDE DEF q, old
    <3> QED BY <3>1, <3>2, <1>3 DEF OutboxRow
  <2> HIDE DEF a, k, r, g, q, old
  <2>4. PICK b \in BOOLEAN, c \in BOOLEAN :
          /\ Touches(a, k, [r EXCEPT !.armed = b], [g EXCEPT !.armed = c], q)
          /\ Legal(a, k, [r EXCEPT !.armed = b], [g EXCEPT !.armed = c], q)
    BY <1>1, <1>4, <1>5, <2>1, <2>3, MarkDoneStep
  <2>5. Settles(x, [r EXCEPT !.armed = b], [g EXCEPT !.armed = c])
    BY <1>5 DEF Settles, Reservation, Authorization, a
  <2> QED BY <2>2, <2>3, <2>4, <2>5 DEF a, k, old, Of
<1>7. CASE ~(marks /\ Pending(Of(x)) /\ row[Of(x)].owner = None)
  <2>1. res' = [res EXCEPT ![a] = r] /\ auth' = [auth EXCEPT ![a] = g] /\ UNCHANGED row
    BY <1>7 DEF CommitFinalize
  <2>2. Touches(a, k, r, g, old)
    <3>1. row = [row EXCEPT ![<<a, k>>] = old]
      BY <1>1 DEF Inv, TypeOK
    <3> HIDE DEF a, k, r, g, old
    <3> QED BY <2>1, <3>1 DEF Touches
  <2>3. Legal(a, k, r, g, old)
    <3> HIDE DEF r, g, a, k
    <3> QED BY <1>1, <1>4, <1>5, SettlesBeside
  <2>4. Settles(x, r, g)
    <3> HIDE DEF r, g
    <3> QED BY <1>5 DEF Settles
  <2> QED BY <2>2, <2>3, <2>4 DEF Of
<1> QED BY <1>6, <1>7

LEMMA Generated ==
  ASSUME Inv, NEW x, x.auth \in Auths, NEW g, g.outcome # "reaped_snapshot",
         generation' \in {generation, Written(x)}
  PROVE  Generates(x.auth, g)
<1>1. generation \in [Auths -> {None, "terminal", "heartbeat"}]
  BY DEF Inv, TypeOK
<1>2. CASE x.kind = "settle"
  BY <1>1, <1>2 DEF Generates, Written
<1>3. CASE x.kind # "settle"
  BY <1>1, <1>3 DEF Generates, Written
<1> QED BY <1>2, <1>3

LEMMA GenerationStays ==
  ASSUME Inv, NEW a \in Auths, NEW g, g.outcome = auth[a].outcome, UNCHANGED generation
  PROVE  Generates(a, g)
BY DEF Inv, TypeOK, SnapshotsKept, Generates

LEMMA AfterSettle ==
  ASSUME Inv, NEW d \in Deliveries, delivery[d].pc # "idle", NEW y,
         Moved(delivery[d], y), NEW r, NEW g, NEW q, Settles(delivery[d], r, g),
         y.pc # "answered" => y.answer = None,
         y.pc \in {"refresh", "finalize", "read"} => q.status # None
  PROVE  DeliveryRight(y, r, g, q)
<1> DEFINE x == delivery[d]
<1>1. DeliveryRight(x, res[x.auth], auth[x.auth], row[Of(x)])
  BY UnderWay
<1>2. res[x.auth].credit = 0 => x.byok
  BY <1>1 DEF DeliveryRight
<1>3. Actual(y) = Actual(x)
  BY DEF Moved, Actual
<1>4. Outcome(x) \in {"settled", "refunded"}
  BY DEF Outcome
<1> HIDE DEF x
<1> QED BY <1>2, <1>3, <1>4 DEF DeliveryRight, Settles, Moved, DecidedRes, Present, None, x

LEMMA DeliveryIsTerminal ==
  ASSUME Inv, NEW d \in Deliveries, delivery[d].pc # "idle"
  PROVE  IsTerminal(delivery[d])
BY UnderWay DEF IsTerminal

\* A delivery's one commit, heard of or not.
LEMMA CommitOneStep ==
  ASSUME Inv, NEW d \in Deliveries, delivery[d].pc # "idle", CommitOne(delivery[d]),
         NEW y, Moved(delivery[d], y), delivery' = [delivery EXCEPT ![d] = y],
         y.pc # "answered" => y.answer = None,
         UNCHANGED worker, Fault \/ UNCHANGED faults
  PROVE  Inv'
<1> DEFINE x == delivery[d]
<1>1. IsTerminal(x) /\ x.auth \in Auths /\ Actual(x) \in Nat /\ x.byok \in BOOLEAN
  BY DeliveryIsTerminal, UnderWay
<1>2. PICK r, g, q :
        /\ Touches(x.auth, x.kind, r, g, q) /\ Legal(x.auth, x.kind, r, g, q)
        /\ Settles(x, r, g)
        /\ q.status = "done" /\ q.cost = x.cost /\ q.byok = x.byok
  BY <1>1, CommitOneSettles
<1>3. g.outcome # "reaped_snapshot"
  BY <1>2 DEF Settles, Outcome
<1>4. Generates(x.auth, g)
  BY <1>1, <1>3, Generated DEF CommitOne
<1>5. /\ credit' \in [usage : Nat, reserved : Nat]
      /\ key' \in [usage : Nat, byok : Nat, reserved : Nat]
  BY <1>1, BookTypes DEF CommitOne, OneCommits
<1>6. DeliveryRight(y, r, g, q)
  BY <1>2, AfterSettle DEF None
<1>7. Carries(q, x, row[Of(x)])
  BY <1>2 DEF Carries
<1> QED BY <1>2, <1>4, <1>5, <1>6, <1>7, WritingStep

LEMMA OneCommitStep ==
  ASSUME Inv, NEW d \in Deliveries, OneCommit(d)
  PROVE  Inv'
<1> DEFINE x == delivery[d]
<1>1. x.pc = "commit" /\ CommitOne(x) /\ UNCHANGED worker
  BY DEF OneCommit
<1>2. x \in Delivery /\ x.answer = None
  BY <1>1, UnderWay DEF DeliveryRight
<1>3. CASE Answer(d, "finalized") /\ UNCHANGED faults
  <2> DEFINE y == [x EXCEPT !.pc = "answered", !.answer = "finalized"]
  <2>1. delivery' = [delivery EXCEPT ![d] = y]
    BY <1>3 DEF Answer
  <2>2. Moved(x, y) /\ y.pc = "answered"
    BY <1>2 DEF Moved, Delivery
  <2> HIDE DEF y
  <2> QED BY <1>1, <1>3, <2>1, <2>2, CommitOneStep
<1>4. CASE Fault /\ \E t \in BOOLEAN :
             delivery' = [delivery EXCEPT ![d].pc = "insert", ![d].transient = t]
  <2>1. PICK t \in BOOLEAN :
          delivery' = [delivery EXCEPT ![d].pc = "insert", ![d].transient = t]
    BY <1>4
  <2> DEFINE y == [x EXCEPT !.pc = "insert", !.transient = t]
  <2>2. delivery' = [delivery EXCEPT ![d] = y]
    BY <2>1
  <2>3. Moved(x, y) /\ y.answer = None
    BY <1>2 DEF Moved, Delivery
  <2> HIDE DEF y
  <2> QED BY <1>1, <1>4, <2>2, <2>3, CommitOneStep
<1> QED BY <1>3, <1>4 DEF OneCommit

LEMMA LateCommitStep ==
  ASSUME Inv, NEW d \in Deliveries, LateCommit(d)
  PROVE  Inv'
<1> DEFINE x == delivery[d]
           y == [x EXCEPT !.inflight = FALSE]
<1>1. x.inflight /\ CommitOne(x) /\ UNCHANGED <<worker, faults>>
      /\ delivery' = [delivery EXCEPT ![d] = y]
  BY DEF LateCommit
<1>2. x.pc # "idle"
  BY <1>1 DEF Inv, DeliveriesAgree, DeliveryAgrees
<1>3. x \in Delivery /\ (x.pc # "answered" => x.answer = None)
  BY <1>2, UnderWay DEF DeliveryRight
<1>4. Moved(x, y) /\ y.pc = x.pc /\ y.answer = x.answer
  BY <1>2, <1>3 DEF Moved, Delivery
<1> HIDE DEF y
<1> QED BY <1>1, <1>2, <1>3, <1>4, CommitOneStep

\* The records with their retention deferred.
Disarmed(a, r, g) ==
  r = [res[a] EXCEPT !.armed = FALSE] /\ g = [auth[a] EXCEPT !.armed = FALSE]

LEMMA Deferred ==
  ASSUME Inv, NEW a \in Auths, NEW k \in Kinds, NEW q \in OutboxRow,
         Present(res[a], auth[a]),
         q.status \in {"pending", "dead"},
         q.status = "pending" => q.attempts < MaxAttempts,
         NEW r, NEW g, Disarmed(a, r, g)
  PROVE  /\ Legal(a, k, r, g, q)
         /\ r.state = res[a].state /\ r.credit = res[a].credit /\ r.key = res[a].key
         /\ r.actual = res[a].actual /\ r.byok = res[a].byok
         /\ g.state = auth[a].state /\ g.outcome = auth[a].outcome
         /\ g.snapshot = auth[a].snapshot
<1> DEFINE o == row[<<a, Other(k)>>]
<1>2. res[a] \in Reservation /\ auth[a] \in Authorization
  BY DEF Inv, TypeOK
<1>3. /\ r \in Reservation /\ r.state = res[a].state /\ r.credit = res[a].credit
      /\ r.key = res[a].key /\ r.actual = res[a].actual /\ r.byok = res[a].byok
      /\ r.armed = FALSE
  BY <1>2 DEF Reservation, Disarmed
<1>4. /\ g \in Authorization /\ g.state = auth[a].state /\ g.outcome = auth[a].outcome
      /\ g.snapshot = auth[a].snapshot /\ g.armed = FALSE
  BY <1>2 DEF Authorization, Disarmed
<1>5. RecordsRight(res[a], auth[a]) /\ RowRight(o, res[a], auth[a])
  BY KindsAreTwo DEF Inv, RecordsAgree, RowsAgree
<1> HIDE DEF o
<1>6. RecordsRight(r, g)
  BY <1>3, <1>4, <1>5 DEF RecordsRight, DecidedRes
<1>7. RowRight(q, r, g)
  BY <1>3, <1>4 DEF RowRight, DecidedRes, Present, None
<1>8. RowRight(o, r, g)
  BY <1>3, <1>4, <1>5 DEF RowRight, DecidedRes, Present
<1>9. Follows(a, k, r, g, q)
  BY <1>3, <1>4 DEF Follows, RecordsGrow, DecidedRes, Present, AtWork, None
<1>10. Legal(a, k, r, g, q)
  BY <1>3, <1>4, <1>6, <1>7, <1>8, <1>9 DEF Legal, o
<1> QED BY <1>3, <1>4, <1>10

LEMMA InsertStep ==
  ASSUME Inv, NEW d \in Deliveries, Insert(d)
  PROVE  Inv'
<1> DEFINE x == delivery[d]
           a == x.auth
           k == x.kind
           q == Intent(x)
           r == [res[a] EXCEPT !.armed = FALSE]
           g == [auth[a] EXCEPT !.armed = FALSE]
<1>1. /\ x.pc = "insert" /\ DeferRetention(a) /\ row' = [row EXCEPT ![<<a, k>>] = q]
      /\ UNCHANGED <<money, generation, worker>>
  BY DEF Insert, Of
<1>2. /\ x \in Delivery /\ a \in Auths /\ k \in Kinds /\ x.cost \in Nat
      /\ x.byok \in BOOLEAN /\ DeliveryRight(x, res[a], auth[a], row[Of(x)])
  BY <1>1, UnderWay
<1>3. Present(res[a], auth[a]) /\ x.answer = None
  BY <1>1, <1>2 DEF DeliveryRight
<1>4. /\ q \in OutboxRow /\ q.cost = x.cost /\ q.byok = x.byok
      /\ q.status = "pending" /\ q.attempts < MaxAttempts
  BY <1>2, IntentIsRow, MaxAttemptsAssumption
<1>9. Disarmed(a, r, g)
  BY DEF Disarmed
<1> HIDE DEF q, r, g
<1>5. /\ Touches(a, k, r, g, q) /\ Legal(a, k, r, g, q)
      /\ r.state = res[a].state /\ r.credit = res[a].credit
      /\ r.actual = res[a].actual /\ r.byok = res[a].byok
      /\ g.state = auth[a].state /\ g.outcome = auth[a].outcome
  <2>1. Touches(a, k, r, g, q)
    BY <1>1, <1>9 DEF DeferRetention, Touches, Disarmed
  <2> QED BY <1>2, <1>3, <1>4, <1>9, <2>1, Deferred
<1>6. Generates(a, g)
  BY <1>1, <1>2, <1>5, GenerationStays
<1>7. Carries(q, x, row[Of(x)])
  BY <1>4 DEF Carries
<1> SUFFICES ASSUME NEW y, Moved(x, y), delivery' = [delivery EXCEPT ![d] = y],
                    Fault \/ UNCHANGED faults,
                    \/ y.pc = "finalize" /\ y.answer = None
                    \/ y.pc = "answered" /\ y.answer \in {"intent_durable", "unavailable"}
             PROVE  Inv'
  <2>1. CASE x.transient /\ Answer(d, "intent_durable") /\ UNCHANGED faults
    <3> DEFINE y == [x EXCEPT !.pc = "answered", !.answer = "intent_durable"]
    <3>1. delivery' = [delivery EXCEPT ![d] = y]
      BY <2>1 DEF Answer
    <3>2. Moved(x, y) /\ y.pc = "answered" /\ y.answer = "intent_durable"
      BY <1>2 DEF Moved, Delivery
    <3> HIDE DEF y
    <3> QED BY <2>1, <3>1, <3>2
  <2>2. CASE ~x.transient /\ To(d, "finalize") /\ UNCHANGED faults
    <3> DEFINE y == [x EXCEPT !.pc = "finalize"]
    <3>1. delivery' = [delivery EXCEPT ![d] = y]
      BY <2>2 DEF To
    <3>2. Moved(x, y) /\ y.pc = "finalize" /\ y.answer = None
      BY <1>2, <1>3 DEF Moved, Delivery
    <3> HIDE DEF y
    <3> QED BY <2>2, <3>1, <3>2
  <2>3. CASE Answer(d, "unavailable") /\ Fault
    <3> DEFINE y == [x EXCEPT !.pc = "answered", !.answer = "unavailable"]
    <3>1. delivery' = [delivery EXCEPT ![d] = y]
      BY <2>3 DEF Answer
    <3>2. Moved(x, y) /\ y.pc = "answered" /\ y.answer = "unavailable"
      BY <1>2 DEF Moved, Delivery
    <3> HIDE DEF y
    <3> QED BY <2>3, <3>1, <3>2
  <2> QED BY <2>1, <2>2, <2>3 DEF Insert
<1>8. DeliveryRight(y, r, g, q)
  BY <1>2, <1>3, <1>4, <1>5 DEF DeliveryRight, Moved, DecidedRes, Present, None
<1> QED BY <1>1, <1>5, <1>6, <1>7, <1>8, WritingStep DEF money, Inv, TypeOK

LEMMA RefreshStep ==
  ASSUME Inv, NEW d \in Deliveries, Refresh(d)
  PROVE  Inv'
<1> DEFINE x == delivery[d]
           a == x.auth
           k == x.kind
           y == [x EXCEPT !.pc = "finalize"]
           old == row[<<a, k>>]
<1>1. /\ x.pc = "refresh" /\ delivery' = [delivery EXCEPT ![d] = y]
      /\ UNCHANGED <<money, generation, worker, faults>>
  BY DEF Refresh, To
<1>2. /\ x \in Delivery /\ a \in Auths /\ k \in Kinds /\ x.cost \in Nat
      /\ x.byok \in BOOLEAN /\ DeliveryRight(x, res[a], auth[a], old)
  BY <1>1, UnderWay DEF Of
<1>3. Present(res[a], auth[a]) /\ x.answer = None /\ old.status # None
  BY <1>1, <1>2 DEF DeliveryRight
<1>4. Moved(x, y) /\ y.pc = "finalize" /\ y.answer = None
  BY <1>2, <1>3 DEF Moved, Delivery
<1>5. old \in OutboxRow /\ RowRight(old, res[a], auth[a])
  BY <1>2 DEF Inv, TypeOK, RowsAgree
<1> HIDE DEF y
<1>6. CASE Pending(Of(x)) /\ Unleased(row[Of(x)])
  <2> DEFINE q == [old EXCEPT !.cost = x.cost, !.byok = x.byok]
             r == [res[a] EXCEPT !.armed = FALSE]
             g == [auth[a] EXCEPT !.armed = FALSE]
  <2>1. DeferRetention(a) /\ row' = [row EXCEPT ![<<a, k>>] = q]
    BY <1>6 DEF Refresh, Of
  <2>2. /\ q \in OutboxRow /\ q.cost = x.cost /\ q.byok = x.byok
        /\ q.status = "pending" /\ q.attempts < MaxAttempts
    <3>1. old.status = "pending" /\ old.attempts < MaxAttempts
      BY <1>5, <1>6 DEF Pending, Of, RowRight
    <3> HIDE DEF old
    <3> QED BY <3>1, <1>2, <1>5 DEF OutboxRow
  <2>7. Disarmed(a, r, g)
    BY DEF Disarmed
  <2> HIDE DEF q, r, g
  <2>3. /\ Touches(a, k, r, g, q) /\ Legal(a, k, r, g, q)
        /\ r.state = res[a].state /\ r.credit = res[a].credit
        /\ r.actual = res[a].actual /\ r.byok = res[a].byok
        /\ g.state = auth[a].state /\ g.outcome = auth[a].outcome
    <3>1. Touches(a, k, r, g, q)
      BY <2>1, <2>7 DEF DeferRetention, Touches, Disarmed
    <3> QED BY <1>2, <1>3, <2>2, <2>7, <3>1, Deferred
  <2>4. Generates(a, g)
    BY <1>1, <1>2, <2>3, GenerationStays
  <2>5. Carries(q, x, row[Of(x)])
    BY <2>2 DEF Carries
  <2>6. DeliveryRight(y, r, g, q)
    BY <1>2, <1>3, <1>4, <2>2, <2>3 DEF DeliveryRight, Moved, DecidedRes, Present, None
  <2> QED BY <1>1, <1>4, <2>3, <2>4, <2>5, <2>6, WritingStep DEF money, Inv, TypeOK
<1>7. CASE ~(Pending(Of(x)) /\ Unleased(row[Of(x)]))
  <2>1. UNCHANGED <<row, res, auth>>
    BY <1>7 DEF Refresh
  <2>2. DeliveryRight(y, res[a], auth[a], old)
    <3> HIDE DEF old
    <3> QED BY <1>2, <1>3, <1>4 DEF DeliveryRight, Moved, None
  <2> QED BY <1>1, <1>4, <2>1, <2>2, MovedStep DEF records, money, Of
<1> QED BY <1>6, <1>7

LEMMA FinalizeStep ==
  ASSUME Inv, NEW d \in Deliveries, Finalize(d)
  PROVE  Inv'
<1> DEFINE x == delivery[d]
<1>1. x.pc = "finalize" /\ CommitFinalize(x, Durable(x)) /\ UNCHANGED worker
  BY DEF Finalize
<1>2. x \in Delivery /\ IsTerminal(x) /\ x.auth \in Auths /\ Actual(x) \in Nat
      /\ x.byok \in BOOLEAN /\ DeliveryRight(x, res[x.auth], auth[x.auth], row[Of(x)])
  BY <1>1, UnderWay, DeliveryIsTerminal
<1>3. Durable(x) \in BOOLEAN
  BY DEF Durable
<1>4. PICK r, g, q :
        /\ Touches(x.auth, x.kind, r, g, q) /\ Legal(x.auth, x.kind, r, g, q)
        /\ Settles(x, r, g)
        /\ \/ q = row[Of(x)]
           \/ row[Of(x)].status = "pending" /\ q.status = "done"
        /\ q.cost = row[Of(x)].cost /\ q.byok = row[Of(x)].byok
  BY <1>1, <1>2, <1>3, CommitFinalizeSettles
<1>5. x.answer = None /\ row[Of(x)].status # None
  BY <1>1, <1>2 DEF DeliveryRight
<1>6. g.outcome # "reaped_snapshot"
  BY <1>4 DEF Settles, Outcome
<1>7. generation' \in {generation, Written(x)}
  BY DEF Finalize
<1>8. Generates(x.auth, g)
  BY <1>2, <1>6, <1>7, Generated
<1>9. /\ credit' \in [usage : Nat, reserved : Nat]
      /\ key' \in [usage : Nat, byok : Nat, reserved : Nat]
  BY <1>1, <1>2, BookTypes DEF CommitFinalize
<1>10. Carries(q, x, row[Of(x)])
  BY <1>4, <1>5 DEF Carries
<1> SUFFICES ASSUME NEW y, Moved(x, y), delivery' = [delivery EXCEPT ![d] = y],
                    Fault \/ UNCHANGED faults,
                    \/ y.pc = "mark" /\ y.answer = None
                    \/ y.pc = "answered" /\ y.answer \in {"finalized", "intent_durable"}
             PROVE  Inv'
  <2>1. CASE Durable(x) /\ Answer(d, "finalized") /\ UNCHANGED faults
    <3> DEFINE y == [x EXCEPT !.pc = "answered", !.answer = "finalized"]
    <3>1. delivery' = [delivery EXCEPT ![d] = y]
      BY <2>1 DEF Answer
    <3>2. Moved(x, y) /\ y.pc = "answered" /\ y.answer = "finalized"
      BY <1>2 DEF Moved, Delivery
    <3> HIDE DEF y
    <3> QED BY <2>1, <3>1, <3>2
  <2>2. CASE ~Durable(x) /\ To(d, "mark") /\ UNCHANGED faults
    <3> DEFINE y == [x EXCEPT !.pc = "mark"]
    <3>1. delivery' = [delivery EXCEPT ![d] = y]
      BY <2>2 DEF To
    <3>2. Moved(x, y) /\ y.pc = "mark" /\ y.answer = None
      BY <1>2, <1>5 DEF Moved, Delivery
    <3> HIDE DEF y
    <3> QED BY <2>2, <3>1, <3>2
  <2>3. CASE Answer(d, "intent_durable") /\ Fault
    <3> DEFINE y == [x EXCEPT !.pc = "answered", !.answer = "intent_durable"]
    <3>1. delivery' = [delivery EXCEPT ![d] = y]
      BY <2>3 DEF Answer
    <3>2. Moved(x, y) /\ y.pc = "answered" /\ y.answer = "intent_durable"
      BY <1>2 DEF Moved, Delivery
    <3> HIDE DEF y
    <3> QED BY <2>3, <3>1, <3>2
  <2> QED BY <2>1, <2>2, <2>3 DEF Finalize
<1>11. DeliveryRight(y, r, g, q)
  BY <1>1, <1>4, AfterSettle DEF None
<1> QED BY <1>1, <1>4, <1>8, <1>9, <1>10, <1>11, WritingStep

LEMMA MarkIntentStep ==
  ASSUME Inv, NEW d \in Deliveries, MarkIntent(d)
  PROVE  Inv'
<1> DEFINE x == delivery[d]
           a == x.auth
           k == x.kind
           y == [x EXCEPT !.pc = "answered", !.answer = "finalized"]
           old == row[<<a, k>>]
           q == Resolved(<<a, k>>, old.attempts + 1)
<1>1. /\ x.pc = "mark" /\ delivery' = [delivery EXCEPT ![d] = y]
      /\ UNCHANGED <<money, worker>>
  BY DEF MarkIntent, Answer
<1>2. /\ x \in Delivery /\ a \in Auths /\ k \in Kinds
      /\ DeliveryRight(x, res[a], auth[a], old)
  BY <1>1, UnderWay DEF Of
<1>3. /\ Present(res[a], auth[a]) /\ DecidedRes(res[a])
      /\ auth[a].outcome \in {"settled", "refunded"}
  BY <1>1, <1>2 DEF DeliveryRight
<1>4. Moved(x, y) /\ y.pc = "answered" /\ y.answer = "finalized"
  BY <1>2 DEF Moved, Delivery
<1>5. /\ old \in OutboxRow /\ RowRight(old, res[a], auth[a])
      /\ res[a] \in Reservation /\ auth[a] \in Authorization
      /\ RecordsRight(res[a], auth[a])
  BY <1>2 DEF Inv, TypeOK, RowsAgree, RecordsAgree
<1>6. generation' \in {generation, Written(x)} /\ (Fault \/ UNCHANGED faults)
  BY DEF MarkIntent
<1>7. /\ credit' \in [usage : Nat, reserved : Nat]
      /\ key' \in [usage : Nat, byok : Nat, reserved : Nat]
  BY <1>1 DEF money, Inv, TypeOK
<1>8. Actual(y) = Actual(x)
  BY <1>4 DEF Moved, Actual
<1> HIDE DEF y
<1>9. CASE /\ Pending(Of(x)) /\ row[Of(x)].owner = None
           /\ MarkDone(a, k, [row EXCEPT ![Of(x)] = Resolved(Of(x), @.attempts + 1)],
                       res[a], auth[a])
  <2>1. old.status = "pending" /\ old.attempts < MaxAttempts
    BY <1>5, <1>9 DEF Pending, Of, RowRight
  <2>2. /\ q \in OutboxRow /\ q.status = "done"
        /\ q.cost = old.cost /\ q.byok = old.byok
    <3>1. old.attempts + 1 \in 0 .. MaxAttempts
      BY <2>1, <1>5, MaxAttemptsAssumption DEF OutboxRow
    <3>2. q = [old EXCEPT !.status = "done", !.owner = None, !.lapsed = FALSE,
                          !.attempts = old.attempts + 1]
      BY DEF Resolved
    <3> HIDE DEF q, old
    <3> QED BY <3>1, <3>2, <1>5 DEF OutboxRow
  <2>3. MarkDone(a, k, [row EXCEPT ![<<a, k>>] = q], res[a], auth[a])
    BY <1>2, <1>9 DEF Of, Inv, TypeOK
  <2> HIDE DEF q
  <2>4. RecordsGrow(res[a], auth[a], res[a], auth[a])
    BY DEF RecordsGrow
  <2>5. PICK b \in BOOLEAN, c \in BOOLEAN :
          /\ Touches(a, k, [res[a] EXCEPT !.armed = b], [auth[a] EXCEPT !.armed = c], q)
          /\ Legal(a, k, [res[a] EXCEPT !.armed = b], [auth[a] EXCEPT !.armed = c], q)
    BY <1>2, <1>3, <1>5, <2>2, <2>3, <2>4, MarkDoneStep
  <2> DEFINE r == [res[a] EXCEPT !.armed = b]
             g == [auth[a] EXCEPT !.armed = c]
  <2>6. /\ r.state = res[a].state /\ r.credit = res[a].credit
        /\ r.actual = res[a].actual /\ r.byok = res[a].byok
        /\ g.state = auth[a].state /\ g.outcome = auth[a].outcome
    BY <1>5 DEF Reservation, Authorization
  <2>7. Touches(a, k, r, g, q) /\ Legal(a, k, r, g, q)
    BY <2>5
  <2> HIDE DEF r, g
  <2>8. Generates(a, g)
    BY <1>2, <1>3, <1>6, <2>6, Generated
  <2>9. Carries(q, x, row[Of(x)])
    BY <2>1, <2>2 DEF Carries, Of, None
  <2>10. DeliveryRight(y, r, g, q)
    <3> HIDE DEF old
    <3> QED BY <1>1, <1>2, <1>3, <1>4, <1>8, <2>2, <2>6
        DEF DeliveryRight, Moved, DecidedRes, Present, None
  <2> QED BY <1>1, <1>4, <1>6, <1>7, <2>7, <2>8, <2>9, <2>10, WritingStep
<1>10. CASE UNCHANGED <<row, res, auth>>
  <2>1. Touches(a, k, res[a], auth[a], old)
    BY <1>10, <1>2 DEF Touches, Inv, TypeOK
  <2>2. RowRight(row[<<a, Other(k)>>], res[a], auth[a])
    BY <1>2, KindsAreTwo DEF Inv, RowsAgree
  <2>3. Legal(a, k, res[a], auth[a], old)
    BY <1>5, <2>2 DEF Legal, Follows, RecordsGrow
  <2>4. Generates(a, auth[a])
    BY <1>2, <1>3, <1>6, Generated
  <2>5. DeliveryRight(y, res[a], auth[a], old)
    <3> HIDE DEF old
    <3> QED BY <1>1, <1>2, <1>3, <1>4, <1>8 DEF DeliveryRight, Moved, None
  <2>7. Grows /\ RecordsAgree' /\ RowsAgree'
    BY <1>10, Still
  <2>8. DeliveryAgrees(y, res', auth', row')
    BY <1>1, <1>2, <1>4, <1>10, <2>5, UnderWay DEF DeliveryAgrees, Moved, Of
  <2>9. AsksKept /\ DeliveriesAgree' /\ delivery' \in [Deliveries -> Delivery]
    BY <1>1, <1>4, <2>7, <2>8, DeliveryMoves DEF Moved
  <2>10. WorkersAgree' /\ worker' \in [Workers -> Worker]
    BY <1>1, <2>7, <2>9, WorkersStay
  <2>11. RowsAsked'
    BY <1>10, <2>9, RowsStayAsked
  <2>12. SnapshotsKept'
    BY <1>2, <1>10, <2>1, <2>4, SnapshotsStay DEF Touches
  <2>13. faults' \in 0 .. MaxFaults
    BY <1>6, Faults
  <2> QED BY <1>7, <1>10, <2>4, <2>7, <2>9, <2>10, <2>11, <2>12, <2>13
          DEF Inv, TypeOK, Generates
<1> QED BY <1>9, <1>10 DEF MarkIntent

-----------------------------------------------------------------------------
(* The steps of the drain.                                                  *)

\* A row keeps the inputs it has.
Keeps(q, old) ==
  q.status # None => old.status # None /\ q.cost = old.cost /\ q.byok = old.byok

\* A step that writes records, with no delivery and at most one worker.
LEMMA RecordsOnly ==
  ASSUME Inv, NEW a \in Auths, NEW k \in Kinds, NEW r, NEW g, NEW q,
         Touches(a, k, r, g, q), Legal(a, k, r, g, q), Keeps(q, row[<<a, k>>]),
         Generates(a, g),
         credit' \in [usage : Nat, reserved : Nat],
         key' \in [usage : Nat, byok : Nat, reserved : Nat],
         UNCHANGED delivery, Fault \/ UNCHANGED faults,
         \/ UNCHANGED worker
         \/ \E w \in Workers, y \in Worker :
              /\ worker' = [worker EXCEPT ![w] = y]
              /\ WorkerAgrees(y, res', auth', row', delivery)
  PROVE  Inv'
<1>1. /\ res' \in [Auths -> Reservation] /\ auth' \in [Auths -> Authorization]
      /\ row' \in [Auths \X Kinds -> OutboxRow]
      /\ RecordsAgree' /\ RowsAgree' /\ Grows
  BY RecordsStep
<1>2. AsksKept /\ DeliveriesAgree' /\ delivery' \in [Deliveries -> Delivery]
  BY <1>1, DeliveriesStay
<1>3. WorkersAgree' /\ worker' \in [Workers -> Worker]
  BY <1>1, <1>2, WorkersStay, WorkerMoves
<1>4. RowsAsked'
  BY <1>2, AskedRows DEF Keeps, Touches
<1>5. SnapshotsKept'
  BY SnapshotsStay DEF Touches
<1>6. faults' \in 0 .. MaxFaults
  BY Faults
<1> QED BY <1>1, <1>2, <1>3, <1>4, <1>5, <1>6 DEF Inv, TypeOK, Generates

\* A step of worker w, to y, that writes no record but a generation.
LEMMA DrainStep ==
  ASSUME Inv, NEW w \in Workers, NEW y \in Worker,
         worker' = [worker EXCEPT ![w] = y],
         WorkerAgrees(y, res, auth, row, delivery),
         UNCHANGED <<money, res, auth, row, delivery>>, Fault \/ UNCHANGED faults,
         generation' \in [Auths -> {None, "terminal", "heartbeat"}], SnapshotsKept'
  PROVE  Inv'
<1>1. Grows /\ RecordsAgree' /\ RowsAgree'
  BY Still
<1>2. AsksKept /\ DeliveriesAgree' /\ delivery' \in [Deliveries -> Delivery]
  BY <1>1, DeliveriesStay
<1>3. WorkersAgree' /\ worker' \in [Workers -> Worker]
  BY <1>1, <1>2, WorkerMoves
<1>4. RowsAsked'
  BY <1>2, RowsStayAsked
<1>5. faults' \in 0 .. MaxFaults
  BY Faults
<1> QED BY <1>1, <1>2, <1>3, <1>4, <1>5 DEF Inv, TypeOK, money

LEMMA AtRow ==
  ASSUME Inv, NEW w \in Workers, worker[w].pc # "idle"
  PROVE  /\ worker[w] \in Worker /\ IsTerminal(worker[w])
         /\ worker[w].auth \in Auths /\ worker[w].kind \in Kinds
         /\ Actual(worker[w]) \in Nat /\ worker[w].byok \in BOOLEAN
         /\ WorkerRight(worker[w], res[worker[w].auth], auth[worker[w].auth],
                        row[Of(worker[w])])
         /\ AskedFor(worker[w].auth, worker[w].kind, worker[w], delivery)
BY DEF Inv, TypeOK, WorkersAgree, WorkerAgrees, Worker, IsTerminal, Actual

LEMMA IdleAgrees ==
  /\ Idle \in Worker
  /\ \A rs, au, rw, dl : WorkerAgrees(Idle, rs, au, rw, dl)
BY DEF Idle, Worker, Kinds, Outcomes, WorkerAgrees

\* The worker x, with another pc and outcome.
Works(x, y) ==
  /\ y \in Worker /\ y.pc # "idle"
  /\ y.auth = x.auth /\ y.kind = x.kind /\ y.cost = x.cost /\ y.byok = x.byok

LEMMA WorksOn ==
  ASSUME NEW x, NEW y, Works(x, y), IsTerminal(x), NEW dl,
         AskedFor(x.auth, x.kind, x, dl), NEW rs, NEW au, NEW rw,
         WorkerRight(y, rs[x.auth], au[x.auth], rw[Of(x)])
  PROVE  WorkerAgrees(y, rs, au, rw, dl)
BY DEF Works, WorkerAgrees, AskedFor, IsTerminal, Of

LEMMA DueStep ==
  ASSUME Inv, NEW w \in Workers, NEW p \in Auths \X Kinds, Due(w, p)
  PROVE  Inv'
<1> DEFINE y == [pc |-> "due", auth |-> p[1], kind |-> p[2], cost |-> row[p].cost,
                 byok |-> row[p].byok, outcome |-> None]
<1>1. PICK a \in Auths, k \in Kinds : p = <<a, k>>
  OBVIOUS
<1>2. row[p] \in OutboxRow /\ row[p].status = "pending"
  BY DEF Inv, TypeOK, Due, Pending
<1>3. y \in Worker
  BY <1>1, <1>2 DEF Worker, OutboxRow, Outcomes
<1>4. AskedFor(a, k, row[p], delivery)
  BY <1>1, <1>2 DEF Inv, RowsAsked, None
<1>5. /\ y.pc = "due" /\ y.auth = a /\ y.kind = k /\ y.cost = row[p].cost
      /\ y.byok = row[p].byok
  BY <1>1
<1>6. worker' = [worker EXCEPT ![w] = y]
  BY DEF Due
<1> HIDE DEF y
<1>7. WorkerAgrees(y, res, auth, row, delivery)
  BY <1>1, <1>2, <1>4, <1>5 DEF WorkerAgrees, WorkerRight, AskedFor, Of
<1>8. UNCHANGED <<money, records, row, delivery, faults>>
  BY DEF Due
<1> QED BY <1>3, <1>6, <1>7, <1>8, DrainStep DEF records, Inv, TypeOK, SnapshotsKept

\* The drain's steps that lose a worker, or end its pass, and write nothing.
LEMMA LoseWorkerStep ==
  ASSUME Inv, NEW w \in Workers, LoseWorker(w)
  PROVE  Inv'
BY IdleAgrees, DrainStep DEF LoseWorker, records, Inv, TypeOK, SnapshotsKept

LEMMA ApplyingStep ==
  ASSUME Inv, NEW w \in Workers, NEW y, worker[w].pc # "idle", Works(worker[w], y),
         worker' = [worker EXCEPT ![w] = y],
         y.pc = "checked" => auth[worker[w].auth].outcome # "reaped_snapshot",
         y.pc = "applied" => y.outcome # None,
         y.pc = "applied" /\ y.outcome \in DecidingOutcomes =>
           DecidedRes(res[worker[w].auth]),
         UNCHANGED <<money, res, auth, row, delivery>>, Fault \/ UNCHANGED faults,
         generation' \in [Auths -> {None, "terminal", "heartbeat"}], SnapshotsKept'
  PROVE  Inv'
<1> DEFINE x == worker[w]
<1>1. /\ IsTerminal(x) /\ AskedFor(x.auth, x.kind, x, delivery)
      /\ WorkerRight(x, res[x.auth], auth[x.auth], row[Of(x)])
  BY AtRow
<1>2. WorkerRight(y, res[x.auth], auth[x.auth], row[Of(x)])
  BY <1>1 DEF WorkerRight
<1>3. WorkerAgrees(y, res, auth, row, delivery)
  BY <1>1, <1>2, WorksOn
<1> QED BY <1>3, DrainStep DEF Works

LEMMA WorkerApplied ==
  ASSUME NEW x \in Worker, NEW o \in Outcomes
  PROVE  LET y == [x EXCEPT !.pc = "applied", !.outcome = o] IN
         Works(x, y) /\ y.pc = "applied" /\ y.outcome = o
BY DEF Works, Worker

LEMMA CheckStep ==
  ASSUME Inv, NEW w \in Workers, Check(w)
  PROVE  Inv'
<1> DEFINE x == worker[w]
           a == x.auth
<1>1. x.pc = "claimed" /\ UNCHANGED <<money, records, row, delivery, faults>>
  BY DEF Check
<1>2. x \in Worker /\ a \in Auths
  BY <1>1, AtRow
<1>3. RecordsRight(res[a], auth[a]) /\ res[a] \in Reservation
  BY <1>2 DEF Inv, RecordsAgree, TypeOK
<1>4. /\ generation' \in [Auths -> {None, "terminal", "heartbeat"}] /\ SnapshotsKept'
      /\ UNCHANGED <<money, res, auth, row, delivery>>
  BY <1>1 DEF records, Inv, TypeOK, SnapshotsKept
<1>5. CASE \E o \in {"reservation_missing", "reaped_snapshot"} :
             Applied(w, o) /\ (o = "reaped_snapshot" => auth[a].state = "settled")
  <2>1. PICK o \in {"reservation_missing", "reaped_snapshot"} :
          Applied(w, o) /\ (o = "reaped_snapshot" => auth[a].state = "settled")
    BY <1>5
  <2> DEFINE y == [x EXCEPT !.pc = "applied", !.outcome = o]
  <2>2. worker' = [worker EXCEPT ![w] = y]
    BY <2>1 DEF Applied
  <2>3. o \in Outcomes
    BY DEF Outcomes
  <2>4. Works(x, y) /\ y.pc = "applied" /\ y.outcome = o
    BY <1>2, <2>3 DEF Works, Worker
  <2> HIDE DEF y
  <2>5. o = "reaped_snapshot" => DecidedRes(res[a])
    BY <1>3, <2>1 DEF RecordsRight, DecidedRes, Reservation, None
  <2>6. o \in DecidingOutcomes => o = "reaped_snapshot"
    BY DEF DecidingOutcomes, DoneOutcomes
  <2> QED BY <1>1, <1>4, <2>2, <2>4, <2>5, <2>6, ApplyingStep DEF None
<1>6. CASE auth[a].outcome # "reaped_snapshot"
           /\ worker' = [worker EXCEPT ![w].pc = "checked"]
  <2> DEFINE y == [x EXCEPT !.pc = "checked"]
  <2>1. worker' = [worker EXCEPT ![w] = y]
    BY <1>6
  <2>2. Works(x, y) /\ y.pc = "checked"
    BY <1>2 DEF Works, Worker
  <2> HIDE DEF y
  <2> QED BY <1>1, <1>4, <1>6, <2>1, <2>2, ApplyingStep
<1> QED BY <1>5, <1>6 DEF Check

LEMMA FailsStep ==
  ASSUME Inv, NEW w \in Workers, CheckFails(w) \/ ApplyFails(w)
  PROVE  Inv'
<1> DEFINE x == worker[w]
<1>1. PICK o \in {"park", "invalid_row", "error"} :
        worker' = [worker EXCEPT ![w] = [x EXCEPT !.pc = "applied", !.outcome = o]]
  BY DEF CheckFails, ApplyFails, Applied
<1> DEFINE y == [x EXCEPT !.pc = "applied", !.outcome = o]
<1>2. x.pc # "idle" /\ UNCHANGED <<money, records, row, delivery>>
      /\ (Fault \/ UNCHANGED faults)
  BY DEF CheckFails, ApplyFails
<1>3. x \in Worker /\ o \in Outcomes
  BY <1>2, AtRow DEF Outcomes
<1>4. Works(x, y) /\ y.pc = "applied" /\ y.outcome = o
  BY <1>3 DEF Works, Worker
<1>5. /\ generation' \in [Auths -> {None, "terminal", "heartbeat"}] /\ SnapshotsKept'
      /\ UNCHANGED <<money, res, auth, row, delivery>>
  BY <1>2 DEF records, Inv, TypeOK, SnapshotsKept
<1>6. o \notin DecidingOutcomes
  BY DEF DecidingOutcomes, DoneOutcomes
<1> HIDE DEF y
<1> QED BY <1>1, <1>2, <1>4, <1>5, <1>6, ApplyingStep DEF y, None

LEMMA ApplyLostStep ==
  ASSUME Inv, NEW w \in Workers, ApplyLost(w)
  PROVE  Inv'
<1> DEFINE x == worker[w]
           a == x.auth
<1>1. /\ x.pc = "checked" /\ ~Claimable(a) /\ (Fault \/ UNCHANGED faults)
      /\ UNCHANGED <<money, res, auth, row, delivery>>
      /\ generation' \in {generation, Written(x)}
  BY DEF ApplyLost
<1>2. /\ x \in Worker /\ a \in Auths /\ x.kind \in Kinds
      /\ WorkerRight(x, res[a], auth[a], row[<<a, x.kind>>])
  BY <1>1, AtRow DEF Of
<1>3. DecidedRes(res[a])
  <2>1. RowRight(row[<<a, x.kind>>], res[a], auth[a]) /\ RecordsRight(res[a], auth[a])
        /\ res[a] \in Reservation
    BY <1>2 DEF Inv, RowsAgree, RecordsAgree, TypeOK
  <2>2. res[a].state # None
    BY <1>2, <2>1 DEF WorkerRight, RowRight, None
  <2> QED BY <1>1, <2>1, <2>2 DEF Claimable, RecordsRight, DecidedRes, Reservation
<1>4. PICK o \in Outcomes \ {None} :
        worker' = [worker EXCEPT ![w] = [x EXCEPT !.pc = "applied", !.outcome = o]]
  <2>1. LostOutcome(x) \in Outcomes \ {None} /\ "activity_pending" \in Outcomes \ {None}
    BY DEF LostOutcome, Outcomes, None
  <2> QED BY <2>1 DEF ApplyLost, Applied
<1> DEFINE y == [x EXCEPT !.pc = "applied", !.outcome = o]
<1>5. Works(x, y) /\ y.pc = "applied" /\ y.outcome = o
  BY <1>2 DEF Works, Worker
<1>6. auth[a].outcome # "reaped_snapshot"
  BY <1>1, <1>2 DEF WorkerRight
<1>7. Generates(a, auth[a])
  BY <1>1, <1>2, <1>6, Generated
<1>8. SnapshotsKept'
  <2>1. auth' = [auth EXCEPT ![a] = auth[a]]
    BY <1>1, <1>2 DEF Inv, TypeOK
  <2> QED BY <1>2, <1>7, <2>1, SnapshotsStay
<1> HIDE DEF y
<1>9. worker' = [worker EXCEPT ![w] = y]
  BY <1>4 DEF y
<1> QED BY <1>1, <1>3, <1>5, <1>7, <1>8, <1>9, ApplyingStep DEF Generates

LEMMA ApplyWinsStep ==
  ASSUME Inv, NEW w \in Workers, ApplyWins(w)
  PROVE  Inv'
<1> DEFINE x == worker[w]
<1>1. /\ x.pc = "checked" /\ CommitFinalize(x, FALSE) /\ UNCHANGED delivery
      /\ (Fault \/ UNCHANGED faults)
      /\ generation' \in {generation, Written(x)}
  BY DEF ApplyWins
<1>2. /\ x \in Worker /\ IsTerminal(x) /\ x.auth \in Auths /\ x.kind \in Kinds
      /\ Actual(x) \in Nat /\ x.byok \in BOOLEAN
      /\ WorkerRight(x, res[x.auth], auth[x.auth], row[Of(x)])
      /\ AskedFor(x.auth, x.kind, x, delivery)
  BY <1>1, AtRow
<1>3. PICK r, g, q :
        /\ Touches(x.auth, x.kind, r, g, q) /\ Legal(x.auth, x.kind, r, g, q)
        /\ Settles(x, r, g)
        /\ \/ q = row[Of(x)]
           \/ row[Of(x)].status = "pending" /\ q.status = "done"
        /\ q.cost = row[Of(x)].cost /\ q.byok = row[Of(x)].byok
  BY <1>1, <1>2, CommitFinalizeSettles
<1>4. g.outcome # "reaped_snapshot" /\ DecidedRes(r)
  BY <1>3 DEF Settles, Outcome, DecidedRes
<1>5. Generates(x.auth, g)
  BY <1>1, <1>2, <1>4, Generated
<1>6. /\ credit' \in [usage : Nat, reserved : Nat]
      /\ key' \in [usage : Nat, byok : Nat, reserved : Nat]
  BY <1>1, <1>2, BookTypes DEF CommitFinalize
<1>7. Keeps(q, row[<<x.auth, x.kind>>])
  BY <1>2, <1>3 DEF Keeps, WorkerRight, Of, None
<1>8. PICK o \in {"settled_now", "activity_pending", "park"} :
        worker' = [worker EXCEPT ![w] = [x EXCEPT !.pc = "applied", !.outcome = o]]
  BY DEF ApplyWins, Applied
<1> DEFINE y == [x EXCEPT !.pc = "applied", !.outcome = o]
<1>9. o \in Outcomes /\ o # None
  BY DEF Outcomes, None
<1>10. Works(x, y) /\ y.pc = "applied" /\ y.outcome = o
  BY <1>2, <1>9 DEF Works, Worker
<1>11. worker' = [worker EXCEPT ![w] = y]
  BY <1>8
<1> HIDE DEF y
<1>12. WorkerRight(y, r, g, q)
  BY <1>2, <1>3, <1>4, <1>9, <1>10 DEF WorkerRight
<1>13. res'[x.auth] = r /\ auth'[x.auth] = g /\ row'[Of(x)] = q
  BY <1>2, <1>3 DEF Touches, Inv, TypeOK, Of
<1>14. WorkerAgrees(y, res', auth', row', delivery)
  BY <1>2, <1>10, <1>12, <1>13, WorksOn
<1>15. \E v \in Workers, z \in Worker :
         /\ worker' = [worker EXCEPT ![v] = z]
         /\ WorkerAgrees(z, res', auth', row', delivery)
  BY <1>10, <1>11, <1>14 DEF Works
<1> QED BY <1>1, <1>2, <1>3, <1>5, <1>6, <1>7, <1>15, RecordsOnly

\* A row written with its status and attempts as they were.
LEMMA SameStatus ==
  ASSUME Inv, NEW a \in Auths, NEW k \in Kinds, NEW q \in OutboxRow,
         q.status = row[<<a, k>>].status, q.attempts = row[<<a, k>>].attempts
  PROVE  Legal(a, k, res[a], auth[a], q)
<1>1. /\ res[a] \in Reservation /\ auth[a] \in Authorization
      /\ RecordsRight(res[a], auth[a])
      /\ \A j \in Kinds : RowRight(row[<<a, j>>], res[a], auth[a])
  BY DEF Inv, TypeOK, RecordsAgree, RowsAgree
<1>2. RowRight(q, res[a], auth[a])
  BY <1>1 DEF RowRight
<1>3. Follows(a, k, res[a], auth[a], q)
  BY DEF Follows, RecordsGrow
<1> QED BY <1>1, <1>2, <1>3, KindsAreTwo DEF Legal

\* A step that writes a row's lease alone.
LEMMA LeaseStep ==
  ASSUME Inv, NEW a \in Auths, NEW k \in Kinds, NEW q \in OutboxRow,
         q.status = row[<<a, k>>].status, q.attempts = row[<<a, k>>].attempts,
         q.cost = row[<<a, k>>].cost, q.byok = row[<<a, k>>].byok,
         row' = [row EXCEPT ![<<a, k>>] = q],
         UNCHANGED <<money, records, delivery>>, Fault \/ UNCHANGED faults,
         \/ UNCHANGED worker
         \/ \E w \in Workers, y \in Worker :
              /\ worker' = [worker EXCEPT ![w] = y]
              /\ WorkerAgrees(y, res', auth', row', delivery)
  PROVE  Inv'
<1>1. Legal(a, k, res[a], auth[a], q)
  BY SameStatus
<1>2. Touches(a, k, res[a], auth[a], q)
  BY DEF Touches, records, Inv, TypeOK
<1>3. Generates(a, auth[a])
  BY GenerationStays DEF records
<1>4. Keeps(q, row[<<a, k>>])
  BY DEF Keeps
<1> QED BY <1>1, <1>2, <1>3, <1>4, RecordsOnly DEF money, Inv, TypeOK

LEMMA ClaimStep ==
  ASSUME Inv, NEW w \in Workers, Claim(w)
  PROVE  Inv'
<1> DEFINE x == worker[w]
           a == x.auth
           k == x.kind
           old == row[<<a, k>>]
<1>1. x.pc = "due" /\ UNCHANGED <<money, records, delivery, faults>>
  BY DEF Claim
<1>2. /\ x \in Worker /\ IsTerminal(x) /\ a \in Auths /\ k \in Kinds
      /\ WorkerRight(x, res[a], auth[a], old) /\ AskedFor(a, k, x, delivery)
  BY <1>1, AtRow DEF Of
<1>3. CASE Pending(Of(x)) /\ Unleased(row[Of(x)])
  <2> DEFINE q == [old EXCEPT !.owner = w, !.lapsed = FALSE]
             y == [x EXCEPT !.pc = "claimed"]
  <2>1. row' = [row EXCEPT ![<<a, k>>] = q] /\ worker' = [worker EXCEPT ![w] = y]
    BY <1>3 DEF Claim, Of
  <2>2. old \in OutboxRow
    BY <1>2 DEF Inv, TypeOK
  <2>3. /\ q \in OutboxRow /\ q.status = old.status /\ q.attempts = old.attempts
        /\ q.cost = old.cost /\ q.byok = old.byok
    <3> HIDE DEF old
    <3> QED BY <2>2 DEF OutboxRow
  <2>4. Works(x, y) /\ y.pc = "claimed"
    BY <1>2 DEF Works, Worker
  <2>5. res' = res /\ auth' = auth /\ row'[Of(x)] = q
    BY <1>1, <1>2, <2>1 DEF records, Inv, TypeOK, Of
  <2> HIDE DEF q, y
  <2>6. WorkerRight(y, res'[a], auth'[a], row'[Of(x)])
    <3> HIDE DEF old
    <3> QED BY <1>2, <2>3, <2>4, <2>5 DEF WorkerRight
  <2>7. WorkerAgrees(y, res', auth', row', delivery)
    BY <1>2, <2>4, <2>6, WorksOn
  <2>8. \E v \in Workers, z \in Worker :
          /\ worker' = [worker EXCEPT ![v] = z]
          /\ WorkerAgrees(z, res', auth', row', delivery)
    BY <2>1, <2>4, <2>7 DEF Works
  <2> QED BY <1>1, <1>2, <2>1, <2>3, <2>8, LeaseStep
<1>4. CASE ~(Pending(Of(x)) /\ Unleased(row[Of(x)]))
  <2>1. worker' = [worker EXCEPT ![w] = Idle] /\ UNCHANGED row
    BY <1>4 DEF Claim
  <2> QED BY <1>1, <2>1, IdleAgrees, DrainStep DEF records, Inv, TypeOK, SnapshotsKept
<1> QED BY <1>3, <1>4

LEMMA ReleaseClaimStep ==
  ASSUME Inv, NEW w \in Workers, ReleaseClaim(w)
  PROVE  Inv'
<1> DEFINE x == worker[w]
           a == x.auth
           k == x.kind
           old == row[<<a, k>>]
<1>1. /\ x.pc = "claimed" /\ UNCHANGED <<money, records, delivery>> /\ Fault
      /\ worker' = [worker EXCEPT ![w] = Idle]
  BY DEF ReleaseClaim
<1>2. a \in Auths /\ k \in Kinds
  BY <1>1, AtRow
<1>3. CASE Owns(w)
  <2> DEFINE q == [old EXCEPT !.owner = None, !.lapsed = FALSE]
  <2>1. row' = [row EXCEPT ![<<a, k>>] = q]
    BY <1>3 DEF ReleaseClaim, Of
  <2>2. old \in OutboxRow
    BY <1>2 DEF Inv, TypeOK
  <2>3. /\ q \in OutboxRow /\ q.status = old.status /\ q.attempts = old.attempts
        /\ q.cost = old.cost /\ q.byok = old.byok
    <3> HIDE DEF old
    <3> QED BY <2>2 DEF OutboxRow
  <2> HIDE DEF q
  <2>4. \E v \in Workers, z \in Worker :
          /\ worker' = [worker EXCEPT ![v] = z]
          /\ WorkerAgrees(z, res', auth', row', delivery)
    BY <1>1, IdleAgrees
  <2> QED BY <1>1, <1>2, <2>1, <2>3, <2>4, LeaseStep
<1>4. CASE ~Owns(w)
  BY <1>1, <1>4, IdleAgrees, DrainStep
  DEF ReleaseClaim, records, Inv, TypeOK, SnapshotsKept
<1> QED BY <1>3, <1>4

LEMMA LapseLeaseStep ==
  ASSUME Inv, NEW p \in Auths \X Kinds, LapseLease(p)
  PROVE  Inv'
<1>1. PICK a \in Auths, k \in Kinds : p = <<a, k>>
  OBVIOUS
<1> DEFINE old == row[<<a, k>>]
           q == [old EXCEPT !.lapsed = TRUE]
<1>2. row' = [row EXCEPT ![<<a, k>>] = q]
  BY <1>1 DEF LapseLease
<1>3. old \in OutboxRow
  BY DEF Inv, TypeOK
<1>4. /\ q \in OutboxRow /\ q.status = old.status /\ q.attempts = old.attempts
      /\ q.cost = old.cost /\ q.byok = old.byok
  <2> HIDE DEF old
  <2> QED BY <1>3 DEF OutboxRow
<1> HIDE DEF q
<1>5. UNCHANGED <<money, records, delivery, worker>> /\ (Fault \/ UNCHANGED faults)
  BY DEF LapseLease, processes
<1> QED BY <1>2, <1>4, <1>5, LeaseStep

LEMMA ResolveStep ==
  ASSUME Inv, NEW w \in Workers, Resolve(w)
  PROVE  Inv'
<1> DEFINE x == worker[w]
           a == x.auth
           k == x.kind
           old == row[<<a, k>>]
           freed == [old EXCEPT !.owner = None, !.lapsed = FALSE]
           next == old.attempts + 1
<1>1. /\ x.pc = "applied" /\ worker' = [worker EXCEPT ![w] = Idle]
      /\ UNCHANGED <<money, generation, delivery, faults>>
  BY DEF Resolve
<1>2. /\ x \in Worker /\ a \in Auths /\ k \in Kinds
      /\ WorkerRight(x, res[a], auth[a], old)
  BY <1>1, AtRow DEF Of
<1>3. \E v \in Workers, z \in Worker :
        /\ worker' = [worker EXCEPT ![v] = z]
        /\ WorkerAgrees(z, res', auth', row', delivery)
  BY <1>1, IdleAgrees
<1>4. CASE ~Owns(w)
  BY <1>1, <1>4, IdleAgrees, DrainStep DEF Resolve, Inv, TypeOK, SnapshotsKept
<1>5. CASE Owns(w)
  <2>1. /\ old \in OutboxRow /\ old.status = "pending" /\ RowRight(old, res[a], auth[a])
        /\ res[a] \in Reservation /\ auth[a] \in Authorization
        /\ RecordsRight(res[a], auth[a])
    BY <1>2, <1>5 DEF Inv, TypeOK, RowsAgree, RecordsAgree, Owns, Pending, Of
  <2>2. Present(res[a], auth[a]) /\ old.attempts < MaxAttempts /\ old.attempts \in Nat
    BY <2>1 DEF RowRight, GuardStatuses, OutboxRow
  <2>3. next \in 0 .. MaxAttempts
    BY <2>1, <2>2, MaxAttemptsAssumption DEF OutboxRow
  <2>4. /\ freed \in OutboxRow /\ freed.status = "pending" /\ freed.cost = old.cost
        /\ freed.byok = old.byok /\ freed.attempts = old.attempts
    <3> HIDE DEF old
    <3> QED BY <2>1 DEF OutboxRow
  <2>5. PICK v \in Verdict(x) :
          \/ /\ v = "done"
             /\ MarkDone(a, k, [row EXCEPT ![<<a, k>>] = Resolved(<<a, k>>, next)],
                         res[a], auth[a])
          \/ /\ DeferRetention(a)
             /\ \/ row' = [row EXCEPT ![<<a, k>>] = freed]
                \/ row' = [row EXCEPT ![<<a, k>>] =
                             [freed EXCEPT !.status = "dead", !.attempts = next]]
                \/ /\ ~Exhausted(next)
                   /\ row' = [row EXCEPT ![<<a, k>>] = [freed EXCEPT !.attempts = next]]
    <3>1. Verdict(x) \subseteq {"done", "dead", "park", "retry"}
      <4>1. x.outcome \in Outcomes /\ x.outcome # None
        BY <1>1, <1>2 DEF Worker, WorkerRight
      <4> QED BY <4>1 DEF Verdict, Outcomes, DoneOutcomes, DeadOutcomes
    <3> QED BY <1>5, <3>1 DEF Resolve, Of
  <2>6. CASE /\ v = "done"
             /\ MarkDone(a, k, [row EXCEPT ![<<a, k>>] = Resolved(<<a, k>>, next)],
                         res[a], auth[a])
    <3> DEFINE q == Resolved(<<a, k>>, next)
    <3>1. x.outcome \in DecidingOutcomes
      <4>1. x.outcome \in Outcomes /\ x.outcome # None
        BY <1>1, <1>2 DEF Worker, WorkerRight
      <4> QED BY <2>6, <4>1 DEF Verdict, DecidingOutcomes, Outcomes, DoneOutcomes, DeadOutcomes
    <3>2. DecidedRes(res[a])
      BY <1>1, <1>2, <3>1 DEF WorkerRight
    <3>3. /\ q \in OutboxRow /\ q.status = "done"
          /\ q.cost = old.cost /\ q.byok = old.byok
      <4>1. q = [old EXCEPT !.status = "done", !.owner = None, !.lapsed = FALSE,
                            !.attempts = next]
        BY DEF Resolved
      <4> HIDE DEF q, old, next
      <4> QED BY <4>1, <2>1, <2>3 DEF OutboxRow
    <3>4. RecordsGrow(res[a], auth[a], res[a], auth[a])
      BY DEF RecordsGrow
    <3>5. MarkDone(a, k, [row EXCEPT ![<<a, k>>] = q], res[a], auth[a])
      BY <2>6
    <3> HIDE DEF q
    <3>6. PICK b \in BOOLEAN, c \in BOOLEAN :
            /\ Touches(a, k, [res[a] EXCEPT !.armed = b], [auth[a] EXCEPT !.armed = c], q)
            /\ Legal(a, k, [res[a] EXCEPT !.armed = b], [auth[a] EXCEPT !.armed = c], q)
      BY <1>2, <2>1, <2>2, <3>2, <3>3, <3>4, <3>5, MarkDoneStep
    <3> DEFINE r == [res[a] EXCEPT !.armed = b]
               g == [auth[a] EXCEPT !.armed = c]
    <3>7. g.outcome = auth[a].outcome
      BY <2>1 DEF Authorization
    <3>8. Touches(a, k, r, g, q) /\ Legal(a, k, r, g, q)
      BY <3>6
    <3> HIDE DEF r, g
    <3>9. Generates(a, g)
      BY <1>1, <1>2, <3>7, GenerationStays
    <3>10. Keeps(q, row[<<a, k>>])
      BY <2>1, <3>3 DEF Keeps, None
    <3> QED BY <1>1, <1>2, <1>3, <3>8, <3>9, <3>10, RecordsOnly DEF money, Inv, TypeOK
  <2>7. ASSUME NEW q \in OutboxRow, DeferRetention(a), row' = [row EXCEPT ![<<a, k>>] = q],
               q.status \in {"pending", "dead"}, q.cost = old.cost, q.byok = old.byok,
               q.status = "pending" => q.attempts < MaxAttempts
        PROVE  Inv'
    <3> DEFINE r == [res[a] EXCEPT !.armed = FALSE]
               g == [auth[a] EXCEPT !.armed = FALSE]
    <3>1. Disarmed(a, r, g)
      BY DEF Disarmed
    <3> HIDE DEF r, g
    <3>2. Touches(a, k, r, g, q)
      BY <2>7, <3>1 DEF DeferRetention, Touches, Disarmed
    <3>3. Legal(a, k, r, g, q) /\ g.outcome = auth[a].outcome
      BY <1>2, <2>2, <2>7, <3>1, Deferred
    <3>4. Generates(a, g)
      BY <1>1, <1>2, <3>3, GenerationStays
    <3>5. Keeps(q, row[<<a, k>>])
      BY <2>1, <2>7 DEF Keeps, None
    <3> QED BY <1>1, <1>2, <1>3, <3>2, <3>3, <3>4, <3>5, RecordsOnly DEF money, Inv, TypeOK
  <2>8. CASE DeferRetention(a) /\ row' = [row EXCEPT ![<<a, k>>] = freed]
    <3> HIDE DEF freed
    <3> QED BY <2>2, <2>4, <2>7, <2>8
  <2>9. CASE DeferRetention(a) /\ row' = [row EXCEPT ![<<a, k>>] =
                                   [freed EXCEPT !.status = "dead", !.attempts = next]]
    <3> DEFINE q == [freed EXCEPT !.status = "dead", !.attempts = next]
    <3> HIDE DEF freed, next
    <3>1. q \in OutboxRow /\ q.status = "dead" /\ q.cost = freed.cost /\ q.byok = freed.byok
      BY <2>3, <2>4 DEF OutboxRow
    <3> HIDE DEF q
    <3> QED BY <2>4, <2>7, <2>9, <3>1 DEF q
  <2>10. CASE /\ DeferRetention(a) /\ ~Exhausted(next)
              /\ row' = [row EXCEPT ![<<a, k>>] = [freed EXCEPT !.attempts = next]]
    <3> DEFINE q == [freed EXCEPT !.attempts = next]
    <3>2. next < MaxAttempts
      BY <2>2, <2>10, MaxAttemptsAssumption DEF Exhausted
    <3> HIDE DEF freed, next
    <3>1. /\ q \in OutboxRow /\ q.status = "pending" /\ q.cost = freed.cost
          /\ q.byok = freed.byok /\ q.attempts = next
      BY <2>3, <2>4 DEF OutboxRow
    <3> HIDE DEF q
    <3> QED BY <2>4, <2>7, <2>10, <3>1, <3>2 DEF q
  <2> QED BY <2>5, <2>6, <2>8, <2>9, <2>10
<1> QED BY <1>4, <1>5

-----------------------------------------------------------------------------
(* The authorization, the reaper, the person's approval and the TTL.        *)

LEMMA ApproveReleaseStep ==
  ASSUME Inv, NEW p \in Auths \X Kinds, ApproveRelease(p)
  PROVE  Inv'
<1>1. PICK a \in Auths, k \in Kinds : p = <<a, k>>
  OBVIOUS
<1> DEFINE old == row[<<a, k>>]
           q == [old EXCEPT !.status = "release_approved"]
<1>2. /\ row' = [row EXCEPT ![<<a, k>>] = q] /\ old.status = "dead" /\ Quiet(a)
      /\ UNCHANGED <<money, records, delivery, worker, faults>>
  BY <1>1 DEF ApproveRelease, processes
<1>3. /\ old \in OutboxRow /\ res[a] \in Reservation /\ auth[a] \in Authorization
      /\ RecordsRight(res[a], auth[a])
      /\ \A j \in Kinds : RowRight(row[<<a, j>>], res[a], auth[a])
  BY DEF Inv, TypeOK, RecordsAgree, RowsAgree
<1>4. /\ q \in OutboxRow /\ q.status = "release_approved"
      /\ q.cost = old.cost /\ q.byok = old.byok
  <2> HIDE DEF old
  <2> QED BY <1>3 DEF OutboxRow
<1> HIDE DEF q
<1>5. RowRight(q, res[a], auth[a])
  BY <1>2, <1>3, <1>4 DEF RowRight, GuardStatuses, None
<1>6. Follows(a, k, res[a], auth[a], q)
  BY <1>2, <1>4 DEF Follows, RecordsGrow, None
<1>7. Legal(a, k, res[a], auth[a], q)
  BY <1>3, <1>4, <1>5, <1>6, KindsAreTwo DEF Legal
<1>8. Touches(a, k, res[a], auth[a], q)
  BY <1>2 DEF Touches, records, Inv, TypeOK
<1>9. Generates(a, auth[a])
  BY <1>2, GenerationStays DEF records
<1>10. Keeps(q, row[<<a, k>>])
  BY <1>2, <1>4 DEF Keeps, None
<1> QED BY <1>2, <1>7, <1>8, <1>9, <1>10, RecordsOnly DEF money, Inv, TypeOK

\* A step that writes the records of a, and no row.
LEMMA AuthStep ==
  ASSUME Inv, NEW a \in Auths, NEW r \in Reservation, NEW g \in Authorization,
         res' = [res EXCEPT ![a] = r], auth' = [auth EXCEPT ![a] = g],
         RecordsRight(r, g), RecordsGrow(res[a], auth[a], r, g),
         Present(res[a], auth[a]) => Present(r, g) \/ Quiet(a),
         g.outcome = "reaped_snapshot" =>
           \/ auth[a].outcome = "reaped_snapshot"
           \/ ~Guarded(row, a) /\ ~DecidedRes(res[a]),
         Guarded(row, a) => Present(r, g) /\ r.armed = res[a].armed /\ g.armed = auth[a].armed,
         Generates(a, g),
         credit' \in [usage : Nat, reserved : Nat],
         key' \in [usage : Nat, byok : Nat, reserved : Nat],
         UNCHANGED <<row, processes, faults>>
  PROVE  Inv'
<1> DEFINE k == "settle"
           q == row[<<a, k>>]
<1>1. k \in Kinds
  BY DEF Kinds
<1>2. /\ q \in OutboxRow
      /\ \A j \in Kinds : RowRight(row[<<a, j>>], res[a], auth[a])
  BY <1>1 DEF Inv, TypeOK, RowsAgree
<1>3. Touches(a, k, r, g, q)
  BY <1>1 DEF Touches, Inv, TypeOK
<1>4. ASSUME NEW j \in Kinds PROVE RowRight(row[<<a, j>>], r, g)
  <2>1. row[<<a, j>>].status \in GuardStatuses => Guarded(row, a)
    BY DEF Guarded
  <2> QED BY <1>2, <2>1 DEF RowRight, RecordsGrow
<1>5. Follows(a, k, r, g, q)
  BY DEF Follows
<1>6. Other(k) \in Kinds
  BY <1>1, KindsAreTwo
<1>7. RowRight(q, r, g) /\ RowRight(row[<<a, Other(k)>>], r, g)
  BY <1>1, <1>4, <1>6
<1>8. Legal(a, k, r, g, q)
  BY <1>2, <1>5, <1>7 DEF Legal
<1>9. Keeps(q, q)
  BY DEF Keeps
<1> HIDE DEF k
<1> QED BY <1>1, <1>3, <1>8, <1>9, RecordsOnly DEF processes

LEMMA AuthorizeStep ==
  ASSUME Inv, NEW a \in Auths, NEW h \in Holds, Authorize(a, h)
  PROVE  Inv'
<1> DEFINE r == [res[a] EXCEPT !.state = "open", !.credit = h.credit, !.key = h.key]
           g == [auth[a] EXCEPT !.state = "live"]
<1>1. res' = [res EXCEPT ![a] = r] /\ auth' = [auth EXCEPT ![a] = g] /\ res[a].state = None
  BY DEF Authorize
<1>2. h.credit \in Nat /\ h.key \in Nat
  BY HoldsAssumption
<1>3. /\ res[a] \in Reservation /\ auth[a] \in Authorization
      /\ RecordsRight(res[a], auth[a])
  BY DEF Inv, TypeOK, RecordsAgree
<1>4. /\ r \in Reservation /\ r.state = "open" /\ r.actual = res[a].actual
      /\ r.byok = res[a].byok /\ r.armed = res[a].armed
  BY <1>2, <1>3 DEF Reservation
<1>5. /\ g \in Authorization /\ g.state = "live" /\ g.outcome = auth[a].outcome
      /\ g.snapshot = auth[a].snapshot /\ g.armed = auth[a].armed
  BY <1>3 DEF Authorization
<1> HIDE DEF r, g
<1>6. RecordsRight(r, g) /\ RecordsGrow(res[a], auth[a], r, g) /\ Present(r, g)
  BY <1>1, <1>3, <1>4, <1>5 DEF RecordsRight, RecordsGrow, DecidedRes, Present, None
<1>7. g.outcome = None
  BY <1>1, <1>3, <1>5 DEF RecordsRight, DecidedRes, None
<1>8. Generates(a, g)
  BY <1>5, GenerationStays DEF Authorize
<1>9. /\ credit' \in [usage : Nat, reserved : Nat]
      /\ key' \in [usage : Nat, byok : Nat, reserved : Nat]
  <2>1. /\ credit \in [usage : Nat, reserved : Nat]
        /\ key \in [usage : Nat, byok : Nat, reserved : Nat]
    BY DEF Inv, TypeOK
  <2> QED BY <1>2, <2>1 DEF Authorize
<1>10. UNCHANGED <<row, processes, faults>>
  BY DEF Authorize
<1> QED BY <1>1, <1>4, <1>5, <1>6, <1>7, <1>8, <1>9, <1>10, AuthStep DEF None

LEMMA HeartbeatStep ==
  ASSUME Inv, NEW a \in Auths, NEW x \in Snapshots, Heartbeat(a, x)
  PROVE  Inv'
<1> DEFINE r == [res[a] EXCEPT !.expired = FALSE]
           g == [auth[a] EXCEPT !.snapshot = x]
<1>1. /\ res' = [res EXCEPT ![a] = r] /\ auth' = [auth EXCEPT ![a] = g]
      /\ Claimable(a) /\ res[a].credit > 0
  BY DEF Heartbeat
<1>2. x \in Nat
  BY SnapshotsAssumption
<1>3. /\ res[a] \in Reservation /\ auth[a] \in Authorization
      /\ RecordsRight(res[a], auth[a])
  BY DEF Inv, TypeOK, RecordsAgree
<1>4. /\ r \in Reservation /\ r.state = res[a].state /\ r.actual = res[a].actual
      /\ r.byok = res[a].byok /\ r.armed = res[a].armed
      /\ r.credit = res[a].credit /\ r.key = res[a].key
  BY <1>3 DEF Reservation
<1>5. /\ g \in Authorization /\ g.state = auth[a].state /\ g.outcome = auth[a].outcome
      /\ g.snapshot = x /\ g.armed = auth[a].armed
  BY <1>2, <1>3 DEF Authorization
<1> HIDE DEF r, g
<1>6. RecordsRight(r, g) /\ RecordsGrow(res[a], auth[a], r, g) /\ Present(r, g)
  BY <1>1, <1>3, <1>4, <1>5
  DEF RecordsRight, RecordsGrow, DecidedRes, Present, Claimable, None
<1>7. Generates(a, g)
  BY <1>5, GenerationStays DEF Heartbeat
<1>8. UNCHANGED <<money, row, processes, faults>>
  BY DEF Heartbeat
<1> QED BY <1>1, <1>4, <1>5, <1>6, <1>7, <1>8, AuthStep DEF money, Inv, TypeOK

LEMMA ExpireStep ==
  ASSUME Inv, NEW a \in Auths, Expire(a)
  PROVE  Inv'
<1> DEFINE r == [res[a] EXCEPT !.expired = TRUE]
<1>1. res' = [res EXCEPT ![a] = r] /\ auth' = [auth EXCEPT ![a] = auth[a]]
  BY DEF Expire, Inv, TypeOK
<1>3. /\ res[a] \in Reservation /\ auth[a] \in Authorization
      /\ RecordsRight(res[a], auth[a])
  BY DEF Inv, TypeOK, RecordsAgree
<1>4. /\ r \in Reservation /\ r.state = res[a].state /\ r.actual = res[a].actual
      /\ r.byok = res[a].byok /\ r.armed = res[a].armed
      /\ r.credit = res[a].credit /\ r.key = res[a].key
  BY <1>3 DEF Reservation
<1> HIDE DEF r
<1>5. RecordsRight(r, auth[a]) /\ RecordsGrow(res[a], auth[a], r, auth[a])
  BY <1>3, <1>4 DEF RecordsRight, RecordsGrow, DecidedRes
<1>6. Present(res[a], auth[a]) => Present(r, auth[a])
  BY <1>4 DEF Present
<1>7. Generates(a, auth[a])
  BY GenerationStays DEF Expire
<1>8. UNCHANGED <<money, row, processes, faults>>
  BY DEF Expire
<1>9. Guarded(row, a) => Present(res[a], auth[a])
  BY DEF Guarded, Inv, RowsAgree, RowRight
<1> QED BY <1>1, <1>3, <1>4, <1>5, <1>6, <1>7, <1>8, <1>9, AuthStep DEF money, Inv, TypeOK

LEMMA ReapStep ==
  ASSUME Inv, NEW a \in Auths, Reap(a)
  PROVE  Inv'
<1> DEFINE x == IF SnapshotBooked(a) THEN auth[a].snapshot ELSE 0
           o == IF SnapshotBooked(a) THEN "reaped_snapshot" ELSE "refunded"
           r1 == Settled(a, x, FALSE)
           g1 == SettledAuth(a, o)
           r == [r1 EXCEPT !.armed = TRUE]
           g == [g1 EXCEPT !.armed = TRUE]
<1>1. /\ Reapable(a) /\ Covered(a) /\ Book(a, x, FALSE)
      /\ res' = [res EXCEPT ![a] = r] /\ auth' = [auth EXCEPT ![a] = g]
      /\ UNCHANGED <<row, processes, faults>>
      /\ generation' = [generation EXCEPT ![a] =
           IF SnapshotBooked(a) THEN "heartbeat" ELSE @]
  BY DEF Reap
<1>2. x \in Nat /\ o \in {"settled", "refunded", "reaped_snapshot"}
      /\ (o = "reaped_snapshot" => SnapshotBooked(a))
  BY DEF Inv, TypeOK, Authorization
<1>3. Claimable(a) /\ ~Guarded(row, a)
  BY <1>1 DEF Reapable
<1>4. /\ credit' \in [usage : Nat, reserved : Nat]
      /\ key' \in [usage : Nat, byok : Nat, reserved : Nat]
  BY <1>1, <1>2, BookTypes
<1> HIDE DEF x, o
<1>5. /\ r1 \in Reservation /\ g1 \in Authorization
      /\ r1.state = "settled" /\ g1.state = "settled" /\ r1.credit = res[a].credit
      /\ g1.outcome = o
      /\ RecordsRight(r1, g1) /\ DecidedRes(r1)
  <2>1. PICK b \in BOOLEAN : b = FALSE
    OBVIOUS
  <2>2. r1 = Settled(a, x, b) /\ g1 = SettledAuth(a, o)
    BY <2>1
  <2> HIDE DEF r1, g1
  <2> QED BY <1>2, <1>3, <2>2, SettledRight
<1> HIDE DEF r1, g1
<1>6. /\ r \in Reservation /\ r.state = r1.state /\ r.actual = r1.actual
      /\ r.byok = r1.byok /\ r.credit = r1.credit /\ r.key = r1.key
  BY <1>5 DEF Reservation
<1>7. /\ g \in Authorization /\ g.state = g1.state /\ g.outcome = g1.outcome
      /\ g.snapshot = g1.snapshot
  BY <1>5 DEF Authorization
<1> HIDE DEF r, g
<1>8. RecordsRight(r, g)
  BY <1>5, <1>6, <1>7 DEF RecordsRight, DecidedRes
<1>9. ~DecidedRes(res[a]) /\ Present(r, g) /\ RecordsGrow(res[a], auth[a], r, g)
  BY <1>3, <1>5, <1>6, <1>7 DEF Claimable, Present, RecordsGrow, DecidedRes, None
<1>10. Generates(a, g)
  <2>1. generation \in [Auths -> {None, "terminal", "heartbeat"}]
    BY DEF Inv, TypeOK
  <2>2. CASE SnapshotBooked(a)
    BY <1>1, <2>1, <2>2 DEF Generates
  <2>3. CASE ~SnapshotBooked(a)
    BY <1>1, <1>2, <1>5, <1>7, <2>1, <2>3 DEF Generates
  <2> QED BY <2>2, <2>3
<1> QED BY <1>1, <1>3, <1>4, <1>6, <1>7, <1>8, <1>9, <1>10, AuthStep

LEMMA DeleteReservationStep ==
  ASSUME Inv, NEW a \in Auths, DeleteReservation(a)
  PROVE  Inv'
<1> DEFINE r == [res[a] EXCEPT !.state = "deleted"]
<1>1. /\ res' = [res EXCEPT ![a] = r] /\ auth' = [auth EXCEPT ![a] = auth[a]]
      /\ res[a].state = "settled" /\ res[a].armed /\ Quiet(a)
  BY DEF DeleteReservation, Inv, TypeOK
<1>3. /\ res[a] \in Reservation /\ auth[a] \in Authorization
      /\ RecordsRight(res[a], auth[a])
  BY DEF Inv, TypeOK, RecordsAgree
<1>4. /\ r \in Reservation /\ r.state = "deleted" /\ r.actual = res[a].actual
      /\ r.byok = res[a].byok /\ r.credit = res[a].credit /\ r.key = res[a].key
  BY <1>3 DEF Reservation
<1> HIDE DEF r
<1>5. RecordsRight(r, auth[a]) /\ RecordsGrow(res[a], auth[a], r, auth[a])
  BY <1>1, <1>3, <1>4 DEF RecordsRight, RecordsGrow, DecidedRes, None
<1>6. ~Guarded(row, a)
  BY <1>1 DEF Guarded, Inv, RowsAgree, RowRight
<1>7. Generates(a, auth[a])
  BY GenerationStays DEF DeleteReservation
<1>8. UNCHANGED <<money, row, processes, faults>>
  BY DEF DeleteReservation
<1> QED BY <1>1, <1>3, <1>4, <1>5, <1>6, <1>7, <1>8, AuthStep DEF money, Inv, TypeOK

LEMMA DeleteAuthorizationStep ==
  ASSUME Inv, NEW a \in Auths, DeleteAuthorization(a)
  PROVE  Inv'
<1> DEFINE g == [auth[a] EXCEPT !.state = "deleted"]
<1>1. /\ res' = [res EXCEPT ![a] = res[a]] /\ auth' = [auth EXCEPT ![a] = g]
      /\ auth[a].state = "settled" /\ auth[a].armed /\ Quiet(a)
  BY DEF DeleteAuthorization, Inv, TypeOK
<1>3. /\ res[a] \in Reservation /\ auth[a] \in Authorization
      /\ RecordsRight(res[a], auth[a])
  BY DEF Inv, TypeOK, RecordsAgree
<1>4. /\ g \in Authorization /\ g.state = "deleted" /\ g.outcome = auth[a].outcome
      /\ g.snapshot = auth[a].snapshot
  BY <1>3 DEF Authorization
<1> HIDE DEF g
<1>5. RecordsRight(res[a], g) /\ RecordsGrow(res[a], auth[a], res[a], g)
  BY <1>1, <1>3, <1>4 DEF RecordsRight, RecordsGrow, DecidedRes, None
<1>6. ~Guarded(row, a)
  BY <1>1 DEF Guarded, Inv, RowsAgree, RowRight
<1>7. Generates(a, g)
  BY <1>4, GenerationStays DEF DeleteAuthorization
<1>8. UNCHANGED <<money, row, processes, faults>>
  BY DEF DeleteAuthorization
<1> QED BY <1>1, <1>3, <1>4, <1>5, <1>6, <1>7, <1>8, AuthStep DEF money, Inv, TypeOK

-----------------------------------------------------------------------------

LEMMA NextInv == Inv /\ [Next]_vars => Inv'
<1> SUFFICES ASSUME Inv, [Next]_vars PROVE Inv'
  OBVIOUS
<1>1. CASE UNCHANGED vars
  BY <1>1 DEF vars, money, records, processes, Inv, TypeOK, RecordsAgree, RowsAgree,
              RowsAsked, SnapshotsKept, DeliveriesAgree, WorkersAgree
<1>2. CASE \E a \in Auths : Authorizing(a)
  BY <1>2, AuthorizeStep, HeartbeatStep, ExpireStep, ReapStep, DeleteReservationStep,
     DeleteAuthorizationStep DEF Authorizing
<1>3. CASE \E d \in Deliveries : Settling(d)
  BY <1>3, ReceiveStep, OneCommitStep, OneCommitDeclinedStep, OneCommitFailsStep,
     LateCommitStep, InsertStep, InsertExistsStep, RefreshStep, FinalizeStep,
     FinalizeLostStep, MarkIntentStep, AnswerStep DEF Settling
<1>4. CASE \E w \in Workers : Draining(w) \/ DrainFails(w)
  <2>1. PICK w \in Workers : Draining(w) \/ DrainFails(w)
    BY <1>4
  <2>2. CASE Draining(w)
    BY <2>2, DueStep, ClaimStep, CheckStep, ApplyWinsStep, ApplyLostStep, ResolveStep
    DEF Draining
  <2>3. CASE DrainFails(w)
    BY <2>3, ReleaseClaimStep, FailsStep, LoseWorkerStep DEF DrainFails
  <2> QED BY <2>1, <2>2, <2>3
<1>5. CASE \E p \in Auths \X Kinds : LapseLease(p) \/ ApproveRelease(p)
  BY <1>5, LapseLeaseStep, ApproveReleaseStep
<1> QED BY <1>1, <1>2, <1>3, <1>4, <1>5 DEF Next

LEMMA InvCorrect == Spec => []Inv
BY InitInv, NextInv, PTL DEF Spec

\* The records and the processes of settlement keep their types: an outbox row
\* is never attempted more than MaxAttempts times, and no release takes more
\* than its hold from the counters.
THEOREM TypeCorrect == Spec => []TypeOK
<1>1. Inv => TypeOK
  BY DEF Inv
<1> QED BY <1>1, InvCorrect, PTL

\* A pending or dead intent keeps its reservation and its authorization, with
\* no deletion armed, and a stream reaped at its snapshot keeps the snapshot's
\* generation.
THEOREM IntentsKeepEvidence == Spec => []EvidenceIsKept
<1>1. Inv => EvidenceIsKept
  BY DEF Inv, EvidenceIsKept, RowsAgree, RowRight, SnapshotsKept, Guarded, Present
<1> QED BY <1>1, InvCorrect, PTL

\* A finalized answer is the decision the records hold, and an intent_durable
\* answer left an intent or a decision.
THEOREM EnclaveIsToldTheTruth == Spec => []AnswersAreTrue
<1>1. Inv => AnswersAreTrue
  <2> SUFFICES ASSUME Inv, NEW d \in Deliveries
               PROVE  LET x == delivery[d] IN
                      /\ x.answer = "finalized" =>
                           Decided(x.auth) /\ res[x.auth].actual = Actual(x)
                             /\ res[x.auth].byok = x.byok
                      /\ x.answer = "intent_durable" =>
                           Decided(x.auth) \/ row[Of(x)].status \notin {None, "done"}
    BY DEF AnswersAreTrue
  <2> DEFINE x == delivery[d]
  <2>1. CASE x.pc = "idle"
    BY <2>1 DEF Inv, DeliveriesAgree, DeliveryAgrees, None
  <2>2. CASE x.pc # "idle"
    <3>1. x.auth \in Auths /\ x.kind \in Kinds
          /\ DeliveryRight(x, res[x.auth], auth[x.auth], row[Of(x)])
      BY <2>2, UnderWay
    <3>2. RowRight(row[Of(x)], res[x.auth], auth[x.auth])
      BY <3>1 DEF Inv, RowsAgree, Of
    <3> QED BY <3>1, <3>2 DEF DeliveryRight, RowRight, Decided, DecidedRes
  <2> QED BY <2>1, <2>2
<1> QED BY <1>1, InvCorrect, PTL

-----------------------------------------------------------------------------
(* The books refine ChargeOnce: what a step is, seen from the accounts, the *)
(* charges asked for and the promises.                                      *)

StateOf(r) ==
  CASE r.state = None -> None
    [] r.state = "open" -> "held"
    [] OTHER -> "decided"

SameAccount(r, r2) ==
  /\ StateOf(r2) = StateOf(r)
  /\ r2.credit = r.credit /\ r2.key = r.key /\ r2.actual = r.actual /\ r2.byok = r.byok
AccountsStay == \A a \in Auths : SameAccount(res[a], res'[a])

SameAsk(x, y) ==
  y.auth = x.auth /\ y.kind = x.kind /\ y.cost = x.cost /\ y.byok = x.byok
TerminalsStay == \A d \in Deliveries : SameAsk(delivery[d], delivery'[d])
SnapshotsStand == \A a \in Auths : auth'[a].snapshot = auth[a].snapshot
AsksStay == TerminalsStay /\ SnapshotsStand

LEMMA AccountsKeep ==
  ASSUME AccountsStay
  PROVE  UNCHANGED <<CreditAccounts, KeyAccounts>>
<1>1. CreditAccounts' = CreditAccounts
  BY DEF AccountsStay, SameAccount, StateOf, CreditAccounts, AccountOf
<1>2. KeyAccounts' = KeyAccounts
  BY DEF AccountsStay, SameAccount, StateOf, KeyAccounts, AccountOf
<1> QED BY <1>1, <1>2

\* What is asked of a, by its settles in the deliveries dl and its snapshot s.
CreditAsked(a, dl, s) ==
  {OfCredit(dl[d]) : d \in {e \in Deliveries : dl[e].auth = a /\ dl[e].kind = "settle"}}
  \union {x \in Snapshots : x <= s}
KeyAsked(a, dl, s) ==
  {OfKey(dl[d]) : d \in {e \in Deliveries : dl[e].auth = a /\ dl[e].kind = "settle"}}
  \union {x \in Snapshots : x <= s}

LEMMA AsksAre ==
  /\ CreditAsks = [a \in Auths |-> CreditAsked(a, delivery, auth[a].snapshot)]
  /\ KeyAsks = [a \in Auths |-> KeyAsked(a, delivery, auth[a].snapshot)]
  /\ CreditAsks' = [a \in Auths |-> CreditAsked(a, delivery', auth'[a].snapshot)]
  /\ KeyAsks' = [a \in Auths |-> KeyAsked(a, delivery', auth'[a].snapshot)]
BY DEF CreditAsks, KeyAsks, Asks, CreditAsked, KeyAsked

LEMMA SettlesKeep ==
  ASSUME NEW dl, NEW dl2, \A d \in Deliveries : SameAsk(dl[d], dl2[d])
  PROVE  /\ \A a, s : CreditAsked(a, dl2, s) = CreditAsked(a, dl, s)
         /\ \A a, s : KeyAsked(a, dl2, s) = KeyAsked(a, dl, s)
<1>1. \A d \in Deliveries : OfCredit(dl2[d]) = OfCredit(dl[d]) /\ OfKey(dl2[d]) = OfKey(dl[d])
  BY DEF SameAsk, OfCredit, OfKey
<1>2. \A a : {e \in Deliveries : dl2[e].auth = a /\ dl2[e].kind = "settle"}
               = {e \in Deliveries : dl[e].auth = a /\ dl[e].kind = "settle"}
  BY DEF SameAsk
<1>3. ASSUME NEW a, NEW s
      PROVE  CreditAsked(a, dl2, s) = CreditAsked(a, dl, s)
  BY <1>1, <1>2 DEF CreditAsked
<1>4. ASSUME NEW a, NEW s
      PROVE  KeyAsked(a, dl2, s) = KeyAsked(a, dl, s)
  BY <1>1, <1>2 DEF KeyAsked
<1> QED BY <1>3, <1>4

LEMMA AsksKeep ==
  ASSUME AsksStay
  PROVE  UNCHANGED <<CreditAsks, KeyAsks, Refunds>>
<1>1. /\ \A a, s : CreditAsked(a, delivery', s) = CreditAsked(a, delivery, s)
      /\ \A a, s : KeyAsked(a, delivery', s) = KeyAsked(a, delivery, s)
  BY SettlesKeep DEF AsksStay, TerminalsStay
<1>2. CreditAsks' = CreditAsks
  BY <1>1, AsksAre DEF AsksStay, SnapshotsStand
<1>3. KeyAsks' = KeyAsks
  BY <1>1, AsksAre DEF AsksStay, SnapshotsStand
<1>4. Refunds' = Refunds
  BY DEF AsksStay, TerminalsStay, SameAsk, Refunds
<1> QED BY <1>2, <1>3, <1>4

\* What an authorization's two rows promise, by their statuses.
PromiseWith(s, o) ==
  IF "pending" \in {s, o} THEN "open"
  ELSE IF "dead" \in {s, o} THEN "frozen"
  ELSE IF "release_approved" \in {s, o} THEN "waived" ELSE None
PromiseIn(rw, a) == PromiseWith(rw[<<a, "settle">>].status, rw[<<a, "refund">>].status)

LEMMA PromisesAre ==
  /\ Promises = [a \in Auths |-> PromiseIn(row, a)]
  /\ Promises' = [a \in Auths |-> PromiseIn(row', a)]
<1>1. \A a \in Auths : PromiseOf(a) = PromiseIn(row, a)
  BY DEF PromiseOf, PromiseIn, PromiseWith, Kinds, Guarded, GuardStatuses, None
<1>2. \A a \in Auths : PromiseOf(a)' = PromiseIn(row', a)
  BY DEF PromiseOf, PromiseIn, PromiseWith, Kinds, Guarded, GuardStatuses, None
<1> QED BY <1>1, <1>2 DEF Promises

LEMMA PromiseBy ==
  ASSUME NEW rw, NEW a, NEW k \in Kinds
  PROVE  PromiseIn(rw, a) = PromiseWith(rw[<<a, k>>].status, rw[<<a, Other(k)>>].status)
BY DEF PromiseIn, PromiseWith, Kinds, Other

\* How one row's status moves, with its hold in this state once it has.
StatusMoves(s, s2, state) ==
  \/ s2 = s
  \/ s = None /\ s2 = "pending"
  \/ s = "pending" /\ s2 = "dead"
  \/ s = "dead" /\ s2 = "release_approved"
  \/ state = "decided" /\ s \in {None, "pending"} /\ s2 = "done"

\* What a promise may become, as ChargeOnce has it.
MayMove(p, state) ==
  CASE p = "open" -> {"frozen"} \union (IF state = "decided" THEN {None, "waived"} ELSE {})
    [] p = "frozen" -> {"open", "waived"} \union (IF state = "decided" THEN {None} ELSE {})
    [] OTHER -> {"open"}

LEMMA PromiseMoves ==
  ASSUME NEW s, NEW s2, NEW o, NEW state, StatusMoves(s, s2, state)
  PROVE  \/ PromiseWith(s2, o) = PromiseWith(s, o)
         \/ PromiseWith(s2, o) \in MayMove(PromiseWith(s, o), state)
<1>1. CASE state = "decided"
  BY <1>1 DEF StatusMoves, PromiseWith, MayMove, None
<1>2. CASE state # "decided"
  BY <1>2 DEF StatusMoves, PromiseWith, MayMove, None
<1> QED BY <1>1, <1>2

Refined == [Credit!Next]_Credit!vars /\ [Key!Next]_Key!vars

\* Of the rows only one changes status, that of a reservation there is.
RowMoved(a, k) ==
  /\ \A b \in Auths, j \in Kinds :
       <<b, j>> # <<a, k>> => row'[<<b, j>>].status = row[<<b, j>>].status
  /\ StatusMoves(row[<<a, k>>].status, row'[<<a, k>>].status, StateOf(res'[a]))

LEMMA PromisesMove ==
  ASSUME NEW a \in Auths, NEW k \in Kinds, RowMoved(a, k)
  PROVE  \/ Promises' = Promises
         \/ \E p \in MayMove(Promises[a], StateOf(res'[a])) :
              Promises' = [Promises EXCEPT ![a] = p]
<1>1. \A b \in Auths : b # a => PromiseIn(row', b) = PromiseIn(row, b)
  BY DEF RowMoved, PromiseIn, Kinds
<1>2. /\ PromiseIn(row', a) = PromiseWith(row'[<<a, k>>].status, row'[<<a, Other(k)>>].status)
      /\ PromiseIn(row, a) = PromiseWith(row[<<a, k>>].status, row[<<a, Other(k)>>].status)
  BY PromiseBy
<1>3. row'[<<a, Other(k)>>].status = row[<<a, Other(k)>>].status
  BY KindsAreTwo DEF RowMoved
<1>5. \/ PromiseIn(row', a) = PromiseIn(row, a)
      \/ PromiseIn(row', a) \in MayMove(PromiseIn(row, a), StateOf(res'[a]))
  BY <1>2, <1>3, PromiseMoves DEF RowMoved
<1>6. Promises[a] = PromiseIn(row, a)
  BY PromisesAre
<1>7. Promises' = [Promises EXCEPT ![a] = PromiseIn(row', a)]
  BY <1>1, PromisesAre
<1>8. CASE PromiseIn(row', a) = PromiseIn(row, a)
  BY <1>1, <1>8, PromisesAre
<1> QED BY <1>5, <1>6, <1>7, <1>8

LEMMA StateIs ==
  ASSUME NEW a \in Auths
  PROVE  /\ CreditAccounts[a].state = StateOf(res[a]) /\ CreditAccounts[a].hold = res[a].credit
         /\ KeyAccounts[a].state = StateOf(res[a]) /\ KeyAccounts[a].hold = res[a].key
BY DEF CreditAccounts, KeyAccounts, AccountOf, StateOf

\* A step that decides nothing: an intent is written, ends or is frozen.
LEMMA MoveStep ==
  ASSUME NEW a \in Auths, NEW k \in Kinds, AccountsStay, AsksStay,
         RowMoved(a, k), UNCHANGED money, res[a].state # None
  PROVE  Refined
<1>1. UNCHANGED <<CreditAccounts, KeyAccounts, CreditAsks, KeyAsks, Refunds>>
  BY AccountsKeep, AsksKeep
<1>2. UNCHANGED <<credit.usage, credit.reserved, key.usage + key.byok, key.reserved>>
  BY DEF money
<1>3. CASE Promises' = Promises
  BY <1>1, <1>2, <1>3 DEF Refined, Credit!vars, Key!vars
<1>4. CASE \E p \in MayMove(Promises[a], StateOf(res'[a])) :
             Promises' = [Promises EXCEPT ![a] = p]
  <2>1. StateOf(res[a]) # None /\ StateOf(res'[a]) = StateOf(res[a])
    BY DEF AccountsStay, SameAccount, StateOf, None
  <2>2. /\ CreditAccounts[a].state = StateOf(res[a])
        /\ KeyAccounts[a].state = StateOf(res[a])
    BY StateIs
  <2>3. Credit!Move(a)
    BY <1>1, <1>2, <1>4, <2>1, <2>2 DEF Credit!Move, Credit!MayBecome, MayMove, None
  <2>4. Key!Move(a)
    BY <1>1, <1>2, <1>4, <2>1, <2>2 DEF Key!Move, Key!MayBecome, MayMove, None
  <2> QED BY <2>3, <2>4 DEF Refined, Credit!Next, Key!Next
<1> QED BY <1>3, <1>4, PromisesMove

LEMMA StillStep ==
  ASSUME AccountsStay, AsksStay, UNCHANGED money,
         \A b \in Auths, j \in Kinds : row'[<<b, j>>].status = row[<<b, j>>].status
  PROVE  Refined
<1>1. UNCHANGED <<CreditAccounts, KeyAccounts, CreditAsks, KeyAsks, Refunds>>
  BY AccountsKeep, AsksKeep
<1>2. UNCHANGED <<credit.usage, credit.reserved, key.usage + key.byok, key.reserved>>
  BY DEF money
<1>3. Promises' = Promises
  BY PromisesAre DEF PromiseIn, Kinds
<1> QED BY <1>1, <1>2, <1>3 DEF Refined, Credit!vars, Key!vars

\* The charge the reservation r carries was asked for, or its hold is free:
\* a refund was asked for, or nothing is promised that a person did not waive.
Justified(a, r) ==
  /\ \/ \E d \in Deliveries :
          /\ delivery[d].auth = a /\ delivery[d].kind = "settle"
          /\ delivery[d].cost = r.actual /\ delivery[d].byok = r.byok
     \/ r.actual \in Snapshots /\ r.actual <= auth[a].snapshot /\ ~r.byok
     \/ r.actual = 0 /\ (a \in Refunds \/ Promises[a] \in {None, "waived"})
  /\ r.actual \in Charges
  /\ r.credit = 0 => r.byok \/ r.actual = 0

\* The hold of a is decided, with the books.
LEMMA DecideStep ==
  ASSUME Inv, NEW a \in Auths, NEW k \in Kinds, NEW r, AsksStay, RowMoved(a, k),
         res[a].state = "open", res' = [res EXCEPT ![a] = r], r \in Reservation,
         r.state = "settled", r.credit = res[a].credit, r.key = res[a].key,
         Book(a, r.actual, r.byok), Justified(a, r)
  PROVE  Refined
<1> DEFINE x == IF r.byok THEN 0 ELSE r.actual
<1>1. UNCHANGED <<CreditAsks, KeyAsks, Refunds>>
  BY AsksKeep
<1>2. /\ res'[a] = r /\ \A b \in Auths : b # a => res'[b] = res[b]
      /\ res[a].credit \in Nat /\ res[a].key \in Nat /\ r.actual \in Nat /\ r.byok \in BOOLEAN
      /\ credit \in [usage : Nat, reserved : Nat]
      /\ key \in [usage : Nat, byok : Nat, reserved : Nat]
  BY DEF Inv, TypeOK, Reservation
<1>3. /\ CreditAccounts' = [CreditAccounts EXCEPT ![a] =
            [state |-> "decided", hold |-> r.credit, charge |-> x]]
      /\ KeyAccounts' = [KeyAccounts EXCEPT ![a] =
            [state |-> "decided", hold |-> r.key, charge |-> r.actual]]
  <2>1. CreditAccounts' = [CreditAccounts EXCEPT ![a] =
            [state |-> "decided", hold |-> r.credit, charge |-> x]]
    <3>2. CreditAccounts'[a] = [state |-> "decided", hold |-> r.credit, charge |-> x]
      BY <1>2 DEF CreditAccounts, AccountOf, None
    <3>4. \A b \in Auths : b # a => CreditAccounts'[b] = CreditAccounts[b]
      BY <1>2 DEF CreditAccounts, AccountOf
    <3>5. /\ CreditAccounts = [b \in Auths |-> CreditAccounts[b]]
          /\ CreditAccounts' = [b \in Auths |-> CreditAccounts'[b]]
      BY DEF CreditAccounts
    <3> QED BY <3>2, <3>4, <3>5
  <2>2. KeyAccounts' = [KeyAccounts EXCEPT ![a] =
            [state |-> "decided", hold |-> r.key, charge |-> r.actual]]
    <3>2. KeyAccounts'[a] = [state |-> "decided", hold |-> r.key, charge |-> r.actual]
      BY <1>2 DEF KeyAccounts, AccountOf, None
    <3>4. \A b \in Auths : b # a => KeyAccounts'[b] = KeyAccounts[b]
      BY <1>2 DEF KeyAccounts, AccountOf
    <3>5. /\ KeyAccounts = [b \in Auths |-> KeyAccounts[b]]
          /\ KeyAccounts' = [b \in Auths |-> KeyAccounts'[b]]
      BY DEF KeyAccounts
    <3> QED BY <3>2, <3>4, <3>5
  <2> QED BY <2>1, <2>2
<1>4. /\ CreditAccounts[a].state = "held" /\ CreditAccounts[a].hold = r.credit
      /\ KeyAccounts[a].state = "held" /\ KeyAccounts[a].hold = r.key
  BY StateIs DEF StateOf, None
<1>5. /\ credit'.usage = credit.usage + x
      /\ credit'.reserved = credit.reserved - r.credit
  <2>1. CASE r.credit = 0
    <3>1. x = 0
      BY <2>1 DEF Justified
    <3> QED BY <1>2, <2>1, <3>1 DEF Book
  <2>2. CASE r.credit # 0
    BY <1>2, <2>2 DEF Book
  <2> QED BY <2>1, <2>2
<1>6. /\ key'.usage + key'.byok = key.usage + key.byok + r.actual
      /\ key'.reserved = key.reserved - r.key
  BY <1>2 DEF Book
<1>7. \E p \in {Promises[a]} \union MayMove(Promises[a], "decided") :
        Promises' = [Promises EXCEPT ![a] = p]
  <2>1. StateOf(res'[a]) = "decided"
    BY <1>2 DEF StateOf, None
  <2>2. Promises' = Promises => Promises' = [Promises EXCEPT ![a] = Promises[a]]
    BY PromisesAre
  <2> QED BY <2>1, <2>2, PromisesMove
<1>8. \/ x \in CreditAsks[a]
      \/ x = 0 /\ (a \in Refunds \/ Promises[a] \in {None, "waived"})
  <2>1. CASE \E d \in Deliveries :
               /\ delivery[d].auth = a /\ delivery[d].kind = "settle"
               /\ delivery[d].cost = r.actual /\ delivery[d].byok = r.byok
    BY <2>1, AsksAre DEF CreditAsked, OfCredit
  <2>2. CASE r.actual \in Snapshots /\ r.actual <= auth[a].snapshot /\ ~r.byok
    BY <2>2, AsksAre DEF CreditAsked
  <2> QED BY <2>1, <2>2 DEF Justified
<1>9. \/ r.actual \in KeyAsks[a]
      \/ r.actual = 0 /\ (a \in Refunds \/ Promises[a] \in {None, "waived"})
  <2>1. CASE \E d \in Deliveries :
               /\ delivery[d].auth = a /\ delivery[d].kind = "settle"
               /\ delivery[d].cost = r.actual /\ delivery[d].byok = r.byok
    BY <2>1, AsksAre DEF KeyAsked, OfKey
  <2>2. CASE r.actual \in Snapshots /\ r.actual <= auth[a].snapshot /\ ~r.byok
    BY <2>2, AsksAre DEF KeyAsked
  <2> QED BY <2>1, <2>2 DEF Justified
<1>10. x \in Charges /\ r.actual \in Charges
  BY DEF Justified, Charges
<1> HIDE DEF x
<1>11. Credit!Decide(a, x)
  BY <1>1, <1>3, <1>4, <1>5, <1>7, <1>8 DEF Credit!Decide, Credit!MayBecome, MayMove, None
<1>12. Key!Decide(a, r.actual)
  BY <1>1, <1>3, <1>4, <1>6, <1>7, <1>9 DEF Key!Decide, Key!MayBecome, MayMove, None
<1> QED BY <1>10, <1>11, <1>12 DEF Refined, Credit!Next, Key!Next

\* A hold is taken, with the books.
LEMMA HoldStep ==
  ASSUME Inv, NEW a \in Auths, NEW h \in Holds, Authorize(a, h)
  PROVE  Refined
<1>1. /\ h.credit \in Nat /\ h.key \in Nat /\ res[a] \in Reservation
      /\ auth[a] \in Authorization
      /\ credit \in [usage : Nat, reserved : Nat]
      /\ key \in [usage : Nat, byok : Nat, reserved : Nat]
      /\ RecordsRight(res[a], auth[a])
  BY HoldsAssumption DEF Inv, TypeOK, RecordsAgree
<1>2. /\ res[a].state = None /\ UNCHANGED <<row, delivery>>
      /\ res' = [res EXCEPT ![a].state = "open", ![a].credit = h.credit, ![a].key = h.key]
      /\ auth' = [auth EXCEPT ![a].state = "live"]
      /\ credit' = [credit EXCEPT !.reserved = @ + h.credit]
      /\ key' = [key EXCEPT !.reserved = @ + h.key]
  BY DEF Authorize, processes
<1>3. /\ res'[a].state = "open" /\ res'[a].credit = h.credit /\ res'[a].key = h.key
      /\ res'[a].actual = 0 /\ res'[a].byok = FALSE
      /\ \A b \in Auths : b # a => res'[b] = res[b]
  <2>1. res[a].actual = 0 /\ ~res[a].byok
    BY <1>1, <1>2 DEF RecordsRight, DecidedRes, None
  <2> QED BY <1>1, <1>2, <2>1 DEF Inv, TypeOK, Reservation
<1>4. AsksStay
  BY <1>1, <1>2 DEF AsksStay, TerminalsStay, SnapshotsStand, SameAsk, Inv, TypeOK, Authorization
<1>5. UNCHANGED <<CreditAsks, KeyAsks, Refunds, Promises>>
  BY <1>2, <1>4, AsksKeep, PromisesAre
<1>6. /\ CreditAccounts' = [CreditAccounts EXCEPT ![a] =
           [state |-> "held", hold |-> h.credit, charge |-> 0]]
      /\ KeyAccounts' = [KeyAccounts EXCEPT ![a] =
           [state |-> "held", hold |-> h.key, charge |-> 0]]
  <2>1. CreditAccounts' = [CreditAccounts EXCEPT ![a] =
           [state |-> "held", hold |-> h.credit, charge |-> 0]]
    BY <1>3 DEF CreditAccounts, AccountOf, None
  <2>2. KeyAccounts' = [KeyAccounts EXCEPT ![a] =
           [state |-> "held", hold |-> h.key, charge |-> 0]]
    BY <1>3 DEF KeyAccounts, AccountOf, None
  <2> QED BY <2>1, <2>2
<1>7. CreditAccounts[a].state = None /\ KeyAccounts[a].state = None
  BY <1>2, StateIs DEF StateOf, None
<1>8. /\ credit'.usage = credit.usage /\ credit'.reserved = credit.reserved + h.credit
      /\ key'.usage + key'.byok = key.usage + key.byok
      /\ key'.reserved = key.reserved + h.key
  BY <1>1, <1>2
<1>9. Credit!Hold(a, h.credit)
  BY <1>5, <1>6, <1>7, <1>8 DEF Credit!Hold, None
<1>10. Key!Hold(a, h.key)
  BY <1>5, <1>6, <1>7, <1>8 DEF Key!Hold, None
<1> QED BY <1>9, <1>10 DEF Refined, Credit!Next, Key!Next

LEMMA AskedMore ==
  ASSUME NEW dl, NEW dl2, NEW d \in Deliveries, NEW a, dl[d].auth \notin Auths,
         \A e \in Deliveries : e # d => dl2[e] = dl[e], dl2[d].auth = a
  PROVE  \A b \in Auths : \A s :
           /\ CreditAsked(b, dl2, s) =
                IF b = a /\ dl2[d].kind = "settle"
                THEN CreditAsked(b, dl, s) \union {OfCredit(dl2[d])}
                ELSE CreditAsked(b, dl, s)
           /\ KeyAsked(b, dl2, s) =
                IF b = a /\ dl2[d].kind = "settle"
                THEN KeyAsked(b, dl, s) \union {OfKey(dl2[d])}
                ELSE KeyAsked(b, dl, s)
<1> SUFFICES ASSUME NEW b \in Auths, NEW s
             PROVE  /\ CreditAsked(b, dl2, s) =
                         IF b = a /\ dl2[d].kind = "settle"
                         THEN CreditAsked(b, dl, s) \union {OfCredit(dl2[d])}
                         ELSE CreditAsked(b, dl, s)
                    /\ KeyAsked(b, dl2, s) =
                         IF b = a /\ dl2[d].kind = "settle"
                         THEN KeyAsked(b, dl, s) \union {OfKey(dl2[d])}
                         ELSE KeyAsked(b, dl, s)
  OBVIOUS
<1> DEFINE D == {e \in Deliveries : dl[e].auth = b /\ dl[e].kind = "settle"}
           D2 == {e \in Deliveries : dl2[e].auth = b /\ dl2[e].kind = "settle"}
<1>1. d \notin D /\ \A e \in D : dl2[e] = dl[e]
  OBVIOUS
<1>2. CASE b = a /\ dl2[d].kind = "settle"
  <2>1. D2 = D \union {d}
    BY <1>2
  <2> HIDE DEF D, D2
  <2>2. /\ {OfCredit(dl2[e]) : e \in D2} = {OfCredit(dl[e]) : e \in D} \union {OfCredit(dl2[d])}
        /\ {OfKey(dl2[e]) : e \in D2} = {OfKey(dl[e]) : e \in D} \union {OfKey(dl2[d])}
    BY <1>1, <2>1
  <2> QED BY <1>2, <2>2 DEF CreditAsked, KeyAsked, D, D2
<1>3. CASE ~(b = a /\ dl2[d].kind = "settle")
  <2>1. D2 = D
    BY <1>3
  <2> HIDE DEF D, D2
  <2>2. /\ {OfCredit(dl2[e]) : e \in D2} = {OfCredit(dl[e]) : e \in D}
        /\ {OfKey(dl2[e]) : e \in D2} = {OfKey(dl[e]) : e \in D}
    BY <1>1, <2>1
  <2> QED BY <1>3, <2>2 DEF CreditAsked, KeyAsked, D, D2
<1> QED BY <1>2, <1>3

\* A delivery's fields may be set one by one.
LEMMA DeliveryFields ==
  ASSUME NEW q \in Delivery
  PROVE  /\ \A v \in Auths : [q EXCEPT !.auth = v] \in Delivery
         /\ \A v \in Kinds : [q EXCEPT !.kind = v] \in Delivery
         /\ \A v \in Nat : [q EXCEPT !.cost = v] \in Delivery
         /\ \A v \in BOOLEAN : [q EXCEPT !.byok = v] \in Delivery
BY DEF Delivery

LEMMA Received ==
  ASSUME Inv, NEW d \in Deliveries, NEW a \in Auths, NEW t \in Terminals, Receive(d, a, t)
  PROVE  /\ delivery[d].auth = None
         /\ delivery'[d].auth = a /\ delivery'[d].kind = t.kind
         /\ delivery'[d].cost = t.cost /\ delivery'[d].byok = t.byok
         /\ \A e \in Deliveries : e # d => delivery'[e] = delivery[e]
<1>1. delivery \in [Deliveries -> Delivery] /\ delivery[d].auth = None
  BY DEF Inv, TypeOK, DeliveriesAgree, DeliveryAgrees, Receive
<1> DEFINE asked == [delivery[d] EXCEPT !.auth = a, !.kind = t.kind,
                                        !.cost = t.cost, !.byok = t.byok]
<1>2. t \in [kind : Kinds, cost : Nat, byok : BOOLEAN]
  BY TerminalsAssumption DEF Kinds
<1>3. /\ asked \in Delivery /\ asked.auth = a /\ asked.kind = t.kind
      /\ asked.cost = t.cost /\ asked.byok = t.byok
  <2> DEFINE q1 == [delivery[d] EXCEPT !.auth = a]
             q2 == [q1 EXCEPT !.kind = t.kind]
             q3 == [q2 EXCEPT !.cost = t.cost]
             q4 == [q3 EXCEPT !.byok = t.byok]
  <2>1. t.kind \in Kinds /\ t.cost \in Nat /\ t.byok \in BOOLEAN
    BY <1>2
  <2>2. delivery[d] \in Delivery
    BY <1>1
  <2>3. q1 \in Delivery
    BY <2>2, DeliveryFields
  <2>4. q2 \in Delivery
    BY <2>1, <2>3, DeliveryFields
  <2>5. q3 \in Delivery
    BY <2>1, <2>4, DeliveryFields
  <2>6. q4 \in Delivery
    BY <2>1, <2>5, DeliveryFields
  <2>7. q4.auth = a /\ q4.kind = t.kind /\ q4.cost = t.cost /\ q4.byok = t.byok
    BY <2>2 DEF Delivery
  <2> QED BY <2>6, <2>7
<1>4. PICK pc \in {"commit", "answered"},
           o \in {asked.answer, "already_settled", "not_found"} :
        delivery' = [delivery EXCEPT ![d] = [asked EXCEPT !.pc = pc, !.answer = o]]
  <2> HIDE DEF asked
  <2>1. auth[a].state \in {"live", "settled", "deleted"}
    BY DEF Receive, Inv, TypeOK, Authorization
  <2>2. CASE auth[a].state = "live"
    <3>1. delivery' = [delivery EXCEPT ![d] = [asked EXCEPT !.pc = "commit"]]
      BY <2>2 DEF Receive, asked
    <3>2. [asked EXCEPT !.pc = "commit"] = [asked EXCEPT !.pc = "commit", !.answer = asked.answer]
      BY <1>3 DEF Delivery
    <3> QED BY <3>1, <3>2
  <2>3. CASE auth[a].state = "settled"
    BY <2>3 DEF Receive, asked
  <2>4. CASE auth[a].state = "deleted"
    BY <2>4 DEF Receive, asked
  <2> QED BY <2>1, <2>2, <2>3, <2>4
<1> HIDE DEF asked
<1> DEFINE x == [asked EXCEPT !.pc = pc, !.answer = o]
<1>5. x.auth = a /\ x.kind = t.kind /\ x.cost = t.cost /\ x.byok = t.byok
  BY <1>3 DEF Delivery
<1>6. delivery' = [delivery EXCEPT ![d] = x]
  BY <1>4
<1> HIDE DEF x
<1> QED BY <1>1, <1>5, <1>6

\* A delivery asks: for a charge, or for a refund.
LEMMA ReceiveAsks ==
  ASSUME Inv, NEW d \in Deliveries, NEW a \in Auths, NEW t \in Terminals, Receive(d, a, t)
  PROVE  Refined
<1>1. UNCHANGED <<money, res, auth, row>>
  BY DEF Receive, records
<1>2. /\ delivery[d].auth \notin Auths /\ delivery'[d].auth = a
      /\ delivery'[d].kind = t.kind /\ delivery'[d].cost = t.cost /\ delivery'[d].byok = t.byok
      /\ \A e \in Deliveries : e # d => delivery'[e] = delivery[e]
  BY Received, AuthsAssumption
<1>3. UNCHANGED <<CreditAccounts, KeyAccounts, Promises>>
  <2>1. AccountsStay
    BY <1>1 DEF AccountsStay, SameAccount
  <2> QED BY <1>1, <2>1, AccountsKeep, PromisesAre
<1>4. UNCHANGED <<credit.usage, credit.reserved, key.usage + key.byok, key.reserved>>
  BY <1>1 DEF money
<1>5. \A b \in Auths : \A s :
        /\ CreditAsked(b, delivery', s) =
             IF b = a /\ t.kind = "settle"
             THEN CreditAsked(b, delivery, s) \union {OfCredit(delivery'[d])}
             ELSE CreditAsked(b, delivery, s)
        /\ KeyAsked(b, delivery', s) =
             IF b = a /\ t.kind = "settle"
             THEN KeyAsked(b, delivery, s) \union {OfKey(delivery'[d])}
             ELSE KeyAsked(b, delivery, s)
  BY <1>2, AskedMore
<1>6. t.kind \in {"settle", "refund"} /\ t.cost \in Charges /\ 0 \in Charges
  BY TerminalsAssumption DEF Charges, Costs
<1>7. CreditAccounts[a].state # None /\ KeyAccounts[a].state # None
  <2>1. res[a].state # None
    BY DEF Receive, Inv, RecordsAgree, RecordsRight
  <2> QED BY <2>1, StateIs DEF StateOf, None
<1>8. CASE t.kind = "settle"
  <2> DEFINE x == OfCredit(delivery'[d])
             y == OfKey(delivery'[d])
  <2>1. x \in Charges /\ y \in Charges
    BY <1>2, <1>6 DEF OfCredit, OfKey
  <2> HIDE DEF x, y
  <2>2. /\ CreditAsks' = [CreditAsks EXCEPT ![a] = @ \union {x}]
        /\ KeyAsks' = [KeyAsks EXCEPT ![a] = @ \union {y}]
    <3>1. CreditAsks' = [CreditAsks EXCEPT ![a] = @ \union {x}]
      BY <1>1, <1>5, <1>8, AsksAre DEF x
    <3>2. KeyAsks' = [KeyAsks EXCEPT ![a] = @ \union {y}]
      BY <1>1, <1>5, <1>8, AsksAre DEF y
    <3> QED BY <3>1, <3>2
  <2>3. Refunds' = Refunds
    BY <1>2, <1>8 DEF Refunds
  <2>4. Credit!Ask(a, {x})
    BY <1>3, <1>4, <1>7, <2>2, <2>3 DEF Credit!Ask, None
  <2>5. Key!Ask(a, {y})
    BY <1>3, <1>4, <1>7, <2>2, <2>3 DEF Key!Ask, None
  <2> QED BY <2>1, <2>4, <2>5 DEF Refined, Credit!Next, Key!Next
<1>9. CASE t.kind = "refund"
  <2>1. CreditAsks' = CreditAsks /\ KeyAsks' = KeyAsks
    BY <1>1, <1>5, <1>9, AsksAre
  <2>2. Refunds' = Refunds \union {a}
    <3>1. ASSUME NEW b \in Auths, b # a
          PROVE  b \in Refunds' <=> b \in Refunds
      BY <1>2, <3>1 DEF Refunds
    <3>2. a \in Refunds'
      BY <1>2, <1>9 DEF Refunds
    <3> QED BY <3>1, <3>2 DEF Refunds
  <2>3. Credit!AskRefund(a)
    BY <1>3, <1>4, <1>7, <2>1, <2>2 DEF Credit!AskRefund, None
  <2>4. Key!AskRefund(a)
    BY <1>3, <1>4, <1>7, <2>1, <2>2 DEF Key!AskRefund, None
  <2> QED BY <2>3, <2>4 DEF Refined, Credit!Next, Key!Next
<1> QED BY <1>6, <1>8, <1>9

\* A heartbeat asks for its snapshot, and for the ones it overtakes.
LEMMA HeartbeatAsks ==
  ASSUME Inv, NEW a \in Auths, NEW x \in Snapshots, Heartbeat(a, x)
  PROVE  Refined
<1> DEFINE xs == {y \in Snapshots : y <= x}
<1>1. /\ res[a].state = "open" /\ x > auth[a].snapshot /\ UNCHANGED <<money, row, delivery>>
      /\ auth' = [auth EXCEPT ![a].snapshot = x] /\ res' = [res EXCEPT ![a].expired = FALSE]
  BY DEF Heartbeat, Claimable, processes
<1>2. /\ auth'[a].snapshot = x /\ \A b \in Auths : b # a => auth'[b] = auth[b]
      /\ x \in Nat /\ auth[a].snapshot \in Nat /\ Snapshots \subseteq Nat
  BY <1>1, SnapshotsAssumption DEF Inv, TypeOK, Authorization
<1>3. UNCHANGED <<CreditAccounts, KeyAccounts, Promises>>
  <2>1. AccountsStay
    BY <1>1 DEF AccountsStay, SameAccount, StateOf, Inv, TypeOK, Reservation
  <2> QED BY <1>1, <2>1, AccountsKeep, PromisesAre
<1>4. UNCHANGED <<credit.usage, credit.reserved, key.usage + key.byok, key.reserved, Refunds>>
  BY <1>1 DEF money, Refunds
<1>5. /\ CreditAsked(a, delivery, x) = CreditAsked(a, delivery, auth[a].snapshot) \union xs
      /\ KeyAsked(a, delivery, x) = KeyAsked(a, delivery, auth[a].snapshot) \union xs
  <2>1. {y \in Snapshots : y <= auth[a].snapshot} \union xs = xs
    BY <1>1, <1>2
  <2> QED BY <2>1 DEF CreditAsked, KeyAsked
<1>6. xs \subseteq Charges
  BY DEF Charges
<1>7. CreditAccounts[a].state # None /\ KeyAccounts[a].state # None
  BY <1>1, StateIs DEF StateOf, None
<1> HIDE DEF xs
<1>8. CreditAsks' = [CreditAsks EXCEPT ![a] = @ \union xs]
  <2>1. CreditAsks'[a] = CreditAsks[a] \union xs
    BY <1>1, <1>2, <1>5, AsksAre
  <2>2. \A b \in Auths : b # a => CreditAsks'[b] = CreditAsks[b]
    BY <1>1, <1>2, AsksAre
  <2>3. /\ CreditAsks = [b \in Auths |-> CreditAsks[b]]
        /\ CreditAsks' = [b \in Auths |-> CreditAsks'[b]]
    BY DEF CreditAsks
  <2> QED BY <2>1, <2>2, <2>3
<1>9. KeyAsks' = [KeyAsks EXCEPT ![a] = @ \union xs]
  <2>1. KeyAsks'[a] = KeyAsks[a] \union xs
    BY <1>1, <1>2, <1>5, AsksAre
  <2>2. \A b \in Auths : b # a => KeyAsks'[b] = KeyAsks[b]
    BY <1>1, <1>2, AsksAre
  <2>3. /\ KeyAsks = [b \in Auths |-> KeyAsks[b]]
        /\ KeyAsks' = [b \in Auths |-> KeyAsks'[b]]
    BY DEF KeyAsks
  <2> QED BY <2>1, <2>2, <2>3
<1>10. Credit!Ask(a, xs)
  BY <1>3, <1>4, <1>7, <1>8 DEF Credit!Ask, None
<1>11. Key!Ask(a, xs)
  BY <1>3, <1>4, <1>7, <1>9 DEF Key!Ask, None
<1> QED BY <1>6, <1>10, <1>11 DEF Refined, Credit!Next, Key!Next

\* No other step of the route, and none of anyone else, asks for anything.
LEMMA RouteAsksNothing ==
  ASSUME Inv, NEW d \in Deliveries,
         \/ \E pc \in {"insert", "refresh", "finalize", "mark", "read"} : To(d, pc)
         \/ \E o \in {"finalized", "already_settled", "intent_durable", "unavailable", "lost"} :
              Answer(d, o)
         \/ \E t \in BOOLEAN, f \in BOOLEAN :
              delivery' = [delivery EXCEPT ![d].pc = "insert", ![d].transient = t,
                                           ![d].inflight = f]
         \/ \E t \in BOOLEAN :
              delivery' = [delivery EXCEPT ![d].pc = "insert", ![d].transient = t]
         \/ delivery' = [delivery EXCEPT ![d].inflight = FALSE]
  PROVE  TerminalsStay
<1> DEFINE x == delivery[d]
<1>1. delivery \in [Deliveries -> Delivery] /\ x \in Delivery
  BY DEF Inv, TypeOK
<1>2. ASSUME NEW y, Moved(x, y), delivery' = [delivery EXCEPT ![d] = y]
      PROVE  TerminalsStay
  BY <1>1, <1>2 DEF Moved, TerminalsStay, SameAsk
<1>3. ASSUME NEW pc \in {"insert", "refresh", "finalize", "mark", "read"}, To(d, pc)
      PROVE  TerminalsStay
  <2>1. Moved(x, [x EXCEPT !.pc = pc])
    BY <1>1, Goes
  <2> QED BY <1>2, <1>3, <2>1 DEF To
<1>4. ASSUME NEW o \in {"finalized", "already_settled", "intent_durable", "unavailable", "lost"},
             Answer(d, o)
      PROVE  TerminalsStay
  <2>1. Moved(x, [x EXCEPT !.pc = "answered", !.answer = o])
    BY <1>1, Answers
  <2> QED BY <1>2, <1>4, <2>1 DEF Answer
<1>5. ASSUME NEW t \in BOOLEAN, NEW f \in BOOLEAN,
             delivery' = [delivery EXCEPT ![d].pc = "insert", ![d].transient = t,
                                          ![d].inflight = f]
      PROVE  TerminalsStay
  <2>1. Moved(x, [x EXCEPT !.pc = "insert", !.transient = t, !.inflight = f])
    BY <1>1, GoesFailed
  <2> QED BY <1>2, <1>5, <2>1
<1>6. ASSUME NEW t \in BOOLEAN,
             delivery' = [delivery EXCEPT ![d].pc = "insert", ![d].transient = t]
      PROVE  TerminalsStay
  <2>1. Moved(x, [x EXCEPT !.pc = "insert", !.transient = t])
    BY <1>1, GoesFailed
  <2> QED BY <1>2, <1>6, <2>1
<1>7. CASE delivery' = [delivery EXCEPT ![d].inflight = FALSE]
  BY <1>1, <1>7 DEF TerminalsStay, SameAsk, Delivery
<1> QED BY <1>3, <1>4, <1>5, <1>6, <1>7

LEMMA NoDelivery ==
  ASSUME UNCHANGED delivery
  PROVE  TerminalsStay
BY DEF TerminalsStay, SameAsk

LEMMA NoRecord ==
  ASSUME UNCHANGED <<money, res, auth, row>>, TerminalsStay
  PROVE  Refined
<1>1. AccountsStay /\ AsksStay
  BY DEF AccountsStay, SameAccount, AsksStay, SnapshotsStand
<1> QED BY <1>1, StillStep

LEMMA RouteMoves ==
  ASSUME Inv, NEW d \in Deliveries,
         \/ OneCommitDeclined(d) \/ OneCommitFails(d) \/ InsertExists(d) \/ EnqueueFails(d)
         \/ FinalizeLost(d) \/ FinalizeFails(d) \/ ReadBack(d) \/ LoseDelivery(d)
  PROVE  Refined
<1>1. UNCHANGED <<money, res, auth, row>>
  BY DEF OneCommitDeclined, OneCommitFails, InsertExists, EnqueueFails, FinalizeLost,
         FinalizeFails, ReadBack, LoseDelivery, records
<1>2. TerminalsStay
  BY RouteAsksNothing
  DEF OneCommitDeclined, OneCommitFails, InsertExists, EnqueueFails, FinalizeLost,
      FinalizeFails, ReadBack, LoseDelivery
<1> QED BY <1>1, <1>2, NoRecord

\* The retention of the records is no part of an account.
LEMMA DeferKeeps ==
  ASSUME Inv, NEW a \in Auths, DeferRetention(a)
  PROVE  AccountsStay /\ SnapshotsStand
<1>1. res \in [Auths -> Reservation] /\ auth \in [Auths -> Authorization]
  BY DEF Inv, TypeOK
<1>2. AccountsStay
  BY <1>1 DEF DeferRetention, AccountsStay, SameAccount, StateOf, Reservation
<1>3. SnapshotsStand
  BY <1>1 DEF DeferRetention, SnapshotsStand, Authorization
<1> QED BY <1>2, <1>3

LEMMA MarkKeeps ==
  ASSUME Inv, NEW a \in Auths, NEW k, NEW rows, MarkDone(a, k, rows, res[a], auth[a])
  PROVE  AccountsStay /\ SnapshotsStand /\ row' = rows
<1>1. res \in [Auths -> Reservation] /\ auth \in [Auths -> Authorization]
  BY DEF Inv, TypeOK
<1>2. AccountsStay
  BY <1>1 DEF MarkDone, AccountsStay, SameAccount, StateOf, Reservation
<1>3. SnapshotsStand
  BY <1>1 DEF MarkDone, SnapshotsStand, Authorization
<1> QED BY <1>2, <1>3 DEF MarkDone

LEMMA RowWritten ==
  ASSUME Inv, NEW a \in Auths, NEW k \in Kinds, NEW q, row' = [row EXCEPT ![<<a, k>>] = q],
         StatusMoves(row[<<a, k>>].status, q.status, StateOf(res'[a]))
  PROVE  RowMoved(a, k)
BY DEF Inv, TypeOK, RowMoved

LEMMA InsertMoves ==
  ASSUME Inv, NEW d \in Deliveries, Insert(d)
  PROVE  Refined
<1> DEFINE x == delivery[d]
<1>1. /\ x.pc = "insert" /\ DeferRetention(x.auth) /\ row[Of(x)].status = None
      /\ row' = [row EXCEPT ![Of(x)] = Intent(x)] /\ UNCHANGED money
  BY DEF Insert
<1>2. /\ x.auth \in Auths /\ x.kind \in Kinds /\ x.cost \in Nat /\ x.byok \in BOOLEAN
      /\ res[x.auth].state # None
  BY <1>1, UnderWay DEF DeliveryRight
<1>3. Intent(x).status = "pending"
  BY <1>2, IntentIsRow
<1>4. RowMoved(x.auth, x.kind)
  <2>1. StatusMoves(row[<<x.auth, x.kind>>].status, Intent(x).status, StateOf(res'[x.auth]))
    BY <1>1, <1>3 DEF StatusMoves, Of
  <2> QED BY <1>1, <1>2, <2>1, RowWritten DEF Of
<1>5. TerminalsStay
  BY RouteAsksNothing DEF Insert
<1> HIDE DEF x
<1> QED BY <1>1, <1>2, <1>4, <1>5, DeferKeeps, MoveStep DEF AsksStay

LEMMA RefreshMoves ==
  ASSUME Inv, NEW d \in Deliveries, Refresh(d)
  PROVE  Refined
<1> DEFINE x == delivery[d]
<1>1. x.pc = "refresh" /\ UNCHANGED money
  BY DEF Refresh
<1>2. x.auth \in Auths /\ x.kind \in Kinds
  BY <1>1, UnderWay
<1>3. TerminalsStay
  BY RouteAsksNothing DEF Refresh
<1>4. CASE Pending(Of(x)) /\ Unleased(row[Of(x)])
  <2>1. /\ row' = [row EXCEPT ![Of(x)].cost = x.cost, ![Of(x)].byok = x.byok]
        /\ DeferRetention(x.auth)
    BY <1>4 DEF Refresh
  <2>2. \A p \in Auths \X Kinds : row'[p].status = row[p].status
    BY <2>1 DEF Inv, TypeOK, OutboxRow
  <2> HIDE DEF x
  <2> QED BY <1>1, <1>2, <1>3, <2>1, <2>2, DeferKeeps, StillStep DEF AsksStay
<1>5. CASE ~(Pending(Of(x)) /\ Unleased(row[Of(x)]))
  BY <1>1, <1>3, <1>5, NoRecord DEF Refresh
<1> QED BY <1>4, <1>5

LEMMA MarkIntentMoves ==
  ASSUME Inv, Inv', NEW d \in Deliveries, MarkIntent(d)
  PROVE  Refined
<1> DEFINE x == delivery[d]
           q == Resolved(Of(x), row[Of(x)].attempts + 1)
<1>1. x.pc = "mark" /\ UNCHANGED money
  BY DEF MarkIntent
<1>2. x.auth \in Auths /\ x.kind \in Kinds /\ DecidedRes(res[x.auth])
  BY <1>1, UnderWay DEF DeliveryRight
<1>3. TerminalsStay
  BY RouteAsksNothing DEF MarkIntent
<1>4. CASE UNCHANGED <<row, res, auth>>
  BY <1>1, <1>3, <1>4, NoRecord
<1>5. CASE /\ Pending(Of(x))
           /\ MarkDone(x.auth, x.kind,
                [row EXCEPT ![Of(x)] = Resolved(Of(x), @.attempts + 1)],
                res[x.auth], auth[x.auth])
  <2>1. AccountsStay /\ SnapshotsStand
        /\ row' = [row EXCEPT ![Of(x)] = Resolved(Of(x), @.attempts + 1)]
    BY <1>2, <1>5, MarkKeeps
  <2>2. row' = [row EXCEPT ![Of(x)] = q]
    BY <1>2, <2>1 DEF Inv, TypeOK, Of
  <2>3. q.status = "done" /\ row[Of(x)].status = "pending"
    BY <1>2, <1>5 DEF Inv, TypeOK, Of, Resolved, OutboxRow, Pending
  <2>4. StateOf(res'[x.auth]) = "decided" /\ res[x.auth].state # None
    <3>1. StateOf(res[x.auth]) = "decided" /\ res[x.auth].state # None
      BY <1>2 DEF StateOf, DecidedRes, None
    <3> QED BY <1>2, <2>1, <3>1 DEF AccountsStay, SameAccount
  <2> HIDE DEF q
  <2>5. RowMoved(x.auth, x.kind)
    BY <1>2, <2>2, <2>3, <2>4, RowWritten DEF Of, StatusMoves
  <2> HIDE DEF x
  <2> QED BY <1>1, <1>2, <1>3, <2>1, <2>4, <2>5, MoveStep DEF AsksStay
<1> QED BY <1>4, <1>5 DEF MarkIntent

\* A terminal that was asked for settles its authorization, with the books.
LEMMA SettlesDecides ==
  ASSUME Inv, NEW x, IsTerminal(x), AskedFor(x.auth, x.kind, x, delivery),
         NEW r, NEW g, NEW q, Touches(x.auth, x.kind, r, g, q),
         Legal(x.auth, x.kind, r, g, q), Settles(x, r, g), res[x.auth].state = "open",
         Book(x.auth, Actual(x), x.byok), TerminalsStay,
         \/ q.status = row[Of(x)].status
         \/ row[Of(x)].status \in {None, "pending"} /\ q.status = "done"
  PROVE  Refined
<1> DEFINE a == x.auth
           k == x.kind
<1>1. a \in Auths /\ k \in Kinds /\ r \in Reservation
  BY DEF IsTerminal, Legal
<1>2. /\ r.state = "settled" /\ r.credit = res[a].credit /\ r.key = res[a].key
      /\ r.actual = Actual(x) /\ r.byok = x.byok /\ g.snapshot = auth[a].snapshot
  BY DEF Settles
<1>3. AsksStay
  BY <1>1, <1>2 DEF Touches, AsksStay, SnapshotsStand, Inv, TypeOK
<1>4. res'[a] = r
  BY <1>1 DEF Touches, Inv, TypeOK
<1>5. RowMoved(a, k)
  <2>1. StateOf(res'[a]) = "decided"
    BY <1>2, <1>4 DEF StateOf, None
  <2>2. StatusMoves(row[<<a, k>>].status, q.status, StateOf(res'[a]))
    BY <2>1 DEF StatusMoves, Of
  <2> QED BY <1>1, <2>2, RowWritten DEF Touches
<1>6. PICK d \in Deliveries :
        /\ delivery[d].pc # "idle" /\ delivery[d].auth = a /\ delivery[d].kind = k
        /\ delivery[d].cost = x.cost /\ delivery[d].byok = x.byok /\ x.cost \in Costs
  BY DEF AskedFor
<1>7. r.credit = 0 => x.byok
  BY <1>2, <1>6, UnderWay DEF DeliveryRight
<1>8. Justified(a, r)
  <2>1. r.actual \in Charges
    BY <1>2, <1>6 DEF Actual, Charges
  <2>2. CASE k = "settle"
    BY <1>2, <1>6, <1>7, <2>1, <2>2 DEF Justified, Actual
  <2>3. CASE k = "refund"
    <3>1. r.actual = 0
      BY <1>2, <2>3 DEF Actual
    <3>2. a \in Refunds
      BY <1>1, <1>6, <2>3 DEF Refunds
    <3> QED BY <2>1, <3>1, <3>2 DEF Justified
  <2> QED BY <1>1, <2>2, <2>3 DEF Kinds
<1> HIDE DEF a, k
<1>9. res' = [res EXCEPT ![a] = r] /\ Book(a, r.actual, r.byok) /\ res[a].state = "open"
  BY <1>2 DEF Touches, a
<1> QED BY <1>1, <1>2, <1>3, <1>5, <1>8, <1>9, DecideStep

LEMMA DeliveryAsked ==
  ASSUME Inv, NEW d \in Deliveries, delivery[d].pc # "idle"
  PROVE  AskedFor(delivery[d].auth, delivery[d].kind, delivery[d], delivery)
BY UnderWay DEF AskedFor

LEMMA CommitOneDecides ==
  ASSUME Inv, NEW d \in Deliveries, delivery[d].pc # "idle", CommitOne(delivery[d]),
         TerminalsStay
  PROVE  Refined
<1> DEFINE x == delivery[d]
<1>1. IsTerminal(x) /\ AskedFor(x.auth, x.kind, x, delivery)
  BY DeliveryIsTerminal, DeliveryAsked
<1>2. PICK r, g, q :
        /\ Touches(x.auth, x.kind, r, g, q) /\ Legal(x.auth, x.kind, r, g, q)
        /\ Settles(x, r, g)
        /\ q.status = "done" /\ q.cost = x.cost /\ q.byok = x.byok
  BY <1>1, CommitOneSettles
<1>3. /\ Book(x.auth, Actual(x), x.byok) /\ res[x.auth].state = "open"
      /\ row[Of(x)].status = None
  BY DEF CommitOne, OneCommits, Claimable
<1> HIDE DEF x
<1> QED BY <1>1, <1>2, <1>3, SettlesDecides

LEMMA OneCommitDecides ==
  ASSUME Inv, NEW d \in Deliveries, OneCommit(d) \/ LateCommit(d)
  PROVE  Refined
<1>1. TerminalsStay
  BY RouteAsksNothing DEF OneCommit, LateCommit
<1>2. delivery[d].pc # "idle"
  BY DEF OneCommit, LateCommit, Inv, DeliveriesAgree, DeliveryAgrees
<1> QED BY <1>1, <1>2, CommitOneDecides DEF OneCommit, LateCommit

LEMMA CommitFinalizeDecides ==
  ASSUME Inv, NEW x, IsTerminal(x), AskedFor(x.auth, x.kind, x, delivery),
         NEW marks \in BOOLEAN, CommitFinalize(x, marks), TerminalsStay
  PROVE  Refined
<1>1. PICK r, g, q :
        /\ Touches(x.auth, x.kind, r, g, q) /\ Legal(x.auth, x.kind, r, g, q)
        /\ Settles(x, r, g)
        /\ \/ q = row[Of(x)]
           \/ row[Of(x)].status = "pending" /\ q.status = "done"
        /\ q.cost = row[Of(x)].cost /\ q.byok = row[Of(x)].byok
  BY CommitFinalizeSettles
<1>2. Book(x.auth, Actual(x), x.byok) /\ res[x.auth].state = "open"
  BY DEF CommitFinalize, Claimable
<1> QED BY <1>1, <1>2, SettlesDecides

LEMMA FinalizeDecides ==
  ASSUME Inv, NEW d \in Deliveries, Finalize(d)
  PROVE  Refined
<1>1. delivery[d].pc = "finalize" /\ CommitFinalize(delivery[d], Durable(delivery[d]))
  BY DEF Finalize
<1>2. TerminalsStay
  BY RouteAsksNothing DEF Finalize
<1>3. Durable(delivery[d]) \in BOOLEAN
  BY DEF Durable
<1> QED BY <1>1, <1>2, <1>3, DeliveryIsTerminal, DeliveryAsked, CommitFinalizeDecides

LEMMA ApplyWinsDecides ==
  ASSUME Inv, NEW w \in Workers, ApplyWins(w)
  PROVE  Refined
<1>1. worker[w].pc = "checked" /\ CommitFinalize(worker[w], FALSE) /\ UNCHANGED delivery
  BY DEF ApplyWins
<1>2. TerminalsStay
  BY <1>1, NoDelivery
<1>3. PICK marks \in BOOLEAN : marks = FALSE
  OBVIOUS
<1>4. CommitFinalize(worker[w], marks)
  BY <1>1, <1>3
<1> QED BY <1>1, <1>2, <1>4, AtRow, CommitFinalizeDecides

\* The reaper decides a hold at its snapshot, or free.
LEMMA ReapDecides ==
  ASSUME Inv, NEW a \in Auths, Reap(a)
  PROVE  Refined
<1> DEFINE x == IF SnapshotBooked(a) THEN auth[a].snapshot ELSE 0
           o == IF SnapshotBooked(a) THEN "reaped_snapshot" ELSE "refunded"
           r1 == Settled(a, x, FALSE)
           g1 == SettledAuth(a, o)
           r == [r1 EXCEPT !.armed = TRUE]
           g == [g1 EXCEPT !.armed = TRUE]
<1>1. /\ Reapable(a) /\ Book(a, x, FALSE)
      /\ res' = [res EXCEPT ![a] = r] /\ auth' = [auth EXCEPT ![a] = g]
      /\ UNCHANGED <<row, delivery>>
  BY DEF Reap, processes
<1>2. x \in Nat /\ o \in {"settled", "refunded", "reaped_snapshot"}
      /\ (o = "reaped_snapshot" => SnapshotBooked(a))
      /\ (x > 0 => SnapshotBooked(a) /\ x = auth[a].snapshot)
  BY DEF Inv, TypeOK, Authorization
<1>3. Claimable(a) /\ ~Guarded(row, a) /\ res[a].state = "open"
  BY <1>1 DEF Reapable, Claimable
<1> HIDE DEF x, o
<1>4. /\ r1 \in Reservation /\ g1 \in Authorization
      /\ r1.state = "settled" /\ r1.actual = x /\ r1.byok = FALSE
      /\ r1.credit = res[a].credit /\ r1.key = res[a].key
      /\ g1.snapshot = auth[a].snapshot
  <2>1. PICK b \in BOOLEAN : b = FALSE
    OBVIOUS
  <2>2. r1 = Settled(a, x, b) /\ g1 = SettledAuth(a, o)
    BY <2>1
  <2> HIDE DEF r1, g1
  <2> QED BY <1>2, <1>3, <2>1, <2>2, SettledRight
<1> HIDE DEF r1, g1
<1>5. /\ r \in Reservation /\ r.state = "settled" /\ r.actual = x /\ r.byok = FALSE
      /\ r.credit = res[a].credit /\ r.key = res[a].key
  BY <1>4 DEF Reservation
<1>6. g \in Authorization /\ g.snapshot = auth[a].snapshot
  BY <1>4 DEF Authorization
<1> HIDE DEF r, g
<1>7. AsksStay
  <2>1. SnapshotsStand
    BY <1>1, <1>6 DEF SnapshotsStand, Inv, TypeOK
  <2> QED BY <1>1, <2>1, NoDelivery DEF AsksStay
<1>8. \E k \in Kinds : RowMoved(a, k)
  BY <1>1 DEF RowMoved, StatusMoves, Kinds
<1>9. Justified(a, r)
  <2>1. RecordsRight(res[a], auth[a])
    BY DEF Inv, RecordsAgree
  <2>2. CASE x > 0
    <3>1. x \in Snapshots /\ x <= auth[a].snapshot /\ res[a].credit > 0
      BY <1>2, <2>1, <2>2 DEF RecordsRight
    <3> QED BY <1>5, <3>1 DEF Justified, Charges
  <2>3. CASE x = 0
    <3>1. Promises[a] \in {None, "waived"}
      <4>1. PromiseIn(row, a) \in {None, "waived"}
        BY <1>3 DEF PromiseIn, PromiseWith, Guarded, GuardStatuses, Kinds
      <4> QED BY <4>1, PromisesAre
    <3> QED BY <1>5, <2>3, <3>1 DEF Justified, Charges
  <2> QED BY <1>2, <2>2, <2>3
<1>10. Book(a, r.actual, r.byok)
  BY <1>1, <1>5
<1> QED BY <1>1, <1>3, <1>5, <1>7, <1>8, <1>9, <1>10, DecideStep

\* The drain's other steps: a lease is no part of a promise, and a row is done
\* only once its hold is decided.
LEMMA DrainMoves ==
  ASSUME Inv, NEW w \in Workers,
         \/ \E p \in Auths \X Kinds : Due(w, p)
         \/ Check(w) \/ ApplyLost(w) \/ CheckFails(w) \/ ApplyFails(w) \/ LoseWorker(w)
  PROVE  Refined
<1>1. UNCHANGED <<money, res, auth, row, delivery>>
  BY DEF Due, Check, ApplyLost, CheckFails, ApplyFails, LoseWorker, records
<1> QED BY <1>1, NoDelivery, NoRecord

LEMMA LeaseMoves ==
  ASSUME Inv, UNCHANGED <<money, res, auth, delivery>>,
         \/ UNCHANGED row
         \/ \E p \in Auths \X Kinds, o \in Workers \union {None} :
              row' = [row EXCEPT ![p].owner = o, ![p].lapsed = FALSE]
         \/ \E p \in Auths \X Kinds : row' = [row EXCEPT ![p].lapsed = TRUE]
  PROVE  Refined
<1>1. row \in [Auths \X Kinds -> OutboxRow]
  BY DEF Inv, TypeOK
<1>2. \A p \in Auths \X Kinds : row'[p].status = row[p].status
  <2>1. ASSUME NEW p \in Auths \X Kinds, NEW o \in Workers \union {None},
               row' = [row EXCEPT ![p].owner = o, ![p].lapsed = FALSE]
        PROVE  \A r \in Auths \X Kinds : row'[r].status = row[r].status
    <3> DEFINE q == [row[p] EXCEPT !.owner = o, !.lapsed = FALSE]
    <3>1. q.status = row[p].status
      <4>1. row[p] \in OutboxRow
        BY <1>1
      <4> QED BY <4>1 DEF OutboxRow
    <3>2. row' = [row EXCEPT ![p] = q]
      BY <2>1
    <3> HIDE DEF q
    <3> QED BY <1>1, <3>1, <3>2
  <2>2. ASSUME NEW p \in Auths \X Kinds, row' = [row EXCEPT ![p].lapsed = TRUE]
        PROVE  \A r \in Auths \X Kinds : row'[r].status = row[r].status
    BY <1>1, <2>2 DEF OutboxRow
  <2> QED BY <2>1, <2>2
<1>3. AccountsStay /\ AsksStay
  BY NoDelivery DEF AccountsStay, SameAccount, AsksStay, SnapshotsStand
<1> QED BY <1>2, <1>3, StillStep

LEMMA LeasesMove ==
  ASSUME Inv, \/ \E w \in Workers : Claim(w) \/ ReleaseClaim(w)
              \/ \E p \in Auths \X Kinds : LapseLease(p)
  PROVE  Refined
<1>1. ASSUME NEW w \in Workers, Claim(w) \/ ReleaseClaim(w)
      PROVE  Refined
  <2>1. worker[w].pc # "idle" /\ UNCHANGED <<money, res, auth, delivery>>
    BY <1>1 DEF Claim, ReleaseClaim, records
  <2>2. Of(worker[w]) \in Auths \X Kinds
    BY <2>1, AtRow DEF Of
  <2>3. \/ UNCHANGED row
        \/ \E p \in Auths \X Kinds, o \in Workers \union {None} :
              row' = [row EXCEPT ![p].owner = o, ![p].lapsed = FALSE]
    <3>1. CASE Claim(w)
      BY <2>2, <3>1 DEF Claim
    <3>2. CASE ReleaseClaim(w)
      BY <2>2, <3>2 DEF ReleaseClaim
    <3> QED BY <1>1, <3>1, <3>2
  <2> QED BY <2>1, <2>3, LeaseMoves
<1>2. ASSUME NEW p \in Auths \X Kinds, LapseLease(p)
      PROVE  Refined
  BY <1>2, LeaseMoves DEF LapseLease, records, processes
<1> QED BY <1>1, <1>2

LEMMA ResolveMoves ==
  ASSUME Inv, NEW w \in Workers, Resolve(w)
  PROVE  Refined
<1> DEFINE x == worker[w]
           a == x.auth
           k == x.kind
           old == row[<<a, k>>]
           freed == [old EXCEPT !.owner = None, !.lapsed = FALSE]
           next == old.attempts + 1
<1>1. x.pc = "applied" /\ UNCHANGED <<money, delivery>> /\ TerminalsStay
  BY NoDelivery DEF Resolve
<1>2. x \in Worker /\ a \in Auths /\ k \in Kinds /\ WorkerRight(x, res[a], auth[a], old)
  BY <1>1, AtRow DEF Of
<1>3. x.outcome \in Outcomes /\ x.outcome # None
  BY <1>1, <1>2 DEF Worker, WorkerRight
<1>4. CASE ~Owns(w)
  BY <1>1, <1>4, NoRecord DEF Resolve
<1>5. CASE Owns(w)
  <2>1. /\ old \in OutboxRow /\ old.status = "pending" /\ res[a].state # None
    BY <1>2, <1>5 DEF Inv, TypeOK, RowsAgree, RowRight, Owns, Pending, Of, None
  <2>2. PICK v \in Verdict(x) :
          \/ /\ v = "done"
             /\ MarkDone(a, k, [row EXCEPT ![<<a, k>>] = Resolved(<<a, k>>, next)],
                         res[a], auth[a])
          \/ /\ DeferRetention(a)
             /\ \/ row' = [row EXCEPT ![<<a, k>>] = freed]
                \/ row' = [row EXCEPT ![<<a, k>>] =
                             [freed EXCEPT !.status = "dead", !.attempts = next]]
                \/ row' = [row EXCEPT ![<<a, k>>] = [freed EXCEPT !.attempts = next]]
    <3>1. Verdict(x) \subseteq {"done", "dead", "park", "retry"}
      BY <1>3 DEF Verdict, Outcomes, DoneOutcomes, DeadOutcomes
    <3> QED BY <1>5, <3>1 DEF Resolve, Of
  <2>3. CASE /\ v = "done"
             /\ MarkDone(a, k, [row EXCEPT ![<<a, k>>] = Resolved(<<a, k>>, next)],
                         res[a], auth[a])
    <3> DEFINE q == Resolved(<<a, k>>, next)
    <3>1. x.outcome \in DecidingOutcomes
      BY <1>3, <2>3 DEF Verdict, DecidingOutcomes, Outcomes, DoneOutcomes, DeadOutcomes
    <3>2. DecidedRes(res[a])
      BY <1>1, <1>2, <3>1 DEF WorkerRight
    <3>3. AccountsStay /\ SnapshotsStand /\ row' = [row EXCEPT ![<<a, k>>] = q]
      BY <1>2, <2>3, MarkKeeps
    <3>4. q.status = "done"
      BY <2>1 DEF Resolved, OutboxRow
    <3>5. StateOf(res'[a]) = "decided"
      <4>1. StateOf(res[a]) = "decided"
        BY <3>2 DEF StateOf, DecidedRes, None
      <4> QED BY <1>2, <3>3, <4>1 DEF AccountsStay, SameAccount
    <3> HIDE DEF q
    <3>6. RowMoved(a, k)
      BY <1>2, <2>1, <3>3, <3>4, <3>5, RowWritten DEF StatusMoves
    <3> HIDE DEF a, k, old
    <3> QED BY <1>1, <1>2, <2>1, <3>3, <3>6, MoveStep DEF AsksStay
  <2>4. ASSUME NEW q, DeferRetention(a), row' = [row EXCEPT ![<<a, k>>] = q],
               q.status \in {"pending", "dead"}
        PROVE  Refined
    <3>1. AccountsStay /\ SnapshotsStand
      BY <1>2, <2>4, DeferKeeps
    <3>2. RowMoved(a, k)
      BY <1>2, <2>1, <2>4, RowWritten DEF StatusMoves
    <3> HIDE DEF a, k, old
    <3> QED BY <1>1, <1>2, <2>1, <3>1, <3>2, MoveStep DEF AsksStay
  <2>5. freed \in OutboxRow /\ freed.status = "pending"
    <3> HIDE DEF old
    <3> QED BY <2>1 DEF OutboxRow
  <2> HIDE DEF freed, next
  <2>6. [freed EXCEPT !.attempts = next].status = "pending"
    BY <2>5 DEF OutboxRow
  <2>7. [freed EXCEPT !.status = "dead", !.attempts = next].status = "dead"
    <3>1. [freed EXCEPT !.status = "dead"] \in OutboxRow
          /\ [freed EXCEPT !.status = "dead"].status = "dead"
      BY <2>5 DEF OutboxRow
    <3> QED BY <3>1, <2>5 DEF OutboxRow
  <2> QED BY <2>2, <2>3, <2>4, <2>5, <2>6, <2>7
<1> QED BY <1>4, <1>5

LEMMA ApproveMoves ==
  ASSUME Inv, NEW p \in Auths \X Kinds, ApproveRelease(p)
  PROVE  Refined
<1>1. PICK a \in Auths, k \in Kinds : p = <<a, k>>
  OBVIOUS
<1> DEFINE q == [row[<<a, k>>] EXCEPT !.status = "release_approved"]
<1>2. /\ row' = [row EXCEPT ![<<a, k>>] = q] /\ row[<<a, k>>].status = "dead"
      /\ UNCHANGED <<money, res, auth, delivery>>
  BY <1>1 DEF ApproveRelease, records, processes
<1>3. q.status = "release_approved"
  BY DEF Inv, TypeOK, OutboxRow
<1>4. res[a].state # None
  BY <1>2 DEF Inv, RowsAgree, RowRight, None
<1> HIDE DEF q
<1>5. RowMoved(a, k)
  BY <1>2, <1>3, RowWritten DEF StatusMoves
<1>6. AccountsStay /\ AsksStay
  BY <1>2, NoDelivery DEF AccountsStay, SameAccount, AsksStay, SnapshotsStand
<1> QED BY <1>2, <1>4, <1>5, <1>6, MoveStep

\* An expiry and a deletion leave the account as it is.
LEMMA ExpiryMoves ==
  ASSUME Inv, NEW a \in Auths,
         Expire(a) \/ DeleteReservation(a) \/ DeleteAuthorization(a)
  PROVE  Refined
<1>1. res \in [Auths -> Reservation] /\ auth \in [Auths -> Authorization]
  BY DEF Inv, TypeOK
<1>2. UNCHANGED <<money, row, delivery>>
  BY DEF Expire, DeleteReservation, DeleteAuthorization, processes
<1>3. AccountsStay
  <2>1. CASE Expire(a)
    BY <1>1, <2>1 DEF Expire, AccountsStay, SameAccount, StateOf, Reservation
  <2>2. CASE DeleteReservation(a)
    BY <1>1, <2>2 DEF DeleteReservation, AccountsStay, SameAccount, StateOf, Reservation, None
  <2>3. CASE DeleteAuthorization(a)
    BY <1>1, <2>3 DEF DeleteAuthorization, AccountsStay, SameAccount
  <2> QED BY <2>1, <2>2, <2>3
<1>4. SnapshotsStand
  <2>1. CASE DeleteAuthorization(a)
    BY <1>1, <2>1 DEF DeleteAuthorization, SnapshotsStand, Authorization
  <2>2. CASE UNCHANGED auth
    BY <2>2 DEF SnapshotsStand
  <2> QED BY <2>1, <2>2 DEF Expire, DeleteReservation
<1> QED BY <1>2, <1>3, <1>4, NoDelivery, StillStep DEF AsksStay

LEMMA NextRefines == Inv /\ Inv' /\ [Next]_vars => Refined
<1> SUFFICES ASSUME Inv, Inv', [Next]_vars PROVE Refined
  OBVIOUS
<1>1. CASE UNCHANGED vars
  BY <1>1, NoDelivery, NoRecord DEF vars, records, processes
<1>2. CASE \E a \in Auths : Authorizing(a)
  BY <1>2, HoldStep, HeartbeatAsks, ExpiryMoves, ReapDecides DEF Authorizing
<1>3. CASE \E d \in Deliveries : Settling(d)
  BY <1>3, ReceiveAsks, OneCommitDecides, RouteMoves, InsertMoves, RefreshMoves,
     FinalizeDecides, MarkIntentMoves DEF Settling
<1>4. CASE \E w \in Workers : Draining(w) \/ DrainFails(w)
  <2>1. PICK w \in Workers : Draining(w) \/ DrainFails(w)
    BY <1>4
  <2>2. CASE Draining(w)
    BY <2>2, DrainMoves, LeasesMove, ApplyWinsDecides, ResolveMoves DEF Draining
  <2>3. CASE DrainFails(w)
    BY <2>3, DrainMoves, LeasesMove DEF DrainFails
  <2> QED BY <2>1, <2>2, <2>3
<1>5. CASE \E p \in Auths \X Kinds : LapseLease(p) \/ ApproveRelease(p)
  BY <1>5, LeasesMove, ApproveMoves
<1> QED BY <1>1, <1>2, <1>3, <1>4, <1>5 DEF Next

LEMMA InitRefines == Init => Credit!Init /\ Key!Init
<1> SUFFICES ASSUME Init PROVE Credit!Init /\ Key!Init
  OBVIOUS
<1>1. /\ CreditAccounts = [a \in Auths |-> Credit!NoAccount]
      /\ KeyAccounts = [a \in Auths |-> Key!NoAccount]
  BY DEF Init, CreditAccounts, KeyAccounts, AccountOf, Credit!NoAccount, Key!NoAccount, None
<1>2. \A d \in Deliveries : delivery[d].auth \notin Auths
  BY AuthsAssumption DEF Init
<1>3. CreditAsks = [a \in Auths |-> {}] /\ KeyAsks = [a \in Auths |-> {}]
  <2>1. \A a \in Auths : CreditAsked(a, delivery, auth[a].snapshot) = {}
                         /\ KeyAsked(a, delivery, auth[a].snapshot) = {}
    <3> SUFFICES ASSUME NEW a \in Auths
                 PROVE  CreditAsked(a, delivery, auth[a].snapshot) = {}
                        /\ KeyAsked(a, delivery, auth[a].snapshot) = {}
      OBVIOUS
    <3>1. {e \in Deliveries : delivery[e].auth = a /\ delivery[e].kind = "settle"} = {}
      BY <1>2
    <3>2. auth[a].snapshot = 0
      BY DEF Init
    <3>3. {x \in Snapshots : x <= auth[a].snapshot} = {}
      <4>1. \A x \in Snapshots : ~(x <= 0)
        BY SnapshotsAssumption
      <4> QED BY <3>2, <4>1
    <3> QED BY <3>1, <3>3 DEF CreditAsked, KeyAsked
  <2> QED BY <2>1, AsksAre
<1>4. Refunds = {}
  BY <1>2 DEF Refunds
<1>5. Promises = [a \in Auths |-> None]
  <2>1. \A a \in Auths, k \in Kinds : row[<<a, k>>].status = None
    BY DEF Init, NoRow
  <2>2. \A a \in Auths : PromiseIn(row, a) = None
    BY <2>1 DEF PromiseIn, PromiseWith, Kinds, None
  <2> QED BY <2>2, PromisesAre
<1>6. credit.usage = 0 /\ credit.reserved = 0 /\ key.usage + key.byok = 0 /\ key.reserved = 0
  BY DEF Init
<1> QED BY <1>1, <1>3, <1>4, <1>5, <1>6 DEF Credit!Init, Key!Init, None

\* The books of the workspace and of the key refine ChargeOnce: whichever of
\* the settle route, the drain and the reaper settles an authorization, it is
\* charged once, by what was asked for, and an intent is done only once its
\* hold is decided.
THEOREM BooksChargeOnce == Spec => ChargedOnce
<1>1. Inv /\ Inv' /\ [Next]_vars => [Credit!Next]_Credit!vars /\ [Key!Next]_Key!vars
  BY NextRefines DEF Refined
<1> QED BY <1>1, InitRefines, InvCorrect, PTL DEF Spec, ChargedOnce, Credit!Spec, Key!Spec

=============================================================================
