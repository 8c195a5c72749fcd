----------------------------- MODULE Settlement -----------------------------
(***************************************************************************)
(* The control plane's settlement of a gateway authorization on Spanner.    *)
(*                                                                          *)
(* A gateway authorization holds credit and key room in one transaction;    *)
(* the enclave then delivers its terminal (a settle at a price, or a        *)
(* refund), perhaps several times.  Each delivery runs the settle route:    *)
(* one commit that charges and records the intent together, else a durable  *)
(* intent in tr_settle_outbox followed by an inline finalize.  Drain        *)
(* workers lease and apply the intents left pending; the reaper ends the    *)
(* holds that expire; Spanner's TTL deletes records once armed.             *)
(*                                                                          *)
(* Each transaction is one step, as Spanner serializes it; what a process   *)
(* does between two of its transactions is in its own record.  A commit     *)
(* whose outcome is unknown to its caller is a step that commits and a      *)
(* caller that goes on as if it had not.                                    *)
(*                                                                          *)
(* Time is what the code compares it with: a reservation is expired or not, *)
(* a lease is lapsed or not, a pending row is due whenever a worker looks.  *)
(***************************************************************************)
EXTENDS Integers, FiniteSets

CONSTANTS
  Auths,           \* gateway authorizations of one workspace and one key
  Deliveries,      \* deliveries of a terminal by the enclave
  Workers,         \* the drain's workers
  Holds,           \* [credit, key]: what an authorization may hold
  Terminals,       \* [kind, cost, byok]: what a delivery may ask for
  Snapshots,       \* the running charges a stream's heartbeat may report
  Credits,         \* the workspace's total_credits
  KeyLimit,        \* the key's limit
  MaxAttempts,     \* failed applies before a row is dead (8 in the code)
  InCommit,        \* the authorizations settled where the activity row
                   \* commits with the money
  BooksSnapshots,  \* the reaper charges a started stream at its snapshot
  MaxFaults        \* bound: store errors, lost processes, stalled workers

ASSUME HoldsAssumption == Holds \subseteq [credit : Nat, key : Nat]
ASSUME TerminalsAssumption ==
  Terminals \subseteq [kind : {"settle", "refund"}, cost : Nat, byok : BOOLEAN]
ASSUME SnapshotsAssumption == Snapshots \subseteq Nat \ {0}
ASSUME LimitsAssumption == Credits \in Nat /\ KeyLimit \in Nat
ASSUME MaxAttemptsAssumption == MaxAttempts \in Nat \ {0}
ASSUME SwitchesAssumption ==
  InCommit \subseteq Auths /\ BooksSnapshots \in BOOLEAN
ASSUME MaxFaultsAssumption == MaxFaults \in Nat

VARIABLES
  credit,          \* tr_credit_balance: usage and reserved
  key,             \* tr_key_limit: usage, byok and reserved
  res,             \* tr_reservation, one to an authorization
  auth,            \* tr_gateway_authorization
  row,             \* tr_settle_outbox, by authorization and kind
  generation,      \* whose figures each authorization's generation has
  delivery,        \* the settle route, one run to a delivery
  worker,          \* the drain, one row at a time to a worker
  faults

money == <<credit, key>>
records == <<res, auth, generation>>
processes == <<delivery, worker>>
vars == <<money, records, row, processes, faults>>

-----------------------------------------------------------------------------
(* State.                                                                   *)

Kinds == {"settle", "refund"}
Other(k) == IF k = "settle" THEN "refund" ELSE "settle"
None == "none"
ASSUME AuthsAssumption == None \notin Auths

\* The statuses that freeze a hold.
GuardStatuses == {"pending", "dead"}

Costs == {t.cost : t \in Terminals}
Charges == Costs \union Snapshots \union {0}

Reservation ==
  [state : {None, "open", "settled", "deleted"}, credit : Nat, key : Nat,
   actual : Nat, byok : BOOLEAN, armed : BOOLEAN, expired : BOOLEAN]

Authorization ==
  [state : {None, "live", "settled", "deleted"}, armed : BOOLEAN,
   outcome : {None, "settled", "refunded", "reaped_snapshot"},
   snapshot : Nat]

OutboxRow ==
  [status : {None, "pending", "done", "dead", "release_approved"},
   cost : Nat, byok : BOOLEAN, owner : Workers \union {None},
   lapsed : BOOLEAN, attempts : 0 .. MaxAttempts]

Delivery ==
  [pc : {"idle", "commit", "insert", "refresh", "finalize", "mark", "read",
         "answered"},
   auth : Auths \union {None}, kind : Kinds, cost : Nat, byok : BOOLEAN,
   transient : BOOLEAN, inflight : BOOLEAN,
   answer : {None, "finalized", "already_settled", "intent_durable",
             "not_found", "unavailable", "lost"}]

Outcomes ==
  {None, "settled_now", "already_settled_with_charge",
   "resolved_zero_cost_elsewhere", "already_released_free",
   "reaped_snapshot", "reservation_missing", "invalid_row",
   "activity_pending", "park", "error"}

Worker ==
  [pc : {"idle", "due", "claimed", "checked", "applied"},
   auth : Auths \union {None}, kind : Kinds, cost : Nat, byok : BOOLEAN,
   outcome : Outcomes]

\* The types: a row's attempts and leases, and what each delivery and worker
\* holds of it, stay within the states the code writes.
TypeOK ==
  /\ credit \in [usage : Nat, reserved : Nat]
  /\ key \in [usage : Nat, byok : Nat, reserved : Nat]
  /\ res \in [Auths -> Reservation]
  /\ auth \in [Auths -> Authorization]
  /\ row \in [Auths \X Kinds -> OutboxRow]
  /\ generation \in [Auths -> {None, "terminal", "heartbeat"}]
  /\ delivery \in [Deliveries -> Delivery]
  /\ worker \in [Workers -> Worker]
  /\ faults \in 0 .. MaxFaults

NoRow ==
  [status |-> None, cost |-> 0, byok |-> FALSE, owner |-> None,
   lapsed |-> FALSE, attempts |-> 0]

Idle ==
  [pc |-> "idle", auth |-> None, kind |-> "settle", cost |-> 0,
   byok |-> FALSE, outcome |-> None]

Init ==
  /\ credit = [usage |-> 0, reserved |-> 0]
  /\ key = [usage |-> 0, byok |-> 0, reserved |-> 0]
  /\ res = [a \in Auths |->
       [state |-> None, credit |-> 0, key |-> 0, actual |-> 0, byok |-> FALSE,
        armed |-> FALSE, expired |-> FALSE]]
  /\ auth = [a \in Auths |->
       [state |-> None, armed |-> FALSE, outcome |-> None, snapshot |-> 0]]
  /\ row = [p \in Auths \X Kinds |-> NoRow]
  /\ generation = [a \in Auths |-> None]
  /\ delivery = [d \in Deliveries |->
       [pc |-> "idle", auth |-> None, kind |-> "settle", cost |-> 0,
        byok |-> FALSE, transient |-> FALSE, inflight |-> FALSE,
        answer |-> None]]
  /\ worker = [w \in Workers |-> Idle]
  /\ faults = 0

Fault == faults < MaxFaults /\ faults' = faults + 1

-----------------------------------------------------------------------------
(* What the transactions are made of.                                       *)

\* claim_reservation wins on an open reservation whose authorization is live.
Claimable(a) == res[a].state = "open" /\ auth[a].state = "live"

\* The releases' row counts: both counters still cover the exact hold.
Covered(a) ==
  credit.reserved >= res[a].credit /\ key.reserved >= res[a].key

\* release_credit, only for a reservation that holds credit, then release_key.
Book(a, x, byok) ==
  /\ credit' = IF res[a].credit = 0 THEN credit ELSE
       [usage |-> credit.usage + (IF byok THEN 0 ELSE x),
        reserved |-> credit.reserved - res[a].credit]
  /\ key' = [usage |-> key.usage + (IF byok THEN 0 ELSE x),
             byok |-> key.byok + (IF byok THEN x ELSE 0),
             reserved |-> key.reserved - res[a].key]

\* A terminal of this kind, settled where it is, leaves nothing to index after its commit.
Durable(x) == x.auth \in InCommit \/ x.kind = "refund"

\* Mutant: a lapsed lease that is never taken over.
UnleasedOnce(r) == r.owner = None

Unleased(r) == r.owner = None \/ r.lapsed
Pending(p) == row[p].status = "pending"
Guarded(rows, a) == \E k \in Kinds : rows[<<a, k>>].status \in GuardStatuses

Settled(a, x, byok) ==
  [res[a] EXCEPT !.state = "settled", !.actual = x, !.byok = byok]
SettledAuth(a, outcome) ==
  [auth[a] EXCEPT !.state = "settled", !.outcome = outcome]

\* Mutant: the retention without its look at the sibling's intent.
DoneArmedAlone(rec, rows, a, k) == rec.armed \/ rec.state = "settled"

\* done_retention_statements: with a sibling outstanding the record is
\* disarmed; else a settled record with nothing outstanding is armed.
DoneArmed(rec, rows, a, k) ==
  IF rows[<<a, Other(k)>>].status \in GuardStatuses THEN FALSE
  ELSE rec.armed \/ (rec.state = "settled" /\ ~Guarded(rows, a))

Resolved(p, attempts) ==
  [row[p] EXCEPT !.status = "done", !.owner = None, !.lapsed = FALSE,
                 !.attempts = attempts]

\* The done mark and its retention, on the records r and g of the commit.
MarkDone(a, k, rows, r, g) ==
  /\ row' = rows
  /\ res' = [res EXCEPT ![a] = [r EXCEPT !.armed = DoneArmed(r, rows, a, k)]]
  /\ auth' = [auth EXCEPT ![a] = [g EXCEPT !.armed = DoneArmed(g, rows, a, k)]]

\* _defer_retention: both records are disarmed.
DeferRetention(a) ==
  /\ res' = [res EXCEPT ![a].armed = FALSE]
  /\ auth' = [auth EXCEPT ![a].armed = FALSE]

-----------------------------------------------------------------------------
(* The authorization, its heartbeats and its expiry.                        *)

Authorize(a, h) ==
  /\ res[a].state = None
  /\ credit.usage + credit.reserved + h.credit <= Credits
  /\ key.usage + key.reserved + h.key <= KeyLimit
  /\ credit' = [credit EXCEPT !.reserved = @ + h.credit]
  /\ key' = [key EXCEPT !.reserved = @ + h.key]
  /\ res' = [res EXCEPT ![a].state = "open", ![a].credit = h.credit,
                        ![a].key = h.key]
  /\ auth' = [auth EXCEPT ![a].state = "live"]
  /\ UNCHANGED <<row, generation, processes, faults>>

\* Only a request whose every endpoint bills credit is priced for heartbeats;
\* one of a key's own is out of the cohort.
Heartbeat(a, x) ==
  /\ Claimable(a) /\ res[a].credit > 0
  /\ x > auth[a].snapshot
  /\ auth' = [auth EXCEPT ![a].snapshot = x]
  /\ res' = [res EXCEPT ![a].expired = FALSE]
  /\ UNCHANGED <<money, row, generation, processes, faults>>

Expire(a) ==
  /\ res[a].state = "open" /\ ~res[a].expired
  /\ res' = [res EXCEPT ![a].expired = TRUE]
  /\ UNCHANGED <<money, auth, row, generation, processes, faults>>

-----------------------------------------------------------------------------
(* The settle route, one run to a delivery.                                 *)

\* The key of a delivery's intent.
Of(x) == <<x.auth, x.kind>>
Actual(x) == IF x.kind = "settle" THEN x.cost ELSE 0
Outcome(x) == IF x.kind = "settle" THEN "settled" ELSE "refunded"
Written(x) ==
  [generation EXCEPT ![x.auth] = IF x.kind = "settle" THEN "terminal" ELSE @]
Intent(x) ==
  [NoRow EXCEPT !.status = "pending", !.cost = x.cost, !.byok = x.byok]

To(d, pc) == delivery' = [delivery EXCEPT ![d].pc = pc]
Answer(d, answer) ==
  delivery' = [delivery EXCEPT ![d].pc = "answered", ![d].answer = answer]

Receive(d, a, t) ==
  /\ delivery[d].pc = "idle" /\ auth[a].state # None
  /\ res[a].credit = 0 => t.byok
  /\ LET asked == [delivery[d] EXCEPT !.auth = a, !.kind = t.kind,
                                      !.cost = t.cost, !.byok = t.byok]
     IN  delivery' = [delivery EXCEPT ![d] =
           CASE auth[a].state = "live" -> [asked EXCEPT !.pc = "commit"]
             [] auth[a].state = "settled" ->
                  [asked EXCEPT !.pc = "answered", !.answer = "already_settled"]
             [] auth[a].state = "deleted" ->
                  [asked EXCEPT !.pc = "answered", !.answer = "not_found"]]
  /\ UNCHANGED <<money, records, row, worker, faults>>

\* The one-commit settle applies, and nothing it asserts is in its way.
OneCommits(x) ==
  /\ Durable(x)
  /\ Claimable(x.auth) /\ Covered(x.auth)
  /\ row[Of(x)].status = None

\* Its commit: the claim, the mark, the intent already done, the releases.
CommitOne(x) ==
  /\ OneCommits(x)
  /\ Book(x.auth, Actual(x), x.byok)
  /\ generation' = Written(x)
  /\ MarkDone(x.auth, x.kind,
       [row EXCEPT ![Of(x)] = [Intent(x) EXCEPT !.status = "done", !.attempts = 1]],
       Settled(x.auth, Actual(x), x.byok), SettledAuth(x.auth, Outcome(x)))

OneCommit(d) ==
  /\ delivery[d].pc = "commit"
  /\ CommitOne(delivery[d])
  /\ \/ Answer(d, "finalized") /\ UNCHANGED faults
     \/ Fault /\ \E t \in BOOLEAN :
          delivery' = [delivery EXCEPT ![d].pc = "insert", ![d].transient = t]
  /\ UNCHANGED worker

OneCommitDeclined(d) ==
  /\ delivery[d].pc = "commit" /\ ~OneCommits(delivery[d])
  /\ To(d, "insert")
  /\ UNCHANGED <<money, records, row, worker, faults>>

\* The attempt failed; where its commit was sent, it may still land.
OneCommitFails(d) ==
  /\ delivery[d].pc = "commit" /\ Durable(delivery[d]) /\ Fault
  /\ \E t \in BOOLEAN, f \in BOOLEAN :
       delivery' = [delivery EXCEPT ![d].pc = "insert", ![d].transient = t,
                                    ![d].inflight = f]
  /\ UNCHANGED <<money, records, row, worker>>

LateCommit(d) ==
  /\ delivery[d].inflight
  /\ CommitOne(delivery[d])
  /\ delivery' = [delivery EXCEPT ![d].inflight = FALSE]
  /\ UNCHANGED <<worker, faults>>

\* SpannerSettleOutbox.enqueue's first transaction: the row is the claim.  An
\* intent inserted after a contended one-commit is left to the drain.
Insert(d) ==
  LET x == delivery[d] IN
  /\ x.pc = "insert" /\ row[Of(x)].status = None
  /\ row' = [row EXCEPT ![Of(x)] = Intent(x)]
  /\ DeferRetention(x.auth)
  /\ \/ x.transient /\ Answer(d, "intent_durable") /\ UNCHANGED faults
     \/ ~x.transient /\ To(d, "finalize") /\ UNCHANGED faults
     \/ Answer(d, "unavailable") /\ Fault
  /\ UNCHANGED <<money, generation, worker>>

InsertExists(d) ==
  /\ delivery[d].pc = "insert" /\ row[Of(delivery[d])].status # None
  /\ To(d, "refresh")
  /\ UNCHANGED <<money, records, row, worker, faults>>

\* Its second: a pending row no worker holds takes this delivery's inputs.
Refresh(d) ==
  LET x == delivery[d] IN
  /\ x.pc = "refresh"
  /\ IF Pending(Of(x)) /\ Unleased(row[Of(x)])
     THEN /\ row' = [row EXCEPT ![Of(x)].cost = x.cost, ![Of(x)].byok = x.byok]
          /\ DeferRetention(x.auth)
     ELSE UNCHANGED <<row, res, auth>>
  /\ To(d, "finalize")
  /\ UNCHANGED <<money, generation, worker, faults>>

EnqueueFails(d) ==
  /\ delivery[d].pc \in {"insert", "refresh"} /\ Fault
  /\ Answer(d, "unavailable")
  /\ UNCHANGED <<money, records, row, worker>>

\* The inline finalize's commit; it resolves the delivery's intent with the
\* money when the row is pending and no worker holds it.
CommitFinalize(x, marks) ==
  LET r == Settled(x.auth, Actual(x), x.byok)
      g == SettledAuth(x.auth, Outcome(x))
  IN
  /\ Claimable(x.auth) /\ Covered(x.auth)
  /\ Book(x.auth, Actual(x), x.byok)
  /\ IF marks /\ Pending(Of(x)) /\ row[Of(x)].owner = None
     THEN MarkDone(x.auth, x.kind,
            [row EXCEPT ![Of(x)] = Resolved(Of(x), @.attempts + 1)], r, g)
     ELSE /\ res' = [res EXCEPT ![x.auth] = r]
          /\ auth' = [auth EXCEPT ![x.auth] = g]
          /\ UNCHANGED row

Finalize(d) ==
  LET x == delivery[d] IN
  /\ x.pc = "finalize"
  /\ CommitFinalize(x, Durable(x))
  /\ generation' = IF Durable(x) THEN Written(x) ELSE generation
  /\ \/ Durable(x) /\ Answer(d, "finalized") /\ UNCHANGED faults
     \/ ~Durable(x) /\ To(d, "mark") /\ UNCHANGED faults
     \/ Answer(d, "intent_durable") /\ Fault
  /\ UNCHANGED worker

\* Mutant: a lost claim answered as if it had been won.
FinalizeLostAnswers(d) ==
  /\ delivery[d].pc = "finalize" /\ ~Claimable(delivery[d].auth)
  /\ Answer(d, "finalized")
  /\ UNCHANGED <<money, records, row, worker, faults>>

FinalizeLost(d) ==
  /\ delivery[d].pc = "finalize" /\ ~Claimable(delivery[d].auth)
  /\ To(d, "read")
  /\ UNCHANGED <<money, records, row, worker, faults>>

FinalizeFails(d) ==
  /\ delivery[d].pc = "finalize" /\ Fault
  /\ Answer(d, "intent_durable")
  /\ UNCHANGED <<money, records, row, worker>>

\* A finalize whose activity is indexed after its commit: the index, then the
\* done mark.  Where the index fails, the row is left to the drain's repair.
MarkIntent(d) ==
  LET x == delivery[d] IN
  /\ x.pc = "mark"
  /\ \/ /\ Pending(Of(x)) /\ row[Of(x)].owner = None
        /\ MarkDone(x.auth, x.kind,
             [row EXCEPT ![Of(x)] = Resolved(Of(x), @.attempts + 1)],
             res[x.auth], auth[x.auth])
        /\ generation' = Written(x) /\ UNCHANGED faults
     \/ /\ ~(Pending(Of(x)) /\ row[Of(x)].owner = None)
        /\ generation' = Written(x) /\ UNCHANGED <<row, res, auth, faults>>
     \/ Fault /\ generation' \in {generation, Written(x)}
          /\ UNCHANGED <<row, res, auth>>
  /\ Answer(d, "finalized")
  /\ UNCHANGED <<money, worker>>

ReadBack(d) ==
  /\ delivery[d].pc = "read"
  /\ Answer(d, IF auth[delivery[d].auth].state = "settled"
               THEN "already_settled" ELSE "intent_durable")
  /\ UNCHANGED <<money, records, row, worker, faults>>

\* The enclave hears no answer: the process died, or the budget ran out.
LoseDelivery(d) ==
  /\ delivery[d].pc \notin {"idle", "answered"} /\ Fault
  /\ Answer(d, "lost")
  /\ UNCHANGED <<money, records, row, worker>>

-----------------------------------------------------------------------------
(* The drain, one row at a time to a worker.                                *)

\* due reads the row's inputs; claim leases it and keeps those inputs.
Due(w, p) ==
  /\ worker[w].pc = "idle" /\ Pending(p) /\ Unleased(row[p])
  /\ worker' = [worker EXCEPT ![w] =
       [pc |-> "due", auth |-> p[1], kind |-> p[2], cost |-> row[p].cost,
        byok |-> row[p].byok, outcome |-> None]]
  /\ UNCHANGED <<money, records, row, delivery, faults>>

Claim(w) ==
  LET p == Of(worker[w]) IN
  /\ worker[w].pc = "due"
  /\ IF Pending(p) /\ Unleased(row[p])
     THEN /\ row' = [row EXCEPT ![p].owner = w, ![p].lapsed = FALSE]
          /\ worker' = [worker EXCEPT ![w].pc = "claimed"]
     ELSE worker' = [worker EXCEPT ![w] = Idle] /\ UNCHANGED row
  /\ UNCHANGED <<money, records, delivery, faults>>

Owns(w) == Pending(Of(worker[w])) /\ row[Of(worker[w])].owner = w
Applied(w, outcome) ==
  worker' = [worker EXCEPT ![w].pc = "applied", ![w].outcome = outcome]

\* A claim made after the pass's budget ran out is handed back.
ReleaseClaim(w) ==
  LET p == Of(worker[w]) IN
  /\ worker[w].pc = "claimed" /\ Fault
  /\ row' = IF Owns(w)
            THEN [row EXCEPT ![p].owner = None, ![p].lapsed = FALSE] ELSE row
  /\ worker' = [worker EXCEPT ![w] = Idle]
  /\ UNCHANGED <<money, records, delivery>>

\* apply_frozen_settle's read of the authorization, before it finalizes.
Check(w) ==
  LET g == auth[worker[w].auth] IN
  /\ worker[w].pc = "claimed"
  /\ \/ g.state = "deleted" /\ Applied(w, "reservation_missing")
     \/ g.outcome = "reaped_snapshot" /\ g.state = "settled"
          /\ Applied(w, "reaped_snapshot")
     \/ g.outcome # "reaped_snapshot" /\ g.state # "deleted"
          /\ worker' = [worker EXCEPT ![w].pc = "checked"]
  /\ UNCHANGED <<money, records, row, delivery, faults>>

CheckFails(w) ==
  /\ worker[w].pc = "claimed" /\ Fault
  /\ \E o \in {"park", "invalid_row"} : Applied(w, o)
  /\ UNCHANGED <<money, records, row, delivery>>

\* The drain's finalize: the worker's copy of the row's cost is charged, and
\* the row is left for Resolve.  The commit may be reported as a store error.
ApplyWins(w) ==
  LET x == worker[w] IN
  /\ x.pc = "checked"
  /\ CommitFinalize(x, FALSE)
  /\ \/ Applied(w, "settled_now") /\ generation' = Written(x) /\ UNCHANGED faults
     \/ ~Durable(x) /\ Applied(w, "activity_pending") /\ Fault
          /\ UNCHANGED generation
     \/ /\ Applied(w, "park") /\ Fault
        /\ generation' = IF Durable(x) THEN Written(x) ELSE generation
  /\ UNCHANGED delivery

\* The claim was lost: what the reservation booked tells a charged replay
\* from a hold that was released free.
LostOutcome(x) ==
  IF res[x.auth].state = "deleted" THEN "reservation_missing"
  ELSE IF res[x.auth].actual > 0 THEN "already_settled_with_charge"
  ELSE IF x.cost = 0 THEN "resolved_zero_cost_elsewhere"
  ELSE "already_released_free"

\* A settle that finds a charge, or none to make, repairs its activity row.
Repairs(x) ==
  x.kind = "settle" /\ LostOutcome(x) \in
    {"already_settled_with_charge", "resolved_zero_cost_elsewhere"}

ApplyLost(w) ==
  LET x == worker[w] IN
  /\ x.pc = "checked" /\ ~Claimable(x.auth)
  /\ \/ /\ Applied(w, LostOutcome(x))
        /\ generation' = IF Repairs(x) THEN Written(x) ELSE generation
        /\ UNCHANGED faults
     \/ Repairs(x) /\ Applied(w, "activity_pending") /\ Fault
          /\ UNCHANGED generation
  /\ UNCHANGED <<money, res, auth, row, delivery>>

ApplyFails(w) ==
  /\ worker[w].pc = "checked"
  /\ IF Claimable(worker[w].auth) /\ ~Covered(worker[w].auth)
     THEN UNCHANGED faults ELSE Fault
  /\ \E o \in {"park", "error"} : Applied(w, o)
  /\ UNCHANGED <<money, records, row, delivery>>

DoneOutcomes ==
  {"settled_now", "already_settled_with_charge", "reaped_snapshot",
   "resolved_zero_cost_elsewhere"}
DeadOutcomes == {"reservation_missing", "invalid_row"}

\* _resolve_row's verdict on the worker's outcome.
Verdict(x) ==
  CASE x.outcome \in DoneOutcomes -> {"done"}
    [] x.outcome \in DeadOutcomes -> {"dead"}
    [] x.outcome = "already_released_free" ->
         {IF x.kind = "settle" THEN "dead" ELSE "done"}
    [] x.outcome = "activity_pending" -> {"park", "dead"}
    [] x.outcome = "park" -> {"park"}
    [] x.outcome = "error" -> {"retry"}

\* A row that failed as often as it may is dead.
Exhausted(attempts) == attempts >= MaxAttempts

\* mark and park: only the row's pending owner resolves it.
Resolve(w) ==
  LET x == worker[w]
      p == Of(x)
      freed == [row[p] EXCEPT !.owner = None, !.lapsed = FALSE]
      next == row[p].attempts + 1
  IN
  /\ x.pc = "applied"
  /\ worker' = [worker EXCEPT ![w] = Idle]
  /\ IF Owns(w)
     THEN \E v \in Verdict(x) :
       CASE v = "done" ->
              MarkDone(x.auth, x.kind, [row EXCEPT ![p] = Resolved(p, next)],
                       res[x.auth], auth[x.auth])
         [] v = "park" ->
              row' = [row EXCEPT ![p] = freed] /\ DeferRetention(x.auth)
         [] v = "dead" \/ (v = "retry" /\ Exhausted(next)) ->
              /\ row' = [row EXCEPT ![p] =
                   [freed EXCEPT !.status = "dead", !.attempts = next]]
              /\ DeferRetention(x.auth)
         [] v = "retry" /\ ~Exhausted(next) ->
              /\ row' = [row EXCEPT ![p] = [freed EXCEPT !.attempts = next]]
              /\ DeferRetention(x.auth)
     ELSE UNCHANGED <<row, res, auth>>
  /\ UNCHANGED <<money, generation, delivery, faults>>

\* The process dies, or the row is deferred: its lease runs out.
LoseWorker(w) ==
  /\ worker[w].pc # "idle" /\ Fault
  /\ worker' = [worker EXCEPT ![w] = Idle]
  /\ UNCHANGED <<money, records, row, delivery>>

\* A lease runs out; under a worker still at its row, the worker stalled.
LapseLease(p) ==
  LET r == row[p] IN
  /\ Pending(p) /\ r.owner # None /\ ~r.lapsed
  /\ IF worker[r.owner].pc # "idle" /\ Of(worker[r.owner]) = p
     THEN Fault ELSE UNCHANGED faults
  /\ row' = [row EXCEPT ![p].lapsed = TRUE]
  /\ UNCHANGED <<money, records, processes>>

-----------------------------------------------------------------------------
(* The reaper, a person's approval of a frozen hold, and Spanner's TTL.     *)

SnapshotBooked(a) == BooksSnapshots /\ auth[a].snapshot > 0

\* Mutant: an open intent does not keep the reaper off.
ReapableAnyway(a) == Claimable(a) /\ res[a].expired

\* The reap's claim: past its expiry, and with no intent that guards the hold.
Reapable(a) == Claimable(a) /\ res[a].expired /\ ~Guarded(row, a)

Reap(a) ==
  LET x == IF SnapshotBooked(a) THEN auth[a].snapshot ELSE 0
      outcome == IF SnapshotBooked(a) THEN "reaped_snapshot" ELSE "refunded"
  IN
  /\ Reapable(a) /\ Covered(a)
  /\ Book(a, x, FALSE)
  /\ res' = [res EXCEPT ![a] = [Settled(a, x, FALSE) EXCEPT !.armed = TRUE]]
  /\ auth' = [auth EXCEPT ![a] = [SettledAuth(a, outcome) EXCEPT !.armed = TRUE]]
  /\ generation' = [generation EXCEPT ![a] =
       IF SnapshotBooked(a) THEN "heartbeat" ELSE @]
  /\ UNCHANGED <<row, processes, faults>>

\* No process that read the authorization before is still at work on it: a
\* person, and the 30 days of the TTL, come long after a request or a pass.
Quiet(a) ==
  /\ \A d \in Deliveries : delivery[d].auth = a =>
       delivery[d].pc = "answered" /\ ~delivery[d].inflight
  /\ \A w \in Workers : worker[w].auth = a => worker[w].pc = "idle"

ApproveRelease(p) ==
  /\ row[p].status = "dead" /\ Quiet(p[1])
  /\ row' = [row EXCEPT ![p].status = "release_approved"]
  /\ UNCHANGED <<money, records, processes, faults>>

DeleteReservation(a) ==
  /\ res[a].state = "settled" /\ res[a].armed /\ Quiet(a)
  /\ res' = [res EXCEPT ![a].state = "deleted"]
  /\ UNCHANGED <<money, auth, row, generation, processes, faults>>

DeleteAuthorization(a) ==
  /\ auth[a].state = "settled" /\ auth[a].armed /\ Quiet(a)
  /\ auth' = [auth EXCEPT ![a].state = "deleted"]
  /\ UNCHANGED <<money, res, row, generation, processes, faults>>

-----------------------------------------------------------------------------

Authorizing(a) ==
  \/ \E h \in Holds : Authorize(a, h)
  \/ \E x \in Snapshots : Heartbeat(a, x)
  \/ Expire(a) \/ Reap(a)
  \/ DeleteReservation(a) \/ DeleteAuthorization(a)

Settling(d) ==
  \/ \E a \in Auths, t \in Terminals : Receive(d, a, t)
  \/ OneCommit(d) \/ OneCommitDeclined(d) \/ OneCommitFails(d) \/ LateCommit(d)
  \/ Insert(d) \/ InsertExists(d) \/ Refresh(d) \/ EnqueueFails(d)
  \/ Finalize(d) \/ FinalizeLost(d) \/ FinalizeFails(d)
  \/ MarkIntent(d) \/ ReadBack(d) \/ LoseDelivery(d)

\* What a worker does of its own accord, no store or process failing.
Draining(w) ==
  \/ \E p \in Auths \X Kinds : Due(w, p)
  \/ Claim(w) \/ Check(w) \/ ApplyWins(w) \/ ApplyLost(w) \/ Resolve(w)

DrainFails(w) ==
  ReleaseClaim(w) \/ CheckFails(w) \/ ApplyFails(w) \/ LoseWorker(w)

Next ==
  \/ \E a \in Auths : Authorizing(a)
  \/ \E d \in Deliveries : Settling(d)
  \/ \E w \in Workers : Draining(w) \/ DrainFails(w)
  \/ \E p \in Auths \X Kinds : LapseLease(p) \/ ApproveRelease(p)

Spec == Init /\ [][Next]_vars

\* The drain runs every few seconds, and a lease runs out whatever happens.
Fairness ==
  /\ \A w \in Workers : WF_vars(Draining(w))
  /\ \A p \in Auths \X Kinds : WF_vars(LapseLease(p))
FairSpec == Spec /\ Fairness

-----------------------------------------------------------------------------
(* Properties.                                                              *)

Decided(a) == res[a].state \in {"settled", "deleted"}

\* The sum of a function's values, which are small naturals here.
Sum(f) == Cardinality(UNION {{x} \X (1 .. f[x]) : x \in DOMAIN f})

\* A pending or dead intent keeps its evidence: its reservation and its
\* authorization are there, and no deletion of them is armed.  A stream the
\* reaper charged at its snapshot keeps the snapshot's generation: no late
\* intent's repair writes over it.
EvidenceIsKept ==
  \A a \in Auths :
    /\ Guarded(row, a) =>
         /\ res[a].state \in {"open", "settled"} /\ ~res[a].armed
         /\ auth[a].state \in {"live", "settled"} /\ ~auth[a].armed
    /\ auth[a].outcome = "reaped_snapshot" => generation[a] = "heartbeat"

\* What the enclave was told is so: a finalized answer is the decision the
\* records hold, and an intent_durable answer left an intent or a decision.
AnswersAreTrue ==
  \A d \in Deliveries :
    LET x == delivery[d] IN
    /\ x.answer = "finalized" =>
         Decided(x.auth) /\ res[x.auth].actual = Actual(x)
           /\ res[x.auth].byok = x.byok
    /\ x.answer = "intent_durable" =>
         Decided(x.auth) \/ row[Of(x)].status \notin {None, "done"}

\* What an authorization was asked to pay, its settles' costs and its
\* heartbeats' snapshots.
Asks(a, costOf(_)) ==
  {costOf(delivery[d]) : d \in {e \in Deliveries :
     delivery[e].auth = a /\ delivery[e].kind = "settle"}}
  \union {x \in Snapshots : x <= auth[a].snapshot}

AccountOf(a, hold, charge) ==
  [state |-> CASE res[a].state = None -> None
               [] res[a].state = "open" -> "held"
               [] OTHER -> "decided",
   hold |-> hold, charge |-> charge]

PromiseOf(a) ==
  LET has(status) == \E k \in Kinds : row[<<a, k>>].status = status IN
  CASE has("pending") -> "open"
    [] ~has("pending") /\ has("dead") -> "frozen"
    [] ~Guarded(row, a) /\ has("release_approved") -> "waived"
    [] OTHER -> "none"

OfCredit(x) == IF x.byok THEN 0 ELSE x.cost
Refunds == {a \in Auths : \E d \in Deliveries :
              delivery[d].auth = a /\ delivery[d].kind = "refund"}

CreditAccounts ==
  [a \in Auths |-> AccountOf(a, res[a].credit, IF res[a].byok THEN 0 ELSE res[a].actual)]
CreditAsks == [a \in Auths |-> Asks(a, OfCredit)]
Promises == [a \in Auths |-> PromiseOf(a)]

Credit == INSTANCE ChargeOnce WITH
  Amounts <- Charges \union {h.credit : h \in Holds},
  account <- CreditAccounts, asked <- CreditAsks, refunds <- Refunds,
  promise <- Promises, spent <- credit.usage, reserved <- credit.reserved

OfKey(x) == x.cost

KeyAccounts == [a \in Auths |-> AccountOf(a, res[a].key, res[a].actual)]
KeyAsks == [a \in Auths |-> Asks(a, OfKey)]

Key == INSTANCE ChargeOnce WITH
  Amounts <- Charges \union {h.key : h \in Holds},
  account <- KeyAccounts, asked <- KeyAsks, refunds <- Refunds,
  promise <- Promises, spent <- key.usage + key.byok, reserved <- key.reserved

\* The books refine ChargeOnce, the workspace's credit and the key's, a BYOK
\* request's charge included: an authorization is charged once, by what was
\* asked for, whichever of the route, the drain and the reaper settles it,
\* and an intent is done only once its hold is decided.
ChargedOnce == Credit!Spec /\ Key!Spec

\* An intent the enclave was told is durable is in the end decided, or its
\* row is dead and a person's: no delivery, lapse or replay leaves it
\* pending for ever.
PromiseKept ==
  \A d \in Deliveries :
    delivery[d].answer = "intent_durable" ~>
      \A k \in Kinds, a \in Auths :
        delivery[d].auth = a => row[<<a, k>>].status # "pending"

=============================================================================
