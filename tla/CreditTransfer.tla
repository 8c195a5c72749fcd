--------------------------- MODULE CreditTransfer ---------------------------
(***************************************************************************)
(* Moving credit from one plane to another.                                 *)
(*                                                                          *)
(* A plane that holds value debits it into an escrow of its own, then asks  *)
(* the destination for a verdict on the transfer's id and records what it   *)
(* hears.  The destination's claim row is written once, with the credit it  *)
(* stands for.  An operator pushes or cancels; a recovery pass walks the    *)
(* index of open escrows and asks again about each.  A request may be lost, *)
(* or be served after its sender has given up on it; the answer may be      *)
(* lost; the process may die between any two of its steps.                  *)
(*                                                                          *)
(* Each store transaction is one step.  The planes' source labels are set   *)
(* and differ, so a plane is its own label.                                 *)
(***************************************************************************)
EXTENDS Integers, FiniteSets, FiniteSetsExt

CONSTANTS
  Sources,         \* the planes that push credit
  Destinations,    \* the planes a source may be configured to push to
  Workspaces,
  MaxId,           \* transfer ids, in the order of the open index
  Amounts,
  Start,           \* what each workspace has on each source at first
  Operators,       \* processes that push or cancel
  Limit,           \* how many open escrows one page of recovery reads
  Budget,          \* how many one pass of recovery may read (20 pages' worth)
  MaxFaults,       \* bound: lost requests, lost answers, lost processes
  MaxMoves         \* bound: changes of a source's configured destination

ASSUME SourcesAssumption == Sources \cap Destinations = {}
ASSUME AmountsAssumption == Amounts \subseteq Nat \ {0} /\ Start \in Nat
ASSUME IdsAssumption == MaxId \in Nat /\ Limit \in Nat \ {0} /\ Budget \in Nat \ {0}
ASSUME FaultsAssumption == MaxFaults \in Nat /\ MaxMoves \in Nat

VARIABLES
  balance,         \* spendable credit, by plane and workspace
  federated,       \* the workspaces each destination has a balance row for
  transfer,        \* credit_transfer rows, by source and id
  open,            \* credit_transfer_open: the ids in each source's index
  claim,           \* credit_transfer_claim rows, by destination and id
  peer,            \* the destination each source is configured with
  driver,          \* the operators' processes, and each source's recovery
  late,            \* requests whose sender gave up, still on the wire
  faults, moves

books == <<balance, transfer, open, claim>>
vars == <<books, federated, peer, driver, late, faults, moves>>

Ids == 1 .. MaxId
Planes == Sources \union Destinations
Outcomes == {"accepted", "rejected"}
StateFor(outcome) == IF outcome = "accepted" THEN "delivered" ELSE "returned"
None == "none"

NoTransfer == [state |-> None]
NoClaim == [outcome |-> None]

\* What a source asks a destination about one of its transfers.
Request == [id : Ids, workspace : Workspaces, amount : Amounts,
            source : Sources, to : Destinations, asks : Outcomes]

Idle == [pc |-> "idle"]
\* A recovery pass between two transfers: its cursor, its count, its page.
Walking(cursor, scanned, page, to) ==
  [pc |-> "walk", cursor |-> cursor, scanned |-> scanned, page |-> page, to |-> to]

\* The types: no plane spends below zero, and a driver is in one of the steps
\* of a push, a cancel or a pass.
TypeOK ==
  /\ balance \in [Planes \X Workspaces -> Nat]
  /\ federated \in [Destinations -> SUBSET Workspaces]
  /\ \A s \in Sources, i \in Ids :
       transfer[<<s, i>>] \in {NoTransfer} \union
         [state : {"escrowed", "delivered", "returned"}, workspace : Workspaces,
          amount : Amounts, to : Destinations]
  /\ open \in [Sources -> SUBSET Ids]
  /\ \A d \in Destinations, i \in Ids :
       claim[<<d, i>>] \in {NoClaim} \union
         [outcome : Outcomes, workspace : Workspaces, amount : Amounts,
          source : Sources]
  /\ peer \in [Sources -> Destinations]
  /\ \A x \in Operators \union Sources :
       driver[x].pc \in {"idle", "walk", "ask", "record"}
  /\ late \subseteq Request
  /\ faults \in 0 .. MaxFaults /\ moves \in 0 .. MaxMoves

Init ==
  /\ balance = [pw \in Planes \X Workspaces |->
                  IF pw[1] \in Sources THEN Start ELSE 0]
  /\ federated \in [Destinations -> SUBSET Workspaces]
  /\ transfer = [si \in Sources \X Ids |-> NoTransfer]
  /\ open = [s \in Sources |-> {}]
  /\ claim = [di \in Destinations \X Ids |-> NoClaim]
  /\ peer \in [Sources -> Destinations]
  /\ driver = [x \in Operators \union Sources |-> Idle]
  /\ late = {}
  /\ faults = 0 /\ moves = 0

Fault == faults < MaxFaults /\ faults' = faults + 1

-----------------------------------------------------------------------------
(* The drivers.                                                             *)

\* The request about transfer i of plane s, in the row's own terms.
Ask(s, i, to, asks) ==
  [id |-> i, workspace |-> transfer'[<<s, i>>].workspace,
   amount |-> transfer'[<<s, i>>].amount, source |-> s, to |-> to, asks |-> asks]

\* A driver's request in hand, and where the driver goes once it is done: a
\* recovery pass on to its next transfer, an operator's process to its end.
Asking(x, q, then) ==
  driver' = [driver EXCEPT ![x] = [pc |-> "ask", q |-> q, then |-> then]]
Done(x) == driver' = [driver EXCEPT ![x] = driver[x].then]

\* The debit's condition.
Affords(s, w, n) == balance[<<s, w>>] >= n

\* push_credit_transfer's open_credit_transfer, for an id not used before: the
\* conditional debit, the row and its index entry in one transaction.
Open(x, s, i, w, n) ==
  /\ driver[x].pc = "idle" /\ transfer[<<s, i>>].state = None
  /\ Affords(s, w, n)
  /\ balance' = [balance EXCEPT ![<<s, w>>] = @ - n]
  /\ transfer' = [transfer EXCEPT ![<<s, i>>] =
       [state |-> "escrowed", workspace |-> w, amount |-> n, to |-> peer[s]]]
  /\ open' = [open EXCEPT ![s] = @ \union {i}]
  /\ Asking(x, Ask(s, i, peer[s], "accepted"), Idle)
  /\ UNCHANGED <<claim, federated, peer, late, faults, moves>>

\* require_matching_transfer: a used id is a retry in the same terms alone.
SameMove(row, w, n, to) ==
  row.workspace = w /\ row.amount = n /\ row.to = to

\* The same call for a used id.  In other terms it is refused, and once
\* resolved it is answered: neither leaves anything to do.
Reopen(x, s, i, w, n) ==
  /\ driver[x].pc = "idle" /\ transfer[<<s, i>>].state = "escrowed"
  /\ SameMove(transfer[<<s, i>>], w, n, peer[s])
  /\ UNCHANGED books
  /\ Asking(x, Ask(s, i, peer[s], "accepted"), Idle)
  /\ UNCHANGED <<federated, peer, late, faults, moves>>

\* cancel_credit_transfer asks the transfer's own destination to reject it.
MayCancel(s, i) ==
  transfer[<<s, i>>].state = "escrowed" /\ transfer[<<s, i>>].to = peer[s]

Cancel(x, s, i) ==
  /\ driver[x].pc = "idle" /\ MayCancel(s, i)
  /\ UNCHANGED books
  /\ Asking(x, Ask(s, i, peer[s], "rejected"), Idle)
  /\ UNCHANGED <<federated, peer, late, faults, moves>>

-----------------------------------------------------------------------------
(* recover_credit_transfers, one pass at a time to a source.                *)

StartPass(s) ==
  /\ driver[s].pc = "idle"
  /\ driver' = [driver EXCEPT ![s] = Walking(0, 0, {}, peer[s])]
  /\ UNCHANGED <<books, federated, peer, late, faults, moves>>

\* Mutant: a page read from the start of the index every time.
PageFirst(s, cursor) ==
  {i \in open[s] : Cardinality({k \in open[s] : k < i}) < Limit}

\* list_open_credit_transfers: the first Limit ids of the index after cursor.
Page(s, cursor) ==
  {i \in open[s] : i > cursor /\
     Cardinality({k \in open[s] : k > cursor /\ k < i}) < Limit}

NextPage(s) ==
  LET v == driver[s]
      page == Page(s, v.cursor)
  IN
  /\ v.pc = "walk" /\ v.page = {}
  /\ driver' = [driver EXCEPT ![s] =
       IF v.scanned >= Budget \/ page = {} THEN Idle
       ELSE Walking(Max(page), v.scanned + Cardinality(page), page, v.to)]
  /\ UNCHANGED <<books, federated, peer, late, faults, moves>>

\* The page's next transfer: the pass asks about it in the terms it was read
\* with, unless it is held for another destination.
NextTransfer(s) ==
  LET v == driver[s]
      i == Min(v.page)
      rest == [v EXCEPT !.page = @ \ {i}]
  IN
  /\ v.pc = "walk" /\ v.page # {}
  /\ UNCHANGED books
  /\ IF transfer[<<s, i>>].to # v.to THEN driver' = [driver EXCEPT ![s] = rest]
     ELSE Asking(s, Ask(s, i, v.to, "accepted"), rest)
  /\ UNCHANGED <<federated, peer, late, faults, moves>>

-----------------------------------------------------------------------------
(* The destination's verdict.                                               *)

\* Mutant: a claim replayed on its id and amount alone.
SameClaimAnySource(row, q) == row.workspace = q.workspace /\ row.amount = q.amount

\* A claim of this id answers for the move it was written for alone.
SameClaim(row, q) ==
  row.source = q.source /\ row.workspace = q.workspace /\ row.amount = q.amount

\* claim_credit_transfer refuses an id claimed in other terms, and an accept
\* for a workspace with no balance row here: both answer 409, and write nothing.
Refused(q) ==
  IF claim[<<q.to, q.id>>] # NoClaim THEN ~SameClaim(claim[<<q.to, q.id>>], q)
  ELSE q.asks = "accepted" /\ q.workspace \notin federated[q.to]

Verdict(q) ==
  IF claim[<<q.to, q.id>>] # NoClaim THEN claim[<<q.to, q.id>>].outcome ELSE q.asks

\* The insert-once row, and with an accept its credit; a row already there
\* changes nothing.
WriteClaim(q) ==
  IF claim[<<q.to, q.id>>] # NoClaim \/ Refused(q) THEN UNCHANGED <<balance, claim>>
  ELSE /\ claim' = [claim EXCEPT ![<<q.to, q.id>>] =
            [outcome |-> q.asks, workspace |-> q.workspace,
             amount |-> q.amount, source |-> q.source]]
       /\ balance' = IF q.asks = "rejected" THEN balance ELSE
            [balance EXCEPT ![<<q.to, q.workspace>>] = @ + q.amount]

\* The request is sent, and served while its sender waits.
Deliver(x) ==
  LET q == driver[x].q IN
  /\ driver[x].pc = "ask"
  /\ WriteClaim(q)
  /\ \/ ~Refused(q) /\ UNCHANGED faults
          /\ driver' = [driver EXCEPT ![x] =
               [pc |-> "record", then |-> driver[x].then,
                source |-> q.source, id |-> q.id, outcome |-> Verdict(q)]]
     \/ Refused(q) /\ Done(x) /\ UNCHANGED faults
     \/ Fault /\ Done(x)
  /\ UNCHANGED <<transfer, open, federated, peer, late, moves>>

\* The sender gives up on a request that may yet arrive.
GiveUp(x) ==
  /\ driver[x].pc = "ask" /\ Fault
  /\ Done(x)
  /\ late' \in {late, late \union {driver[x].q}}
  /\ UNCHANGED <<books, federated, peer, moves>>

DeliverLate(q) ==
  /\ q \in late
  /\ late' = late \ {q}
  /\ WriteClaim(q)
  /\ UNCHANGED <<transfer, open, federated, peer, driver, faults, moves>>

\* The index without the resolved id.
Unresolved(s, i) == open[s] \ {i}

\* resolve_credit_transfer: the first verdict is recorded, the index entry
\* leaves with it, and a rejection returns the escrow; a second verdict, the
\* same or not, changes nothing.
Record(x) ==
  LET v == driver[x]
      t == transfer[<<v.source, v.id>>]
  IN
  /\ v.pc = "record"
  /\ IF t.state # "escrowed" THEN UNCHANGED <<balance, transfer, open>>
     ELSE /\ transfer' = [transfer EXCEPT ![<<v.source, v.id>>].state = StateFor(v.outcome)]
          /\ open' = [open EXCEPT ![v.source] = Unresolved(v.source, v.id)]
          /\ balance' = IF v.outcome = "accepted" THEN balance ELSE
               [balance EXCEPT ![<<v.source, t.workspace>>] = @ + t.amount]
  /\ Done(x)
  /\ UNCHANGED <<claim, federated, peer, late, faults, moves>>

\* The process dies: a pass, with its cursor; an operator's, with its verdict.
Crash(x) ==
  /\ driver[x].pc # "idle" /\ Fault
  /\ driver' = [driver EXCEPT ![x] = Idle]
  /\ UNCHANGED <<books, federated, peer, late, moves>>

-----------------------------------------------------------------------------

\* A key of the workspace is resolved at the destination.
Federate(d, w) ==
  /\ w \notin federated[d]
  /\ federated' = [federated EXCEPT ![d] = @ \union {w}]
  /\ UNCHANGED <<books, peer, driver, late, faults, moves>>

\* The deployment is configured with another destination.
Reconfigure(s, d) ==
  /\ moves < MaxMoves /\ peer[s] # d
  /\ peer' = [peer EXCEPT ![s] = d]
  /\ moves' = moves + 1
  /\ UNCHANGED <<books, federated, driver, late, faults>>

Operating(x) ==
  \E s \in Sources, i \in Ids :
    \/ Cancel(x, s, i)
    \/ \E w \in Workspaces, n \in Amounts : Open(x, s, i, w, n) \/ Reopen(x, s, i, w, n)

Recovering(s) ==
  StartPass(s) \/ NextPage(s) \/ NextTransfer(s) \/ Deliver(s) \/ Record(s)

Next ==
  \/ \E x \in Operators : Operating(x) \/ Deliver(x) \/ Record(x)
  \/ \E s \in Sources : Recovering(s)
  \/ \E x \in Operators \union Sources : GiveUp(x) \/ Crash(x)
  \/ \E q \in late : DeliverLate(q)
  \/ \E d \in Destinations, w \in Workspaces : Federate(d, w)
  \/ \E s \in Sources, d \in Destinations : Reconfigure(s, d)

Spec == Init /\ [][Next]_vars

\* Recovery runs on a schedule, and a pass that started goes on; workspaces
\* are federated when their keys are used.
Fairness ==
  /\ \A s \in Sources : WF_vars(Recovering(s))
  /\ \A d \in Destinations, w \in Workspaces : WF_vars(Federate(d, w))
FairSpec == Spec /\ Fairness

-----------------------------------------------------------------------------
(* Properties.                                                              *)

\* Where a transfer's value is: with its destination once that has accepted
\* it, whatever the source has heard; back once the source has recorded a
\* rejection; parked until then; and nowhere, if the source should record an
\* acceptance that never was.
Accepted(s, i) ==
  LET c == claim[<<transfer[<<s, i>>].to, i>>] IN
  c # NoClaim /\ c.source = s /\ c.outcome = "accepted"

Parcel(s, i) ==
  LET t == transfer[<<s, i>>]
      in(place) == [place |-> place, from |-> s, to |-> t.to,
                    workspace |-> t.workspace, amount |-> t.amount]
  IN
  IF t.state = None THEN [place |-> None]
  ELSE in(CASE Accepted(s, i) -> "there"
            [] ~Accepted(s, i) /\ t.state = "returned" -> "back"
            [] ~Accepted(s, i) /\ t.state = "escrowed" -> "escrow"
            [] ~Accepted(s, i) /\ t.state = "delivered" -> "nowhere")

Purse == INSTANCE Escrow WITH
  Transfers <- Sources \X Ids,
  spendable <- balance,
  parcel <- [si \in Sources \X Ids |-> Parcel(si[1], si[2])]

\* Every microdollar is in one place and moves once per transfer, across
\* retries, cancels, recovery, crashes and late requests.
ValueMovesOnce == Purse!Spec

\* An escrow whose id no other source used at its destination, which its
\* source is configured with.
Waiting(s, i) ==
  LET t == transfer[<<s, i>>]
      c == claim[<<t.to, i>>]
  IN
  t.state = "escrowed" /\ t.to = peer[s] /\ (c = NoClaim \/ c.source = s)

\* No such escrow waits for ever: recovery's walk reaches each one in the
\* index, past those it cannot resolve, when its budget covers the queue.
RecoveryResolves == \A s \in Sources, i \in Ids : []<>~Waiting(s, i)

=============================================================================
