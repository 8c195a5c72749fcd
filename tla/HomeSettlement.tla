---------------------------- MODULE HomeSettlement ----------------------------
(***************************************************************************)
(* Deferred settlement between two planes.  A peer plane serves a          *)
(* federated key while the home plane is unreachable: it admits the        *)
(* estimate against a cap, records what was spent as debt, and forwards    *)
(* the debt to the home ledger, which books it once.                       *)
(***************************************************************************)
EXTENDS Integers, FiniteSets

CONSTANTS
    Requests,     \* gateway requests; each has one idempotency key
    Workspaces,
    WorkspaceOf,  \* the workspace of each request
    Known,        \* the workspaces the home plane has
    Clients,      \* authorize calls the peer serves at the same time
    Forwarders,   \* instances running the forwarding loop
    Estimate,     \* what a request is admitted for
    Costs,        \* what a request may turn out to cost
    Cap,          \* federation_deferred_max_outstanding_microdollars
    DailyCap,     \* federation_settlement_workspace_daily_cap_microdollars
    KeyLimit,     \* the key's lifetime limit
    PassLimit,    \* rows a forwarding pass takes
    MaxFaults     \* bound on crashes, losses and outages

ASSUME HomeAssumption ==
    /\ IsFiniteSet(Requests) /\ IsFiniteSet(Clients)
    /\ WorkspaceOf \in [Requests -> Workspaces] /\ Known \subseteq Workspaces
    /\ Estimate \in Nat \ {0} /\ Costs \subseteq Nat \ {0}
    /\ Cap \in Nat /\ KeyLimit \in Nat /\ PassLimit \in Nat \ {0}
    /\ MaxFaults \in Nat /\ DailyCap \in Nat
    /\ \A cost \in Costs : cost <= DailyCap

VARIABLES
    auth,         \* the peer's authorization: none, open, expired or final
    outbox,       \* its tr_home_settlement_outbox row
    outstanding,  \* tr_deferred_outstanding.outstanding of each workspace
    deadLettered, \* tr_deferred_outstanding.dead_lettered
    key,          \* the key's reserved and used amounts on the peer
    booked,       \* what settlements charged the key
    client,       \* the authorize calls
    fwd,          \* the forwarding passes
    wire,         \* apply-usage requests on their way
    claim,        \* the home plane's claim: the cost it booked, 0 for none
    usage,        \* usage the home ledger booked through claims
    today,        \* applied to each workspace this UTC day
    faults

peerVars == <<auth, outbox, outstanding, deadLettered, key, booked>>
homeVars == <<claim, usage, today>>
vars == <<peerVars, client, fwd, wire, homeVars, faults>>

Idle == [at |-> "idle"]
NoRow == [state |-> "none", cost |-> 0, due |-> FALSE]
Open(r) == auth[r] \in {"open", "expired"}
AtLeastZero(n) == IF n < 0 THEN 0 ELSE n

Fault == faults < MaxFaults /\ faults' = faults + 1

----------------------------------------------------------------------------
(* Authorize on the peer.  The key's hold is a transaction of its own.     *)

HoldKey(c, r) ==
    /\ client[c] = Idle
    /\ auth[r] = "none"
    /\ KeyLimit - key.used - key.reserved >= Estimate
    /\ key' = [key EXCEPT !.reserved = @ + Estimate]
    /\ client' = [client EXCEPT ![c] = [at |-> "held", req |-> r]]
    /\ UNCHANGED <<auth, outbox, outstanding, deadLettered, booked, fwd, wire,
                   homeVars, faults>>

\* Mutant: the total read before the stream decides.
AdmitsStale(w) == outstanding[w] <= Cap

\* _reserve_deferred_outstanding_tx's condition.
Admits(w) == outstanding[w] + Estimate <= Cap

\* create_gateway_authorization: the row and the admission commit together.
Create(c) ==
    /\ client[c].at = "held"
    /\ LET r == client[c].req IN
         /\ auth[r] = "none" /\ Admits(WorkspaceOf[r])
         /\ auth' = [auth EXCEPT ![r] = "open"]
         /\ outstanding' = [outstanding EXCEPT ![WorkspaceOf[r]] = @ + Estimate]
    /\ client' = [client EXCEPT ![c] = Idle]
    /\ UNCHANGED <<outbox, deadLettered, key, booked, fwd, wire, homeVars, faults>>

\* A replay found the winner's row, the cap refused, or the store gave up on
\* its conflicts: the hold comes back.
GiveBack(c) ==
    /\ client[c].at = "held"
    /\ LET r == client[c].req
           refused == auth[r] # "none" \/ ~Admits(WorkspaceOf[r])
       IN  IF refused THEN UNCHANGED faults ELSE Fault
    /\ key' = [key EXCEPT !.reserved = AtLeastZero(@ - Estimate)]
    /\ client' = [client EXCEPT ![c] = Idle]
    /\ UNCHANGED <<auth, outbox, outstanding, deadLettered, booked, fwd, wire,
                   homeVars>>

ClientDies(c) ==
    /\ client[c] # Idle
    /\ Fault
    /\ client' = [client EXCEPT ![c] = Idle]
    /\ UNCHANGED <<peerVars, fwd, wire, homeVars>>

----------------------------------------------------------------------------
(* Settle and reap on the peer: one transaction each, one marker for both. *)

TruedUp(w, owes) == AtLeastZero(outstanding[w] + owes - Estimate)

\* finalize_gateway_authorization of a deferred authorization.  A failed
\* request costs 0; one that the customer's own provider key paid for owes
\* home nothing.
Finalize(r, cost, byok) ==
    /\ Open(r)
    /\ LET owes == IF byok THEN 0 ELSE cost
           w == WorkspaceOf[r]
       IN  /\ outbox' = IF owes = 0 THEN outbox
                        ELSE [outbox EXCEPT ![r] = [state |-> "pending", cost |-> owes,
                                                    due |-> TRUE]]
           /\ outstanding' = [outstanding EXCEPT ![w] = TruedUp(w, owes)]
    /\ key' = [reserved |-> AtLeastZero(key.reserved - Estimate), used |-> key.used + cost]
    /\ booked' = booked + cost
    /\ auth' = [auth EXCEPT ![r] = "final"]
    /\ UNCHANGED <<deadLettered, client, fwd, wire, homeVars, faults>>

Expire(r) ==
    /\ auth[r] = "open"
    /\ auth' = [auth EXCEPT ![r] = "expired"]
    /\ UNCHANGED <<outbox, outstanding, deadLettered, key, booked, client, fwd, wire,
                   homeVars, faults>>

Reapable(r) == auth[r] = "expired" /\ outbox[r].state = "none"

\* reap_expired_deferred_authorizations, for one row.
Reap(r) ==
    /\ Reapable(r)
    /\ outstanding' = [outstanding EXCEPT ![WorkspaceOf[r]] = AtLeastZero(@ - Estimate)]
    /\ key' = [key EXCEPT !.reserved = AtLeastZero(@ - Estimate)]
    /\ auth' = [auth EXCEPT ![r] = "final"]
    /\ UNCHANGED <<outbox, deadLettered, booked, client, fwd, wire, homeVars, faults>>

----------------------------------------------------------------------------
(* The forwarding pass.                                                    *)

Eligible == {r \in Requests : outbox[r].state = "pending" /\ outbox[r].due}

StartPass(f) ==
    /\ fwd[f] = Idle
    /\ \E rows \in SUBSET Eligible :
          /\ rows # {}
          /\ Cardinality(rows) <= PassLimit
          /\ Cardinality(rows) < PassLimit => rows = Eligible
          /\ fwd' = [fwd EXCEPT ![f] = [at |-> "row", rows |-> rows]]
    /\ UNCHANGED <<peerVars, client, wire, homeVars, faults>>

Post(f, r) ==
    /\ fwd[f].at = "row" /\ r \in fwd[f].rows
    /\ fwd' = [fwd EXCEPT ![f] = [at |-> "waiting", req |-> r, rows |-> fwd[f].rows \ {r}]]
    /\ wire' = wire \cup {r}
    /\ UNCHANGED <<peerVars, client, homeVars, faults>>

\* Mutant: a replay is booked again.
VerdictForgets(r, cost) ==
    CASE today[WorkspaceOf[r]] + cost > DailyCap -> "clamped"
      [] WorkspaceOf[r] \notin Known -> "workspace_unknown"
      [] OTHER -> "applied"

\* apply_federated_usage's verdict, in its order.
Verdict(r, cost) ==
    CASE claim[r] # 0 /\ claim[r] = cost -> "already"
      [] claim[r] # 0 /\ claim[r] # cost -> "conflict"
      [] claim[r] = 0 /\ today[WorkspaceOf[r]] + cost > DailyCap -> "clamped"
      [] claim[r] = 0 /\ today[WorkspaceOf[r]] + cost <= DailyCap
            /\ WorkspaceOf[r] \notin Known -> "workspace_unknown"
      [] OTHER -> "applied"

\* The home plane takes a request off the wire; whoever still waits for it
\* gets the verdict.
HomeApplies(r) ==
    /\ r \in wire
    /\ LET cost == outbox[r].cost
           verdict == Verdict(r, cost)
       IN  /\ IF verdict = "applied"
              THEN /\ claim' = [claim EXCEPT ![r] = cost]
                   /\ usage' = usage + cost
                   /\ today' = [today EXCEPT ![WorkspaceOf[r]] = @ + cost]
              ELSE UNCHANGED homeVars
           /\ fwd' = [f \in Forwarders |->
                         IF fwd[f].at = "waiting" /\ fwd[f].req = r
                         THEN [at |-> "answered", req |-> r, rows |-> fwd[f].rows,
                               verdict |-> verdict]
                         ELSE fwd[f]]
    /\ wire' = wire \ {r}
    /\ UNCHANGED <<peerVars, client, faults>>

\* A transport error, a timeout or an answer that is no verdict.  The request
\* may never arrive, or arrive later.
Outage(f) ==
    /\ fwd[f].at = "waiting"
    /\ Fault
    /\ \E kept \in {{}, {fwd[f].req}} :
          wire' = (wire \ {fwd[f].req}) \cup kept
    /\ fwd' = [g \in Forwarders |->
                  IF g = f \/ (fwd[g].at = "waiting" /\ fwd[g].req = fwd[f].req
                               /\ fwd[f].req \notin wire')
                  THEN [at |-> "answered", req |-> fwd[g].req, rows |-> fwd[g].rows,
                        verdict |-> "outage"]
                  ELSE fwd[g]]
    /\ UNCHANGED <<peerVars, client, homeVars>>

\* Mutant: only a fresh booking counts as delivered.
DeliveredFresh == {"applied"}

\* classify_apply_response: the verdicts that end a row; any other answer
\* leaves it pending.
Delivered == {"applied", "already"}
WrittenOff == {"conflict", "workspace_unknown"}

Answered(f, verdicts) == fwd[f].at = "answered" /\ fwd[f].verdict \in verdicts

\* The pass goes to its next row; an outage ends it.
NextRow(f, stops) ==
    fwd' = [fwd EXCEPT ![f] = IF stops \/ fwd[f].rows = {} THEN Idle
                              ELSE [at |-> "row", rows |-> fwd[f].rows]]

\* Mutant: the mark is not conditional on the row being pending.
StillPendingEver(r) == TRUE

StillPending(r) == outbox[r].state = "pending"

\* mark_home_settlement_forwarded: the counter moves with the flip.
MarkForwarded(f) ==
    /\ Answered(f, Delivered)
    /\ LET r == fwd[f].req
           w == WorkspaceOf[r]
       IN  IF StillPending(r)
           THEN /\ outbox' = [outbox EXCEPT ![r].state = "forwarded"]
                /\ outstanding' = [outstanding EXCEPT ![w] = AtLeastZero(@ - outbox[r].cost)]
           ELSE UNCHANGED <<outbox, outstanding>>
    /\ NextRow(f, FALSE)
    /\ UNCHANGED <<auth, deadLettered, key, booked, client, wire, homeVars, faults>>

\* mark_home_settlement_dead_letter.
MarkDeadLetter(f) ==
    /\ Answered(f, WrittenOff)
    /\ LET r == fwd[f].req
           w == WorkspaceOf[r]
       IN  IF StillPending(r)
           THEN /\ outbox' = [outbox EXCEPT ![r].state = "dead_letter"]
                /\ outstanding' = [outstanding EXCEPT ![w] = AtLeastZero(@ - outbox[r].cost)]
                /\ deadLettered' = [deadLettered EXCEPT ![w] = @ + outbox[r].cost]
           ELSE UNCHANGED <<outbox, outstanding, deadLettered>>
    /\ NextRow(f, FALSE)
    /\ UNCHANGED <<auth, key, booked, client, wire, homeVars, faults>>

\* bump_home_settlement_attempt: the row waits.
Bump(f) ==
    /\ fwd[f].at = "answered" /\ fwd[f].verdict \notin Delivered \cup WrittenOff
    /\ LET r == fwd[f].req IN
         outbox' = IF StillPending(r) THEN [outbox EXCEPT ![r].due = FALSE] ELSE outbox
    /\ NextRow(f, fwd[f].verdict # "clamped")
    /\ UNCHANGED <<auth, outstanding, deadLettered, key, booked, client, wire,
                   homeVars, faults>>

ForwarderDies(f) ==
    /\ fwd[f] # Idle
    /\ Fault
    /\ fwd' = [fwd EXCEPT ![f] = Idle]
    /\ UNCHANGED <<peerVars, client, wire, homeVars>>

\* A row's backoff is over; the home plane's day is over.
BecomesDue(r) ==
    /\ StillPending(r) /\ ~outbox[r].due
    /\ outbox' = [outbox EXCEPT ![r].due = TRUE]
    /\ UNCHANGED <<auth, outstanding, deadLettered, key, booked, client, fwd, wire,
                   homeVars, faults>>

NewDay ==
    /\ \E w \in Workspaces : today[w] > 0
    /\ today' = [w \in Workspaces |-> 0]
    /\ UNCHANGED <<peerVars, client, fwd, wire, claim, usage, faults>>

----------------------------------------------------------------------------
Init ==
    /\ auth = [r \in Requests |-> "none"]
    /\ outbox = [r \in Requests |-> NoRow]
    /\ outstanding = [w \in Workspaces |-> 0]
    /\ deadLettered = [w \in Workspaces |-> 0]
    /\ key = [reserved |-> 0, used |-> 0]
    /\ booked = 0
    /\ client = [c \in Clients |-> Idle]
    /\ fwd = [f \in Forwarders |-> Idle]
    /\ wire = {}
    /\ claim = [r \in Requests |-> 0]
    /\ usage = 0
    /\ today = [w \in Workspaces |-> 0]
    /\ faults = 0

Resolves(f) == MarkForwarded(f) \/ MarkDeadLetter(f) \/ Bump(f)

Next ==
    \/ \E c \in Clients :
          \/ \E r \in Requests : HoldKey(c, r)
          \/ Create(c) \/ GiveBack(c) \/ ClientDies(c)
    \/ \E r \in Requests :
          \/ Finalize(r, 0, FALSE)
          \/ \E cost \in Costs, byok \in BOOLEAN : Finalize(r, cost, byok)
          \/ Expire(r) \/ Reap(r) \/ HomeApplies(r) \/ BecomesDue(r)
    \/ \E f \in Forwarders :
          \/ StartPass(f) \/ (\E r \in Requests : Post(f, r))
          \/ Outage(f) \/ Resolves(f) \/ ForwarderDies(f)
    \/ NewDay

Spec == Init /\ [][Next]_vars

\* The loop in main.py runs for ever, reaps every tenth pass and takes the
\* most overdue rows first; requests arrive, backoffs and days end.
Fairness ==
    /\ \A f \in Forwarders : WF_vars(StartPass(f)) /\ WF_vars(Resolves(f))
    /\ \A f \in Forwarders : WF_vars(\E r \in Requests : Post(f, r))
    /\ \A r \in Requests :
          /\ SF_vars(\E f \in Forwarders : Post(f, r))
          /\ WF_vars(HomeApplies(r)) /\ WF_vars(BecomesDue(r))
          /\ WF_vars(Expire(r)) /\ WF_vars(Reap(r))
    /\ WF_vars(NewDay)

FairSpec == Spec /\ Fairness

----------------------------------------------------------------------------
Verdicts == {"applied", "already", "conflict", "clamped", "workspace_unknown", "outage"}

(* The types, no counter below zero and no day's bookings above the cap.   *)
TypeOK ==
    /\ auth \in [Requests -> {"none", "open", "expired", "final"}]
    /\ outbox \in [Requests -> [state : {"none", "pending", "forwarded", "dead_letter"},
                                cost : Costs \cup {0}, due : BOOLEAN]]
    /\ outstanding \in [Workspaces -> Nat] /\ deadLettered \in [Workspaces -> Nat]
    /\ key \in [reserved : Nat, used : Nat] /\ booked \in Nat
    /\ client \in [Clients -> {Idle} \cup [at : {"held"}, req : Requests]]
    /\ fwd \in [Forwarders -> {Idle} \cup [at : {"row"}, rows : SUBSET Requests]
                              \cup [at : {"waiting"}, req : Requests, rows : SUBSET Requests]
                              \cup [at : {"answered"}, req : Requests, rows : SUBSET Requests,
                                    verdict : Verdicts]]
    /\ wire \subseteq Requests
    /\ claim \in [Requests -> Costs \cup {0}]
    /\ usage \in Nat /\ today \in [Workspaces -> 0 .. DailyCap]
    /\ faults \in 0 .. MaxFaults

Of(w) == {r \in Requests : WorkspaceOf[r] = w}

\* The sum of a function's values, as the number of their units.
Sum(f) == Cardinality(UNION {{x} \X (1 .. f[x]) : x \in DOMAIN f})

\* What a request adds to the counters: the estimate until it is settled, and
\* then its debt, until that is delivered or written off.
EstimateOf(r) == IF Open(r) THEN Estimate ELSE 0
PendingOf(r) == IF outbox[r].state = "pending" THEN outbox[r].cost ELSE 0
LostOf(r) == IF outbox[r].state = "dead_letter" THEN outbox[r].cost ELSE 0
BeyondOf(r) == AtLeastZero(PendingOf(r) - Estimate)

(* A workspace's outstanding counter is the estimates of its requests that *)
(* are not settled and the debt that is not delivered; no clamp at zero    *)
(* ever hides an amount taken off twice.  The key's reserved amount covers *)
(* every open authorization and call in progress, and is no more than that *)
(* while no call has died.                                                 *)
CountersAreExact ==
    LET held == Sum([r \in Requests |-> EstimateOf(r)])
                + Sum([c \in Clients |-> IF client[c] # Idle THEN Estimate ELSE 0])
    IN  /\ \A w \in Workspaces :
              /\ outstanding[w] = Sum([r \in Of(w) |-> EstimateOf(r) + PendingOf(r)])
              /\ deadLettered[w] = Sum([r \in Of(w) |-> LostOf(r)])
        /\ key.reserved >= held
        /\ faults = 0 => key.reserved = held
        /\ key.used = booked

(* A debt is booked at home at most once and for its amount, a row is      *)
(* forwarded only when it is booked and never written off when it is, and  *)
(* only the debt of a workspace the home plane lacks is written off.       *)
DebtBookedOnce ==
    /\ usage = Sum(claim)
    /\ \A r \in Requests :
          /\ claim[r] # 0 => claim[r] = outbox[r].cost
          /\ outbox[r].state = "forwarded" => claim[r] # 0
          /\ outbox[r].state = "dead_letter" => claim[r] = 0 /\ WorkspaceOf[r] \notin Known

(* What a workspace can owe on this plane passes the cap only by what its  *)
(* undelivered requests cost beyond their estimates (config.py: "the       *)
(* worst-case exposure per workspace per outage").                         *)
ExposureIsCapped == \A w \in Workspaces :
    outstanding[w] <= Cap + Sum([r \in Of(w) |-> BeyondOf(r)])

(* Every debt reaches the home ledger or is written off for the operator,  *)
(* and an abandoned authorization gives its estimate back.                 *)
DebtIsDelivered == \A r \in Requests :
    /\ outbox[r].state = "pending" ~> outbox[r].state \in {"forwarded", "dead_letter"}
    /\ Open(r) ~> auth[r] = "final"

=============================================================================
