------------------------------- MODULE Cashouts -------------------------------
(***************************************************************************)
(* A creator's earnings and the cash-outs made from them.  A cash-out      *)
(* reserves earnings, then a request looks its payable up at Routable or   *)
(* creates it; requests are repeated by the owner, and Routable's webhooks *)
(* report the payable's changes.  Each of them reads Routable first and    *)
(* writes the cash-out later, in a transaction of its own.                 *)
(***************************************************************************)
EXTENDS Integers, FiniteSets

CONSTANTS
    Cashouts,     \* cash-outs, each under an idempotency key of its own
    Payouts,      \* events that credit earnings
    Moves,        \* events that transfer earnings to a workspace
    Workers,      \* requests and webhook handlers under way
    CashAmount, MoveAmount, EarnAmount,
    Nobody,       \* no cash-out
    MaxChanges,   \* bound on the changes of a payable's status
    MaxDenials    \* bound on calls refused before they are looked at (401, 403)

ASSUME CashoutAssumption ==
    /\ {CashAmount, MoveAmount, EarnAmount} \subseteq Nat \ {0}
    /\ MaxChanges \in Nat /\ MaxDenials \in Nat
    /\ Nobody \notin Cashouts /\ IsFiniteSet(Cashouts) /\ IsFiniteSet(Moves)
    /\ Payouts \cap Moves = {}   \* their event ids have prefixes of their own

VARIABLES
    earned, transferred,   \* the tr_earnings_balance row
    done,                  \* ids of the earnings' events already applied
    cash,                  \* the earnings_cashout entities
    movements,             \* ids of the tr_credit_movement rows about cash-outs
    worker,
    transit,               \* external: create calls that Routable has still to take
    payable,               \* external: what Routable holds under an external id
    changes,               \* external: how often that changed
    notices,               \* external: webhook events not yet answered with 200
    denials

vars == <<earned, transferred, done, cash, movements, worker, transit, payable, changes,
          notices, denials>>
routable == <<transit, payable, changes, notices>>
books == <<earned, transferred, done, cash, movements>>

\* ROUTABLE_PENDING_STATUSES, _PAID_, _ACTION_REQUIRED_ and _RELEASE_.
Pending == {"pending"}
Paid == {"completed"}
Release == {"canceled"}
Statuses == Pending \cup Paid \cup Release \cup {"failed"}

NoCash == [balance |-> "none", revision |-> 0]
Idle == [at |-> "idle", c |-> Nobody, status |-> "none", event |-> 0]
Task(at, c, status, event) == [at |-> at, c |-> c, status |-> status, event |-> event]
Goes(w, task) == worker' = [worker EXCEPT ![w] = task]
Available == earned - transferred

----------------------------------------------------------------------------
(* The books: one transaction each.                                        *)

Earn(e) ==
    /\ e \notin done
    /\ done' = done \cup {e}
    /\ earned' = earned + EarnAmount
    /\ UNCHANGED <<transferred, cash, movements, worker, routable, denials>>

\* The WHERE clause of the guarded update.
Affords(n) == Available >= n

Transfer(e) ==
    /\ e \notin done
    /\ Affords(MoveAmount)
    /\ done' = done \cup {e}
    /\ transferred' = transferred + MoveAmount
    /\ UNCHANGED <<earned, cash, movements, worker, routable, denials>>

\* Mutant: a later status replaces the one before, whatever it was.
MarkedLatest(was, status) == IF status \in Paid THEN "paid" ELSE "reserved"

\* What mark_earnings_cashout makes of a cash-out that is not released.
MarkedBalance(was, status) == IF status \in Paid THEN "paid" ELSE was

\* mark_earnings_cashout with a status read from Routable.  A released
\* cash-out whose payable turns out alive is reserved again, unguarded.
Mark(c, status) ==
    LET reinstates == cash[c].balance = "released" /\ status \in Pending \cup Paid
        revision == cash[c].revision + 1
        movement == <<"reinstated", c, revision>>
        balance == MarkedBalance(IF reinstates THEN "reserved" ELSE cash[c].balance, status)
    IN  IF reinstates
        THEN /\ movement \notin movements
             /\ cash' = [cash EXCEPT ![c] = [balance |-> balance, revision |-> revision]]
             /\ transferred' = transferred + CashAmount
             /\ movements' = movements \cup {movement}
             /\ UNCHANGED <<earned, done>>
        ELSE /\ cash' = [cash EXCEPT ![c].balance = balance]
             /\ UNCHANGED <<earned, transferred, done, movements>>

\* Mutant: a cash-out that is released already is released again.
ReleasableAlways(c) == cash[c].balance # "none"

\* release_earnings_cashout's early return.
Releasable(c) == cash[c].balance \notin {"none", "released"}

ReleaseCash(c) ==
    LET revision == cash[c].revision + 1
        movement == <<"reversal", c, revision>>
    IN  IF Releasable(c)
        THEN /\ transferred >= CashAmount
             /\ movement \notin movements
             /\ cash' = [cash EXCEPT ![c] = [balance |-> "released", revision |-> revision]]
             /\ transferred' = transferred - CashAmount
             /\ movements' = movements \cup {movement}
             /\ UNCHANGED <<earned, done>>
        ELSE UNCHANGED books

\* A status is applied the same way by a request and by a webhook.
Apply(c, status) == IF status \in Release THEN ReleaseCash(c) ELSE Mark(c, status)

----------------------------------------------------------------------------
(* Requests: create_payout and retry_payout.                               *)

\* create_payout under a new key.
Reserve(w, c) ==
    /\ worker[w] = Idle
    /\ cash[c] = NoCash
    /\ Affords(CashAmount)
    /\ transferred' = transferred + CashAmount
    /\ movements' = movements \cup {<<"cashout", c, 0>>}
    /\ cash' = [cash EXCEPT ![c] = [balance |-> "reserved", revision |-> 0]]
    /\ Goes(w, Task("find", c, "none", 0))
    /\ UNCHANGED <<earned, done, routable, denials>>

\* create_payout under a key seen before, or retry_payout.  The copy read here
\* decides only whether there is anything to do.
Retry(w, c) ==
    /\ worker[w] = Idle
    /\ cash[c].balance = "reserved"
    /\ Goes(w, Task("find", c, "none", 0))
    /\ UNCHANGED <<books, routable, denials>>

\* find_payable answers: the payable by its external id, or none.
Find(w) ==
    /\ worker[w].at = "find"
    /\ LET c == worker[w].c IN
       Goes(w, IF payable[c] \in Statuses THEN Task("apply", c, payable[c], 0)
               ELSE Task("create", c, "none", 0))
    /\ UNCHANGED <<books, routable, denials>>

\* create_payable is sent, under the cash-out's own key.
Create(w) ==
    /\ worker[w].at = "create"
    /\ transit' = transit \cup {worker[w].c}
    /\ Goes(w, [worker[w] EXCEPT !.at = "wait"])
    /\ UNCHANGED <<books, payable, changes, notices, denials>>

\* Its answer: the payable as it is, or the rejection the key was given.
Answered(w) ==
    /\ worker[w].at = "wait"
    /\ payable[worker[w].c] # "none"
    /\ LET c == worker[w].c IN
       Goes(w, IF payable[c] = "rejected" THEN Task("reject", c, "none", 0)
               ELSE Task("apply", c, payable[c], 0))
    /\ UNCHANGED <<books, routable, denials>>

\* Mutant: a call that timed out is taken for rejected.
AmbiguousRejects(w) == Goes(w, [worker[w] EXCEPT !.at = "reject"])

\* routable_error_is_definitive_no_effect is false: submission_unknown, which
\* leaves the balance alone.
Ambiguous(w) == Goes(w, Idle)

TimesOut(w) ==
    /\ worker[w].at \in {"find", "wait"}
    /\ Ambiguous(w)
    /\ UNCHANGED <<books, routable, denials>>

\* A call of either kind is refused with 401 or 403: as definitive as a
\* rejection of the payable.
Denied(w) ==
    /\ worker[w].at \in {"find", "create"}
    /\ denials < MaxDenials /\ denials' = denials + 1
    /\ Goes(w, [worker[w] EXCEPT !.at = "reject"])
    /\ UNCHANGED <<books, routable>>

Reject(w) ==
    /\ worker[w].at = "reject"
    /\ ReleaseCash(worker[w].c)
    /\ Goes(w, Idle)
    /\ UNCHANGED <<routable, denials>>

Reconcile(w) ==
    /\ worker[w].at = "apply"
    /\ Apply(worker[w].c, worker[w].status)
    /\ Goes(w, Idle)
    /\ UNCHANGED <<routable, denials>>

----------------------------------------------------------------------------
(* Webhooks.                                                               *)

\* An event is delivered, again if need be, and the payable retrieved.
Retrieve(w, c) ==
    /\ worker[w] = Idle
    /\ \E n \in notices[c] : Goes(w, Task("hook", c, payable[c], n))
    /\ UNCHANGED <<books, routable, denials>>

\* _process_event, and the answer 200.
ProcessEvent(w) ==
    /\ worker[w].at = "hook"
    /\ Apply(worker[w].c, worker[w].status)
    /\ notices' = [notices EXCEPT ![worker[w].c] = @ \ {worker[w].event}]
    /\ Goes(w, Idle)
    /\ UNCHANGED <<transit, payable, changes, denials>>

\* The process dies or the call is cut off.  An event is then sent again.
Dies(w) ==
    /\ worker[w] # Idle
    /\ Goes(w, Idle)
    /\ UNCHANGED <<books, routable, denials>>

----------------------------------------------------------------------------
(* Routable.                                                               *)

Changed(c, status) ==
    /\ changes[c] < MaxChanges
    /\ payable' = [payable EXCEPT ![c] = status]
    /\ changes' = [changes EXCEPT ![c] = @ + 1]
    /\ notices' = [notices EXCEPT ![c] =
           IF status \in Statuses THEN @ \cup {changes'[c]} ELSE @]

\* A create call is taken, also after its caller gave up; a key is decided once.
Takes(c) ==
    /\ c \in transit
    /\ transit' = transit \ {c}
    /\ IF payable[c] = "none" THEN Changed(c, "pending") \/ Changed(c, "rejected")
       ELSE UNCHANGED <<payable, changes, notices>>
    /\ UNCHANGED <<books, worker, denials>>

\* A payable is paid, fails, at the bank also after it was paid, and is
\* restarted, or is canceled, which alone is final.
Moved(c) ==
    /\ \/ payable[c] \in {"pending", "completed"} /\ Changed(c, "failed")
       \/ payable[c] = "failed" /\ Changed(c, "pending")
       \/ payable[c] = "pending" /\ Changed(c, "completed")
       \/ payable[c] \in {"pending", "failed"} /\ Changed(c, "canceled")
    /\ UNCHANGED <<books, worker, transit, denials>>

----------------------------------------------------------------------------
Init ==
    /\ earned = 0 /\ transferred = 0 /\ done = {}
    /\ cash = [c \in Cashouts |-> NoCash]
    /\ movements = {}
    /\ worker = [w \in Workers |-> Idle]
    /\ transit = {}
    /\ payable = [c \in Cashouts |-> "none"]
    /\ changes = [c \in Cashouts |-> 0]
    /\ notices = [c \in Cashouts |-> {}]
    /\ denials = 0

Next ==
    \/ \E e \in Payouts : Earn(e)
    \/ \E e \in Moves : Transfer(e)
    \/ \E w \in Workers :
          \/ \E c \in Cashouts : Reserve(w, c) \/ Retry(w, c) \/ Retrieve(w, c)
          \/ Find(w) \/ Create(w) \/ Answered(w) \/ TimesOut(w) \/ Denied(w)
          \/ Reject(w) \/ Reconcile(w) \/ ProcessEvent(w) \/ Dies(w)
    \/ \E c \in Cashouts : Takes(c) \/ Moved(c)

Spec == Init /\ [][Next]_vars

\* A request or handler that has begun ends, by an answer or by its timeout.
GoesOn(w) ==
    Find(w) \/ Create(w) \/ Answered(w) \/ TimesOut(w) \/ Reject(w) \/ Reconcile(w)
        \/ ProcessEvent(w)

(* Routable repeats an event until it is answered with 200, so a handler   *)
(* gets to it and, tried for ever, through it.  The owner's requests and   *)
(* Routable's decisions are not fair.                                      *)
Fairness ==
    /\ \A c \in Cashouts : SF_vars(\E w \in Workers : Retrieve(w, c))
    /\ \A w \in Workers : SF_vars(ProcessEvent(w)) /\ WF_vars(GoesOn(w))

FairSpec == Spec /\ Fairness

----------------------------------------------------------------------------
Held(c) == cash[c].balance \in {"reserved", "paid"}
Count(kind, c) == Cardinality({m \in movements : m[1] = kind /\ m[2] = c})

(* The types: a write is only ever of a status that Routable gives.        *)
TypeOK ==
    /\ earned \in Nat /\ transferred \in Nat
    /\ done \subseteq Payouts \cup Moves
    /\ cash \in [Cashouts -> [balance : {"none", "reserved", "paid", "released"},
                              revision : Nat]]
    /\ \A w \in Workers :
          /\ worker[w].at \in {"idle", "find", "create", "wait", "reject", "apply", "hook"}
          /\ worker[w].at \in {"apply", "hook"} => worker[w].status \in Statuses
    /\ payable \in [Cashouts -> Statuses \cup {"none", "rejected"}]
    /\ changes \in [Cashouts -> 0 .. MaxChanges]
    /\ transit \subseteq Cashouts
    /\ denials \in 0 .. MaxDenials

(* What counts as transferred is the cash-outs that hold their amount and  *)
(* the transfers made, and the movements say of each cash-out how often it *)
(* was held: releases, reinstatements and retries in any order book each   *)
(* once.  More is spent than was earned only by cash-outs that were        *)
(* released and then found alive at Routable.                              *)
BooksBalance ==
    /\ transferred = MoveAmount * Cardinality(done \cap Moves)
                     + CashAmount * Cardinality({c \in Cashouts : Held(c)})
    /\ \A c \in Cashouts :
          (IF Held(c) THEN 1 ELSE 0)
            = Count("cashout", c) + Count("reinstated", c) - Count("reversal", c)
    /\ -Available <= CashAmount *
          Cardinality({c \in Cashouts : Held(c) /\ Count("reinstated", c) > 0})

(* "never blindly released" (docs/routable-payouts.md): the earnings of a  *)
(* cash-out are not given back while Routable has a payable for it that is *)
(* not canceled, whatever answers are lost or late, until Routable denies  *)
(* a call.                                                                 *)
ReleasedIsUnpaid == denials = 0 => \A c \in Cashouts :
    cash[c].balance = "released" => payable[c] \notin {"pending", "failed", "completed"}

(* A payable that stays paid is recorded as paid in the end and for good,  *)
(* also when it failed and was restarted before, and when requests and     *)
(* events that read an earlier status write after the one that read the    *)
(* last, as long as Routable denies no call.  One that fails late may go   *)
(* on to be canceled, and is then released.                                *)
PaidIsRecorded == [](denials = 0) => \A c \in Cashouts :
    <>[](payable[c] = "completed") => <>[](cash[c].balance = "paid")

=============================================================================
