------------------------------ MODULE AutoRefill ------------------------------
(***************************************************************************)
(* Automatic refills of one workspace: the refill job that a settlement    *)
(* attaches to its outbox row, the control plane's workers that drain the  *)
(* jobs, the charge at Stripe, and the webhook that credits it.  The check *)
(* and the charge are several steps apart, the account's status is one     *)
(* word that all of them overwrite, and any of them may die on the way.    *)
(***************************************************************************)
EXTENDS Integers, FiniteSets, FiniteSetsExt

CONSTANTS
    Auths,        \* settled authorizations; each is one job and one charge key
    Callers,      \* drain workers and in-process tasks
    None,         \* no caller, no authorization
    Start,        \* the balance before the first settlement
    Cost,         \* what each settlement charges
    Threshold,    \* refill below this balance
    Amount,       \* what a refill credits
    MaxAttempts,  \* attempts before a job is given up
    MaxFaults     \* bound on crashes, lost answers and leases lost while at work

ASSUME RefillAssumption ==
    /\ Start \in Int /\ Cost \in Nat /\ Threshold \in Nat /\ Amount \in Nat \ {0}
    /\ MaxAttempts \in Nat \ {0} /\ MaxFaults \in Nat /\ None \notin Callers \cup Auths

VARIABLES
    balance,   \* credits less usage less reservations, not clamped
    account,   \* auto_refill_enabled and the last attempt's status and age
    settled,   \* the authorizations settled
    last,      \* history: the one settled last
    job,       \* each authorization's refill job in tr_settle_outbox
    task,      \* what each caller is doing
    intent,    \* Stripe's PaymentIntent under the authorization's key
    credited,  \* the intents credited to the workspace
    hook,      \* the intents whose webhook is between its two writes
    faults

refillVars == <<balance, account, settled, last, job, task, intent, credited, hook, faults>>

NoJob == [status |-> "none", attempts |-> 0, owner |-> None, lapsed |-> FALSE]
Idle == [at |-> "idle"]
Tasks == {"idle", "settled", "account", "balance", "charge", "record", "resolve"}

\* A caller's task: the authorization, whether it came from the queue, what
\* the account it read says, and what it will record and resolve.
Task(at, a, queued) ==
    [at |-> at, auth |-> a, queued |-> queued, blocked |-> FALSE,
     note |-> "none", done |-> FALSE, counted |-> FALSE]

----------------------------------------------------------------------------
(* Settlements and their jobs.                                             *)

\* The intent is enqueued with its refill before the settlement is finalized.
Enqueue(a) ==
    /\ job[a].status = "none"
    /\ job' = [job EXCEPT ![a].status = "pending"]
    /\ UNCHANGED <<balance, account, settled, last, task, intent, credited, hook, faults>>

Settle(a) ==
    /\ job[a].status # "none" /\ a \notin settled
    /\ settled' = settled \cup {a}
    /\ last' = a
    /\ balance' = balance - Cost
    /\ UNCHANGED <<account, job, task, intent, credited, hook, faults>>

\* Mutant: a lease that lapsed is never taken over.
FreeUnleased(j) == j.status = "pending" /\ j.owner = None

\* _claim_auto_refill_one's predicate.
Free(j) == j.status = "pending" /\ (j.owner = None \/ j.lapsed)

Claim(c, a) ==
    /\ task[c] = Idle
    /\ Free(job[a])
    /\ job' = [job EXCEPT ![a].owner = c, ![a].lapsed = FALSE]
    /\ task' = [task EXCEPT ![c] = Task("settled", a, TRUE)]
    /\ UNCHANGED <<balance, account, settled, last, intent, credited, hook, faults>>

\* The combined surface also checks in a task of its own, which may start
\* late and which a crash loses.
Schedule(c, a) ==
    /\ task[c] = Idle
    /\ a \in settled
    /\ task' = [task EXCEPT ![c] = Task("account", a, FALSE)]
    /\ UNCHANGED <<balance, account, settled, last, job, intent, credited, hook, faults>>

Working(c, at) == task[c].at = at
Goes(c, t) == task' = [task EXCEPT ![c] = t]

\* What a task ends with: only a job's is written back.
Ending(t, done, counted) ==
    IF t.queued
    THEN [Task("resolve", t.auth, TRUE) EXCEPT !.done = done, !.counted = counted]
    ELSE Idle

\* The drain charges only for a settlement that is final.
SettledStep(c) ==
    /\ Working(c, "settled")
    /\ Goes(c, IF task[c].auth \in settled THEN [task[c] EXCEPT !.at = "account"]
               ELSE Ending(task[c], FALSE, FALSE))
    /\ UNCHANGED <<balance, account, settled, last, job, intent, credited, hook, faults>>

----------------------------------------------------------------------------
(* maybe_charge_after_settle.                                              *)

\* _recent_attempt_block_reason.
Blocked == account.status \in {"pending", "failed"} /\ account.fresh

\* The account is read once: its status may be stale at the charge.
AccountStep(c) ==
    /\ Working(c, "account")
    /\ Goes(c, IF account.enabled
               THEN [task[c] EXCEPT !.at = "balance", !.blocked = Blocked]
               ELSE Ending(task[c], TRUE, FALSE))
    /\ UNCHANGED <<balance, account, settled, last, job, intent, credited, hook, faults>>

\* Mutant: a job held back by a recent attempt is over.
BalanceStepGivesUp(c) ==
    /\ Working(c, "balance")
    /\ Goes(c, IF balance >= Threshold \/ task[c].blocked
               THEN Ending(task[c], TRUE, FALSE)
               ELSE [task[c] EXCEPT !.at = "charge"])
    /\ UNCHANGED <<balance, account, settled, last, job, intent, credited, hook, faults>>

BalanceStep(c) ==
    /\ Working(c, "balance")
    /\ Goes(c, CASE balance >= Threshold -> Ending(task[c], TRUE, FALSE)
                 [] balance < Threshold /\ task[c].blocked ->
                        Ending(task[c], FALSE, TRUE)
                 [] OTHER -> [task[c] EXCEPT !.at = "charge"])
    /\ UNCHANGED <<balance, account, settled, last, job, intent, credited, hook, faults>>

\* External: Stripe under an idempotency key gives its first answer again.
Charges(c) ==
    /\ Working(c, "charge")
    /\ intent[task[c].auth] \in {"none", "paid"}
    /\ intent' = [intent EXCEPT ![task[c].auth] = "paid"]
    /\ Goes(c, [task[c] EXCEPT !.at = "record", !.note = "pending", !.done = TRUE])
    /\ UNCHANGED <<balance, account, settled, last, job, credited, hook, faults>>

Declines(c) ==
    /\ Working(c, "charge")
    /\ intent[task[c].auth] \in {"none", "declined"}
    /\ intent' = [intent EXCEPT ![task[c].auth] = "declined"]
    /\ Goes(c, [task[c] EXCEPT !.at = "record", !.note = "failed", !.done = TRUE])
    /\ UNCHANGED <<balance, account, settled, last, job, credited, hook, faults>>

\* The answer is lost, whether or not the charge was made.
LosesAnswer(c) ==
    /\ Working(c, "charge")
    /\ faults < MaxFaults
    /\ \E made \in {"none", "paid"} :
          intent' = [intent EXCEPT ![task[c].auth] = IF @ = "none" THEN made ELSE @]
    /\ Goes(c, [task[c] EXCEPT !.at = "record", !.note = "failed", !.done = FALSE])
    /\ faults' = faults + 1
    /\ UNCHANGED <<balance, account, settled, last, job, credited, hook>>

\* record_auto_refill_outcome: whatever the status was, it is this one now.
Record(c) ==
    /\ Working(c, "record")
    /\ account' = [account EXCEPT !.status = task[c].note, !.fresh = TRUE]
    /\ Goes(c, Ending(task[c], task[c].done, ~task[c].done))
    /\ UNCHANGED <<balance, settled, last, job, intent, credited, hook, faults>>

\* resolve_auto_refill's fence.
Fenced(c, j) == j.status = "pending" /\ j.owner = c

StatusAfter(done, tried) ==
    CASE done -> "done"
      [] ~done /\ tried >= MaxAttempts -> "dead"
      [] OTHER -> "pending"

Resolve(c) ==
    /\ Working(c, "resolve")
    /\ LET t == task[c]
           j == job[t.auth]
           tried == j.attempts + (IF t.counted THEN 1 ELSE 0)
           status == StatusAfter(t.done, tried)
       IN  job' = IF Fenced(c, j)
                  THEN [job EXCEPT ![t.auth] = [status |-> status, attempts |-> tried,
                                                owner |-> None, lapsed |-> FALSE]]
                  ELSE job
    /\ Goes(c, Idle)
    /\ UNCHANGED <<balance, account, settled, last, intent, credited, hook, faults>>

----------------------------------------------------------------------------
(* The webhook, the owner, time and crashes.                               *)

\* Mutant: every delivery credits.
Unseen(a) == TRUE

\* The stripe_event marker, written with the credit.
Uncredited(a) == a \notin credited

\* payment_intent.succeeded: credit once, then record the outcome.  Stripe
\* delivers it until it is answered, and may deliver it again.
WebhookCredit(a) ==
    /\ intent[a] = "paid" /\ a \notin hook
    /\ credited' = credited \cup {a}
    /\ balance' = IF Uncredited(a) THEN balance + Amount ELSE balance
    /\ hook' = hook \cup {a}
    /\ UNCHANGED <<account, settled, last, job, task, intent, faults>>

WebhookRecord(a) ==
    /\ a \in hook
    /\ account' = [account EXCEPT !.status = "succeeded", !.fresh = TRUE]
    /\ hook' = hook \ {a}
    /\ UNCHANGED <<balance, settled, last, job, task, intent, credited, faults>>

WebhookDies(a) ==
    /\ a \in hook /\ faults < MaxFaults
    /\ hook' = hook \ {a}
    /\ faults' = faults + 1
    /\ UNCHANGED <<balance, account, settled, last, job, task, intent, credited>>

\* payment_intent.payment_failed.
WebhookFailed(a) ==
    /\ intent[a] = "declined"
    /\ account' = [account EXCEPT !.status = "failed", !.fresh = TRUE]
    /\ UNCHANGED <<balance, settled, last, job, task, intent, credited, hook, faults>>

\* clear_stripe_payment_method.
RemoveCard ==
    /\ account.enabled
    /\ account' = [enabled |-> FALSE, status |-> "disabled", fresh |-> TRUE]
    /\ UNCHANGED <<balance, settled, last, job, task, intent, credited, hook, faults>>

\* The retry intervals go by: 30 minutes after a charge, 5 after a failure.
Elapse ==
    /\ account.fresh
    /\ account' = [account EXCEPT !.fresh = FALSE]
    /\ UNCHANGED <<balance, settled, last, job, task, intent, credited, hook, faults>>

Holds(c, a) == c \in Callers /\ task[c] # Idle /\ task[c].auth = a /\ task[c].queued

\* A dead worker's lease lapses; a working one's only when it is late.
LeaseLapses(a) ==
    /\ job[a].owner # None /\ ~job[a].lapsed
    /\ job' = [job EXCEPT ![a].lapsed = TRUE]
    /\ IF Holds(job[a].owner, a) THEN faults < MaxFaults /\ faults' = faults + 1
       ELSE UNCHANGED faults
    /\ UNCHANGED <<balance, account, settled, last, task, intent, credited, hook>>

Crash(c) ==
    /\ task[c] # Idle /\ faults < MaxFaults
    /\ Goes(c, Idle)
    /\ faults' = faults + 1
    /\ UNCHANGED <<balance, account, settled, last, job, intent, credited, hook>>

----------------------------------------------------------------------------
RefillInit ==
    /\ balance = Start
    /\ account = [enabled |-> TRUE, status |-> "none", fresh |-> FALSE]
    /\ settled = {} /\ last = None
    /\ job = [a \in Auths |-> NoJob]
    /\ task = [c \in Callers |-> Idle]
    /\ intent = [a \in Auths |-> "none"]
    /\ credited = {}
    /\ hook = {}
    /\ faults = 0

Run(c) ==
    \/ SettledStep(c) \/ AccountStep(c) \/ BalanceStep(c)
    \/ Charges(c) \/ Declines(c) \/ Record(c) \/ Resolve(c)

RefillNext ==
    \/ \E a \in Auths :
          \/ Enqueue(a) \/ Settle(a) \/ LeaseLapses(a)
          \/ WebhookCredit(a) \/ WebhookRecord(a) \/ WebhookDies(a) \/ WebhookFailed(a)
          \/ \E c \in Callers : Claim(c, a) \/ Schedule(c, a)
    \/ \E c \in Callers : Run(c) \/ LosesAnswer(c) \/ Crash(c)
    \/ RemoveCard \/ Elapse

RefillSpec == RefillInit /\ [][RefillNext]_refillVars

\* The drain loop runs forever and its calls return; a lease lapses and the
\* intervals go by; settlements are made final; Stripe delivers its webhooks.
Fairness ==
    /\ \A c \in Callers : WF_refillVars(Run(c))
    /\ \A a \in Auths :
          /\ SF_refillVars(\E c \in Callers : Claim(c, a))
          /\ WF_refillVars(LeaseLapses(a)) /\ WF_refillVars(Settle(a))
          /\ WF_refillVars(WebhookCredit(a) /\ Uncredited(a)) /\ WF_refillVars(WebhookRecord(a))
    /\ WF_refillVars(Elapse)

FairSpec == RefillSpec /\ Fairness

----------------------------------------------------------------------------
(* The types, an attempts count that stops at its limit among them.        *)
RefillTypeOK ==
    /\ balance \in Int
    /\ account \in [enabled : BOOLEAN, fresh : BOOLEAN,
                    status : {"none", "pending", "failed", "succeeded", "disabled"}]
    /\ settled \subseteq Auths /\ last \in Auths \cup {None} /\ credited \subseteq Auths /\ hook \subseteq Auths
    /\ job \in [Auths -> [status : {"none", "pending", "done", "dead"},
                          attempts : 0 .. MaxAttempts, owner : Callers \cup {None},
                          lapsed : BOOLEAN]]
    /\ \A c \in Callers : task[c].at \in Tasks
    /\ intent \in [Auths -> {"none", "paid", "declined"}]
    /\ faults \in 0 .. MaxFaults

(* The balance is the settlements' cost and one refill for each intent that *)
(* was credited, whatever the webhook's crashes and redeliveries.           *)
CreditedOnce ==
    /\ balance = Start - Cost * Cardinality(settled) + Amount * Cardinality(credited)
    /\ \A a \in credited : intent[a] = "paid"

(* Once something is settled, a balance below the threshold is the work of  *)
(* the last settlement's own job, whatever the jobs before it did, saw or   *)
(* paid; or that job was given up, was declined, or has charged; or refills *)
(* are off.  A refill may be smaller than what is missing, and no job looks *)
(* whether it was: the balance then stays low until the next settlement.    *)
LowIsHandled ==
    balance < Threshold /\ settled # {} =>
        \/ job[last].status \in {"pending", "dead"}
        \/ intent[last] \in {"paid", "declined"}
        \/ ~account.enabled

(* Every job comes to an end: its worker's death or a lost answer only      *)
(* delays it.                                                               *)
JobEnds == \A a \in Auths :
    job[a].status = "pending" ~> job[a].status \in {"done", "dead"}

=============================================================================
