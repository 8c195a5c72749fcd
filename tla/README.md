# TrustedRouter's money, specified in TLA+

The repository is TrustedRouter's control plane: an LLM gateway's accounts,
billing, routing catalogue and monitoring (Python, `src/src/trusted_router/`),
and the fast admission service (Go, `src/fastpath/`) that admits and settles
requests without a database round trip on each. This project specifies the
parts on which customers' money depends:

- the **fast path**: a lease of credit held by one owner process in memory,
  whose every decision goes out as a record to a Pub/Sub settle log, and whose
  row in Spanner is brought up to date by an auditor that reads that log; and
  the switch that lets workspaces onto it;
- the **billing control plane**: authorizations and their settlement, the credit
  rows, refunds and disputes, transfers between planes, deferred settlement,
  automatic refills, video jobs, and creators' cash-outs.

The definitions are translated from the code; the design documents under
`docs/design/` are cited only where code and document differ.

- [How the parts interact](#how-the-parts-interact)
- [Inventory](#inventory)
- [Modules and their code](#modules-and-their-code)
- [Abstractions](#abstractions)
- [Runs](#runs)
- [Bounds, symmetry, deadlock](#bounds-symmetry-deadlock)
- [Fairness](#fairness)
- [Findings](#findings)
- [Proofs](#proofs)
- [Not modelled, and the plan](#not-modelled-and-the-plan)

## How the parts interact

    enclave (gateway)
      |  authorize, heartbeat, settle, refund
      |
      +--> fast path, for workspaces whose switch is on
      |      front door --> owner (lease in memory) --> settle log --> auditor
      |          |            |  ^                      (Pub/Sub)     members
      |          v            v  | reads, adopts                         |
      |      drain log     lease row <------------ commits, close -------+
      |                       | grants and returns
      |                       v
      +--> control plane --> credit rows (shards) <-- payments, refunds, disputes
             | settle intents     ^          ^
             v                    |          +-- transfers, deferred settlement
           settle outbox --> drain workers       (other planes)
             |
             +--> refill jobs --> Stripe --> webhook --> credit rows

An owner is granted an allocation, reserved on the workspace's credit rows. It
admits holds against it, issues a numbered record for each terminal (settle,
refund, reap, release), heartbeat and checkpoint, and answers once Pub/Sub has
acknowledged the record. It may do so only while its clock is before its
cutoff; a renewal moves it. A terminal the owner does not take is appended by a
front door to the lease's drain log, and an owner that is renewed after its
cutoff passed *adopts* those rows before it decides anything itself. The
auditor's members apply the records in order and book them on the row; once the
owner can publish no more (the fence), they fix the boundary *S* of its
records, take the drain log's rows after it, reap what is left, and close.

Workspaces that are not on the fast path settle in the control plane: a hold on
one credit row and on the key, then one commit that charges it, or an intent in
the settle outbox that a drain applies later. Both kinds spend the same credit
rows, whose debt rules (`credit_debt.py` and its Go twin) mark a workspace that
owes. A settlement's outbox row also carries the refill job.

## Inventory

State, operations, what is hard about it, and what makes it correct.

| Part (code) | State | Operations | Hard behaviour | Correct when |
|---|---|---|---|---|
| Lease owner (`internal/owner`) | books, holds, records not acknowledged, flags | Admit, Heartbeat, Settle, Refund, flush, republish, Renew, adopt, Reap, Close, checkpoint, finish, Handoff, Stop, writeShortfalls | a dozen goroutines share one lock; failed publishes; cutoffs that pass anywhere; late answers | one terminal a hold, records in order, what is stored covers what is open |
| Settle log (`internal/settlelog`) | per-key queue, the call under way, paused | Publish, Resume, send | a failed call may have stored its batch | a key's records are first stored in their order |
| Lease row (`store/lease.go`, `drain.go`, `money.go`, `commit.go`) | allocation, consumed, shortfall, returned, applied, state | Renew, Revoke, MarkDraining, ShortfallWrite, Append, Commit | three writers raise one allocation; retries after lost answers | the row is the records' replay plus raises counted once |
| Auditor (`internal/auditor`, `store/load.go`, `close.go`, `reap.go`) | per-member lease in memory; applied, S, winners, holds | load, apply, commit, acknowledge, stop at a gap, fence, drain, reap, close | two members on one lease; crash on either side of a commit; a row that appears before the close | each authorization booked once by its first terminal; a closed lease has nothing undecided |
| Front door (`internal/frontdoor`) | none between requests | route, append | owner unreachable though alive; append retried by another node | every terminal reaches the owner or the drain log |
| Grants, top-ups (`owner/shard.go`, `store/grant.go`) | asks under way, a shard's leases | ask, take, retry | a lost grant answer | room counted once, exposure bounded |
| Switch and hold (`store/hold.go`, `store/workspace.go`, `switchsql`, `fastpath_enabler.py`) | a row a workspace, holds, fleet hold, pause, arm | enable, disable, stop, kill, release, pause, resume, enabler runs | a run's plan is stale; tools of two releases | a stop stands until an operator lets go; no open lease of a workspace that is off |
| Settlement (`routes/internal/gateway.py`, `storage_gcp_authorize.py`, `storage_gcp_settle_outbox.py`, `services/settle_outbox_*.py`) | reservation, authorization, intent, generation, credit and key counters | authorize, heartbeat, settle, refund, enqueue, claim, check, apply, mark, reap, delete | redelivery, lost commits, stalled workers, the reaper | charged once, as asked; what was answered is so |
| Credit rows (`credit_debt.py`, `storage_gcp_credit_debt.py`, `storage_gcp_counter_dml.py`, rebalance, shard admin) | rows of credits, usage, reserved; the debt mark | reserve, release, grant, debit, transfer, rebalance, reshard | overruns; debt on one row and credit on another | debt is marked, a hold is found on its row |
| Refunds and disputes (`storage_gcp_trust.py`, `services/provider_trust.py`) | facts, claims, inbox, pause | notice, credit, claim, absorb | notices before the payment, out of order, repeated | claims split exactly, the latest notice stands, owed is paused |
| Credit transfers (`credit_transfer.py`, `services/credit_transfer.py`, `storage_gcp_credit_transfer.py`) | escrow rows, open index, claim rows | open, deliver, claim, record, cancel, recover | lost and late requests; a reconfigured destination | value is in one place and moves once |
| Deferred settlement (`services/home_settlement.py`, `storage_postgres.py`, `storage_gcp_federated_settlement.py`) | outstanding counter, outbox, home claim, daily cap | admit, finalize, reap, forward, apply | lost answers, two forwarders, caps | booked once at home, exposure capped, delivered or written off |
| Automatic refill (`services/auto_refill.py`, `auto_refill_outbox_drain.py`, webhook) | job, account status, PaymentIntent | enqueue, claim, check, charge, record, credit | check and charge apart; webhook before the record | each charge credited once; low is never dropped |
| Video jobs (`storage_gcp_video_jobs.py`, `routes/internal/video_jobs.py`) | job, pointer, due queue | prepare, queued, claim, update, cleaned | pollers past their lease; gateways that die | in the queue once; submitted once |
| Cash-outs (`routes/payouts.py`, `routes/internal/routable.py`, `mark_earnings_cashout`) | earnings balance, cash-out, movements | earn, reserve, submit, retry, webhook, release, reinstate | timeouts at Routable, stale statuses | the balance is the movements; released means unpaid |
| Membership, ring; edge admission and snapshots; service process; watch and tools | node rows; caches; wiring | - | staleness | one owner an epoch; an answer follows from one snapshot |
| Spec shadows (`leaselifecycle`, `terminalorder`, `auditorcommit`) | - | - | test oracles of the repository's own specifications | - |
| Accounts, keys, OAuth; catalogue and prices; payments' own flows; asynchronous settle shadow; analytics, probes; dashboard | database rows | HTTP handlers | - | - |

`PROJECT.json` has the same list with source paths and status, and the hazards,
each at the line where it bites.

## Modules and their code

| Module | What it is |
|---|---|
| `SettleLog` | the publisher of one lease's ordering key and the topic behind it |
| `LeaseRow` | the lease's row and drain log, the transactions on them, and the auditor's application of a record |
| `LeaseOwner` | the owner, composed with both (`EXTENDS SettleLog, LeaseRow`) and with its environment |
| `LeaseAudit` | the auditor's members on one lease, from its first record to its close |
| `WorkspaceSwitch` | the switch and hold tables, the operators' tools of two releases, the enabler's runs, and leases as far as the switch grants and revokes them |
| `ChargeOnce` | abstract: what settlement promises of an authorization |
| `Settlement` | authorizations, settle intents, the drain and the reaper; implements `ChargeOnce` twice, for the workspace's books and for the key's |
| `Escrow` | abstract: a microdollar is in one place |
| `CreditTransfer` | transfers between planes; implements `Escrow` |
| `CreditDebt` | the debt rules as operators on rows of headroom |
| `CreditRows` | one workspace's credit rows (`EXTENDS CreditDebt`), with payments, refunds and disputes |
| `AutoRefill` | refill jobs, charges and webhooks |
| `HomeSettlement` | a federated workspace served away from its home plane, and the debt's way home |
| `VideoJobs` | video jobs, their pointers and the due queue |
| `Cashouts` | creators' earnings and cash-outs through Routable |
| `MC*` | a module's scenarios and the values of its function constants, for TLC |
| `*Proofs` | the theorems about a module, for `LeaseOwner`, `LeaseAudit`, `WorkspaceSwitch`, `Settlement`, `CreditTransfer`, `HomeSettlement`, `VideoJobs`, `Cashouts`, and in `CreditProofs` for `CreditRows` and `AutoRefill` |

In every module a database transaction, or what the code does under one lock, is
one step; what a process remembers between two of its transactions is a
variable of its own (`worker`, `delivery`, `task`, `driver`, `mem`, `run`, ...),
so that everything it read may be stale when it writes. A call whose answer is
lost is a step that takes effect and a caller that goes on as if it had not.

**SettleLog.** `Publish`, `Resume`, `TakeBatch`, `SendOk`, `SendFails` are
`Log.Publish`, `Log.Resume`, `takeBatch` and the two ends of `Log.send`. A record
is its sequence number. `SendFails` stores any prefix of the batch, none and all
included: an answer that is lost after Pub/Sub stored the batch is the case in
which the owner's republish duplicates it.

**LeaseRow.** `Revoke`, `MarkDraining`, `ShortfallWrite`, `Renewable` are
`store/lease.go`'s; `AppendRow` is `Store.Append`, whose raise moves the
allocation in the same transaction; `Book`, `TakeReturn`, `CheckOpen`, `Fault`
are `applyMoney` and the commit's statement; `ApplyTerminal`, `ApplyCheckpoint`,
`ApplyRecord`, `Deliver` are the auditor member's `Lease.Apply`.

**LeaseOwner.** The books (`allocation`, `held`, `consumed`, `pending`, `buffer`,
`shortfall`) are `Lease`'s fields; `hold` its map of holds; `log`, `acked`, `live`
its issued records, how many the flusher has seen acknowledged, and how many of
the rest are published since the last failure. Each request is one step, since
the code holds the lease's lock from its first check to `handOver`; goroutines
that let the lock go between reading and acting have a variable for their place:

| Goroutine | Place | Actions |
|---|---|---|
| requests (`requests.go`) | - | `Admit`, `Heartbeat`, `Settle`, `Refund` (the last two by `Decide`) |
| flusher (`flush.go`) | `flusher` | `FlushAck`, `FlushFail`, `RepublishBegin`, `RepublishNext` |
| renewal round (`spanner.go`, `adopt.go`) | `round`, `adoption` | `RoundBegin`, `RenewCommits`, `RenewFails`, `Renewed`, `RenewRefused`, `AdoptRead`, `AdoptNext`, `AdoptFails`, `AdoptDone`, `Checkpoint`, `LetIfAbandoned` |
| finish (`spanner.go`) | the row's state | `FinishMarks`, `FinishLease` |
| reaper (`adopt.go`) | `reaper` | `ReapScan`, `ReapUndrained`, `ReapAdopts`, `ReapDecides`, `ReapGivesUp`, `ReleaseDue` |
| shortfall writer (`spanner.go`) | `writer`, `stored` | `WriterSends`, `WriterLands`, `WriterAnswered`, `WriterRetries` |
| forced exit (`handoff.go`) | `handoff` | `Handoff`, `HandoffCut`, `HandoffMarks`, `HandoffEnds` |
| process | `let`, `stopped` | `Close`, `StopWorkers`, `Stop` |
| environment | `past`, `failedLong`, `enabled`, the row | `PassCutoff`, `FailLong`, `Switch`, `RowRevoked`, `RowExpires`, `DrainAppend`, `Sender`, `Auditor` |

`owed` is a history variable: the drain log's length when a renewal last found
the lease past its cutoff. No guard reads it. `Stop` is also the crash: what is
left then is the row, the topic and the drain log, and that no prefix the log
may have kept leaves a hold uncovered is `StoredPrefixCovers`.

**LeaseAudit.** `mem[m]` is a member's held lease (`auditor/runtime.go`,
`member.go`): the records delivered and not acknowledged (`pend`), its own
progress, winners and holds, and what it has not committed (`won`, `put`,
`bound`). `LoadLease`, `Apply`, `Commit`, `AckClean`, `AckDone` are the runtime's
`load`, `apply`, `commit`, `commitAll`; `GapCommits` and `StopAtGap` its
`stopAtGap`; `LearnWinners`, `ReadRows`, `Reap`, `SeeEnd`, `CloseLease` its
`drain`, `reap` and `closeAt`. `Takes`, `StopTakes`, `Reaps`, `Closes` are the
conditions that Spanner evaluates, most of all `row.version`. The owner, the
ticker and the front doors are there as far as members can see them.

**WorkspaceSwitch.** `Enable`, `Disable`, `DisableAll`, `Release`, `ReleaseAll`,
`ReleaseStamped`, `Pause`, `Resume`, `Arm`, `HoldBackfill` are `store/hold.go` and
`store/workspace.go`; `OlderDisable`, `OlderDisableAll`, `OlderEnable` are what a
release before them writes. `Plan`, `WriteDisable`, `WriteEnable`, `EndRun`,
`RunDies` are a run of `fastpath_enabler.py`: one snapshot, then row by row.
`intent` is a history variable, what an operator last wanted of a workspace, and
by an older tool before the arm (`"early"`) or not.

**Settlement.** `Authorize` and `Heartbeat` are the store's. A `delivery` is one
run of the settle route: `Receive`, then `OneCommit` (or its refusal, failure or
late landing), else `Insert` / `Refresh` and `Finalize`, `FinalizeLost`,
`MarkIntent`, `ReadBack`. A `worker` is the drain: `Claim`, `Check`, `ApplyWins`,
`ApplyLost`, `Resolve`. `Expire` and `Reap` are the expiry reaper, `Delete*` what
Spanner's TTL does once a row is armed, `ApproveRelease` a person's write.

**CreditTransfer.** `Open`, `Reopen`, `Cancel` are an operator's; `Deliver`,
`GiveUp`, `DeliverLate` the request and its fate on the wire; `WriteClaim` the
destination's one claim row; `Record` the source's verdict; `StartPass`,
`NextPage`, `NextTransfer` the recovery's walk of the open index.

**CreditDebt, CreditRows.** `Cover`, `Square`, `Repay`, `TakeInflow` are
`credit_debt.py`'s functions; what its loops take from rows or claims in turn is
`TakeInTurn`, with the order they ask them in as a parameter. `Reserve`, `Release`, `Grant`, `Debit`, `TransferIn`,
`TransferOut`, `FederatedUsage`, `Rebalance`, `Reshard` are the transactions on
the rows. `Provider`, `Notice`, `CreditPayment` are a provider's story of a
refund or dispute, the delivery of a part of it, and the payment's credit with
what waited for it in the inbox, applied in the order of `LastDrained`.

**AutoRefill.** `Enqueue`, `Claim`, `Resolve` are the job on the outbox row;
`SettledStep`, `AccountStep`, `BalanceStep`, `Charges`, `Declines`, `Record` the
steps of `maybe_charge_after_settle`, from the drain or (`Schedule`) in process;
`WebhookCredit`, `WebhookRecord`, `WebhookFailed` the webhook's writes. `last` is a
history variable, the authorization settled last.

**HomeSettlement.** `HoldKey`, `Create`, `GiveBack` are an authorize call;
`Finalize`, `Expire`, `Reap` end it and leave debt; `StartPass`, `Post`,
`HomeApplies`, `MarkForwarded`, `MarkDeadLetter`, `Bump` forward it.

**VideoJobs.** `Prepare`, `Queued`, `Claim`, `Update`, `MarkCleaned` are the store's
operations; the gateway's `Submit`, the poller's `Poll` and the provider are
outside the repository.

**Cashouts.** `Reserve`, `Retry`, `Find`, `Create`, `Reject`, `Reconcile` are the
payout route, `Retrieve` and `ProcessEvent` the webhook, `Mark` and `ReleaseCash`
the store's two writes. `Takes` and `Moved` are Routable: a payable fails, is
restarted, is paid, and may fail late after that
(`tests/conformance/test_store_semantics.py:552`); only a cancellation is final.

Operators marked *Mutant* or *Bug variant* are deliberate mistakes (a dropped
guard, an order swapped, a count forgotten). Nothing uses them; putting one in
the place of the operator after it must break a property, which shows that the
property depends on that line of the code. `PROJECT.json` says which breaks which.

## Abstractions

Common to all: time is what the code compares it with (a lease is lapsed or
not, a row is due or not), except in `VideoJobs`, whose queue is ordered by it.
Integers are unbounded: where the code refuses an operation whose sum would
overflow an int64, it does so before it moves anything. A request that fails
validation writes nothing and is no step.

- **LeaseOwner.** A hold is due for its reap or release whenever the reaper
  looks. Donors (the shards an allocation came from) are not told apart. A batch
  commit is a sequence of single-record commits. A hand-off has at most one
  chunk. `enabled` also stands for the node having been retired for longer than
  its holds can live. Answers to gateways (`awaitAck`) change no state of the
  lease and are left out. The auditor is one member here, `LeaseAudit` has two.
- **LeaseAudit.** Money is `consumed` alone. The packs of winners are one set.
  Reading the lease and its winners is one read. Delivery is merged with apply;
  ticks after the fence's are that tick, redelivered to members that do not know
  *S*. The owner has one terminal for a hold (`LeaseOwner`'s `OneTerminal`), and
  a record stored after the fence was never acknowledged to anyone (`intime`).
  Heartbeats' figures, and the pending work with its staging, are left out. A
  reap whose full record cannot be published is a reap not taken.
- **WorkspaceSwitch.** `changed_at` is the two comparisons made of it (`since`,
  `stamped`). What the enabler reads of a workspace is one `fact`; probes and
  federated entities fold into `deleted`. One run at a time. Include and exclude
  lists, override, bypass and the watermark's freeze are left out. Older tools,
  enables as well as disables, run before the arm or under a pause, as the
  rollback's procedure has it. A
  workspace without a row is as one that is off and was released after the arm.
- **Settlement.** One workspace, one key, one credit row (shards are
  `CreditRows`). A row's claim is told by its worker, which stands for the token
  of each claim. `InCommit` says which authorizations are settled by a plane that
  writes the activity row in the commit. `ApproveRelease` and the 30-day deletion
  of authorizations happen when nothing works on the authorization (`Quiet`): a
  timing assumption. Leased authorizations, legacy rows, the refill's columns
  (`AutoRefill`), the asynchronous fence (off), an operator's re-arming of
  dead rows, and the failure of the read in `ReadBack`, after which the route
  answers from what it has (`gateway.py:4743`), are left out.
- **CreditTransfer.** Source labels are set and differ, so a plane is its label.
- **CreditRows.** Holds are told apart by request, one each. Not modelled: the
  healing of a stale mark, `repair_typed_*`, facts that a history scan writes for
  payments not credited, tiers and the trust latch, and the reconcilers' horizon.
  `EveryNotice` says whether a provider's inbox keeps every notice. A provider
  may tell a status again, with a later watermark. The operator's pause for a
  reshard, and its end, are the store's update of the workspace's pause causes;
  what `scripts/shard_workspace.py` verifies before it lifts the pause is left out,
  so the pause may end at any time.
- **AutoRefill.** One workspace, with the balance as a single number.
- **VideoJobs.** The route's look at `authorization.settled` and the store's prepare
  are one step (`routes/internal/video_jobs.py:64`, `:119`). An update carries its
  poller's lease owner, which the schema lets a caller leave out; and only a poller
  that claimed a completed job marks it cleaned, which the store does not check.
  Both are assumptions on the poller, which is outside the repository.
- **HomeSettlement.** No single cost is above the daily cap; a known workspace is
  not deleted.
- **Cashouts.** Profiles, onboarding, links, errors shown to the owner and
  fingerprint conflicts, which write nothing, are left out. So are a status that
  `normalize_routable_status` does not know (`routable_payouts.py:119`) and an answer
  without a payable's id (`payouts.py:422`): neither touches the balance.

## Runs

Twelve runs, one for each question; eleven pass, one shows a disagreement of the
code with its comment. A run's MC module has *scenarios*, chosen in the initial
state: each lets a part of the actors go further, since all of them at once are
out of TLC's reach. Every action of a module is taken in one of its scenarios.

| Run | Scenarios | Checks | What it shows |
|---|---|---|---|
| `owner` | publish, lapse, reap, adopt, audit, end | NoGap, OneTerminal, StoredPrefixCovers, BooksBalance, RowFollowsRecords, LastRecordListsHolds, DrainedRowsWin | One lease under failed and duplicated publishes, cutoffs that pass anywhere, the reaper, adoption, the auditor with the shortfall writer, and every way a lease ends. |
| `owner_live` | retry, finish | RecordsReachLog, ShortfallStored, ClosedLeaseEnds | Records are acknowledged, a shortfall reaches the row, a closed lease ends. |
| `audits` | overtaken, drained, crashed, unheard | BookedOnce, AckedIsDurable, NoFalseGap, NothingLeftBehind, LeaseCloses | Two members on one lease: one overtakes, crashes, or loses a commit's answer; a front door's row, the fence, reaps, the close. |
| `switch` | standing, rollback | StopsStand, LeasesFollowSwitch, EnablerSettles | Operators and tools of two releases against an enabler whose plan is stale. |
| `settles` | commit, index, workers, byok | ChargedOnce, AnswersAreTrue, EvidenceIsKept, PromiseKept | Two deliveries, two workers, reaper and deletions in every order, with store errors, lost commits and stalled workers. |
| `transfers` | shared, rerouted, queue | ValueMovesOnce, RecoveryResolves | Two sources with the same ids; a destination reconfigured under way; a queue for recovery. |
| `rows` | rows, claims, notices | DebtIsMarked, HoldsAreReserved, ClaimsBalance, LatestWins | Every operation on one to three rows; refunds and disputes in any order. |
| `early_unpause` | as `rows` | OwedIsPaused | Violated: see [Findings](#findings). |
| `refills` | callers, settlements | CreditedOnce, LowIsHandled, JobEnds | Two workers on one job, or two settlements, with declines, a removed card, and webhooks repeated or cut short. |
| `deferred` | known, unknown | CountersAreExact, DebtBookedOnce, ExposureIsCapped, DebtIsDelivered | Two calls and two forwarders; a workspace its home knows, and one it does not. |
| `videos` | - | NothingForgotten, SubmittedOnce | A job prepared twice, two pollers past their leases. |
| `cashouts` | crowded, two | BooksBalance, ReleasedIsUnpaid, PaidIsRecorded | One cash-out handled by two calls at once, or two on one balance. |

The properties, in a line each:

- **NoGap**: a record is first stored only after its predecessor.
- **OneTerminal**: at most one terminal record for a hold, none for an open one.
- **StoredPrefixCovers**: for every prefix of the records that the log may have
  kept, the allocation it leaves covers what it books and the holds it leaves
  open. This is why `pending` exists: room a terminal frees is not given again
  until its record is acknowledged.
- **BooksBalance** (`LeaseOwner`): each book is the sum over holds or records that
  it caches.
- **RowFollowsRecords**: the row is the replay of the records it applied, plus
  exactly the raises it heard of by other ways; and the auditor finds no fault
  with an honest owner, whatever the order of the row's writers.
- **LastRecordListsHolds**: the manifest lists the open holds, and a final
  checkpoint leaves none.
- **DrainedRowsWin**: a row that was in the drain log when a renewal found the
  lease past its cutoff is not outranked by a terminal decided later.
- **BookedOnce**: each authorization is booked once, by the first terminal in the
  lease's order: the owner's records up to *S*, then the drain log's rows.
- **AckedIsDurable**: Pub/Sub is told to forget a record only once its effect is
  stored, or can be no more.
- **NoFalseGap**: a member that others overtook does not stop the lease.
- **NothingLeftBehind**: a closed lease has decided every terminal published in
  time, by the owner's record, and every row, and holds nothing.
- **StopsStand**: a workspace that was stopped or killed stays off until an
  operator lets it go; one that is on with a hold of its own is so only under a
  rollback's pause, or by an older enable made before the arm.
- **LeasesFollowSwitch**: an open lease's workspace is on.
- **ChargedOnce**: `Credit!Spec /\ Key!Spec`, the refinement of `ChargeOnce` by
  the workspace's and by the key's books.
- **AnswersAreTrue**: a finalized answer is the decision the records hold; an
  `intent_durable` answer left an intent or a decision.
- **EvidenceIsKept**: a pending or dead intent's records are there and not armed
  for deletion; a stream reaped at its snapshot keeps the snapshot's generation.
- **ValueMovesOnce**: `Purse!Spec`, the refinement of `Escrow`.
- **DebtIsMarked**: no row is negative unless marked, and none is marked unless
  the sum is negative.
- **HoldsAreReserved**: a row's reservation is its open holds, through reshards.
- **ClaimsBalance**: credit is what came in less what claims recovered, and each
  claim splits exactly for the target its facts set.
- **LatestWins**: the stored fact is the latest notice heard, in any order, where
  the inbox keeps every notice.
- **CreditedOnce**: the balance is the settlements and one refill a paid intent.
- **LowIsHandled**: a low balance is the work of the last settlement's job,
  whatever earlier jobs did or paid, unless that job was given up (dead), its charge
  was declined or made, or refills are off. It does not say that the charge is
  enough: a refill smaller than what is missing leaves the balance low until the
  next settlement (see [Findings](#findings)).
- **CountersAreExact**: the outstanding counter is the open estimates plus the
  debt not delivered, and the key's hold covers what is open, and is no more
  unless a call died on the way.
- **DebtBookedOnce**, **ExposureIsCapped**: at home once, for its amount; above
  the cap only by what requests cost beyond their estimates.
- **NothingForgotten**, **SubmittedOnce**: in the due queue once, submitted once.
- **BooksBalance** (`Cashouts`): transferred is what is held, the movements say
  so, and more is spent than earned only by what was reinstated.
- **ReleasedIsUnpaid**: earnings are given back only where Routable has no live
  payable, as long as it denies no call.
- Liveness: **RecordsReachLog**, **ShortfallStored**, **ClosedLeaseEnds**,
  **LeaseCloses**, **EnablerSettles**, **PromiseKept** (an intent answered as
  durable is decided or dead in the end), **RecoveryResolves**, **JobEnds**,
  **DebtIsDelivered**, **PaidIsRecorded** (a payable that is paid and stays so is in
  the end recorded as paid and remains so, as long as Routable denies no call; one
  that fails late may be canceled and released).

The modules' `TypeOK` are not checked in these runs: of eight modules it is a
theorem; the others were checked once with the same constants and are kept for
the proofs to come.

### The two abstract specifications

`ChargeOnce` says of an authorization: a hold is taken once and decided once, by
a charge that was asked for, or free; free only if a refund was asked for or the
hold lapsed with no intent outstanding that a person had not waived; the books
move with the decision in one step; and an intent for an undecided hold ends only
by the decision or a waiver. `Settlement` maps `account` to the reservation,
`asked` and `refunds` to the deliveries and heartbeats, `promise` to the
statuses of the authorization's outbox rows, and `spent` and `reserved` to the
credit row, and again to the key's row, where a request on the customer's own
provider key counts too.

`Escrow` says that a microdollar is spendable on one plane or parked in one
escrow of it, is parked once, and leaves once, for the destination it was parked
for or for where it came from. `CreditTransfer` maps a transfer to "there" as
soon as its destination's claim accepted it, whatever the source has heard, and
to "back" when the source recorded a rejection.

## Bounds, symmetry, deadlock

Every bound is a constant of its module (`Max...`) or a condition of the MC
module's scenario.

- `owner`: three or four records are enough for one acknowledged, one in the
  call, one queued behind and one waiting for a republish; two failures give a
  failure during a republish; two rows for one hold give a first row and a later,
  disagreeing one. `Granted = 5`, holds of 2 and charges of 1 and 3 make a hold
  undercharged, and overcharged beyond the lease's room.
- `audits`: two members are the least that overtake each other; three records let
  one member be two behind; one row, one crash, one lost answer, in the
  combinations the scenarios name.
- `switch`: two workspaces and a rank limit of one make them compete for a place;
  every fact occurs; a run may die once.
- `settles`: two deliveries of one authorization with different terminals, two
  workers on one intent, `MaxAttempts = 2`, two faults: an error or a loss, and
  one more while it is recovered from.
- `transfers`: amounts that do and do not fit, one page of one row and a budget of
  two, so that a pass has to turn the page; two faults (a lost answer and a late
  request of the same transfer), one reconfiguration.
- `rows`: overruns of 1 on a hold of 2, three shard counts, three operations
  outside requests; a dispute and a refund of one payment with up to three
  statuses each, repeated ones among them, and four in all, and of two payments
  with up to three in all.
- `refills`: a settlement that brings the balance to below the threshold, which
  one refill makes good, and a second, after which two refills together do not;
  two attempts; two faults for two callers on one job, and for two settlements one,
  or none while a task outside the queue is at work.
- `deferred`: a cap that two estimates do not fit, costs below and above the
  estimate, passes of one row, a daily cap that two debts do not fit.
- `videos`: eight ticks cover submission timeout, two polls, retention and a lapsed
  lease; three faults.
- `cashouts`: earnings that cover one cash-out and one transfer but not two
  cash-outs; five status changes let a payable be paid, fail late, restart, fail
  again and be canceled or paid (the fifth where no call is denied); one denied call.

Symmetry is used in `owner` (authorizations) and `videos` (pollers, jobs), which
check invariants and action properties only and compare none of these values.

`CHECK_DEADLOCK FALSE` in every run: a lease, a job or a settlement ends, and so
does its behaviour; and the bounds stop the model where the code goes on.

## Fairness

- `owner_live`: weak for goroutines that loop as long as the process lives, strong
  for the answers of Spanner calls that are retried for ever (`RenewCommits`,
  `Renewed`, `RenewRefused`, `WriterLands`), in whose place an error may come.
  Requests, front doors, the clock and outside ends are not fair;
  `RecordsReachLog` and `ClosedLeaseEnds` state what they need of the cutoff.
- `audits`: the members, the ticker and the clock go on, and an expired lease is
  found by the scan for such leases; the owner need not. In "overtaken" time stands
  still, so that scenario has no fair behaviour and is there for the invariants.
- `switch`: the job runs every 15 minutes and a run goes through its lists.
  Operators and facts are not fair.
- `settles`: the drain's workers go on, claims lapse; deliveries are not fair.
- `transfers`: recovery is scheduled and a pass goes on; keys are used, which
  federates a workspace. Requests and operators are not fair.
- `refills`: the drain loop, lapses, Stripe's webhook. Strong for a job's claim,
  since a caller busy with another job comes back to it.
- `deferred`: the loop in `main.py` and its reaping pass; strong for a row's post,
  since each pass takes the most overdue rows first.
- `cashouts`: strong for an event's retrieval and processing, since Routable
  repeats an event until it is answered with 200.

Crashes, losses and outages are bounded, which says that the store and the
network recover.

## Findings

**`early_unpause` (code).** `apply_adverse_trust_event_tx` sets the workspace's
recovery pause from the unrecovered amount of the notice's payment alone
(`storage_gcp_trust.py:711`), so a notice that settles one payment's claim lifts
the pause while another payment's claim is unrecovered. The comment on the
inflow's side says "A strong sum after our guarded updates is the authoritative
cause-clear predicate, including claims that this credit did not fully absorb"
(`storage_gcp_trust.py:344`), and the in-memory store looks at every payment. The
pause is set again by the next notice or absorbed inflow.

Other places where code and text differ, met while modelling. The models do what
the code does, and none of the properties above depends on the text:

| Code | Text | What happens |
|---|---|---|
| `owner/spanner.go:127`: `Owner.Renew` calls `Renewed`, then adopts | `owner/owner.go:540` "the owner adopts the lease's drain log before it calls Renewed so" | Safe: `unadopted` keeps every terminal but an adoption's from being decided (`DrainedRowsWin`). |
| `storage_gcp_settle_outbox.py:677`: `claim_candidates` returns the rows that an earlier `due()` read | `:519` a pending row is to "refresh its frozen inputs to this (latest) delivery" | A redelivery between the two is not what the drain charges. It is charged once (`ChargedOnce`), at a cost that was asked for. |
| `services/credit_transfer.py:261`: a pass reads at most its budget from the front of the queue | `:251` "Walking a cursor past them is what stops a permanently-unresolvable row from starving the ones behind it" | As many unresolvable rows as the budget starve the rest. `RecoveryResolves` is checked with a budget that covers the queue. |
| `storage_gcp_credit_transfer.py:437`: a rejected transfer's amount comes back when the source records it | `credit_transfer.py:16` "Every microdollar is in exactly one of those three buckets at every instant" | Between the claim and the record the amount is in none of the three; none is lost (`ValueMovesOnce`). |
| `storage_gcp_counter_dml.py:144`: a guarded debit looks at one row | `docs/design/fast-admission-and-batched-settlement.md:1001` "Python's per-shard check means the same as the signed sum" | A debit succeeds on a positive row of a workspace in debt; the rows stay marked (`DebtIsMarked`). |
| `storage_gcp_trust.py:721`: the inbox keeps the first notice of a provider's key | `trust_tiers.py:145` "converged on the greatest watermark among those Events, regardless of delivery order" | For a provider whose key is the refund's (`EveryNotice = FALSE`), a later state heard before the payment is credited is dropped. `LatestWins` is checked for the others. |
| `services/auto_refill.py:73`: the account is read before the charge and written after it | `:7` "a no-op while another refill is in flight (idempotency-key gated)" | Two settlements at a time charge twice, each under its own key; each is credited once (`CreditedOnce`). |
| `services/auto_refill.py:169`: "pending" is written without looking | `:37` "marked pending until the Stripe webhook credits the workspace" | A webhook that was faster is overwritten, and refills wait for the pending interval. |
| `services/auto_refill.py:169`: a charge ends its job, and nobody looks whether the balance is back above the threshold; the console takes a threshold of 10 to 500 and an amount of 5 to 2000 (`routes/console/credits.py:526`) | `:1` "when a workspace's available balance drops below the configured threshold, charge the saved Stripe payment method" | A refill below the deficit leaves the balance low until the next settlement: which is why `LowIsHandled` asks no more once the job has charged. |
| `store/hold.go:480`: `Arm` looks for disabled rows without a hold, not for enabled rows with one | `docs/design/fast-admission-widening.md:589` "An enabled and held row from a rollback therefore never reaches the enabler", said of the resume | A row that an older `enable` left held before the arm does reach the enabler, whose first run disables it, uncapped: which is what `"early"` in `StopsStand` allows for. |
| `storage_gcp_video_jobs.py:65`: `mark_queued` of a finished job | `:164` "Terminal state is immutable except for repairing a missing generation link" | The cleanup's time moves; the job stays in the queue (`NothingForgotten`). |
| `routes/payouts.py:403`: a 400, 401, 403, 404 or 422 of any call releases | `docs/routable-payouts.md:39` "Ambiguous transport failures stay reserved until reconciliation; they are never blindly released or duplicated." | A refused search after a create that timed out releases a live payable: hence `denials = 0` in `ReleasedIsUnpaid`. The next event reinstates it. |
| `storage_gcp.py:4258`: any pending status reinstates a released cash-out | `docs/routable-payouts.md:43` "Only a final cancellation releases the reservation, exactly once." | A status read before the cancellation, written after it, reinstates a canceled cash-out for good. |

## Proofs

TLAPS proves the following for every value of the constants: any number of
authorizations, records, rows, members, workers and failures. Each proof module
`XProofs` extends `X`, states the inductive invariant (or its parts) at its top,
and has one lemma per action or group of actions. `LeaseAuditProofs`
extends `WorkspaceSwitch` as well, and has the switch's theorems at its end;
`CreditProofs` is about `CreditRows` and, at its end, `AutoRefill`.

| Module | Theorem | Statement |
|---|---|---|
| `LeaseOwnerProofs` | `InOrder` | `Spec => []PublishedInOrder` |
| | `TopicHasNoGap` | `Spec => []NoGap` |
| | `FirstTerminalWins` | `Spec => []OneTerminal` |
| | `LastRecordIsComplete` | `Spec => []LastRecordListsHolds` |
| | `OwedRowsWin` | `Spec => DrainedRowsWin` |
| | `BooksAreBalanced` | `Spec => []BooksBalance` |
| | `PrefixesCover` | `Spec => []StoredPrefixCovers` |
| | `RowIsFaithful` | `Spec => []RowFollowsRecords` |
| `LeaseAuditProofs` | `AuditBooksOnce` | `Spec => []BookedOnce` |
| | `AcksAreDurable` | `Spec => []AckedIsDurable` |
| | `NothingIsTakenForAGap` | `Spec => []NoFalseGap` |
| | `ClosesWithNothingLeft` | `Spec => []NothingLeftBehind` |
| | `StopsAreKept` | `SwitchSpec => []StopsStand` |
| | `LeasesAreRevoked` | `SwitchSpec => []LeasesFollowSwitch` |
| | `SwitchTypeCorrect` | `SwitchSpec => []SwitchTypeOK` |
| `SettlementProofs` | `BooksChargeOnce` | `Spec => ChargedOnce` (`Credit!Spec /\ Key!Spec`) |
| | `IntentsKeepEvidence` | `Spec => []EvidenceIsKept` |
| | `EnclaveIsToldTheTruth` | `Spec => []AnswersAreTrue` |
| `CreditTransferProofs` | `PlanesMoveValueOnce` | `Spec => ValueMovesOnce` (`Purse!Spec`) |
| `CreditProofs` | `DebtAlwaysMarked` | `Spec => []DebtIsMarked` |
| | `HoldsAlwaysReserved` | `Spec => []HoldsAreReserved` |
| | `ClaimsAlwaysBalance` | `Spec => []ClaimsBalance` |
| | `LatestAlwaysWins` | `Spec => []LatestWins`, if `EveryNotice` |
| | `RowsTypeCorrect` | `Spec => []TypeOK` |
| | `RefillsAreCreditedOnce` | `RefillSpec => []CreditedOnce` |
| | `LowBalancesAreHandled` | `RefillSpec => []LowIsHandled` |
| | `RefillTypeCorrect` | `RefillSpec => []RefillTypeOK` |
| `VideoJobsProofs` | `QueueForgetsNothing` | `Spec => []NothingForgotten` |
| | `AuthSubmitsOnce` | `Spec => []SubmittedOnce` |
| `CashoutsProofs` | `EarningsBalance` | `Spec => []BooksBalance` |
| | `ReleasesAreUnpaid` | `Spec => []ReleasedIsUnpaid` |
| `HomeSettlementProofs` | `CountersStayExact` | `Spec => []CountersAreExact` |
| | `BookedAtMostOnce` | `Spec => []DebtBookedOnce` |
| | `ExposureStaysCapped` | `Spec => []ExposureIsCapped` |
| each of the others | `TypeCorrect` | `Spec => []TypeOK` |

The assumptions are the named `ASSUME`s of the modules. Beyond the types of the
parameters they say: a ceiling is not below its estimate (`LeaseOwner`); members
and authorizations are finitely many (`LeaseAudit`), as are requests and calls
(`HomeSettlement`), workspaces, cash-outs and moves, and requests, payments,
refunds and disputes (`CreditRows`); a payment's number is its place in the order
in which they occurred, and what was paid is not zero; a workspace's usage ranks it
alone (`WorkspaceSwitch`); sources are not destinations (`CreditTransfer`); the
ids of payout events and of moves differ by their prefixes (`Cashouts`); `None` is
no authorization, caller, poller or job. One theorem has a hypothesis of its own:
`EveryNotice` of `LatestAlwaysWins` is true of PayPal and Adyen, whose inbox rows are
keyed by the notice; a finding above says what happens for the others.

### The arguments

**LeaseOwner: types and order.** `TypeOK` includes `live <= Inflight`, which is
not inductive alone: `FlushAck` counts `live` down, and needs that an
acknowledged record was published since the last failure. `PublishedInOrder`
says so (records split at a point *p* into acknowledged, with the sender or
queued in order, and waiting for a republish), and in turn needs the types.
`NoGap` needs `PublishedInOrder` (a batch is the records after those already in
the topic), and that records in the topic are records handed over
(`RecordsKnown`). So `Inv == TypeOK /\ PublishedInOrder /\ RecordsKnown /\ NoGap`.
`Publish` adds at the end of the queue, `TakeBatch` moves the boundary between
sender and queue, `SendOk` moves *p*, `SendFails` empties both and pauses the
key, which makes everything past *p* failed or unsent; a flusher that then meets
the first of these resets `live`, and its republish starts at `acked + live + 1`,
the record after *p*.

**LeaseOwner: decisions.** `TermInv`: a hold with a terminal record is decided,
and two terminal records name two holds; every terminal goes through `Decide`,
whose guard `Undecided` gives the step. `ListInv`: after a final checkpoint or a
cut manifest nothing is admitted or decided. `RowsInv`: no row below the
adoption's cursor, nor one that the adoption under way has passed, names an open
hold, and while the lease decides by itself (`~unadopted`) the rows it owes are
below the cursor; `DrainedRowsWin` is an action property that follows from it and
from the step.

**LeaseOwner: sums.** The model's `Sum` is the cardinality of a set of pairs, so
that what a step does to a sum follows from the library's theorems on finite sets
(a union with a fresh set of *n* pairs) and no induction over data is needed. On
this rest `BooksInv` (each book is the sum it caches, and finitely many holds were
admitted) and `PrefixInv`. The latter is what `StoredPrefixCovers` needs to be
inductive: `Covered` says that for every prefix the log may have kept, the room
it leaves is not negative, and that the room left now is at most the prefix's
room plus what records after the prefix have freed. `pending` is that last sum
from `acked` on, and `Admit` and the return of free room take only what is left
when `pending` is set aside. `RaiseInv` and `EndedInv` say that a front door's row
raised exactly its overrun, and that decided holds have their terminals.

**LeaseOwner: the row.** `RowFollowsRecords` speaks of the records the row has
applied, and its step needs to know that the next one fits. So `SoundLog` says of
every record what makes it fit, by the records before it alone: a terminal is its
hold's first and its shortfall total no less than those before, a checkpoint's
consumed is what was charged and its open holds fit what is left, and what is
charged never exceeds what is allocated. The last is `PrefixInv` for the whole
log, taken when the record is handed over; the record then stays sound, whatever
follows (`SoundKept`). The row may lag or be ahead: the shortfall writer and the
front doors raise it before it applies the records that state those raises. A
booking fits all the same because `LinkInv` takes each raise a record states to
the drain-log row it adopted, different records to different rows, so that the
records' raises are never more than the rows' (`RaisesFit`, by an injection
between the two sums' pairs), and because a total only grows (`TotalsInv`).

**LeaseAudit.** All that is known of what a member applied is known while its
version is the row's (`Current`), which is when its commit is taken; what it was
given, and that it was given it in order, is known always (`Sane`). `RowRight`
says that the row's winners are the owner's terminals up to `applied`, and after
the boundary the first rows of authorizations without one. The sum in `BookedOnce`
is over winners, which a commit extends by authorizations not among them; that
the fold `MapThenSumSet` adds up as a sum does (`TotalAdds`, `TotalOfUnion`) is
shown from a smallest counterexample, the library's induction theorems being out
of the provers' reach.

**WorkspaceSwitch.** What a kill stopped is kept by the fleet's row (`KillsHold`);
what was stopped after the arm has a hold, or is among the rows that the resume's
backfill will find (`StopsHold`). Outside a pause no step makes a held workspace on
but an older enable before the arm, and that one is told by its `"early"` until the
next word on the workspace, which clears the hold, turns it off, or falls in a
pause, which the resume does not end while such a row is there.

**Settlement.** The invariant is stated of one authorization's records
(`RecordsRight`), one outbox row with them (`RowRight`), one delivery and one
worker (`DeliveryRight`, `WorkerRight`), each at each point of its run; a step
touches one authorization, and frame lemmas carry the others. The refinement
maps every step to a hold, an ask, a move of the promise, a decision or a
stutter of `ChargeOnce`, for credit and for the key at once; what rows and workers
carry was asked for by a delivery (`RowsAsked`), which is why what is charged was
asked for.

**CreditTransfer.** Rows keep their terms and claims stand, so what a driver's
state says of them survives the others' steps (`Drives`, `RowsStay`, `ClaimsStay`).
A source records what the destination claimed (`RowsHaveClaims`), and the
mapping's place of a parcel moves with the claim.

**CreditRows: sums.** Headroom, credit, holds and claims are folds over finite
sets (`SumFunctionOnSet`). From the library's definition follows one fact, that a
sum is any of its terms and the sum of the others (`SumWithout`), shown from a
smallest counterexample (`FewestOf`); from it the rest: sums term by term, of a
function changed in one place, of terms that are bounded. `TakeInTurn` then takes
what is asked for or all there is, whatever the order it asks in, as long as that
is a strict order (`TakenInAll`): which row or claim is drained first decides who
pays, never how much. `Distribute` adds up to what it spreads, also for a negative
amount (`DistributeIs`).

**CreditRows: the debt rules.** `Cover` moves headroom and adds none, and if the sum is
not negative it ends with no negative row: every turn brings a row to zero and
makes no other row non-zero, so after *i* of *n* turns at most *n - i* rows
are not zero, or nothing is negative (`CoverIs`). So `Square` ends every write with the mark
its rows call for, `Marks(h, marked)`, whatever was true before it. The hard cases are
the writes that do *not* square: a release without an overrun, a guarded debit,
a transfer out, a rebalance, a claim's debit. They take from positive rows no more
than these have, so under the old mark the new rows are right too; and a debit from
a marked workspace can only lower a sum that was negative.

**CreditRows: the invariant.** `CreditInv` is of the rows, claims and holds together
(`Accounts`): credit plus what claims recovered is the money that came in, every
claim is split exactly (`Booked`), the mark is right (`Marks`), a credited payment's
target is its facts' and one not credited has neither claim nor fact (`Targets`),
and reservations are the holds on their row (`Placed`). None stands alone: a restored
claim gives back no more than was recovered only because the claim is split
exactly, and a reshard without holds may drop the reservations only because they
are the holds. For notices it says that a status heard is one the provider told
(`Told`, `Hears`), statuses told later are reachable from earlier ones (`Later`),
which makes the code's "illegal" outcome impossible for a later notice; that
notices of a payment not credited all wait in its inbox, and the latest of a
credited one is its fact (`Known`). Draining the inbox is an induction over the
subsets of its rows, one last-drained row at a time. It follows that the
code's two checks "payment recovery invariant violated" never fire, and that the
guard `reserved >= @hold` never refuses the release of an open hold.

**AutoRefill.** A caller has seen its settlement final before it charges or ends
the job, and a charge is done only when Stripe has decided it (`TasksRight`).
`LowHasWork` is about the last settlement's job alone. While the balance is low, that
job is open and no caller is about to end it (`Attended`), or its end shows. A caller
ends it only for an account that is off, a charge that Stripe decided, or a balance
that it read after the settlement and found high enough; only a settlement lowers the
balance, and the next one is `last` in its turn.

**HomeSettlement.** A row keeps its cost and is claimed at home once (`RowsRight`),
so what a pass was answered stays true however late it acts on it (`PassRight`).
The counters are sums over requests of what each adds to them, `Sum` being the
cardinality of a set of pairs as in `LeaseOwner`. A step changes one request's
part, and the sum by as much (`SumChanges`, `CountersMove`); the code's clamp at
zero then never takes effect, as the counter covers every part of its sum
(`CounterCovers`). The key's reserved amount covers its calls and its open
requests; only a call that dies leaves more. The cap: `Create` stays within it,
and in any other step what is owed grows by no more than the excess over the
estimates does.

**VideoJobs.** A job's only pointer is the one at its next time and is there while
the job has work (`QueuedRight`); an attempt that may submit, or did, is its
authorization's job (`OwnsAuth`).

**Cashouts.** `Ledger` adds to `BooksBalance` that the movements are finitely many
and a cash-out never made has none; `WorkersKnow` says that who will release a
cash-out read that its payable ended, unless it was denied an answer.

### What the proofs changed

Attempts that failed showed where a model was wrong or said too little; the runs
had not reached these cases with their constants:

- `Settlement!Heartbeat` lacked the guard that excludes requests on a customer's
  own provider key (the cohort of `gateway.py:3088`).
- `ChargeOnce!Ask` took one charge at a time, where one delivery may ask for a
  charge and a snapshot's; the mapping is now by whole accounts.
- `Cashouts` did not say that payout events and moves have different ids.
- `LeaseAudit` numbered records by what it published, and now by their place in
  the topic.

`CreditRows` was right but hard to reason about: what a loop takes from rows or
claims in turn is now a function of the sources' order (`TakeInTurn`), a payment
has its own inbox, and notices are records.

### Only model-checked

- The liveness properties, which are out of the prover's reach: `RecordsReachLog`,
  `ShortfallStored`, `ClosedLeaseEnds`, `LeaseCloses`, `EnablerSettles`,
  `PromiseKept`, `RecoveryResolves`, `JobEnds`, `DebtIsDelivered`, `PaidIsRecorded`.
- `OwedIsPaused`, which the code does not keep (the violation above).

Every other property of the runs is a theorem's.

## Not modelled, and the plan

Not modelled: the parts marked so in `PROJECT.json`, for the reasons there.
Edge admission and gateway authorization compose an answer from snapshots, with
little state; the service process is wiring; the watch, load generator and tools
do not change the system; the shadows are oracles of the repository's own
specifications. Of the control plane: catalogue, prices and routing are data and
functions of it; the dashboard renders; analytics and probes carry no money; the
asynchronous settle shadow compares a design that is switched off; the in-memory
and PostgreSQL backends repeat the Spanner one, and are mapped where a module
models a path that only they have, or states the same rule. Top-ups and grants
(`owner/shard.go`, `store/grant.go`), membership and ring, the answers' deadlines
(`awaitAck`), and the providers' own payment flows have state worth a module and
have none yet.

These come first in what is left to do: a module for top-ups and grants, then one for
membership and ring.
