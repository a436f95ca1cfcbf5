# TokenBazaar: specifications of the stateful core

TokenBazaar is a gateway that resells model APIs: users buy balance or
subscriptions, requests are scheduled over upstream accounts and billed, and a
set of background services keeps orders, leases, caches and queues in step. Most
of its Go code is I/O, format conversion and administration of single rows. What
is hard to get right, and hard to test, is the small part where several
goroutines, processes and external services change the same database rows or
Redis keys in separate statements. This directory specifies that part.

Contents:

1. [Inventory](#1-inventory)
2. [Plan](#2-plan)
3. [The modules and the code](#3-the-modules-and-the-code)
4. [Runs](#4-runs)
5. [Bounds](#5-bounds)
6. [Fairness](#6-fairness)
7. [Proofs](#7-proofs)
8. [Divergences between code and text](#8-divergences-between-code-and-text)
9. [What is not modelled](#9-what-is-not-modelled)

Paths below are relative to `src/backend/internal/`. `PROJECT.json` gives, for
each definition, the lines it models (`map`), the runs, the hazards with the
properties that watch them, and the theorems.

To check a run: `tlc -workers 2 -config <run>.cfg <MC module>` (the table in
section 4 names both). To check the
proofs: `tlapm <module>Proofs.tla`.

## 1. Inventory

Where two or more of these share state, the interaction is given; where a
component is hard, the reason and the properties that make it correct.

**A. Payment orders** (`service/payment_order.go`, `payment_order_lifecycle.go`,
`payment_fulfillment.go`, `payment_order_expiry_service.go`). State: a
`payment_orders` row (status, `paid_at`, `expires_at`, `payment_trade_no`,
`updated_at`), the `payment_audit_logs` rows of the order. Operations: create,
webhook, verify, cancel, expiry sweep, retry, and fulfilment behind a lease
whose version is `updated_at`. It calls the provider, the redeem service (B),
subscriptions and affiliate accrual (C). Hard: all of these are concurrent
requests, each of them several statements; the provider redelivers, processes
die, errors arrive after commits. Correct when an order's value is given at most
once, for the right payment, eventually, and never marked done before.

**B. Redeem codes** (`service/redeem_service.go`). A code goes from unused to
used in the transaction that credits the balance; a balance order's credit is a
code derived from the order. **C. Affiliate rebates**
(`service/affiliate_service.go`): accrual per order, claimed by a unique audit
row. Both are part of A's model where A calls them.

**D. Refunds** (`service/payment_refund.go`). State: the order row again, the
user's balance, audit rows, the refund at the provider. Operations: request,
prepare and execute, query and finalize. Hard: only one write is a
compare-and-set; the provider may answer "pending", and a deduction is made,
taken back and made again; that it was made is known only from audit rows, written and
read best effort. Correct when the user loses the amount at most once, an abandoned
refund leaves the balance whole, REFUNDED is true, and no order is left in REFUNDING.
The code reaches this only as far as section 4 says.

**E. Idempotency** (`service/idempotency.go`, `repository/idempotency_repo.go`,
`idempotency_cleanup_service.go`). State: one row per (scope, key hash). Used by
the admin handlers, by the creation of API keys and by F. Hard: insert, read, reclaim and mark
are separate statements, the clock is read once at the start, rows expire and
are deleted. Correct when one request at a time executes, once per life of the
record, and a replay is that of the same payload.

**F. System operation lock** (`service/system_operation_lock_service.go`). The
same row used as a renewed lease for update, rollback and restart. Hard: lease,
renewal goroutine and release race. Correct when operations exclude one another.

**G. Batch image jobs** (`service/batch_image_*.go`, `repository/batch_image_repo.go`,
`batch_image_queue.go`). State: a job row, its items, the money frozen for it, a
Redis queue (ready list, delayed and active sets, in-flight key), a job lock.
Operations: submit, cancel, resubmit, recovery scan, worker loop, polling,
indexing, settlement, deletion of outputs. It calls I for hold, capture and
release and the provider for the batch. Hard: Submit is inside the provider call
while cancel or the scan fail the job; workers die or lose their lock in the
middle of a settlement; retries run out. Correct when a completed batch costs
exactly its output, a running one keeps its hold, and a hold is settled in the end.

**H. Concurrency slots** (`service/concurrency_service.go`,
`repository/concurrency_cache.go`, `handler/gateway_helper.go`,
`service/openai_live.go`). State: Redis sorted sets of request ids per account
and user, wait counters, Live leases, an index of active ids. Shared by every
gateway instance. Hard: replies lost after the script ran, the handover from slot
to lease, counters of dead processes, the cleanup of a restarted one. Correct when
no account exceeds its limit, no queue its bound, and nothing is left behind.

**I. Usage billing and billing cache** (`service/usage_billing.go`,
`billing_cache_service.go`, `user_platform_quota_flusher.go` and their
repositories). A request-id claim with its effects in one transaction; a
write-behind cache of balances and quotas. Correct when a request is billed
once, and the cache converges to the database.

**J. Scheduler snapshot and outbox** (`service/scheduler_snapshot_service.go`,
`repository/scheduler_cache.go`, `scheduler_outbox_repo.go`, and the writers in
`account_repo.go` and `group_repo.go`). State: outbox rows with deduplication
keys, a watermark, per bucket an epoch, a retired mark, a lock, versions and the
active snapshot; per account a cached record. Operations: change and enqueue,
poll, rebuild, retire, reopen, full rebuild at an interval, publication by a
request that missed. Hard: stale loads published late, rows committed out of id
order, lost enqueues, a group retired while somebody rebuilds it. Correct when a
retired group is not served and the cache ends up with the database's content.

**K. OAuth refresh** (`service/oauth_refresh_api.go`,
`token_refresh_service.go`), **L. User message queue**
(`service/user_msg_queue_service.go`), **M. Auth cache invalidation outbox**
(`service/auth_cache_invalidation_outbox.go`), **N. Asynchronous image tasks and
prompt audit** (`service/image_task.go`, `securityaudit/`). Each is a lock, lease
or claim over Redis or PostgreSQL with a retry loop: a token must not be rotated
twice from the same refresh token, an account's messages must stay serial, an
invalidation must be delivered at least once, a job must be worked on by one
worker at a time.

**O. The rest**: gateway and account scoring, protocol transformation,
authentication, settings and administration, monitoring, the WebSocket pool,
generated ORM code, migrations and the front end (section 9).

## 2. Plan

Order: money first, then what guards money, then throughput.

| Step | Module | Composition | State |
|---|---|---|---|
| 1 | `PaymentFulfillment` | A with B and C where A calls them | done, proved |
| 2 | `PaymentRefund` | D, starting from a completed order | done, proved |
| 3 | `IdempotencyStore` | the repository of E, extended by 4 and 5 | done |
| 4 | `Idempotency` | the coordinator over 3 | done, proved |
| 5 | `SystemOperationLock` | F over 3 | done, proved |
| 6 | `OrderLedger` | abstract specification of an order: paid, given once, settled once, completed; implemented by 1 | done, proved |
| 7 | `BatchImage` | G with the hold, capture and release of I | done, proved |
| 8 | `ConcurrencySlots` | H, several instances over one Redis | done, proved |
| 9 | `SchedulerSnapshot` | J with the writers that feed it | done, proved |
| 10 | proofs | every invariant, action property and refinement of the runs of 1 to 9 | done |
| 11 | `UsageBilling`, `TokenRefresh` | the rest of I, K | not planned, section 9 |

Runs: each component has one passing run over all of its operations, and one more
where liveness or a second variant (subscription orders) needs its own constants. Two
runs are counterexamples that a finding quotes. Other counterexamples to a statement of the repository that follow from one
guard are not kept as runs; section 8 gives the constants that reproduce them.

Every invariant, action property and refinement a passing run checks is also a theorem
(section 7). Still worth stating: an abstract specification of a batch's money (held
once, then charged or given back) with `BatchImage` shown to implement it.

## 3. The modules and the code

Each module models one object (one order, key, lock, job, account with its user, or
group) and any number of concurrent callers. A caller has a program counter `pc` whose values name the
next database statement or external call; one action is one statement with the
Go code up to the next one. That is the atomicity of the code: statements are
atomic in PostgreSQL at READ COMMITTED, transactions that hold a row or a unique
key are one action, a Redis command or Lua script is one action, and everything between two of them may interleave.

### PaymentFulfillment

| State | Code |
|---|---|
| `status`, `paidAt`, `tradeSaved`, `overdue` | columns of `payment_orders` |
| `fresh`, `holders` | `updated_at`: younger than five minutes (the lease and grace period); the workers whose remembered version equals it |
| `upstream` | the payment at the provider; "mispaid" is an amount that `confirmPayment` rejects |
| `code`, `grants`, `rebates`, `audit` | redeem code row, credits or subscription extensions made, rebates accrued, audit rows that later code reads |
| `creating` | the `CreateOrder` request between its statements |
| `pc`, `job`, `acked` | the handlers; whether a webhook was answered with success |

The creating request is `CreateOrder`, `InvokeProvider`, `SavePaymentDetails`,
`CreateOrderFailed` (an UPDATE by id that may come late). Handlers start with
`StartWebhook`, `StartVerify`, `StartCancel`, `StartExpire` (one at a time: the
expiry service runs on the leader) and `StartRetry`, and share
`checkPaidWithOptions` and `cancelCore` (`QueryOrder`, `ClosePayment`,
`PersistTradeNo`, `CancelCore`), the notification path (`ConfirmPayment`,
`ToPaid`, `AlreadyProcessed`) and fulfilment (`ExecuteFulfillment` …
`MarkFailed`). `RedeemTx`, `AssignTx` and `RebateTx` are the three transactions;
each also has the outcome "committed, but the caller saw an error", which the
code can produce by a failing read or cache call after the commit.

The absolute value of `updated_at` is dropped because the code compares it only
with a remembered version and with "five minutes ago". `Write` therefore empties
`holders` and sets `fresh`; `Age` is five minutes without a write. Two writes in
the same microsecond are assumed to differ.

Faults, each spent from `MaxFaults`: `crash` (the process dies or its context is
cancelled), `store` (a statement or call errs and the code handles it),
`swallowed` (a failed read that the code logs and answers with nil), `create`
(provider or save failure in `CreateOrder`).

`OrderLedger` is what the order's owner is promised, in five variables and without
handlers: `Pay`, `Give`, `Settle` (the rebate is decided), `Complete`, and `Relabel`,
the loss of the COMPLETED label that `CreateOrder`'s late failure can cause. `Ledger`
in `PaymentFulfillment` instantiates it with `paid` = the provider has the right
amount, `given` = `grants`, `settled` = `Settled` (the row by
which the rebate is claimed exists), `rebated` = `rebates` and `completed` = the status.

### PaymentRefund

State: the order's `status` and `refund_amount`, the refund at the provider, the three
audit rows that later code reads, and `deductionRollbackOK` inside the REFUND_PENDING
row (the first such row wins, as audit rows are unique per order and action).
Deductions are counted in `taken`, not summed: `RollbackRefund` gives back exactly what
its own plan deducted, so the money is whole if and only if the count is. The user's
balance is not kept. `DeductBalance` lets it go negative by design, so its value only
decides in `prepDeduct` whether and how much is deducted, and the plan chooses that.

`PrepareRefund` chooses any amount and whether to deduct; the plan may be executed after
another admin's. `LockRefund` is the compare-and-set, `DeductForRefund`, `GwRefund`,
`HandleGwFail`, `UnwindPending`, `AuditRollbackFailed`, `RestoreStatus`,
`MarkRefundFailed`, `MarkRefundPending`, `AuditPending`, `MarkRefundOk` and
`AuditRefundOk` are the statements after it. `StartFinalize`, `QueryRefund`,
`CheckFinalDeduction` and `ApplyFinalDeduction` are `QueryAndFinalizeRefund`, which runs
beside the admins. `SettleRefund` is the provider.

Faults: `crash` at any step; `store` (an UPDATE of the status errs, `StatusWriteFails`);
`audit` (`writeAuditLog` only logs a failed insert, and `hasAuditLog` answers "no" when
its query fails); `deduct` and `rollback` (the balance UPDATE errs before or after its
commit); `gateway` (the provider's answer is lost). Three histories record where the code
loses its knowledge: `unrecorded` (deductions of which an error hid the trace), `finals`
(final deductions, and REFUND_FAILED written by a finalizer), `stranded` (a request ended
in REFUNDING without writing an outcome).

### IdempotencyStore, Idempotency

`IdempotencyStore` has the row `rec` (or `NoRow`) and one operator per SQL
statement with its WHERE clause: what it compares and what it does not
(`TryReclaim` does not compare `expires_at`, nor does it write the fingerprint)
is the point. Timestamps are numbers, 0 is a NULL `locked_until`.

`Idempotency` is `Execute` with a key, in the order of the code: `Begin` reads
the clock once; `Create`, `GetExisting`, `ReclaimExpired`, `Reread`, `Reclaim`
are the statements; `RunOperation` is the protected operation; `MarkOk` stores
its response (possibly truncated, which later fails to decode), `MarkFailed` the
failure; `Abandon` is any store error and any crash; `Cleanup` is the deletion of
expired rows. A response is represented by the payload it belongs to, which is
all a replay can get wrong. `doneUntil` is a history variable: the latest expiry
of an execution that succeeded.

### SystemOperationLock

`Acquire`, `Create`, `GetExisting`, `Reclaim` are the statements of
`SystemOperationLockService.Acquire`; `Renew` and `StopRenew` are its goroutine,
which may still be in its last round when `Release` has run; `Crash` also stands
for a `Release` whose write failed, which the handler ignores. `OpId` gives every
operation its id, and the runs use `OwnId`, an id for each: `buildSystemOperationID`
makes a new one for a request without a key, and a key's retries run one after the
other under the coordinator of E. The record keeps the fingerprint of the operation that
created it, because `TryReclaim` does not write it, and `Renew` compares it: an
operation on a record of another id has its first lease only. `Outlives` is that such an
operation is still running when this lease ends, and `foreign` the history of it.
`RenewInterval`, `Lease` and
`TTL` keep the code's relation: renewals come several times per lease, also when
up to `MaxFails` in a row err.

### BatchImage

| State | Code |
|---|---|
| `status`, `fresh`, `retries`, `cost` | `batch_image_jobs`: status, `updated_at` younger than the scan's `staleAfter`, `retry_count`, `success_count` times the price |
| `claims`, `taken`, `frozen` | `usage_billing_dedup` rows of hold, capture and release; what the job took from the balance; `users.frozen_balance` |
| `ready`, `queued`, `lock` | the Redis queue and the job lock |
| `upstream` | the batch at the provider |
| `stalled`, `overrun` | workers whose heartbeats fail; history: one of them lost its lock |

`Submit` is the request with its failure exits (`ReleaseFailedSubmit`,
`RecordSubmitFailure`, `AbortOrphan`); `Cancel…` and `Resubmit` are the owner's other
calls; `FailStale` and `RecoverRelease` the scan; `Work` is
`BatchImageWorker.RunOnce` with the pipeline, the provider processor and the
settlement service; `MoveDueDelayed` and `RecoverStaleActive` are the queue's movers.
The three money operations are the transactions of `usage_billing_repo.go`; an
operation whose claim exists is a no-op. Of the balance only this job's share is
kept, so "insufficient" may come whenever it is asked. `Transition` checks
`CanTransitionBatchImageJob` under the row lock. Every transaction of the job and of the
money can also commit and report an error; for the save of the provider job
(`AbortOrphan`) this leaves a submitted job that nobody enqueues. `TooMuch` stands for an
output that the settlement's own validation refuses (a cost above the hold, a missing
price, invalid counts).

Faults: `crash`, `stall` (heartbeats stop while the worker goes on), `slow` (Submit
outlasts `staleAfter`), `billing` and `store` (an error before or after the
commit of money, respectively of the job), `redis`, `provider`, and `early` (somebody acts between insertion and reservation).

### ConcurrencySlots

The account and its user each have a slot set, a wait counter and an index entry; Live
leases are written for both at once. Every acquire has an id of its own, which is
why a lost reply leaves a member nobody can remove (`Members`). A request is
`TryAcquire`, the queue (`IncrementWait`, `Poll`, `DecrementWait`), the refresh of the
index in its two commands (`IndexRead`, `IndexWrite`), the forwarding and the
releases in the opposite order; a Live request goes through `AcquireLease`,
`CreateUpstream`, `SaveCall` and then refreshes its lease as an open session.
`Crash` and `Boot` are the death and `CleanupStaleProcessSlots` of an instance, in the
order of its commands. Time is `Age`, `AgeLease`, `KeyExpires` and `IndexDue`. A wait
counter may expire under its waiters: its TTL is the longest configured wait for an
account (`repository/wire.go`), counted from the last arrival, and a user waits a fixed
30 seconds. `lapsed`, `missed` and `hurt` are history: slots that went away under their
user, how many waiters each counter may have missed since its queue was last empty,
requests that met a fault.

### SchedulerSnapshot

One group with one bucket (its twelve canonical buckets are treated alike); the
accounts' content is the number of committed changes. Of the versions only the order
matters in which the rebuilds in flight allocated theirs (`order`, a relation;
`InFlight` and `Without` read and shrink it), and of a poll's batch only the rows still
to be handled, the one with the smallest id first (`First`). Writers change an account in one statement
and enqueue after it (`ChangeAccount`), inside a transaction (`EnqueueInTx`,
`CommitTx`: the id is taken before the row is visible), or change the group
(`ChangeGroup`). Outside a transaction, too, the insert takes its id from the sequence
before its row is visible (`EnqueueChange`, `CommitInsert`), so a poll can pass the row
of an account or of a group (`Overtaken`). Pollers run `pollOutbox`: watermark, rows, one event after the
other, new watermark, cleanup. `Lifecycle` is `reconcileGroupLifecycle` under its
lease, `Rebuild` is the path from the write token to `activateSnapshotScript`, shared by
pollers, rebuilders and the request that missed the cache (`CacheMiss`, also when there
is a snapshot that it cannot use). The bucket's lock may expire under a living holder
(`LockExpires`): its TTL and the rebuild's timeout are both 30 seconds, and the timeout
starts later. `lost` and `passed` are history: a group change of which no poll may learn
(its enqueue failed, a poll passed its row, or its row was dropped for the deduplication
key of a passed one), and the ids of the passed rows.

## 4. Runs

| Run | Module, cfg | Shows |
|---|---|---|
| `payment_balance` | `MCPaymentFulfillment`, `PaymentBalance` | a balance order, all handlers, two workers, two faults: value at most once and only for the right payment (`GrantedOnce`), rebate at most once and after delivery (`RebatedOnce`), COMPLETED only after both (`CompletedIsDelivered`), a delivered order never leaves fulfilment (`DeliveredStaysFulfilling`), and the whole is an `OrderLedger` (`ImplementsLedger`) |
| `payment_live` | `PaymentLive` | a subscription order, where the unique audit row is the exactly-once step (`GrantedOnce`): under fairness a paid order is settled (`PaidIsSettled`) and a timed-out one is swept (`OverdueIsSwept`); a webhook is acknowledged only when settled (`AckedIsSettled`) |
| `refund_admins` | `MCPaymentRefund`, `RefundAdmins` | two admins who refund and finalize, partial and whole refunds, every fault, two of them: one refund at a time (`RefundIsExclusive`), one deduction (`TakenOnce`), an abandoned refund leaves the user whole (`RestoredIsWhole`), REFUNDED only when paid back (`RefundedIsPaidBack`), no order forgotten in REFUNDING (`RefundingIsHeld`) |
| `idem_key` | `MCIdempotency`, `IdemKey` | `ExecuteIsExclusive`, `ExecutedOnceAtFirst`, `SucceededIsKept` until the first expiry, `ReplayIsFaithful` at any time |
| `syslock_ops` | `MCSystemOperationLock`, `SyslockOps` | operations of different ids, longer than the lease, with late and failing renewals: `LockIsExclusive` and `HeldIsRenewed`, until one has outlived its lease on the record of another |
| `syslock_lease` | `SyslockLease` | violated: two operations run at once, because the second on a record cannot renew its lease (`Exclusive`) |
| `batch_money` | `MCBatchImage`, `BatchMoney` | three faults: a completed batch cost its output (`CompletedIsCharged`), a batch at the provider keeps its hold (`SubmittedIsHeld`), the hold leaves the frozen balance once (`HoldLeavesOnce`), a frozen hold is always in somebody's hand (`FrozenIsInHand`) |
| `batch_live` | `BatchLive` | a frozen hold is captured or released in the end (`HoldIsSettled`) |
| `batch_release` | `BatchRelease` | violated: the exhausted exit releases a hold that was captured (`OthersUntouched`) |
| `slots_admission` | `MCConcurrencySlots`, `SlotsAdmission` | two requests on two instances and a Live session, limit one, queue one: `CapIsKept`, `QueueIsBounded`, `NothingLeaks` |
| `scheduler_cache` | `MCSchedulerSnapshot`, `SchedulerCache` | a retired group is not served again by any stale token, plan or event (`RetiredGroupIsNotServed`) |
| `scheduler_live` | `SchedulerLive` | the cache ends up with the database's content and stays there, with two faults (`Converges`); `RetiredGroupIsNotServed` with faults and the interval rebuild |

Several properties say less than one might wish, because the code does less. Each
exception is a state the model reaches, most of them recorded by a history variable.

- `AckedIsSettled` and `PaidIsSettled` count a payment that arrived after the grace period
  as settled once it is on record, since the code only records it; `AckedIsSettled`
  excludes swallowed read errors, after which the code answers with success.
  `OverdueIsSwept` excepts an order whose payment is always rejected (`mispaid`).
- `TakenOnce` and `RestoredIsWhole` allow one more deduction for each error that hid an
  earlier one (`unrecorded`) and for each finalization (`finals`); `RefundIsExclusive` one
  more refund for each of the latter; `RefundingIsHeld` excepts a request that died in
  REFUNDING (`stranded`). Without faults and finalizers they say what their names say.
- `ExecuteIsExclusive`, `ExecutedOnceAtFirst` and `SucceededIsKept` are about the first
  life of a record (divergence 4 of section 8), `LockIsExclusive` and `HeldIsRenewed` hold
  until `foreign` (divergence 5).
- `HoldLeavesOnce` excepts a hold that was both captured and released, after the retries ran
  out (divergence 6) or with a worker that had lost its lock (`overrun`);
  `CompletedIsCharged` the case in which both came together. A hold that was released
  twice, or captured twice, is not excepted.
- `FrozenIsInHand` and `HoldIsSettled` leave out two workers at once (`overrun`: each acks
  what the other requeued) and a request that gave up (`gaveUp`): it died or could not
  enqueue after the job left the scan's reach, it was told that saving the provider job
  failed when it had been saved, or its reservation was reported as an error and its job
  then marked failed.
- `CapIsKept` leaves out slots that lapsed under their request (`lapsed`). `QueueIsBounded`
  allows one waiter above the bound for each that the counter may have missed (`missed`).
- `RetiredGroupIsNotServed` leaves out a group change of which no poll may learn (`lost`,
  divergence 8): the interval rebuild repairs that, which `Converges` includes.

Deadlock is not checked in any run: an order, a key or a lock that nobody
touches any more simply rests, as does a job whose hold is settled, and the clock
stops at its bound.

## 5. Bounds

- **Two callers** of each kind. Every hazard of these modules is a race of a
  caller with one other that overtook it; the theorems remove the bound for the
  properties they cover.
- **`MaxFaults`** 2 in the payment and refund runs (a fault and another one while
  it is being handled) and in `scheduler_live`, 1 in the other liveness runs, 3 in
  `batch_money` (the two settlement retries and a fault beside them), 1 in
  `slots_admission`.
- **`Amount`** 2: a partial refund and a whole one. **`MaxFinals`** 1: no finalizer starts
  after the first has acted, but both may have started before, and refunds go on after
  it. Larger values only allow more of what the properties already count.
- **`MaxTime`, `TTL`, `ProcessingTimeout`, `FailedRetryBackoff`** 4, 3, 1, 1: a
  record can be locked, unlocked, expired, reclaimed and expired again; `MaxStall`
  3 lets a call stall longer than its lock and as long as its record lives.
- **`Lease`** 4 with renewals every 1, one failing (`MaxFails` 1), a slow acquire
  (`MaxClaim` 1) and `MaxTime` 6: a lease can be taken, renewed late, lost by a
  crash and taken over. `MaxHold` 6 in `syslock_ops` is longer than the lease and as
  long as the run; in `syslock_lease`, with `Lease` 3, it is 8.
- **One caller, two workers, `MaxRetries` 2** in the batch runs: a cancel
  or resubmission races Submit, the scan and a settlement by two workers; the
  settlement can be retried once and then exhausted. `Hold` 2 beside `OtherFrozen` 2 in
  `batch_money`: the output can cost nothing, a part or all of the hold, or too much, and
  others have frozen enough for a second release of the whole hold to go through. `Hold`
  1 in the other two.
- **`Max` 1, `Queue` 1** for the account and no limit for the user in
  `slots_admission`: the third request finds slot and queue full, and a Live session at
  a limit of one must trade its slot for a lease without being counted twice.
- **Two writers, one poller, one request** in `scheduler_cache`, no rebuilder (it would
  repair what the property looks for) and two failing steps: two changes are a group that is
  retired and reopened, a retirement beside an account's change, rows that become visible
  in another order than their ids, and, after a poll that failed, two group events in one
  batch. By hand also three writers without faults (2.4 million states), where a change
  merges into a row that was passed. One writer, a rebuilder and two faults in
  `scheduler_live`.
- Sizes: `refund_admins` 6.2 million states, `batch_money` 2.3,
  `payment_balance` 1.7, `slots_admission` 1.2, `scheduler_cache` and `syslock_ops` 1.0, each within two minutes;
  `scheduler_live` 0.7, whose liveness takes three.
- Symmetry is used for callers and payloads, never with liveness.

## 6. Fairness

`PaymentFulfillment!Fairness`: a request that runs takes its next statement (weak
fairness on `Continue` and `Creation`, requests have their own goroutine), time
passes (`Age`, `Deadline`), the expiry service is a ticker (`StartExpire`) and the
provider redelivers a webhook until it gets a success answer (`StartWebhook` while
`~acked`). The last two are strong: the model has a fixed set of workers that may be
busy with another handler whenever the ticker fires, which the server's goroutines
are not. Nothing assumes that a user verifies or an admin retries.

`BatchImage!Fairness`: started requests, the scan, time-outs and the provider go on
(one weak fairness over `Foreground` and `Background`, of which a behaviour has
finitely many steps), the mover of delayed jobs is a ticker, and every worker is a
loop. Nothing assumes that the owner calls again.

`SchedulerSnapshot!FairSpec`: started writers and requests go on, the outbox poller and
the full rebuild are tickers (the rebuild every 300 seconds by default), the TTL of a
lock or lease passes. No change and no request is assumed to arrive.

## 7. Proofs

TLC checks small instances; the theorems hold for any number of callers, any
bounds and any timeouts that satisfy the named assumptions. In each proof module
an inductive invariant is shown to hold initially and to be kept by every action.

- **`PaymentFulfillmentProofs`**: `TypeCorrect`, `GrantedOnceThm`,
  `RebatedOnceThm`, `CompletedIsDeliveredThm`, `DeliveredStaysFulfillingThm`,
  `AckedIsSettledThm` (the last without `swallowed`). None of them is inductive: a
  property of the row holds because of where workers can be. `IInv` adds to
  `TypeOK` what the ledger says (`LedgerInv`: the number of grants is tied to the
  code row or to the audit row), what the row says (`RowInv`: a row past PENDING
  with a grant is in a fulfilment state) and what each program counter implies
  (`StepInv`: whoever is at the rebate or completion has delivered, whoever is past
  `confirmPayment` has seen the right payment). The lease is not needed: at most
  once rests on the code row and the audit row alone, which is why
  divergence 1 of section 8 does no damage to the ledger. `ImplementsLedgerThm` is the
  refinement `Spec => Ledger!Spec`: `LedgerStep` shows with the same invariant that every
  action is one of the ledger's or changes nothing the ledger records (`Unchanged`);
  only six actions can change it.
- **`PaymentRefundProofs`**: `TypeCorrect`, `RefundIsExclusiveThm`, `TakenOnceThm`,
  `RestoredIsWholeThm`, `RefundedIsPaidBackThm`, `RefundingIsHeldThm`, for any number of
  admins and finalizers, every handler and every fault, without further assumptions.
  `CountInv` compares `taken` with the requests that are between lock and outcome
  (`Lockers`), those of them whose rollback would give a deduction back (`Holders`) and
  those without an outstanding deduction of their own, who may still make one
  (`Debtors`), as cardinalities: with finalizers
  there may be several of each, and an invariant about the one admin inside would not be
  inductive. `PaidInv` says that whoever is about to write REFUNDED has the provider's
  success, and `TypeInv` that a pending order has a positive amount, from which the
  finalizer makes its plan.
- **`IdempotencyProofs`**: `TypeCorrect`, `ReplayIsFaithfulThm` (with expiry),
  `ExecuteIsExclusiveThm`, `ExecutedOnceThm`, `SucceededIsKeptThm` (until the first
  expiry). `OwnerInv` says that whoever executes holds the id of the row and the row
  is in processing, so every write by id is the owner's; `IdInv` and `TimeInv` relate
  remembered ids and times to the row.
- **`SystemOperationLockProofs`**: `TypeCorrect`; `LockIsExclusiveThm` and
  `HeldIsRenewedThm`, whatever the ids; and `ShortLockIsExclusive`: if no operation
  outlasts one lease (`MaxHold < Lease`) they exclude one another for good. `OwnerInv` says
  that whoever runs owns the record. `HoldInv` measures slack: if the record has the
  holder's id, the lock outlasts the next due renewal by the renewals that may still err;
  if not, it lasts until one lease after the start of `Acquire`, and `foreign` is what
  happens when the operation lasts longer. The assumption is
  `MaxClaim + (MaxFails + 1) * RenewInterval < Lease`, which the code's choice (a third
  of the lease between renewals, at least one second) satisfies for one failure in a
  row as long as the lease is longer than three seconds; its default is 30.
- **`BatchImageProofs`**: `TypeCorrect`, `SubmittedIsHeldThm`, `HoldLeavesOnceThm` and
  `CompletedIsChargedThm` without further assumptions, whatever others have frozen.
  `RowInv` says who may be at which step with which status, `HeldInv` where the hold must
  be frozen and its claim exist, `CostInv` where the cost is known. The money is
  `MoneyInv`: as long as the hold was not both captured and released, what is taken is the
  hold while it is frozen, then the cost or nothing. That both do not happen is not
  an invariant of the code (the run `batch_release`); `CalmInv` says that it does not while
  retries are left and no worker that lost its lock meets a dead job (`Calm`), and
  needs that one worker at a time has the job (`OneWorker`, from the job lock) and that
  only the last retry goes to the exhausted exit (`Exhausting`). `FrozenIsInHandThm` follows
  a frozen hold through the scan, the queue and the requests (`HandInv`: the inflight key
  never outlives the job's place in the queue, and a worker acks only a job without a
  hold); it assumes that nobody acts between insertion and reservation
  (`"early" \notin FaultKinds`), without which it is false (divergence 7).
- **`ConcurrencySlotsProofs`**: `TypeCorrect`, `CapIsKeptThm`, `QueueIsBoundedThm`,
  `NothingLeaksThm`, for any finite set of requests, any instances and limits. `Held`: whoever
  uses a slot or a lease has it in Redis, unexpired, unless it lapsed. `Capacity`: the
  unexpired slots together with the slot each lease stands for are within the limit;
  counted that way a lease takes no new place, because its request still holds the slot
  it trades, and the limit survives the handover. `Counted` bounds the wait counter from
  below by the waiters it cannot have missed and from above by the waiters and the requests that met a fault
  and are past the queue; `Clean` says that a request without a fault has nothing
  in Redis that it does not hold. `Sane` is what each step of a request implies.
- **`SchedulerSnapshotProofs`**: `TypeCorrect`, `RetiredGroupIsNotServedThm`, for any
  finite set of writers and any pollers, rebuilders and requests (`SchedulerAssumption` only
  keeps these roles apart). The property speaks of the watermark, but a poll stores
  its watermark after it has handled its rows; so `Fencing` says it of both: if the
  stored watermark, or the one a poll is about to store, leaves no group event behind,
  and the group is inactive, then the bucket is retired, nothing is published and
  nobody is about to reopen it. It is kept because a retired bucket fences every writer
  whatever token it has, because reopening needs the lease and an active group
  read under it (`LeaseHeld`), and because, unless the change is `lost`, the writer of a
  group change is still on its way to its row, or the row stays ahead of every poll until
  one lists it (`GroupRows`). `Counts` and `Ordered` carry
  the type invariant: one change and one row per writer, versions in flight in a
  total order.

Only model-checked: liveness (`PaidIsSettled`, `OverdueIsSwept`, `HoldIsSettled`,
`Converges`), since fairness and ENABLED are beyond the prover; and what happens after an
idempotency record has expired, except for replays.

## 8. Divergences between code and text

Number 5 is the run `syslock_lease`, number 6 the run `batch_release`, number 1 a step of `ReloadLease` (the worker joins
`holders` whoever wrote the row last). The others are reproduced by giving the MC module
the constants listed (`SPECIFICATION Spec`) and checking the property named.

1. The fulfilment lease's version is read back by a second SELECT
   (`service/payment_fulfillment.go:296`) and can be a successor's, while the comment at
   line 810 says "The lease version prevents a stale worker from overwriting a newer
   owner." Two workers then believe they hold the lease; the ledger does not depend
   on it (section 7).
2. A refund whose rollback failed (`service/payment_refund.go:577`) deducts twice when
   its retry becomes pending and is finalized: the retry deducts nothing and so rolls
   nothing back, the REFUND_PENDING row then says `deductionRollbackOK`, and the finalizer
   deducts. `MCPaymentRefund`: `Admins = {a1}`, `Amount = 1`,
   `Handlers = {"request", "refund", "finalize"}`, `FaultKinds = {"rollback"}`,
   `MaxFaults = 1`, `MaxFinals = 1`, an invariant `taken <= 1`. The same happens after a
   crash, or a failed UPDATE, between the final deduction and the REFUND_SUCCESS row, when
   the refund is tried or finalized again (`FaultKinds = {"crash"}`, `MaxFinals = 2`).
3. A finalizer that was told "failed" overwrites REFUNDED (`payment_refund.go:512`),
   which `docs/PAYMENT.md` line 255 calls "Refund completed"; and two finalizers, or a
   finalizer and a refund, both find no REFUND_SUCCESS row and both deduct (line 486). The
   same with `Admins = {a1, a2}`, `FaultKinds = {}`, `MaxFaults = 0`, `MaxFinals = 1`,
   property `RefundedIsFinal`, respectively `taken <= 1`.
4. `TryReclaim` does not compare the expiry (`repository/idempotency_repo.go:118`), so an
   expired success can be reclaimed and executed twice, while the test at
   `service/idempotency_test.go:394` says "concurrent same-key requests should execute
   business side-effect once". `MCIdempotency`: `Requests = {r1, r2}`,
   `Fingerprints = {f1}`, `TTL = 2`, `ProcessingTimeout = 1`, `FailedRetryBackoff = 1`,
   `MaxStall = 0`, `MaxTime = 4`, invariant `ExecutedOnce`.
5. The system lock's record keeps the first operation's id
   (`repository/idempotency_repo.go:154`), so later operations cannot renew their lease, which
   `service/system_operation_lock_service_test.go:65` tests for the first one only. An
   update may run for 15 minutes and the lease is 30 seconds, so a second operation gets
   the lock while it runs.
6. The exhausted exit of a batch's settlement (`service/batch_image_settlement.go:223`)
   releases the whole hold without looking whether it was captured. If the capture
   committed and its callers saw errors, the user gets the hold a second time out of
   what other batches have frozen; `docs/BATCH_IMAGE_MVP.md` line 170 says "the remaining
   hold is released".
7. A cancel between the insertion of a batch job and the reservation of its hold
   (`service/batch_image_public.go:714`) claims the release before there is anything to
   release; the hold taken afterwards can then not be released (`CreateJob`, `Cancel`,
   `CancelRelease`, `ReserveHold`).
   `MCBatchImage`: the constants of `BatchMoney.cfg` with `FaultKinds = {"early"}`,
   `MaxFaults = 0`, invariant `FrozenIsInHand`.
8. A poll can pass an outbox row that becomes visible after a row with a higher id, because
   it lists only ids above the watermark; the comment at
   `repository/scheduler_outbox_repo.go:128` relies on a grace period of ten seconds, which
   applies to the deletion and not to the watermark. If it is a group's row, a deleted
   group stays served, and the row's deduplication key, which no poll releases, swallows
   the group's next change. The full rebuild repairs the snapshot.
   `MCSchedulerSnapshot`: the constants of `SchedulerCache.cfg`, invariant `RowsAreRead`.

Noticed, and not kept as runs: a payment after the grace period is only recorded,
while `docs/PAYMENT.md` speaks of automatic reconciliation; a FAILED order without
`paid_at` (FAILED written by `CreateOrder`, then fulfilled through a webhook that
failed) is refused by the admin retry that the same document offers; a key whose
holder died is refused until its record expires, not for the configured lock
timeout; an enqueue inside a transaction that meets a pending row with its
deduplication key does nothing, although that row may be handled before the
transaction commits (`repository/account_repo.go:437`); an inactive group that was never
retired, with a flushed Redis, is published by the first request that asks for it
(outside `Init`); `refreshActiveIndex` reads and then removes, so it can remove the
index entry of a concurrent acquire (`repository/concurrency_cache.go:481`), which only
matters for the cleanup; a restarting instance deletes the slots of the ones that are
alive; a wait counter whose increment failed is decremented all the same, and one that
expired under its waiters is decremented by them (`repository/wire.go:19`); a Submit whose
save of the provider job committed and reported an error (`repository/batch_image_repo.go:223`)
cancels the provider's batch and leaves a submitted job that only its owner finds; a provider
that refunds and whose answer is lost leaves the user with the refund and the balance
until somebody retries (`service/payment_refund.go:352`); an admin's choice not to deduct
is forgotten when the refund is finalized from REFUND_PENDING (line 473); a request that
dies in REFUNDING, or whose last UPDATE fails, leaves an order that no operation takes up.

## 9. What is not modelled

- Within the modelled components: validation of requests, choice of provider instance
  and limits over several orders; signatures and formats of providers; the refund of
  a subscription order (days taken back); observe-only idempotency and metrics; what
  update, rollback and restart do under the lock; redeem codes typed in by users;
  withdrawal and freezing of rebates; deletion of batch records, download marks and
  the cleanup of inputs; slots of API keys, the WebSocket ingress lease and the reads
  of loads in batches; bulk and last-used outbox events, the coalescing of rebuilds
  and the bookkeeping of the outbox's lag.
- Of usage billing only the transactions batch images use. The billing of a gateway
  request is a claim and its effects in one transaction, the same shape; the
  write-behind cache is told from the database only by amounts, which the model
  would have to carry for every request.
- OAuth refresh, the user message queue and prompt audit are leases and claims of the
  kind `SystemOperationLock` and `BatchImage` model, with less at stake; the auth cache
  outbox delivers idempotent messages at least once; asynchronous image tasks have one
  writer each.
- Gateway and account scheduling (scoring and streaming), protocol transformations
  (conversion without state), authentication, settings and administration (single
  rows), monitoring, generated code, migrations, front end.
- The WebSocket pool, subscriptions' window arithmetic, rate limits and the leader
  lock have state of their own; none of them shares it with what is modelled.
