------------------------- MODULE PaymentFulfillment -------------------------
(***************************************************************************)
(* The life of ONE payment order from its creation to COMPLETED, as        *)
(* payment_order.go, payment_order_lifecycle.go and payment_fulfillment.go *)
(* drive it: the creating request, provider webhooks, the user's verify,   *)
(* cancels, the expiry sweep and the admin retry run concurrently, each    *)
(* as a sequence of separate database statements.                          *)
(*                                                                         *)
(* Two timestamps are abstracted.  payment_orders.updated_at is bumped by  *)
(* every UPDATE and is only ever compared (a) for equality with a lease    *)
(* version and (b) with "five minutes ago", so the model keeps the set     *)
(* `holders` of workers whose version still equals it and the flag `fresh`.*)
(***************************************************************************)
EXTENDS Naturals, FiniteSets

CONSTANTS
    Workers,     \* goroutines that may run a handler on the order
    Handlers,    \* which handlers of Jobs are called
    OrderType,   \* "balance" or "subscription": what the order buys
    FaultKinds,  \* which faults of AllFaults may happen
    MaxFaults    \* bound: how many faults a behaviour contains

AllFaults == {"crash", "store", "swallowed", "create"}
Jobs      == {"webhook", "verify", "cancel", "expire", "retry"}

ASSUME OrderTypeAssumption == OrderType \in {"balance", "subscription"}
ASSUME HandlersAssumption == Handlers \subseteq Jobs
ASSUME FaultAssumption == FaultKinds \subseteq AllFaults /\ MaxFaults \in Nat

VARIABLES
    status,      \* payment_orders.status
    fresh,       \* updated_at lies within the last five minutes
    paidAt,      \* paid_at is not NULL
    tradeSaved,  \* payment_trade_no is the provider's own number
    overdue,     \* expires_at has passed
    holders,     \* workers whose lease.version equals updated_at
    upstream,    \* the provider's view of the payment
    code,        \* the order's redeem code row
    grants,      \* times the user was given what the order buys
    rebates,     \* times the inviter was credited for it
    audit,       \* the payment_audit_logs rows that later code reads
    creating,    \* progress of the CreateOrder request
    pc, job,     \* per worker: next statement and handler being run
    acked,       \* the provider got a success answer to its webhook
    faults       \* faults left

row     == <<status, fresh, paidAt, tradeSaved, holders>>
ledger  == <<code, grants, rebates, audit>>
control == <<pc, job>>
world   == <<overdue, upstream, creating, acked, faults>>
vars    == <<row, ledger, control, world>>

Statuses  == {"NONE", "PENDING", "PAID", "RECHARGING", "COMPLETED", "FAILED",
              "CANCELLED", "EXPIRED"}
Steps     == {"idle", "query", "close", "persist", "cancel", "confirm",
              "toPaid", "already", "exec", "acquire", "conflict", "reload",
              "lookup", "create", "redeem", "assign", "insert", "rebate",
              "complete", "superseded", "fail"}
AuditRows == {"SUBSCRIPTION_ASSIGNED", "AFFILIATE_REBATE", "PAYMENT_AFTER_EXPIRY"}

FlagsOK == /\ fresh \in BOOLEAN /\ paidAt \in BOOLEAN /\ tradeSaved \in BOOLEAN
           /\ overdue \in BOOLEAN /\ acked \in BOOLEAN

ValuesOK ==
    /\ status \in Statuses
    /\ holders \subseteq Workers
    /\ upstream \in {"none", "open", "closed", "paid", "mispaid"}
    /\ code \in {"none", "unused", "used"}
    /\ grants \in Nat /\ rebates \in Nat /\ faults \in Nat
    /\ audit \subseteq AuditRows
    /\ creating \in {"insert", "invoke", "save", "abort", "done"}
    /\ pc \in [Workers -> Steps]
    /\ job \in [Workers -> Jobs]

\* Every variable of the order, its ledger and the handlers has its type.
TypeOK == FlagsOK /\ ValuesOK

Init ==
    /\ status = "NONE" /\ fresh = TRUE /\ paidAt = FALSE /\ tradeSaved = FALSE
    /\ overdue = FALSE /\ holders = {} /\ upstream = "none"
    /\ code = "none" /\ grants = 0 /\ rebates = 0 /\ audit = {}
    /\ creating = "insert" /\ acked = FALSE /\ faults = MaxFaults
    /\ pc = [w \in Workers |-> "idle"]
    /\ job = [w \in Workers |-> "webhook"]

-----------------------------------------------------------------------------
(* Helpers. *)

\* Any UPDATE of the row: updated_at becomes now, so it is fresh and no lease
\* version taken before it matches any longer.
Write(s) == status' = s /\ fresh' = TRUE /\ holders' = {}

Goto(w, l) == pc' = [pc EXCEPT ![w] = l]

\* One fault of kind k is spent.
Fault(k) == k \in FaultKinds /\ faults > 0 /\ faults' = faults - 1

\* The handler of w returns nil: a webhook answers the provider with success.
ReturnNil(w) == Goto(w, "idle") /\ acked' = (acked \/ job[w] = "webhook")

\* The handler of w returns an error: a webhook answers 500 and is redelivered.
ReturnErr(w) == Goto(w, "idle") /\ acked' = acked

Delivered == grants > 0
Settled   == "AFFILIATE_REBATE" \in audit

-----------------------------------------------------------------------------
(* The CreateOrder request. *)

\* createOrderInTx commits the PENDING row.
CreateOrder ==
    /\ creating = "insert"
    /\ creating' = "invoke" /\ Write("PENDING")
    /\ UNCHANGED <<paidAt, tradeSaved, ledger, control, overdue, upstream, acked, faults>>

\* invokeProvider, up to CreatePayment: the provider opens the payment, or the
\* call fails, in which case the provider may have opened it all the same.
InvokeProvider ==
    /\ creating = "invoke"
    /\ \/ creating' = "save" /\ upstream' = "open" /\ UNCHANGED faults
       \/ creating' = "abort" /\ upstream' \in {"none", "open"} /\ Fault("create")
    /\ UNCHANGED <<row, ledger, control, overdue, acked>>

\* invokeProvider's UPDATE with the payment details, guarded by the id only.
SavePaymentDetails ==
    /\ creating = "save"
    /\ \/ creating' = "done" /\ Write(status) /\ UNCHANGED <<paidAt, tradeSaved, faults>>
       \/ creating' = "abort" /\ Fault("create") /\ UNCHANGED row
    /\ UNCHANGED <<ledger, control, overdue, upstream, acked>>

\* CreateOrder's error path: status = FAILED, guarded by the id only.
CreateOrderFailed ==
    /\ creating = "abort"
    /\ creating' = "done" /\ Write("FAILED")
    /\ UNCHANGED <<paidAt, tradeSaved, ledger, control, overdue, upstream, acked, faults>>

\* The creating process dies before its next statement.
CreateOrderDies ==
    /\ creating \in {"invoke", "save", "abort"} /\ creating' = "done" /\ Fault("crash")
    /\ UNCHANGED <<row, ledger, control, overdue, upstream, acked>>

-----------------------------------------------------------------------------
(* The world: the payer and the clock. *)

\* The payer pays, the expected amount or another one.
Pay ==
    /\ upstream = "open" /\ upstream' \in {"paid", "mispaid"}
    /\ UNCHANGED <<row, ledger, control, overdue, creating, acked, faults>>

\* Five minutes pass without an UPDATE of the row.
Age ==
    /\ fresh /\ status # "NONE" /\ fresh' = FALSE
    /\ UNCHANGED <<status, paidAt, tradeSaved, holders, ledger, control, world>>

\* expires_at passes.
Deadline ==
    /\ ~overdue /\ status # "NONE" /\ overdue' = TRUE
    /\ UNCHANGED <<row, ledger, control, upstream, creating, acked, faults>>

-----------------------------------------------------------------------------
(* Handlers start: each reads the row and returns early unless it applies. *)

Start(w, j, l) ==
    /\ j \in Handlers /\ pc[w] = "idle" /\ status # "NONE"
    /\ Goto(w, l) /\ job' = [job EXCEPT ![w] = j]
    /\ UNCHANGED <<row, ledger, world>>

\* handleNotify: the provider delivers its success notification, once or again.
StartWebhook(w) == upstream \in {"paid", "mispaid"} /\ Start(w, "webhook", "confirm")

\* VerifyOrderByOutTradeNo and, for a PENDING order, ReconcilePendingWxpayOrders.
StartVerify(w) == status \in {"PENDING", "EXPIRED"} /\ Start(w, "verify", "query")

\* CancelOrder and AdminCancelOrder.
StartCancel(w) == status = "PENDING" /\ Start(w, "cancel", "query")

\* Mutant: the sweep selects the orders that have not timed out.
StartExpireInverted(w) == status = "PENDING" /\ ~overdue /\ Start(w, "expire", "query")

\* ExpireTimedOutOrders, run by PaymentOrderExpiryService on the leader only.
StartExpire(w) ==
    /\ status = "PENDING" /\ overdue
    /\ \A v \in Workers : pc[v] # "idle" => job[v] # "expire"
    /\ Start(w, "expire", "query")

\* RetryFulfillment.
StartRetry(w) ==
    /\ paidAt /\ status \in {"FAILED", "PAID", "RECHARGING"}
    /\ Start(w, "retry", "exec")

-----------------------------------------------------------------------------
(* checkPaidWithOptions and cancelCore. *)

\* What checkPaid's caller does when the order is not known to be paid.
NotPaid(w) == Goto(w, IF job[w] = "verify" THEN "idle" ELSE "cancel")

\* prov.QueryOrder: a paid answer goes on to the notification path, with the
\* provider's trade number first where it is not stored yet.
QueryOrder(w) ==
    /\ pc[w] = "query"
    /\ \/ upstream \in {"paid", "mispaid"} /\ UNCHANGED faults
          /\ (Goto(w, "confirm") \/ (~tradeSaved /\ Goto(w, "persist")))
       \/ upstream \notin {"paid", "mispaid"} /\ UNCHANGED faults
          /\ Goto(w, IF job[w] = "verify" THEN "idle" ELSE "close")
       \/ Fault("store") /\ NotPaid(w)
    /\ UNCHANGED <<row, ledger, job, overdue, upstream, creating, acked>>

\* prov.CancelPayment, whose outcome is ignored: the payment may be closed
\* upstream, unless the payer was faster or the provider cannot cancel.
ClosePayment(w) ==
    /\ pc[w] = "close" /\ Goto(w, "cancel")
    /\ upstream' \in {upstream} \cup (IF upstream = "open" THEN {"closed"} ELSE {})
    /\ UNCHANGED <<row, ledger, job, overdue, creating, acked, faults>>

\* The UPDATE of payment_trade_no, guarded by the id only; it may fail, and the
\* notification is handled all the same.
PersistTradeNo(w) ==
    /\ pc[w] = "persist" /\ Goto(w, "confirm")
    /\ \/ tradeSaved' = TRUE /\ Write(status) /\ UNCHANGED <<paidAt, faults>>
       \/ Fault("store") /\ UNCHANGED row
    /\ UNCHANGED <<ledger, job, overdue, upstream, creating, acked>>

\* Mutant: the UPDATE is guarded by the id only.
CancelCoreUnguarded(w) ==
    /\ pc[w] = "cancel" /\ Goto(w, "idle")
    /\ Write(IF job[w] = "expire" THEN "EXPIRED" ELSE "CANCELLED")
    /\ UNCHANGED <<paidAt, tradeSaved, ledger, job, world>>

\* cancelCore's compare-and-set of PENDING.
CancelCore(w) ==
    /\ pc[w] = "cancel" /\ Goto(w, "idle")
    /\ IF status = "PENDING"
       THEN /\ Write(IF job[w] = "expire" THEN "EXPIRED" ELSE "CANCELLED")
            /\ UNCHANGED <<paidAt, tradeSaved>>
       ELSE UNCHANGED row
    /\ UNCHANGED <<ledger, job, world>>

-----------------------------------------------------------------------------
(* HandlePaymentNotification: confirmPayment, toPaid, alreadyProcessed. *)

\* confirmPayment rejects an amount that differs from the order's; a failed
\* read of the order is logged and answered with nil.
ConfirmPayment(w) ==
    /\ pc[w] = "confirm"
    /\ \/ upstream = "paid" /\ Goto(w, "toPaid") /\ UNCHANGED <<acked, faults>>
       \/ upstream = "mispaid" /\ ReturnErr(w) /\ UNCHANGED faults
       \/ Fault("swallowed") /\ ReturnNil(w)
    /\ UNCHANGED <<row, ledger, job, overdue, upstream, creating>>

Payable == status \in {"PENDING", "CANCELLED"} \/ (status = "EXPIRED" /\ fresh)

\* toPaid's compare-and-set; when it matches nothing, alreadyProcessed decides.
ToPaid(w) ==
    /\ pc[w] = "toPaid"
    /\ IF Payable
       THEN /\ Write("PAID") /\ paidAt' = TRUE /\ tradeSaved' = TRUE /\ Goto(w, "exec")
       ELSE UNCHANGED row /\ Goto(w, "already")
    /\ UNCHANGED <<ledger, job, world>>

\* alreadyProcessed: go on with an unfinished order, record a payment that came
\* after the grace period, answer nil to everything else (and to a failed read).
AlreadyProcessed(w) ==
    /\ pc[w] = "already"
    /\ \/ /\ status \in {"FAILED", "PAID", "RECHARGING"}
          /\ Goto(w, "exec") /\ UNCHANGED <<audit, acked, faults>>
       \/ /\ status = "EXPIRED" /\ audit' = audit \cup {"PAYMENT_AFTER_EXPIRY"}
          /\ ReturnNil(w) /\ UNCHANGED faults
       \/ /\ status \notin {"FAILED", "PAID", "RECHARGING", "EXPIRED"}
          /\ ReturnNil(w) /\ UNCHANGED <<audit, faults>>
       \/ Fault("swallowed") /\ ReturnNil(w) /\ UNCHANGED audit
    /\ UNCHANGED <<row, code, grants, rebates, job, overdue, upstream, creating>>

-----------------------------------------------------------------------------
(* executeFulfillment: the lease, the delivery, the rebate, the outcome. *)

\* Execute{Balance,Subscription}Fulfillment's read of the order.
ExecuteFulfillment(w) ==
    /\ pc[w] = "exec"
    /\ \/ status = "COMPLETED" /\ ReturnNil(w)
       \/ status \in {"PAID", "FAILED", "RECHARGING"} /\ Goto(w, "acquire") /\ UNCHANGED acked
       \/ status \notin {"COMPLETED", "PAID", "FAILED", "RECHARGING"} /\ ReturnErr(w)
    /\ UNCHANGED <<row, ledger, job, overdue, upstream, creating, faults>>

\* Mutant: a RECHARGING order is never taken over.
LeasableNoTakeover == status \in {"PAID", "FAILED"}

Leasable == status \in {"PAID", "FAILED"} \/ (status = "RECHARGING" /\ ~fresh)

\* acquirePaymentFulfillmentLease's UPDATE.
AcquireLease(w) ==
    /\ pc[w] = "acquire"
    /\ IF Leasable
       THEN Write("RECHARGING") /\ Goto(w, "reload") /\ UNCHANGED <<paidAt, tradeSaved>>
       ELSE Goto(w, "conflict") /\ UNCHANGED row
    /\ UNCHANGED <<ledger, job, world>>

\* Mutant: an order that somebody else is processing counts as done.
LeaseConflictIsDone(w) ==
    /\ pc[w] = "conflict"
    /\ IF status \in {"COMPLETED", "RECHARGING"} THEN ReturnNil(w) ELSE ReturnErr(w)
    /\ UNCHANGED <<row, ledger, job, overdue, upstream, creating, faults>>

\* The reload after an UPDATE that matched nothing: the order was completed
\* meanwhile, or somebody else is at it.
LeaseConflict(w) ==
    /\ pc[w] = "conflict"
    /\ IF status = "COMPLETED" THEN ReturnNil(w) ELSE ReturnErr(w)
    /\ UNCHANGED <<row, ledger, job, overdue, upstream, creating, faults>>

\* The separate reload that reads updated_at back as the lease version.
ReloadLease(w) ==
    /\ pc[w] = "reload"
    /\ IF status = "RECHARGING"
       THEN /\ holders' = holders \cup {w}
            /\ Goto(w, IF OrderType = "balance" THEN "lookup" ELSE "assign")
            /\ UNCHANGED acked
       ELSE ReturnErr(w) /\ UNCHANGED holders
    /\ UNCHANGED <<status, fresh, paidAt, tradeSaved, ledger, job, overdue, upstream,
                   creating, faults>>

\* Mutant: an existing code is taken for a redeemed one.
ResolveExistingIsUsed(w) ==
    /\ pc[w] = "lookup" /\ Goto(w, IF code = "none" THEN "create" ELSE "rebate")
    /\ UNCHANGED <<row, ledger, job, world>>

\* doBalance's GetByCode and resolveRedeemAction; a failed lookup means create.
ResolveRedeemAction(w) ==
    /\ pc[w] = "lookup"
    /\ \/ /\ Goto(w, CASE code = "none" -> "create"
                       [] code = "used" -> "rebate"
                       [] OTHER -> "redeem")
          /\ UNCHANGED faults
       \/ Fault("store") /\ Goto(w, "create")
    /\ UNCHANGED <<row, ledger, job, overdue, upstream, creating, acked>>

\* redeemService.CreateCode: the code column is unique.
CreateCode(w) ==
    /\ pc[w] = "create"
    /\ \/ code = "none" /\ code' = "unused" /\ Goto(w, "redeem") /\ UNCHANGED faults
       \/ code # "none" /\ UNCHANGED <<code, faults>> /\ Goto(w, "fail")
       \/ Fault("store") /\ UNCHANGED code /\ Goto(w, "fail")
    /\ UNCHANGED <<row, grants, rebates, audit, job, overdue, upstream, creating, acked>>

\* Mutant: the code is marked used without checking that it is unused.
RedeemTxUnguarded == code' = "used" /\ grants' = grants + 1

\* The transaction of redeemService.Redeem: the code goes from unused to used and
\* the balance is credited, together.
RedeemTx == code = "unused" /\ code' = "used" /\ grants' = grants + 1

\* Redeem fails on a code that is not unused and on any store error before the
\* commit; after the commit its last read may still fail.
Redeem(w) ==
    /\ pc[w] = "redeem"
    /\ \/ RedeemTx /\ Goto(w, "rebate") /\ UNCHANGED faults
       \/ RedeemTx /\ Goto(w, "fail") /\ Fault("store")
       \/ code # "unused" /\ Goto(w, "fail") /\ UNCHANGED <<code, grants, faults>>
       \/ Fault("store") /\ Goto(w, "fail") /\ UNCHANGED <<code, grants>>
    /\ UNCHANGED <<row, rebates, audit, job, overdue, upstream, creating, acked>>

\* doSub up to the start of the assignment transaction: an inactive group or a
\* store error fails; an audit row that is there already means it was done.
CheckAssigned(w) ==
    /\ pc[w] = "assign"
    /\ \/ Goto(w, IF "SUBSCRIPTION_ASSIGNED" \in audit THEN "rebate" ELSE "insert")
          /\ UNCHANGED faults
       \/ Fault("store") /\ Goto(w, "fail")
    /\ UNCHANGED <<row, ledger, job, overdue, upstream, creating, acked>>

\* Mutant: the audit row is not unique per order and action.
AssignTxNoUnique == grants' = grants + 1 /\ audit' = audit \cup {"SUBSCRIPTION_ASSIGNED"}

\* The rest of the transaction of ensurePaymentSubscriptionAssigned: extend the
\* subscription and insert the audit row, unique per order and action.  Losing
\* the race for that row rolls everything back and counts as done.
AssignTx ==
    IF "SUBSCRIPTION_ASSIGNED" \in audit
    THEN UNCHANGED <<grants, audit>>
    ELSE grants' = grants + 1 /\ audit' = audit \cup {"SUBSCRIPTION_ASSIGNED"}

\* The transaction may fail, and so may the cache invalidation after its commit.
AssignSubscription(w) ==
    /\ pc[w] = "insert"
    /\ \/ AssignTx /\ Goto(w, "rebate") /\ UNCHANGED faults
       \/ AssignTx /\ Goto(w, "fail") /\ Fault("store")
       \/ Fault("store") /\ Goto(w, "fail") /\ UNCHANGED <<grants, audit>>
    /\ UNCHANGED <<row, code, rebates, job, overdue, upstream, creating, acked>>

\* Mutant: the rebate is accrued without claiming the audit row first.
RebateTxNoClaim ==
    audit' = audit \cup {"AFFILIATE_REBATE"} /\ rebates' \in {rebates, rebates + 1}

\* The transaction of applyAffiliateRebateForOrder: claim the audit row, then
\* accrue (or, without an inviter, only record that there was nothing to do).
RebateTx ==
    IF "AFFILIATE_REBATE" \in audit
    THEN UNCHANGED <<rebates, audit>>
    ELSE audit' = audit \cup {"AFFILIATE_REBATE"} /\ rebates' \in {rebates, rebates + 1}

ApplyAffiliateRebate(w) ==
    /\ pc[w] = "rebate"
    /\ \/ RebateTx /\ Goto(w, "complete") /\ UNCHANGED faults
       \/ RebateTx /\ Goto(w, "fail") /\ Fault("store")
       \/ Fault("store") /\ Goto(w, "fail") /\ UNCHANGED <<rebates, audit>>
    /\ UNCHANGED <<row, code, grants, job, overdue, upstream, creating, acked>>

\* The guard of markCompleted and markFailed.
OwnsLease(w) == status = "RECHARGING" /\ w \in holders

\* markCompleted's UPDATE.
MarkCompleted(w) ==
    /\ pc[w] = "complete"
    /\ \/ /\ OwnsLease(w) /\ Write("COMPLETED") /\ ReturnNil(w)
          /\ UNCHANGED <<paidAt, tradeSaved, faults>>
       \/ ~OwnsLease(w) /\ Goto(w, "superseded") /\ UNCHANGED <<row, acked, faults>>
       \/ Fault("store") /\ Goto(w, "fail") /\ UNCHANGED <<row, acked>>
    /\ UNCHANGED <<ledger, job, overdue, upstream, creating>>

\* markCompleted's reload: a lost lease is success only if the order is COMPLETED,
\* and otherwise an error that goes through markFailed like any other.
LeaseSuperseded(w) ==
    /\ pc[w] = "superseded"
    /\ IF status = "COMPLETED" THEN ReturnNil(w) ELSE Goto(w, "fail") /\ UNCHANGED acked
    /\ UNCHANGED <<row, ledger, job, overdue, upstream, creating, faults>>

\* Mutant: markFailed writes a status outside the enumeration.
MarkFailedUnknown(w) ==
    /\ pc[w] = "fail" /\ ReturnErr(w)
    /\ IF OwnsLease(w) THEN Write("FULFILL_FAILED") /\ UNCHANGED <<paidAt, tradeSaved>>
                       ELSE UNCHANGED row
    /\ UNCHANGED <<ledger, job, overdue, upstream, creating, faults>>

\* markFailed, after which the handler returns the error; the UPDATE may fail too.
MarkFailed(w) ==
    /\ pc[w] = "fail" /\ ReturnErr(w)
    /\ \/ OwnsLease(w) /\ Write("FAILED") /\ UNCHANGED <<paidAt, tradeSaved, faults>>
       \/ ~OwnsLease(w) /\ UNCHANGED <<row, faults>>
       \/ Fault("store") /\ UNCHANGED row
    /\ UNCHANGED <<ledger, job, overdue, upstream, creating>>

-----------------------------------------------------------------------------
\* The process of w dies, or its request context is cancelled, between two
\* statements: nothing it has not written yet is written.
Crash(w) ==
    /\ pc[w] # "idle" /\ Fault("crash") /\ ReturnErr(w)
    /\ UNCHANGED <<row, ledger, job, overdue, upstream, creating>>

StartHandler(w) == StartWebhook(w) \/ StartVerify(w) \/ StartCancel(w)
                   \/ StartExpire(w) \/ StartRetry(w)

\* The next statement of the handler that w is running.
Continue(w) ==
    \/ QueryOrder(w) \/ ClosePayment(w) \/ PersistTradeNo(w) \/ CancelCore(w)
    \/ ConfirmPayment(w) \/ ToPaid(w) \/ AlreadyProcessed(w)
    \/ ExecuteFulfillment(w) \/ AcquireLease(w) \/ LeaseConflict(w) \/ ReloadLease(w)
    \/ ResolveRedeemAction(w) \/ CreateCode(w) \/ Redeem(w)
    \/ CheckAssigned(w) \/ AssignSubscription(w) \/ ApplyAffiliateRebate(w)
    \/ MarkCompleted(w) \/ LeaseSuperseded(w) \/ MarkFailed(w)

Creation == CreateOrder \/ InvokeProvider \/ SavePaymentDetails \/ CreateOrderFailed
            \/ CreateOrderDies

Next ==
    \/ Creation \/ Pay \/ Age \/ Deadline
    \/ \E w \in Workers : StartHandler(w) \/ Continue(w) \/ Crash(w)

Spec == Init /\ [][Next]_vars

-----------------------------------------------------------------------------
(* Fairness: a started request goes on, time passes, the expiry job keeps     *)
(* sweeping and the provider redelivers its webhook until it gets a success.  *)
(* Strong fairness on the two starts, because a worker that is busy with      *)
(* another handler delays them only in the model: the code has no such pool.  *)

Fairness ==
    /\ WF_vars(Creation) /\ WF_vars(Age) /\ WF_vars(Deadline)
    /\ \A w \in Workers : WF_vars(Continue(w))
    /\ SF_vars(\E w \in Workers : StartExpire(w))
    /\ SF_vars(\E w \in Workers : ~acked /\ StartWebhook(w))

FairSpec == Spec /\ Fairness

-----------------------------------------------------------------------------
(* Properties. *)

\* Webhook redeliveries, verifies, retries and lease takeovers, however they
\* interleave and wherever a worker dies, give the user what was bought at most
\* once, and never for a payment that did not arrive with the right amount.
GrantedOnce == grants <= 1 /\ (Delivered => upstream = "paid")

\* The inviter's rebate is accrued at most once per order, and only for an order
\* whose value the user has received.
RebatedOnce == rebates <= 1 /\ (Settled => Delivered)

\* COMPLETED is never written, by whichever of several racing workers, before the
\* value has been given and the rebate settled.
CompletedIsDelivered == status = "COMPLETED" => Delivered /\ Settled

\* Once the value has been given no cancel, sweep or notification that read the
\* row earlier takes the order out of the fulfilment states.
DeliveredStaysFulfilling == Delivered => status \in {"RECHARGING", "COMPLETED", "FAILED"}

\* A webhook is answered with success, which ends the provider's redelivery, only
\* when the value has been given or the refused payment is on record.
AckedIsSettled == acked => Delivered \/ "PAYMENT_AFTER_EXPIRY" \in audit

Ledger == INSTANCE OrderLedger WITH
    paid <- upstream = "paid", given <- grants, settled <- Settled, rebated <- rebates,
    completed <- status = "COMPLETED"

\* The interleaved handlers implement the order as its owner understands it: paid,
\* given once, settled once, completed, in that order.
ImplementsLedger == Ledger!Spec

\* A payment of the right amount eventually gives the user its value, through
\* redeliveries, crashes and lease takeovers, or is on record as refused.
PaidIsSettled == upstream = "paid" ~> Delivered \/ "PAYMENT_AFTER_EXPIRY" \in audit

\* A timed-out order eventually leaves PENDING (the sweep keeps an order whose
\* payer paid another amount: checkPaid answers already_paid every time).
OverdueIsSwept == status = "PENDING" /\ overdue ~> status # "PENDING" \/ upstream = "mispaid"
=============================================================================
