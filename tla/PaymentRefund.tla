---------------------------- MODULE PaymentRefund ----------------------------
(***************************************************************************)
(* The refund of ONE completed balance order, as payment_refund.go drives  *)
(* it: the user's request, the admin's PrepareRefund + ExecuteRefund and   *)
(* QueryAndFinalizeRefund, each a sequence of separate statements and      *)
(* provider calls.  Only ExecuteRefund's first UPDATE is a compare-and-set;*)
(* every later write of the status is guarded by the id alone, and the     *)
(* audit rows that a retry relies on are written and read best effort.     *)
(* A deduction is at most the order's amount and RollbackRefund gives back *)
(* exactly what was deducted, so deductions are counted.                   *)
(***************************************************************************)
EXTENDS Integers, FiniteSets

CONSTANTS
    Admins,      \* admin requests that may run at the same time
    Amount,      \* the order's amount, in units of money
    Handlers,    \* which operations of AllHandlers are called
    FaultKinds,  \* which faults of AllFaults may happen
    MaxFaults,   \* bound: how many faults a behaviour contains
    MaxFinals    \* bound: no finalizer starts once finals has reached it

AllHandlers == {"request", "refund", "finalize"}
AllFaults   == {"crash", "store", "audit", "deduct", "rollback", "gateway"}

ASSUME AdminsAssumption == IsFiniteSet(Admins)
ASSUME AmountAssumption == Amount \in Nat \ {0}
ASSUME RefundAssumption ==
    /\ Handlers \subseteq AllHandlers /\ FaultKinds \subseteq AllFaults
    /\ MaxFaults \in Nat /\ MaxFinals \in Nat

VARIABLES
    status,       \* payment_orders.status
    refundAmount, \* payment_orders.refund_amount
    taken,        \* this order's deductions from the balance that were not given back
    gateway,      \* the refund at the provider; "absent" when payment_trade_no is empty
    audit,        \* the payment_audit_logs rows that later code reads
    rollbackOK,   \* deductionRollbackOK in the detail of the REFUND_PENDING row
    pc, plan,     \* per admin: next statement and the RefundPlan
    faults,       \* faults left
    unrecorded,   \* history: deductions kept or made because an error hid what was done
    finals,       \* history: final deductions and finalizeRefundFailed's writes
    stranded      \* history: a request ended in REFUNDING without writing an outcome

vars == <<status, refundAmount, taken, gateway, audit, rollbackOK, pc, plan, faults,
          unrecorded, finals, stranded>>

Refundable == {"COMPLETED", "REFUND_REQUESTED", "REFUND_PENDING", "REFUND_FAILED"}
Final      == {"REFUNDED", "PARTIALLY_REFUNDED"}
AuditRows  == {"REFUND_ROLLBACK_FAILED", "REFUND_PENDING", "REFUND_SUCCESS"}
LockSteps  == {"deduct", "gateway", "rollback", "noteFailed", "restore", "markFailed",
               "unwind", "notePending", "markPending", "markOk"}
Steps      == LockSteps \cup {"idle", "lock", "auditPending", "finQuery", "finCheck",
               "finDeduct", "finFailed", "finOk", "auditOk"}
Plans == [was: Refundable, amount: 1 .. Amount, deduct: BOOLEAN, rolledBack: BOOLEAN]

\* Every variable of the refund, the ledger and the admins has its type; RollbackRefund
\* never gives back more than was taken.
TypeOK ==
    /\ status \in Refundable \cup Final \cup {"REFUNDING"}
    /\ refundAmount \in 0 .. Amount /\ taken \in Nat
    /\ gateway \in {"absent", "none", "pending", "refunded"}
    /\ audit \subseteq AuditRows /\ rollbackOK \in BOOLEAN
    /\ pc \in [Admins -> Steps] /\ plan \in [Admins -> Plans]
    /\ faults \in Nat /\ unrecorded \in Nat /\ finals \in Nat /\ stranded \in BOOLEAN

NoPlan == [was |-> "COMPLETED", amount |-> Amount, deduct |-> FALSE, rolledBack |-> TRUE]

Init ==
    /\ status = "COMPLETED" /\ refundAmount = 0 /\ taken = 0
    /\ gateway \in {"absent", "none"} /\ audit = {} /\ rollbackOK = TRUE
    /\ pc = [a \in Admins |-> "idle"] /\ plan = [a \in Admins |-> NoPlan]
    /\ faults = MaxFaults /\ unrecorded = 0 /\ finals = 0 /\ stranded = FALSE

-----------------------------------------------------------------------------
(* Helpers. *)

Goto(a, l) == pc' = [pc EXCEPT ![a] = l]

At(a, l) == pc[a] = l

\* The request returns, and its plan is gone.
Return(a) == Goto(a, "idle") /\ plan' = [plan EXCEPT ![a] = NoPlan]

Fault(k) == k \in FaultKinds /\ faults > 0 /\ faults' = faults - 1

\* Between ExecuteRefund's lock and the write that releases it.
Locked(a) == pc[a] \in LockSteps

order   == <<status, refundAmount>>
history == <<unrecorded, finals, stranded>>

\* userRepo.DeductBalance (n = 1) or UpdateBalance (n = -1), one UPDATE, which counts
\* in n when it takes effect; an error may come before or after its commit.
Take(n) == taken' = taken + n

\* writeAuditLog: a row whose (order, action) exists is dropped; an insert that fails
\* is only logged, and nobody is told.
AuditOnce(r) ==
    \/ audit' = audit \cup {r} /\ UNCHANGED faults
    \/ Fault("audit") /\ UNCHANGED audit

-----------------------------------------------------------------------------
\* RequestRefund: the user, whose balance covers it now, asks for the whole amount.
RequestRefund ==
    /\ "request" \in Handlers /\ status = "COMPLETED"
    /\ status' = "REFUND_REQUESTED" /\ refundAmount' = Amount
    /\ UNCHANGED <<taken, gateway, audit, rollbackOK, pc, plan, faults, history>>

\* PrepareRefund and prepDeduct: the plan keeps the order as it is now.  The admin
\* chooses the amount and whether to deduct; a user without balance is not deducted.
PrepareRefund(a) ==
    /\ "refund" \in Handlers /\ At(a, "idle") /\ status \in Refundable
    /\ \E m \in 1 .. Amount, d \in BOOLEAN :
          plan' = [plan EXCEPT ![a] =
              [was |-> status, amount |-> m, deduct |-> d, rolledBack |-> TRUE]]
    /\ Goto(a, "lock")
    /\ UNCHANGED <<order, taken, gateway, audit, rollbackOK, faults, history>>

\* Mutant: the lock does not check the status.
LockRefundUnguarded(a) ==
    /\ At(a, "lock") /\ status' = "REFUNDING" /\ Goto(a, "deduct")
    /\ UNCHANGED <<refundAmount, taken, gateway, audit, rollbackOK, plan, faults, history>>

\* ExecuteRefund's compare-and-set to REFUNDING.
LockRefund(a) ==
    /\ At(a, "lock")
    /\ IF status \in Refundable
       THEN status' = "REFUNDING" /\ Goto(a, "deduct") /\ UNCHANGED plan
       ELSE Return(a) /\ UNCHANGED status
    /\ UNCHANGED <<refundAmount, taken, gateway, audit, rollbackOK, faults, history>>

\* Mutant: the retry always deducts.
NeverSkips(a) == FALSE

\* hasAuditLog of an earlier deduction that was not given back.
SkipsDeduction(a) == "REFUND_ROLLBACK_FAILED" \in audit

\* ExecuteRefund's deduction, skipped when an earlier one is on record; hasAuditLog
\* answers false when its query fails, and the retry deducts again.  A DeductBalance
\* that errs, before or after its commit, abandons the refund.
DeductForRefund(a) ==
    /\ At(a, "deduct")
    /\ \/ /\ plan[a].deduct /\ ~SkipsDeduction(a)
          /\ Take(1) /\ Goto(a, "gateway") /\ UNCHANGED <<plan, faults, unrecorded>>
       \/ /\ plan[a].deduct /\ SkipsDeduction(a) /\ Fault("audit")
          /\ Take(1) /\ unrecorded' = unrecorded + 1
          /\ Goto(a, "gateway") /\ UNCHANGED plan
       \/ /\ plan[a].deduct /\ ~SkipsDeduction(a) /\ Fault("deduct")
          /\ \E done \in {0, 1} : Take(done) /\ unrecorded' = unrecorded + done
          /\ Goto(a, "restore") /\ UNCHANGED plan
       \/ /\ ~plan[a].deduct \/ SkipsDeduction(a)
          /\ plan' = [plan EXCEPT ![a].deduct = FALSE]
          /\ Goto(a, "gateway") /\ UNCHANGED <<taken, faults, unrecorded>>
    /\ UNCHANGED <<order, gateway, audit, rollbackOK, finals, stranded>>

\* Mutant: an accepted but pending refund counts as refunded.
GwRefundPendingIsOk(a) ==
    /\ At(a, "gateway") /\ gateway = "none" /\ gateway' = "pending" /\ Goto(a, "markOk")
    /\ UNCHANGED <<order, taken, audit, rollbackOK, plan, faults, history>>

\* gwRefund and the dispatch of finishRefund.  Without a trade number there is
\* nothing to refund and the call succeeds; else the provider refunds, accepts the
\* refund as pending, refuses it, or refunds and its answer is lost.
GwRefund(a) ==
    /\ At(a, "gateway")
    /\ \/ gateway = "absent" /\ Goto(a, "markOk") /\ UNCHANGED <<gateway, faults>>
       \/ /\ gateway # "absent" /\ gateway' = "refunded"
          /\ Goto(a, "markOk") /\ UNCHANGED faults
       \/ /\ gateway \in {"none", "pending"} /\ gateway' = "pending"
          /\ Goto(a, "unwind") /\ UNCHANGED faults
       \/ gateway # "absent" /\ Goto(a, "rollback") /\ UNCHANGED <<gateway, faults>>
       \/ gateway # "absent" /\ Fault("gateway") /\ gateway' = "refunded" /\ Goto(a, "rollback")
    /\ UNCHANGED <<order, taken, audit, rollbackOK, plan, history>>

\* The provider settles a pending refund, either way.
SettleRefund ==
    /\ gateway = "pending" /\ gateway' \in {"refunded", "none"}
    /\ UNCHANGED <<order, taken, audit, rollbackOK, pc, plan, faults, history>>

\* RollbackRefund's UpdateBalance: give the deduction back; an error may come before
\* or after its commit.
RollbackRefund(a, done, failed) ==
    \/ /\ IF plan[a].deduct THEN Take(-1) ELSE UNCHANGED taken
       /\ plan' = [plan EXCEPT ![a].rolledBack = TRUE]
       /\ Goto(a, done) /\ UNCHANGED faults
    \/ /\ plan[a].deduct /\ Fault("rollback")
       /\ \E back \in {0, 1} : Take(-back)
       /\ plan' = [plan EXCEPT ![a].rolledBack = FALSE]
       /\ Goto(a, failed)

\* Mutant: the status is restored without giving the deduction back.
HandleGwFailNoRollback(a) ==
    /\ At(a, "rollback") /\ Goto(a, "restore")
    /\ UNCHANGED <<order, taken, gateway, audit, rollbackOK, plan, faults, history>>

\* handleGwFail: roll back, then restore the status or mark the refund failed.
HandleGwFail(a) ==
    /\ At(a, "rollback") /\ RollbackRefund(a, "restore", "noteFailed")
    /\ UNCHANGED <<order, gateway, audit, rollbackOK, history>>

\* markRefundPending, first half: roll the deduction back until the refund is final.
UnwindPending(a) ==
    /\ At(a, "unwind") /\ RollbackRefund(a, "markPending", "notePending")
    /\ UNCHANGED <<order, gateway, audit, rollbackOK, history>>

\* RollbackRefund's REFUND_ROLLBACK_FAILED row, the only trace of the deduction.
AuditRollbackFailed(a) ==
    /\ \/ At(a, "noteFailed") /\ Goto(a, "markFailed")
       \/ At(a, "notePending") /\ Goto(a, "markPending")
    /\ AuditOnce("REFUND_ROLLBACK_FAILED")
    /\ unrecorded' = unrecorded + IF "REFUND_ROLLBACK_FAILED" \in audit' THEN 0 ELSE 1
    /\ UNCHANGED <<order, taken, gateway, rollbackOK, plan, finals, stranded>>

\* Mutant: the status is restored only for an order the user asked to refund.
RestoreRequestedOnly(a) ==
    /\ At(a, "restore") /\ Return(a)
    /\ status' = IF plan[a].was = "REFUND_REQUESTED" THEN "REFUND_REQUESTED" ELSE status
    /\ UNCHANGED <<refundAmount, taken, gateway, audit, rollbackOK, faults, history>>

\* restoreStatus: back to the status the plan saw, guarded by the id only.
RestoreStatus(a) ==
    /\ At(a, "restore") /\ Return(a)
    /\ status' = IF plan[a].was = "REFUND_REQUESTED" THEN "REFUND_REQUESTED" ELSE "COMPLETED"
    /\ UNCHANGED <<refundAmount, taken, gateway, audit, rollbackOK, faults, history>>

\* handleGwFail's and finalizeRefundFailed's write, guarded by the id only.
MarkRefundFailed(a) ==
    /\ \/ At(a, "markFailed") /\ UNCHANGED finals
       \/ At(a, "finFailed") /\ finals' = finals + 1
    /\ Return(a) /\ status' = "REFUND_FAILED"
    /\ UNCHANGED <<refundAmount, taken, gateway, audit, rollbackOK, faults, unrecorded, stranded>>

\* Mutant: the stored refund amount adds to an earlier one.
MarkRefundPendingAdds(a) ==
    /\ At(a, "markPending") /\ Goto(a, "auditPending")
    /\ status' = "REFUND_PENDING" /\ refundAmount' = refundAmount + plan[a].amount
    /\ UNCHANGED <<taken, gateway, audit, rollbackOK, plan, faults, history>>

\* markRefundPending's UPDATE, guarded by the id only.
MarkRefundPending(a) ==
    /\ At(a, "markPending") /\ Goto(a, "auditPending")
    /\ status' = "REFUND_PENDING" /\ refundAmount' = plan[a].amount
    /\ UNCHANGED <<taken, gateway, audit, rollbackOK, plan, faults, history>>

\* markRefundPending's audit row: the first one stays, a later detail is dropped.
AuditPending(a) ==
    /\ At(a, "auditPending") /\ Return(a) /\ AuditOnce("REFUND_PENDING")
    /\ rollbackOK' = IF "REFUND_PENDING" \in audit' \ audit THEN plan[a].rolledBack ELSE rollbackOK
    /\ UNCHANGED <<order, taken, gateway, history>>

-----------------------------------------------------------------------------
(* QueryAndFinalizeRefund. *)

\* The read of the order, refundFinalizePlan and latestRefundPendingDetail, which
\* says that the rollback went well when its query fails.
StartFinalize(a) ==
    /\ "finalize" \in Handlers /\ finals < MaxFinals
    /\ At(a, "idle") /\ status = "REFUND_PENDING"
    /\ \E d \in {rollbackOK, TRUE} :
          /\ IF d = rollbackOK THEN UNCHANGED faults ELSE Fault("audit")
          /\ plan' = [plan EXCEPT ![a] =
                [was |-> status, amount |-> refundAmount, deduct |-> d, rolledBack |-> TRUE]]
    /\ Goto(a, "finQuery")
    /\ UNCHANGED <<order, taken, gateway, audit, rollbackOK, history>>

\* QueryRefund: refunded, refused, or still pending; a query that errs changes
\* nothing, an answer that is not understood counts as refused.
QueryRefund(a) ==
    /\ At(a, "finQuery")
    /\ \/ gateway = "refunded" /\ Goto(a, "finCheck") /\ UNCHANGED <<plan, faults>>
       \/ gateway = "none" /\ Goto(a, "finFailed") /\ UNCHANGED <<plan, faults>>
       \/ Fault("gateway") /\ Goto(a, "finFailed") /\ UNCHANGED plan
       \/ Return(a) /\ UNCHANGED faults
    /\ UNCHANGED <<order, taken, gateway, audit, rollbackOK, history>>

\* applyRefundFinalDeduction's read of the REFUND_SUCCESS row, false when it fails.
CheckFinalDeduction(a) ==
    /\ At(a, "finCheck")
    /\ \/ plan[a].deduct /\ "REFUND_SUCCESS" \notin audit /\ Goto(a, "finDeduct") /\ UNCHANGED faults
       \/ plan[a].deduct /\ "REFUND_SUCCESS" \in audit /\ Fault("audit") /\ Goto(a, "finDeduct")
       \/ (~plan[a].deduct \/ "REFUND_SUCCESS" \in audit) /\ Goto(a, "finOk") /\ UNCHANGED faults
    /\ UNCHANGED <<order, taken, gateway, audit, rollbackOK, plan, history>>

\* applyRefundFinalDeduction's DeductBalance; an error leaves the order pending.
ApplyFinalDeduction(a) ==
    /\ At(a, "finDeduct")
    /\ \/ /\ Take(1) /\ finals' = finals + 1
          /\ Goto(a, "finOk") /\ UNCHANGED <<plan, faults>>
       \/ /\ Fault("deduct") /\ Return(a)
          /\ \E done \in {0, 1} : Take(done) /\ finals' = finals + done
    /\ UNCHANGED <<order, gateway, audit, rollbackOK, unrecorded, stranded>>

\* markRefundOk's UPDATE, guarded by the id only.
MarkRefundOk(a) ==
    /\ pc[a] \in {"markOk", "finOk"} /\ Goto(a, "auditOk")
    /\ status' = IF plan[a].amount < Amount THEN "PARTIALLY_REFUNDED" ELSE "REFUNDED"
    /\ refundAmount' = plan[a].amount
    /\ UNCHANGED <<taken, gateway, audit, rollbackOK, plan, faults, history>>

\* markRefundOk's audit row.
AuditRefundOk(a) ==
    /\ At(a, "auditOk") /\ Return(a) /\ AuditOnce("REFUND_SUCCESS")
    /\ UNCHANGED <<order, taken, gateway, rollbackOK, history>>

-----------------------------------------------------------------------------
\* A request ends without the writes that were to follow.
Abandon(a) ==
    /\ Return(a) /\ stranded' = (stranded \/ (Locked(a) /\ status = "REFUNDING"))
    /\ UNCHANGED <<order, taken, gateway, audit, rollbackOK, unrecorded, finals>>

\* An UPDATE of the status errs: the handler returns, or goes on without a word, and
\* the status is as it was.  An error after the commit is a crash after the write.
StatusWriteFails(a) ==
    /\ pc[a] \in {"lock", "restore", "markFailed", "markPending", "markOk", "finFailed", "finOk"}
    /\ Fault("store") /\ Abandon(a)

\* The request dies between two statements.
Crash(a) == pc[a] # "idle" /\ Fault("crash") /\ Abandon(a)

Continue(a) ==
    \/ LockRefund(a) \/ DeductForRefund(a) \/ GwRefund(a) \/ HandleGwFail(a)
    \/ UnwindPending(a) \/ AuditRollbackFailed(a) \/ RestoreStatus(a) \/ MarkRefundFailed(a)
    \/ MarkRefundPending(a) \/ AuditPending(a) \/ QueryRefund(a)
    \/ CheckFinalDeduction(a) \/ ApplyFinalDeduction(a) \/ MarkRefundOk(a)
    \/ AuditRefundOk(a)

Next ==
    \/ RequestRefund \/ SettleRefund
    \/ \E a \in Admins :
          PrepareRefund(a) \/ StartFinalize(a) \/ Continue(a) \/ StatusWriteFails(a) \/ Crash(a)

Spec == Init /\ [][Next]_vars

-----------------------------------------------------------------------------
(* Properties. *)

\* ExecuteRefund's compare-and-set admits one refund at a time: later writes go by the
\* id alone, and still only a finalizer that writes REFUND_FAILED over a refund in
\* progress, or deducts, lets one more in.
RefundIsExclusive == Cardinality({a \in Admins : Locked(a)}) <= 1 + finals

\* However often a refund is retried, and whichever rollbacks failed, the balance is
\* deducted once: a second deduction needs an error that hid the first one (a row lost
\* or unread, a commit reported as an error), and each finalization takes one more at most.
TakenOnce == taken <= 1 + unrecorded + finals

\* An abandoned refund leaves the user whole: an order whose refund can be tried again
\* and has no REFUND_ROLLBACK_FAILED row keeps nothing but what errors hid and what
\* finalizers took.
RestoredIsWhole ==
    status \in Refundable /\ "REFUND_ROLLBACK_FAILED" \notin audit => taken <= unrecorded + finals

\* The order says refunded only if the provider has paid the money back, or if the
\* order has no trade number to refund, whoever marks it.
RefundedIsPaidBack == status \in Final => gateway \in {"refunded", "absent"}

\* A refunded order stays refunded ("REFUNDED | Refund completed", docs/PAYMENT.md);
\* a finalizer that was slow breaks it (README, section 8).
RefundedIsFinal == [][(status \in Final) => status' = status]_vars

\* No order is forgotten in REFUNDING, which no sweep and no admin operation leaves: some
\* request is still on its way to writing the outcome, unless one died in REFUNDING or
\* its UPDATE of the outcome failed.
RefundingIsHeld == status = "REFUNDING" => stranded \/ \E a \in Admins : Locked(a)
=============================================================================
