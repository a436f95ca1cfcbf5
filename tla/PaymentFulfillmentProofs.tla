---------------------- MODULE PaymentFulfillmentProofs ----------------------
(***************************************************************************)
(* Proofs about PaymentFulfillment, for every set of workers, both order   *)
(* types, every set of faults and every number of them.                    *)
(***************************************************************************)
EXTENDS PaymentFulfillment, TLAPS

-----------------------------------------------------------------------------
(* The inductive invariant. *)

\* The steps a handler takes only after confirmPayment accepted a payment or
\* RetryFulfillment saw paid_at.
PaidSteps == Steps \ {"idle", "query", "close", "persist", "cancel", "confirm"}

\* The steps a worker takes only after it has written RECHARGING.
LeasedSteps == {"reload", "lookup", "create", "redeem", "assign", "insert", "rebate",
                "complete", "superseded", "fail"}

\* The states an order never leaves once fulfilment has begun.
Late == {"RECHARGING", "COMPLETED", "FAILED"}

\* What makes delivery idempotent: the used code, or the audit row.
Claimed == IF OrderType = "balance" THEN code = "used" ELSE "SUBSCRIPTION_ASSIGNED" \in audit

\* A worker is where its order type and the ledger allow it to be.
StepInv(w) ==
    /\ pc[w] \in {"lookup", "create", "redeem"} => OrderType = "balance"
    /\ pc[w] \in {"assign", "insert"} => OrderType = "subscription"
    /\ pc[w] \in PaidSteps => upstream = "paid"
    /\ pc[w] \in LeasedSteps => status \in Late
    /\ pc[w] = "already" => status \notin {"NONE", "PENDING", "CANCELLED"}
    /\ pc[w] \in {"rebate", "complete", "superseded"} => Delivered
    /\ pc[w] \in {"complete", "superseded"} => Settled

\* The ledger agrees with the rows that guard it.
LedgerInv ==
    /\ grants = IF Claimed THEN 1 ELSE 0
    /\ rebates <= 1 /\ (rebates > 0 => Settled) /\ (Settled => Delivered)

\* The order row, the ledger and the provider agree.
RowInv ==
    /\ creating = "insert" <=> status = "NONE"
    /\ creating \in {"insert", "invoke"} => upstream = "none"
    /\ paidAt \/ Delivered => upstream = "paid"
    /\ Delivered => status \in Late
    /\ status = "COMPLETED" => Delivered /\ Settled

\* A webhook was answered with success only for a settled payment, provided no
\* failed read is answered that way.
AckInv == "swallowed" \in FaultKinds \/ AckedIsSettled

SafeInv == LedgerInv /\ RowInv /\ AckInv /\ \A w \in Workers : StepInv(w)

IInv == TypeOK /\ SafeInv

-----------------------------------------------------------------------------
(* Type correctness, the truth-valued columns apart from the others. *)

\* Every step keeps the flags truth values.
LEMMA FlagsStep == FlagsOK /\ [Next]_vars => FlagsOK'
<1> SUFFICES ASSUME FlagsOK, [Next]_vars PROVE FlagsOK'
  OBVIOUS
<1> USE DEF FlagsOK, row, ledger, control, world,
        Write, Goto, Fault, ReturnNil, ReturnErr
<1>1. CASE CreateOrder
  BY Zenon, <1>1 DEF CreateOrder
<1>2. CASE InvokeProvider
  BY Zenon, <1>2 DEF InvokeProvider
<1>3. CASE SavePaymentDetails
  BY Zenon, <1>3 DEF SavePaymentDetails
<1>4. CASE CreateOrderFailed
  BY Zenon, <1>4 DEF CreateOrderFailed
<1>5. CASE CreateOrderDies
  BY Zenon, <1>5 DEF CreateOrderDies
<1>6. CASE Pay
  BY Zenon, <1>6 DEF Pay
<1>7. CASE Age
  BY Zenon, <1>7 DEF Age
<1>8. CASE Deadline
  BY Zenon, <1>8 DEF Deadline
<1>9. ASSUME NEW w \in Workers, StartWebhook(w) PROVE FlagsOK'
  BY Zenon, <1>9 DEF StartWebhook, Start
<1>10. ASSUME NEW w \in Workers, StartVerify(w) PROVE FlagsOK'
  BY Zenon, <1>10 DEF StartVerify, Start
<1>11. ASSUME NEW w \in Workers, StartCancel(w) PROVE FlagsOK'
  BY Zenon, <1>11 DEF StartCancel, Start
<1>12. ASSUME NEW w \in Workers, StartExpire(w) PROVE FlagsOK'
  BY Zenon, <1>12 DEF StartExpire, Start
<1>13. ASSUME NEW w \in Workers, StartRetry(w) PROVE FlagsOK'
  BY Zenon, <1>13 DEF StartRetry, Start
<1>14. ASSUME NEW w \in Workers, QueryOrder(w) PROVE FlagsOK'
  BY Zenon, <1>14 DEF QueryOrder, NotPaid
<1>15. ASSUME NEW w \in Workers, ClosePayment(w) PROVE FlagsOK'
  BY Zenon, <1>15 DEF ClosePayment
<1>16. ASSUME NEW w \in Workers, PersistTradeNo(w) PROVE FlagsOK'
  BY Zenon, <1>16 DEF PersistTradeNo
<1>17. ASSUME NEW w \in Workers, CancelCore(w) PROVE FlagsOK'
  BY Zenon, <1>17 DEF CancelCore
<1>18. ASSUME NEW w \in Workers, ConfirmPayment(w) PROVE FlagsOK'
  BY Zenon, <1>18 DEF ConfirmPayment
<1>19. ASSUME NEW w \in Workers, ToPaid(w) PROVE FlagsOK'
  BY Zenon, <1>19 DEF ToPaid, Payable
<1>20. ASSUME NEW w \in Workers, AlreadyProcessed(w) PROVE FlagsOK'
  BY Zenon, <1>20 DEF AlreadyProcessed
<1>21. ASSUME NEW w \in Workers, ExecuteFulfillment(w) PROVE FlagsOK'
  BY Zenon, <1>21 DEF ExecuteFulfillment
<1>22. ASSUME NEW w \in Workers, AcquireLease(w) PROVE FlagsOK'
  BY Zenon, <1>22 DEF AcquireLease, Leasable
<1>23. ASSUME NEW w \in Workers, LeaseConflict(w) PROVE FlagsOK'
  BY Zenon, <1>23 DEF LeaseConflict
<1>24. ASSUME NEW w \in Workers, ReloadLease(w) PROVE FlagsOK'
  BY Zenon, <1>24 DEF ReloadLease
<1>25. ASSUME NEW w \in Workers, ResolveRedeemAction(w) PROVE FlagsOK'
  BY Zenon, <1>25 DEF ResolveRedeemAction
<1>26. ASSUME NEW w \in Workers, CreateCode(w) PROVE FlagsOK'
  BY Zenon, <1>26 DEF CreateCode
<1>27. ASSUME NEW w \in Workers, Redeem(w) PROVE FlagsOK'
  BY Zenon, <1>27 DEF Redeem, RedeemTx
<1>28. ASSUME NEW w \in Workers, CheckAssigned(w) PROVE FlagsOK'
  BY Zenon, <1>28 DEF CheckAssigned
<1>29. ASSUME NEW w \in Workers, AssignSubscription(w) PROVE FlagsOK'
  BY Zenon, <1>29 DEF AssignSubscription, AssignTx
<1>30. ASSUME NEW w \in Workers, ApplyAffiliateRebate(w) PROVE FlagsOK'
  BY Zenon, <1>30 DEF ApplyAffiliateRebate, RebateTx
<1>31. ASSUME NEW w \in Workers, MarkCompleted(w) PROVE FlagsOK'
  BY Zenon, <1>31 DEF MarkCompleted, OwnsLease
<1>32. ASSUME NEW w \in Workers, LeaseSuperseded(w) PROVE FlagsOK'
  BY Zenon, <1>32 DEF LeaseSuperseded
<1>33. ASSUME NEW w \in Workers, MarkFailed(w) PROVE FlagsOK'
  BY Zenon, <1>33 DEF MarkFailed, OwnsLease
<1>34. ASSUME NEW w \in Workers, Crash(w) PROVE FlagsOK'
  BY Zenon, <1>34 DEF Crash
<1>35. CASE UNCHANGED vars
  BY Zenon, <1>35 DEF vars
<1>36. QED
  BY <1>1, <1>2, <1>3, <1>4, <1>5, <1>6, <1>7, <1>8, <1>9, <1>10, <1>11,
     <1>12, <1>13, <1>14, <1>15, <1>16, <1>17, <1>18, <1>19, <1>20, <1>21,
     <1>22, <1>23, <1>24, <1>25, <1>26, <1>27, <1>28, <1>29, <1>30, <1>31,
     <1>32, <1>33, <1>34, <1>35 DEF Next, Creation, StartHandler, Continue

\* Every step keeps the other variables within their types.
LEMMA ValuesStep == ValuesOK /\ [Next]_vars => ValuesOK'
<1> SUFFICES ASSUME ValuesOK, [Next]_vars PROVE ValuesOK'
  OBVIOUS
<1> USE DEF ValuesOK, Statuses, Jobs, Steps, AuditRows, row, ledger, control, world,
        Write, Goto, Fault, ReturnNil, ReturnErr
<1>1. CASE CreateOrder
  BY <1>1 DEF CreateOrder
<1>2. CASE InvokeProvider
  BY <1>2 DEF InvokeProvider
<1>3. CASE SavePaymentDetails
  BY <1>3 DEF SavePaymentDetails
<1>4. CASE CreateOrderFailed
  BY <1>4 DEF CreateOrderFailed
<1>5. CASE CreateOrderDies
  BY <1>5 DEF CreateOrderDies
<1>6. CASE Pay
  BY <1>6 DEF Pay
<1>7. CASE Age
  BY <1>7 DEF Age
<1>8. CASE Deadline
  BY <1>8 DEF Deadline
<1>9. ASSUME NEW w \in Workers, StartWebhook(w) PROVE ValuesOK'
  BY <1>9 DEF StartWebhook, Start
<1>10. ASSUME NEW w \in Workers, StartVerify(w) PROVE ValuesOK'
  BY <1>10 DEF StartVerify, Start
<1>11. ASSUME NEW w \in Workers, StartCancel(w) PROVE ValuesOK'
  BY <1>11 DEF StartCancel, Start
<1>12. ASSUME NEW w \in Workers, StartExpire(w) PROVE ValuesOK'
  BY <1>12 DEF StartExpire, Start
<1>13. ASSUME NEW w \in Workers, StartRetry(w) PROVE ValuesOK'
  BY <1>13 DEF StartRetry, Start
<1>14. ASSUME NEW w \in Workers, QueryOrder(w) PROVE ValuesOK'
  BY <1>14 DEF QueryOrder, NotPaid
<1>15. ASSUME NEW w \in Workers, ClosePayment(w) PROVE ValuesOK'
  BY <1>15 DEF ClosePayment
<1>16. ASSUME NEW w \in Workers, PersistTradeNo(w) PROVE ValuesOK'
  BY <1>16 DEF PersistTradeNo
<1>17. ASSUME NEW w \in Workers, CancelCore(w) PROVE ValuesOK'
  BY <1>17 DEF CancelCore
<1>18. ASSUME NEW w \in Workers, ConfirmPayment(w) PROVE ValuesOK'
  BY <1>18 DEF ConfirmPayment
<1>19. ASSUME NEW w \in Workers, ToPaid(w) PROVE ValuesOK'
  BY <1>19 DEF ToPaid, Payable
<1>20. ASSUME NEW w \in Workers, AlreadyProcessed(w) PROVE ValuesOK'
  <2>1. audit' \subseteq audit \cup {"PAYMENT_AFTER_EXPIRY"}
    BY <1>20 DEF AlreadyProcessed
  <2>2. audit' \subseteq AuditRows
    BY <2>1
  <2>3. QED
    BY <1>20, <2>2 DEF AlreadyProcessed
<1>21. ASSUME NEW w \in Workers, ExecuteFulfillment(w) PROVE ValuesOK'
  BY <1>21 DEF ExecuteFulfillment
<1>22. ASSUME NEW w \in Workers, AcquireLease(w) PROVE ValuesOK'
  BY <1>22 DEF AcquireLease, Leasable
<1>23. ASSUME NEW w \in Workers, LeaseConflict(w) PROVE ValuesOK'
  BY <1>23 DEF LeaseConflict
<1>24. ASSUME NEW w \in Workers, ReloadLease(w) PROVE ValuesOK'
  BY <1>24 DEF ReloadLease
<1>25. ASSUME NEW w \in Workers, ResolveRedeemAction(w) PROVE ValuesOK'
  BY <1>25 DEF ResolveRedeemAction
<1>26. ASSUME NEW w \in Workers, CreateCode(w) PROVE ValuesOK'
  BY <1>26 DEF CreateCode
<1>27. ASSUME NEW w \in Workers, Redeem(w) PROVE ValuesOK'
  BY <1>27 DEF Redeem, RedeemTx
<1>28. ASSUME NEW w \in Workers, CheckAssigned(w) PROVE ValuesOK'
  BY <1>28 DEF CheckAssigned
<1>29. ASSUME NEW w \in Workers, AssignSubscription(w) PROVE ValuesOK'
  <2>1. AssignTx \/ UNCHANGED <<grants, audit>>
    BY <1>29 DEF AssignSubscription
  <2>2. grants' \in Nat
    BY <2>1 DEF AssignTx
  <2>3. audit' \subseteq audit \cup {"SUBSCRIPTION_ASSIGNED"}
    BY <2>1 DEF AssignTx
  <2>4. audit' \subseteq AuditRows
    BY <2>3
  <2>5. QED
    BY <1>29, <2>2, <2>4 DEF AssignSubscription
<1>30. ASSUME NEW w \in Workers, ApplyAffiliateRebate(w) PROVE ValuesOK'
  <2>1. RebateTx \/ UNCHANGED <<rebates, audit>>
    BY <1>30 DEF ApplyAffiliateRebate
  <2>2. rebates' \in Nat
    BY <2>1 DEF RebateTx
  <2>3. audit' \subseteq audit \cup {"AFFILIATE_REBATE"}
    BY <2>1 DEF RebateTx
  <2>4. audit' \subseteq AuditRows
    BY <2>3
  <2>5. QED
    BY <1>30, <2>2, <2>4 DEF ApplyAffiliateRebate
<1>31. ASSUME NEW w \in Workers, MarkCompleted(w) PROVE ValuesOK'
  BY <1>31 DEF MarkCompleted, OwnsLease
<1>32. ASSUME NEW w \in Workers, LeaseSuperseded(w) PROVE ValuesOK'
  BY <1>32 DEF LeaseSuperseded
<1>33. ASSUME NEW w \in Workers, MarkFailed(w) PROVE ValuesOK'
  BY <1>33 DEF MarkFailed, OwnsLease
<1>34. ASSUME NEW w \in Workers, Crash(w) PROVE ValuesOK'
  BY <1>34 DEF Crash
<1>35. CASE UNCHANGED vars
  BY <1>35 DEF vars
<1>36. QED
  BY <1>1, <1>2, <1>3, <1>4, <1>5, <1>6, <1>7, <1>8, <1>9, <1>10, <1>11,
     <1>12, <1>13, <1>14, <1>15, <1>16, <1>17, <1>18, <1>19, <1>20, <1>21,
     <1>22, <1>23, <1>24, <1>25, <1>26, <1>27, <1>28, <1>29, <1>30, <1>31,
     <1>32, <1>33, <1>34, <1>35 DEF Next, Creation, StartHandler, Continue

\* Type correctness of the order, its ledger and the handlers, for every instance.
THEOREM TypeCorrect == Spec => []TypeOK
<1>1. Init => FlagsOK
  BY Zenon DEF Init, FlagsOK
<1>2. Init => ValuesOK
  BY FaultAssumption DEF Init, ValuesOK, Statuses, Jobs, Steps, AuditRows
<1>3. QED
  BY <1>1, <1>2, FlagsStep, ValuesStep, PTL DEF Spec, TypeOK

-----------------------------------------------------------------------------
(* The safety invariants. *)

\* Every step keeps the ledger, the row and the workers in agreement.
LEMMA InvStep == IInv /\ ValuesOK' /\ [Next]_vars => IInv'
<1> SUFFICES ASSUME IInv, ValuesOK', [Next]_vars PROVE SafeInv'
  BY FlagsStep DEF IInv, TypeOK
<1> USE OrderTypeAssumption
    DEF IInv, TypeOK, ValuesOK, SafeInv, LedgerInv, RowInv, AckInv,
        AckedIsSettled, StepInv, Claimed, Late, PaidSteps,
        LeasedSteps, Delivered, Settled, Steps, row, ledger, control, world,
        Write, Goto, Fault, ReturnNil, ReturnErr
<1>1. CASE CreateOrder
  BY <1>1 DEF CreateOrder
<1>2. CASE InvokeProvider
  BY <1>2 DEF InvokeProvider
<1>3. CASE SavePaymentDetails
  BY <1>3 DEF SavePaymentDetails
<1>4. CASE CreateOrderFailed
  BY <1>4 DEF CreateOrderFailed
<1>5. CASE CreateOrderDies
  BY <1>5 DEF CreateOrderDies
<1>6. CASE Pay
  BY <1>6 DEF Pay
<1>7. CASE Age
  BY <1>7 DEF Age
<1>8. CASE Deadline
  BY <1>8 DEF Deadline
<1>9. ASSUME NEW w \in Workers, StartWebhook(w) PROVE SafeInv'
  BY <1>9 DEF StartWebhook, Start
<1>10. ASSUME NEW w \in Workers, StartVerify(w) PROVE SafeInv'
  BY <1>10 DEF StartVerify, Start
<1>11. ASSUME NEW w \in Workers, StartCancel(w) PROVE SafeInv'
  BY <1>11 DEF StartCancel, Start
<1>12. ASSUME NEW w \in Workers, StartExpire(w) PROVE SafeInv'
  BY <1>12 DEF StartExpire, Start
<1>13. ASSUME NEW w \in Workers, StartRetry(w) PROVE SafeInv'
  BY <1>13 DEF StartRetry, Start
<1>14. ASSUME NEW w \in Workers, QueryOrder(w) PROVE SafeInv'
  BY <1>14 DEF QueryOrder, NotPaid
<1>15. ASSUME NEW w \in Workers, ClosePayment(w) PROVE SafeInv'
  BY <1>15 DEF ClosePayment
<1>16. ASSUME NEW w \in Workers, PersistTradeNo(w) PROVE SafeInv'
  BY <1>16 DEF PersistTradeNo
<1>17. ASSUME NEW w \in Workers, CancelCore(w) PROVE SafeInv'
  BY <1>17 DEF CancelCore
<1>18. ASSUME NEW w \in Workers, ConfirmPayment(w) PROVE SafeInv'
  BY <1>18 DEF ConfirmPayment
<1>19. ASSUME NEW w \in Workers, ToPaid(w) PROVE SafeInv'
  <2>1. CASE Payable
    BY <1>19, <2>1 DEF ToPaid, Payable
  <2>2. CASE ~Payable
    <3>1. status \notin {"NONE", "PENDING", "CANCELLED"}
      BY <1>19, <2>2 DEF ToPaid, Payable
    <3>2. QED
      BY <1>19, <2>2, <3>1 DEF ToPaid
  <2>3. QED
    BY <2>1, <2>2
<1>20. ASSUME NEW w \in Workers, AlreadyProcessed(w) PROVE SafeInv'
  <2>1. /\ "SUBSCRIPTION_ASSIGNED" \in audit' <=> "SUBSCRIPTION_ASSIGNED" \in audit
        /\ "AFFILIATE_REBATE" \in audit' <=> "AFFILIATE_REBATE" \in audit
        /\ "PAYMENT_AFTER_EXPIRY" \in audit => "PAYMENT_AFTER_EXPIRY" \in audit'
    BY <1>20 DEF AlreadyProcessed
  <2>2. /\ pc[w] = "already" /\ pc' \in {[pc EXCEPT ![w] = "exec"], [pc EXCEPT ![w] = "idle"]}
        /\ UNCHANGED <<row, code, grants, rebates, creating, upstream>>
    BY <1>20 DEF AlreadyProcessed
  <2>3. AckInv'
    <3>1. \/ "swallowed" \in FaultKinds
          \/ UNCHANGED acked
          \/ status = "EXPIRED" /\ "PAYMENT_AFTER_EXPIRY" \in audit'
          \/ status = "COMPLETED"
      BY <1>20 DEF AlreadyProcessed, Statuses
    <3>2. QED
      BY <2>1, <2>2, <3>1
  <2>4. QED
    BY <2>1, <2>2, <2>3
<1>21. ASSUME NEW w \in Workers, ExecuteFulfillment(w) PROVE SafeInv'
  BY <1>21 DEF ExecuteFulfillment
<1>22. ASSUME NEW w \in Workers, AcquireLease(w) PROVE SafeInv'
  BY <1>22 DEF AcquireLease, Leasable
<1>23. ASSUME NEW w \in Workers, LeaseConflict(w) PROVE SafeInv'
  BY <1>23 DEF LeaseConflict
<1>24. ASSUME NEW w \in Workers, ReloadLease(w) PROVE SafeInv'
  BY <1>24 DEF ReloadLease
<1>25. ASSUME NEW w \in Workers, ResolveRedeemAction(w) PROVE SafeInv'
  BY <1>25 DEF ResolveRedeemAction
<1>26. ASSUME NEW w \in Workers, CreateCode(w) PROVE SafeInv'
  BY <1>26 DEF CreateCode
<1>27. ASSUME NEW w \in Workers, Redeem(w) PROVE SafeInv'
  BY <1>27 DEF Redeem, RedeemTx
<1>28. ASSUME NEW w \in Workers, CheckAssigned(w) PROVE SafeInv'
  BY <1>28 DEF CheckAssigned
<1>29. ASSUME NEW w \in Workers, AssignSubscription(w) PROVE SafeInv'
  <2>1. \/ UNCHANGED <<grants, audit>> /\ (Claimed \/ pc'[w] = "fail")
        \/ ~Claimed /\ grants' = grants + 1 /\ audit' = audit \cup {"SUBSCRIPTION_ASSIGNED"}
    BY <1>29 DEF AssignSubscription, AssignTx
  <2>2. ("AFFILIATE_REBATE" \in audit' <=> "AFFILIATE_REBATE" \in audit)
        /\ ("PAYMENT_AFTER_EXPIRY" \in audit => "PAYMENT_AFTER_EXPIRY" \in audit')
    BY <2>1
  <2>3. /\ pc[w] = "insert" /\ pc' \in {[pc EXCEPT ![w] = "rebate"], [pc EXCEPT ![w] = "fail"]}
        /\ UNCHANGED <<row, code, rebates, creating, upstream, acked>>
    BY <1>29 DEF AssignSubscription
  <2>4. /\ grants' = (IF Claimed' THEN 1 ELSE 0) /\ grants' >= grants
        /\ pc'[w] = "rebate" => grants' > 0
    BY <2>1, <2>3
  <2>5. LedgerInv' /\ RowInv' /\ AckInv'
    BY <2>2, <2>3, <2>4
  <2>6. ASSUME NEW v \in Workers PROVE StepInv(v)'
    BY <2>2, <2>3, <2>4
  <2>7. QED
    BY <2>5, <2>6
<1>30. ASSUME NEW w \in Workers, ApplyAffiliateRebate(w) PROVE SafeInv'
  <2>1. \/ UNCHANGED <<rebates, audit>> /\ (Settled \/ pc'[w] = "fail")
        \/ ~Settled /\ rebates' \in {rebates, rebates + 1} /\ audit' = audit \cup {"AFFILIATE_REBATE"}
    BY <1>30 DEF ApplyAffiliateRebate, RebateTx
  <2>2. ("SUBSCRIPTION_ASSIGNED" \in audit' <=> "SUBSCRIPTION_ASSIGNED" \in audit)
        /\ ("PAYMENT_AFTER_EXPIRY" \in audit => "PAYMENT_AFTER_EXPIRY" \in audit')
    BY <2>1
  <2>3. /\ pc[w] = "rebate" /\ pc' \in {[pc EXCEPT ![w] = "complete"], [pc EXCEPT ![w] = "fail"]}
        /\ UNCHANGED <<row, code, grants, creating, upstream, acked>>
    BY <1>30 DEF ApplyAffiliateRebate
  <2>4. rebates' <= 1 /\ (Settled => Settled') /\ (rebates' > 0 \/ pc'[w] = "complete" => Settled')
    BY <2>1, <2>3
  <2>5. QED
    BY <2>2, <2>3, <2>4
<1>31. ASSUME NEW w \in Workers, MarkCompleted(w) PROVE SafeInv'
  BY <1>31 DEF MarkCompleted, OwnsLease
<1>32. ASSUME NEW w \in Workers, LeaseSuperseded(w) PROVE SafeInv'
  BY <1>32 DEF LeaseSuperseded
<1>33. ASSUME NEW w \in Workers, MarkFailed(w) PROVE SafeInv'
  BY <1>33 DEF MarkFailed, OwnsLease
<1>34. ASSUME NEW w \in Workers, Crash(w) PROVE SafeInv'
  BY <1>34 DEF Crash
<1>35. CASE UNCHANGED vars
  BY <1>35 DEF vars
<1>36. QED
  BY <1>1, <1>2, <1>3, <1>4, <1>5, <1>6, <1>7, <1>8, <1>9, <1>10, <1>11,
     <1>12, <1>13, <1>14, <1>15, <1>16, <1>17, <1>18, <1>19, <1>20, <1>21,
     <1>22, <1>23, <1>24, <1>25, <1>26, <1>27, <1>28, <1>29, <1>30, <1>31,
     <1>32, <1>33, <1>34, <1>35 DEF Next, Creation, StartHandler, Continue

\* The inductive invariant holds throughout.
LEMMA Invariance == Spec => []IInv
<1>1. Init => SafeInv
  BY OrderTypeAssumption
  DEF Init, SafeInv, LedgerInv, RowInv, AckInv, AckedIsSettled, StepInv, Claimed, Late,
      PaidSteps, LeasedSteps, Delivered, Settled, Steps
<1>2. IInv /\ TypeOK' /\ [Next]_vars => IInv'
  BY InvStep DEF TypeOK
<1>3. QED
  BY <1>1, <1>2, TypeCorrect, PTL DEF Spec, IInv

\* However many handlers race on an order and wherever they fail, its value is
\* given at most once and only for a payment of the right amount.
THEOREM GrantedOnceThm == Spec => []GrantedOnce
<1>1. IInv => GrantedOnce
  BY DEF IInv, SafeInv, LedgerInv, RowInv, GrantedOnce, Delivered
<1>2. QED
  BY <1>1, Invariance, PTL

\* The inviter's rebate is accrued at most once and only after delivery.
THEOREM RebatedOnceThm == Spec => []RebatedOnce
<1>1. IInv => RebatedOnce
  BY DEF IInv, SafeInv, LedgerInv, RebatedOnce
<1>2. QED
  BY <1>1, Invariance, PTL

\* No worker, current or superseded, completes an order that is not delivered.
THEOREM CompletedIsDeliveredThm == Spec => []CompletedIsDelivered
<1>1. IInv => CompletedIsDelivered
  BY DEF IInv, SafeInv, RowInv, CompletedIsDelivered
<1>2. QED
  BY <1>1, Invariance, PTL

\* A delivered order is never cancelled, expired or paid again.
THEOREM DeliveredStaysFulfillingThm == Spec => []DeliveredStaysFulfilling
<1>1. IInv => DeliveredStaysFulfilling
  BY DEF IInv, SafeInv, RowInv, DeliveredStaysFulfilling, Late
<1>2. QED
  BY <1>1, Invariance, PTL

\* As long as no failed read is answered with success, a webhook is acknowledged
\* only for a payment that was delivered or refused on record.
THEOREM AckedIsSettledThm == ASSUME "swallowed" \notin FaultKinds PROVE Spec => []AckedIsSettled
<1>1. IInv => AckedIsSettled
  BY DEF IInv, SafeInv, AckInv
<1>2. QED
  BY <1>1, Invariance, PTL

-----------------------------------------------------------------------------
(* The refinement of OrderLedger. *)

\* Nothing of what the ledger records changes.
Unchanged ==
    /\ UNCHANGED <<grants, rebates>> /\ (upstream' = "paid" <=> upstream = "paid")
    /\ (Settled' <=> Settled) /\ (status' = "COMPLETED" <=> status = "COMPLETED")

\* A step that changes nothing of the ledger is a stuttering step of it.
LEMMA UnchangedStutters == Unchanged => UNCHANGED Ledger!vars
<1> SUFFICES ASSUME Unchanged PROVE UNCHANGED Ledger!vars
  OBVIOUS
<1>1. (upstream = "paid")' = (upstream = "paid")
  BY Zenon DEF Unchanged
<1>2. Settled' = Settled
  BY SMT DEF Unchanged, Settled
<1>3. (status = "COMPLETED")' = (status = "COMPLETED")
  BY Zenon DEF Unchanged
<1>4. grants' = grants /\ rebates' = rebates
  BY DEF Unchanged
<1>5. QED
  BY Zenon, <1>1, <1>2, <1>3, <1>4 DEF Ledger!vars

\* Every step of the handlers is a step of the ledger, or changes nothing of it.
LEMMA LedgerStep == IInv /\ [Next]_vars => [Ledger!Next]_Ledger!vars
<1> SUFFICES ASSUME IInv, [Next]_vars PROVE Unchanged \/ Ledger!Next
  BY UnchangedStutters
<1> USE OrderTypeAssumption
    DEF IInv, TypeOK, ValuesOK, SafeInv, LedgerInv, RowInv, StepInv, Claimed, Late,
        PaidSteps, LeasedSteps, Delivered, Settled, Unchanged, row, ledger, control,
        world, Write, Goto, Fault, ReturnNil, ReturnErr
<1>1. ASSUME CreateOrder PROVE Unchanged
  BY <1>1 DEF CreateOrder
<1>2. ASSUME InvokeProvider PROVE Unchanged
  BY <1>2 DEF InvokeProvider
<1>3. ASSUME SavePaymentDetails PROVE Unchanged
  BY <1>3 DEF SavePaymentDetails
<1>4. ASSUME CreateOrderFailed PROVE Unchanged \/ Ledger!Relabel
  BY <1>4 DEF CreateOrderFailed, Ledger!Relabel
<1>5. ASSUME CreateOrderDies PROVE Unchanged
  BY <1>5 DEF CreateOrderDies
<1>6. ASSUME Pay PROVE Unchanged \/ Ledger!Pay
  BY <1>6 DEF Pay, Ledger!Pay
<1>7. ASSUME Age PROVE Unchanged
  BY <1>7 DEF Age
<1>8. ASSUME Deadline PROVE Unchanged
  BY <1>8 DEF Deadline
<1>9. ASSUME NEW w \in Workers, StartWebhook(w) PROVE Unchanged
  BY <1>9 DEF StartWebhook, Start
<1>10. ASSUME NEW w \in Workers, StartVerify(w) PROVE Unchanged
  BY <1>10 DEF StartVerify, Start
<1>11. ASSUME NEW w \in Workers, StartCancel(w) PROVE Unchanged
  BY <1>11 DEF StartCancel, Start
<1>12. ASSUME NEW w \in Workers, StartExpire(w) PROVE Unchanged
  BY <1>12 DEF StartExpire, Start
<1>13. ASSUME NEW w \in Workers, StartRetry(w) PROVE Unchanged
  BY <1>13 DEF StartRetry, Start
<1>14. ASSUME NEW w \in Workers, QueryOrder(w) PROVE Unchanged
  BY <1>14 DEF QueryOrder, NotPaid
<1>15. ASSUME NEW w \in Workers, ClosePayment(w) PROVE Unchanged
  BY <1>15 DEF ClosePayment
<1>16. ASSUME NEW w \in Workers, PersistTradeNo(w) PROVE Unchanged
  BY <1>16 DEF PersistTradeNo
<1>17. ASSUME NEW w \in Workers, CancelCore(w) PROVE Unchanged
  BY <1>17 DEF CancelCore
<1>18. ASSUME NEW w \in Workers, ConfirmPayment(w) PROVE Unchanged
  BY <1>18 DEF ConfirmPayment
<1>19. ASSUME NEW w \in Workers, ToPaid(w) PROVE Unchanged
  BY <1>19 DEF ToPaid, Payable
<1>20. ASSUME NEW w \in Workers, AlreadyProcessed(w) PROVE Unchanged
  BY <1>20 DEF AlreadyProcessed
<1>21. ASSUME NEW w \in Workers, ExecuteFulfillment(w) PROVE Unchanged
  BY <1>21 DEF ExecuteFulfillment
<1>22. ASSUME NEW w \in Workers, AcquireLease(w) PROVE Unchanged
  BY <1>22 DEF AcquireLease, Leasable
<1>23. ASSUME NEW w \in Workers, LeaseConflict(w) PROVE Unchanged
  BY <1>23 DEF LeaseConflict
<1>24. ASSUME NEW w \in Workers, ReloadLease(w) PROVE Unchanged
  BY <1>24 DEF ReloadLease
<1>25. ASSUME NEW w \in Workers, ResolveRedeemAction(w) PROVE Unchanged
  BY <1>25 DEF ResolveRedeemAction
<1>26. ASSUME NEW w \in Workers, CreateCode(w) PROVE Unchanged
  BY <1>26 DEF CreateCode
<1>27. ASSUME NEW w \in Workers, Redeem(w) PROVE Unchanged \/ Ledger!Give
  BY <1>27 DEF Redeem, RedeemTx, Ledger!Give
<1>28. ASSUME NEW w \in Workers, CheckAssigned(w) PROVE Unchanged
  BY <1>28 DEF CheckAssigned
<1>29. ASSUME NEW w \in Workers, AssignSubscription(w) PROVE Unchanged \/ Ledger!Give
  BY <1>29 DEF AssignSubscription, AssignTx, Ledger!Give
<1>30. ASSUME NEW w \in Workers, ApplyAffiliateRebate(w) PROVE Unchanged \/ Ledger!Settle
  BY <1>30 DEF ApplyAffiliateRebate, RebateTx, Ledger!Settle
<1>31. ASSUME NEW w \in Workers, MarkCompleted(w) PROVE Unchanged \/ Ledger!Complete
  BY <1>31 DEF MarkCompleted, OwnsLease, Ledger!Complete
<1>32. ASSUME NEW w \in Workers, LeaseSuperseded(w) PROVE Unchanged
  BY <1>32 DEF LeaseSuperseded
<1>33. ASSUME NEW w \in Workers, MarkFailed(w) PROVE Unchanged
  BY <1>33 DEF MarkFailed, OwnsLease
<1>34. ASSUME NEW w \in Workers, Crash(w) PROVE Unchanged
  BY <1>34 DEF Crash
<1>35. CASE UNCHANGED vars
  BY <1>35 DEF vars
<1>36. QED
  BY <1>1, <1>2, <1>3, <1>4, <1>5, <1>6, <1>7, <1>8, <1>9, <1>10, <1>11,
     <1>12, <1>13, <1>14, <1>15, <1>16, <1>17, <1>18, <1>19, <1>20, <1>21,
     <1>22, <1>23, <1>24, <1>25, <1>26, <1>27, <1>28, <1>29, <1>30, <1>31,
     <1>32, <1>33, <1>34, <1>35
  DEF Next, Creation, StartHandler, Continue, Ledger!Next

\* The interleaved handlers implement the order as its owner understands it: it is
\* paid, its value given once, the rebate settled once, and then it is completed.
THEOREM ImplementsLedgerThm == Spec => ImplementsLedger
<1>1. Init => Ledger!Init
  BY DEF Init, Ledger!Init, Settled
<1>2. QED
  BY <1>1, LedgerStep, Invariance, PTL DEF Spec, ImplementsLedger, Ledger!Spec
=============================================================================
