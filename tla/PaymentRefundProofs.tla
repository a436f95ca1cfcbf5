------------------------- MODULE PaymentRefundProofs -------------------------
(***************************************************************************)
(* Proofs about PaymentRefund for every finite number of admins, every     *)
(* amount, every choice of handlers and every choice and number of faults. *)
(***************************************************************************)
EXTENDS PaymentRefund, FiniteSetTheorems, TLAPS

\* A deduction that was not given back is on record; retries do not deduct.
Kept == "REFUND_ROLLBACK_FAILED" \in audit

\* Its rollback gives a deduction back.
Holds(a) == plan[a].deduct /\ pc[a] \in {"gateway", "rollback", "unwind"}

\* Works on the order without an outstanding deduction of its own.
Owes(a) ==
    /\ Locked(a)
    /\ ~(plan[a].deduct /\ pc[a] \in {"gateway", "rollback", "unwind", "noteFailed", "notePending", "markOk"})

Lockers == {a \in Admins : Locked(a)}
Holders == {a \in Admins : Holds(a)}
Debtors == {a \in Admins : Owes(a)}

lockers == Cardinality(Lockers)
holders == Cardinality(Holders)
debtors == Cardinality(Debtors)

\* The one place for a refund is used: ExecuteRefund's compare-and-set fails.
used == IF status \in Refundable THEN 0 ELSE 1

\* A pending order has the amount that refundFinalizePlan reads back.
TypeInv == TypeOK /\ (status = "REFUND_PENDING" => refundAmount > 0)

\* Who works on the order, who can give back, and what was taken.
CountInv ==
    /\ lockers <= used + finals
    /\ holders <= taken
    /\ Kept => taken <= 1 + unrecorded + finals
    /\ ~Kept => taken + debtors <= used + unrecorded + finals

\* markRefundOk is ahead only where the provider has refunded.
PaidInv ==
    /\ RefundedIsPaidBack
    /\ \A a \in Admins :
          pc[a] \in {"markOk", "finCheck", "finDeduct", "finOk"} => gateway \in {"refunded", "absent"}

IInv == TypeInv /\ CountInv /\ PaidInv /\ RefundingIsHeld

-----------------------------------------------------------------------------
(* Counting. *)

\* One admin's step moves at most that admin into or out of a set.
LEMMA OneMoves ==
    ASSUME NEW S, NEW T, NEW a, IsFiniteSet(S), IsFiniteSet(T), T \subseteq S \cup {a}
    PROVE  /\ Cardinality(S) \in Nat /\ Cardinality(T) \in Nat
           /\ Cardinality(T) <= Cardinality(S) + 1
           /\ a \in S \/ a \notin T => Cardinality(T) <= Cardinality(S)
           /\ a \in S /\ a \notin T => Cardinality(T) + 1 <= Cardinality(S)
<1>1. Cardinality(S) \in Nat /\ Cardinality(T) \in Nat
  BY FS_CardinalityType
<1>2. ASSUME a \in S \/ a \notin T PROVE Cardinality(T) <= Cardinality(S)
  BY <1>2, FS_Subset
<1>3. ASSUME a \in S, a \notin T PROVE Cardinality(T) + 1 <= Cardinality(S)
  <2>1. IsFiniteSet(S \ {a}) /\ Cardinality(S \ {a}) = Cardinality(S) - 1
    BY <1>3, FS_RemoveElement
  <2>2. Cardinality(T) <= Cardinality(S \ {a})
    BY <1>3, <2>1, FS_Subset
  <2>3. QED
    BY <1>1, <2>1, <2>2
<1>4. Cardinality(T) <= Cardinality(S) + 1
  <2>1. IsFiniteSet(S \cup {a}) /\ Cardinality(S \cup {a}) <= Cardinality(S) + 1
    BY <1>1, FS_AddElement
  <2>2. Cardinality(T) <= Cardinality(S \cup {a}) /\ Cardinality(S \cup {a}) \in Nat
    BY <2>1, FS_Subset, FS_CardinalityType
  <2>3. QED
    BY <1>1, <2>1, <2>2
<1>5. QED
  BY <1>1, <1>2, <1>3, <1>4

\* What counts, when only admin a moves, depends on a alone.
LEMMA Moves ==
    ASSUME NEW a \in Admins,
           \A b \in Admins \ {a} : pc'[b] = pc[b] /\ plan'[b] = plan[b]
    PROVE  /\ lockers \in Nat /\ lockers' \in Nat /\ lockers' <= lockers + 1
           /\ Locked(a) \/ ~Locked(a)' => lockers' <= lockers
           /\ Locked(a) /\ ~Locked(a)' => lockers' + 1 <= lockers
           /\ holders \in Nat /\ holders' \in Nat /\ holders' <= holders + 1
           /\ Holds(a) \/ ~Holds(a)' => holders' <= holders
           /\ Holds(a) /\ ~Holds(a)' => holders' + 1 <= holders
           /\ debtors \in Nat /\ debtors' \in Nat /\ debtors' <= debtors + 1
           /\ Owes(a) \/ ~Owes(a)' => debtors' <= debtors
           /\ Owes(a) /\ ~Owes(a)' => debtors' + 1 <= debtors
<1>1. /\ IsFiniteSet(Lockers) /\ IsFiniteSet(Lockers')
      /\ IsFiniteSet(Holders) /\ IsFiniteSet(Holders')
      /\ IsFiniteSet(Debtors) /\ IsFiniteSet(Debtors')
  BY AdminsAssumption, FS_Subset DEF Lockers, Holders, Debtors
<1>2. Lockers' \subseteq Lockers \cup {a} /\ (a \in Lockers <=> Locked(a)) /\ (a \in Lockers' <=> Locked(a)')
  BY DEF Lockers, Locked
<1>3. Holders' \subseteq Holders \cup {a} /\ (a \in Holders <=> Holds(a)) /\ (a \in Holders' <=> Holds(a)')
  BY DEF Holders, Holds
<1>4. Debtors' \subseteq Debtors \cup {a} /\ (a \in Debtors <=> Owes(a)) /\ (a \in Debtors' <=> Owes(a)')
  BY DEF Debtors, Owes, Locked
<1>5. /\ lockers \in Nat /\ lockers' \in Nat /\ lockers' <= lockers + 1
      /\ Locked(a) \/ ~Locked(a)' => lockers' <= lockers
      /\ Locked(a) /\ ~Locked(a)' => lockers' + 1 <= lockers
  BY <1>1, <1>2, OneMoves DEF lockers
<1>6. /\ holders \in Nat /\ holders' \in Nat /\ holders' <= holders + 1
      /\ Holds(a) \/ ~Holds(a)' => holders' <= holders
      /\ Holds(a) /\ ~Holds(a)' => holders' + 1 <= holders
  BY <1>1, <1>3, OneMoves DEF holders
<1>7. /\ debtors \in Nat /\ debtors' \in Nat /\ debtors' <= debtors + 1
      /\ Owes(a) \/ ~Owes(a)' => debtors' <= debtors
      /\ Owes(a) /\ ~Owes(a)' => debtors' + 1 <= debtors
  BY <1>1, <1>4, OneMoves DEF debtors
<1>8. QED
  BY <1>5, <1>6, <1>7

\* An admin whose rollback gives a deduction back is one of those who hold one.
LEMMA HolderCounts ==
    ASSUME NEW a \in Admins, Holds(a) PROVE holders \in Nat /\ holders >= 1
<1>1. IsFiniteSet(Holders) /\ a \in Holders
  BY AdminsAssumption, FS_Subset DEF Holders
<1>2. {a} \subseteq Holders /\ Cardinality({a}) = 1
  BY <1>1, FS_Singleton
<1>3. QED
  BY <1>1, <1>2, FS_Subset, FS_CardinalityType DEF holders

\* Whoever starts to owe is paid for by an error, and who deducts owes no more.
LEMMA Balance ==
    ASSUME NEW t \in Nat, NEW d \in Nat, NEW e \in Nat, NEW p \in Int, NEW u \in Nat,
           NEW v \in Nat, NEW f \in Nat, t + d <= p + u + f
    PROVE  /\ e + 1 <= d /\ v >= u => (t + 1) + e <= p + v + f
           /\ e <= d + 1 /\ v = u + 1 => t + e <= p + v + f
OBVIOUS

\* And when the place of a refund becomes free: of n there is one less, or a finalizer
\* was counted.
LEMMA Vacate ==
    ASSUME NEW n \in Nat, NEW m \in Nat, NEW p \in Int, p <= 1, NEW f \in Nat, n <= p + f
    PROVE  /\ m + 1 <= n => m <= 0 + f
           /\ m <= n => m <= 0 + (f + 1)
OBVIOUS

\* The same for what was taken and may still be.
LEMMA VacateBalance ==
    ASSUME NEW t \in Nat, NEW d \in Nat, NEW e \in Nat, NEW p \in Int, p <= 1,
           NEW u \in Nat, NEW f \in Nat, t + d <= p + u + f
    PROVE  /\ e + 1 <= d => t + e <= 0 + u + f
           /\ e <= d => t + e <= 0 + u + (f + 1)
OBVIOUS

-----------------------------------------------------------------------------
\* Recording the outcome of a rollback changes nothing else of the plan.
LEMMA PlanStep ==
    ASSUME plan \in [Admins -> Plans], NEW a \in Admins, NEW ok \in BOOLEAN,
           plan' = [plan EXCEPT ![a].rolledBack = ok]
    PROVE  /\ plan' \in [Admins -> Plans]
           /\ \A b \in Admins \ {a} : plan'[b] = plan[b]
           /\ plan'[a].deduct = plan[a].deduct /\ plan'[a].amount = plan[a].amount
<1>1. /\ [plan[a] EXCEPT !.rolledBack = ok] \in Plans
      /\ [plan[a] EXCEPT !.rolledBack = ok].deduct = plan[a].deduct
      /\ [plan[a] EXCEPT !.rolledBack = ok].amount = plan[a].amount
  BY DEF Plans
<1>2. QED
  BY <1>1

\* A retry that skips its deduction forgets it.
LEMMA SkipStep ==
    ASSUME plan \in [Admins -> Plans], NEW a \in Admins,
           plan' = [plan EXCEPT ![a].deduct = FALSE]
    PROVE  /\ plan' \in [Admins -> Plans]
           /\ \A b \in Admins \ {a} : plan'[b] = plan[b]
           /\ ~plan'[a].deduct
<1>1. [plan[a] EXCEPT !.deduct = FALSE] \in Plans /\ [plan[a] EXCEPT !.deduct = FALSE].deduct = FALSE
  BY DEF Plans
<1>2. QED
  BY <1>1

\* A request that returns leaves the others alone.
LEMMA ReturnStep ==
    ASSUME TypeInv, NEW a \in Admins, Return(a)
    PROVE  /\ plan' \in [Admins -> Plans] /\ pc' \in [Admins -> Steps]
           /\ pc'[a] = "idle" /\ \A b \in Admins \ {a} : pc'[b] = pc[b] /\ plan'[b] = plan[b]
<1>1. NoPlan \in Plans /\ "idle" \in Steps
  BY AmountAssumption DEF NoPlan, Plans, Refundable, Steps
<1>2. plan \in [Admins -> Plans] /\ pc \in [Admins -> Steps]
  BY DEF TypeInv, TypeOK
<1>3. QED
  BY <1>1, <1>2 DEF Return, Goto

\* Going to another statement leaves the others alone.
LEMMA GotoStep ==
    ASSUME TypeInv, NEW a \in Admins, NEW l \in Steps, Goto(a, l)
    PROVE  /\ pc' \in [Admins -> Steps]
           /\ pc'[a] = l /\ \A b \in Admins \ {a} : pc'[b] = pc[b]
BY DEF TypeInv, TypeOK, Goto

\* What RollbackRefund does to the types, the plan and the count.
LEMMA RollbackStep ==
    ASSUME TypeInv, CountInv, NEW a \in Admins, pc[a] \in {"rollback", "unwind"},
           NEW done \in Steps, NEW failed \in Steps, RollbackRefund(a, done, failed)
    PROVE  /\ plan' \in [Admins -> Plans] /\ pc' \in [Admins -> Steps]
           /\ taken' \in Nat /\ faults' \in Nat
           /\ \A b \in Admins \ {a} : pc'[b] = pc[b] /\ plan'[b] = plan[b]
           /\ plan'[a].deduct = plan[a].deduct /\ plan'[a].amount = plan[a].amount
           /\ \/ pc'[a] = done /\ taken' = taken - IF plan[a].deduct THEN 1 ELSE 0
              \/ pc'[a] = failed /\ plan[a].deduct /\ taken' \in {taken, taken - 1}
<1>1. PICK ok \in BOOLEAN : plan' = [plan EXCEPT ![a].rolledBack = ok]
  BY DEF RollbackRefund
<1>2. plan \in [Admins -> Plans] /\ pc \in [Admins -> Steps] /\ taken \in Nat /\ faults \in Nat
  BY DEF TypeInv, TypeOK
<1>3. /\ plan' \in [Admins -> Plans]
      /\ \A b \in Admins \ {a} : plan'[b] = plan[b]
      /\ plan'[a].deduct = plan[a].deduct /\ plan'[a].amount = plan[a].amount
  BY <1>1, <1>2, PlanStep
<1>4. faults' \in Nat
  BY <1>2 DEF RollbackRefund, Fault
<1>5. pc' = [pc EXCEPT ![a] = done] \/ pc' = [pc EXCEPT ![a] = failed]
  BY DEF RollbackRefund, Goto
<1>6. pc' \in [Admins -> Steps] /\ \A b \in Admins \ {a} : pc'[b] = pc[b]
  BY <1>2, <1>5
<1>7. \/ pc'[a] = done /\ taken' = taken - IF plan[a].deduct THEN 1 ELSE 0
      \/ pc'[a] = failed /\ plan[a].deduct /\ taken' \in {taken, taken - 1}
  BY <1>2 DEF RollbackRefund, Take, Goto
<1>8. taken' \in Nat
  <2>1. CASE plan[a].deduct
    <3>1. holders \in Nat /\ holders >= 1
      BY <2>1, HolderCounts DEF Holds
    <3>2. QED
      BY <1>2, <1>7, <3>1 DEF CountInv
  <2>2. CASE ~plan[a].deduct
    BY <1>2, <1>7, <2>2
  <2>3. QED
    BY <2>1, <2>2
<1>9. QED
  BY <1>3, <1>4, <1>6, <1>7, <1>8

-----------------------------------------------------------------------------
\* Every step keeps the types, and the amount of a pending refund.
LEMMA TypeStep == IInv /\ [Next]_vars => TypeInv'
<1> SUFFICES ASSUME TypeInv, CountInv, [Next]_vars PROVE TypeInv'
  BY DEF IInv
<1> USE AmountAssumption
    DEF TypeInv, TypeOK, Plans, NoPlan, Refundable, Final, AuditRows, Steps, LockSteps,
        order, history, At, Goto, Return, Fault, Take, AuditOnce, Abandon
<1>1. CASE RequestRefund
  BY <1>1 DEF RequestRefund
<1>2. CASE SettleRefund
  BY <1>2 DEF SettleRefund
<1>3. ASSUME NEW a \in Admins, PrepareRefund(a) PROVE TypeInv'
  BY <1>3 DEF PrepareRefund
<1>4. ASSUME NEW a \in Admins, LockRefund(a) PROVE TypeInv'
  <2>1. CASE Return(a)
    <3>1. plan' \in [Admins -> Plans] /\ pc' \in [Admins -> Steps]
      BY <2>1, ReturnStep
    <3>2. UNCHANGED <<taken, gateway, audit, rollbackOK, faults, unrecorded, finals, stranded>> /\ UNCHANGED refundAmount
      BY <1>4 DEF LockRefund
    <3>3. status' = status \/ status' = "REFUNDING"
      BY <1>4 DEF LockRefund
    <3>4. QED
      BY <3>1, <3>2, <3>3
  <2>2. CASE ~Return(a)
    BY <1>4, <2>2 DEF LockRefund
  <2>3. QED
    BY <2>1, <2>2
<1>5. ASSUME NEW a \in Admins, DeductForRefund(a) PROVE TypeInv'
  <2>1. pc' \in [Admins -> Steps] /\ taken' \in Nat /\ faults' \in Nat /\ unrecorded' \in Nat
    BY <1>5 DEF DeductForRefund
  <2>2. plan' = plan \/ plan' = [plan EXCEPT ![a].deduct = FALSE]
    BY <1>5 DEF DeductForRefund
  <2>3. plan' \in [Admins -> Plans]
    BY <2>2, SkipStep
  <2>4. UNCHANGED <<status, refundAmount, gateway, audit, rollbackOK, finals, stranded>>
    BY <1>5 DEF DeductForRefund
  <2>5. QED
    BY <2>1, <2>3, <2>4
<1>6. ASSUME NEW a \in Admins, GwRefund(a) PROVE TypeInv'
  BY <1>6 DEF GwRefund
<1>7. ASSUME NEW a \in Admins, HandleGwFail(a) PROVE TypeInv'
  <2>1. "restore" \in Steps /\ "noteFailed" \in Steps
    OBVIOUS
  <2>2. pc[a] = "rollback" /\ RollbackRefund(a, "restore", "noteFailed")
    BY <1>7 DEF HandleGwFail
  <2>3. plan' \in [Admins -> Plans] /\ pc' \in [Admins -> Steps] /\ taken' \in Nat /\ faults' \in Nat
    BY <2>1, <2>2, RollbackStep
  <2>4. QED
    BY <1>7, <2>3 DEF HandleGwFail
<1>8. ASSUME NEW a \in Admins, UnwindPending(a) PROVE TypeInv'
  <2>1. "markPending" \in Steps /\ "notePending" \in Steps
    OBVIOUS
  <2>2. pc[a] = "unwind" /\ RollbackRefund(a, "markPending", "notePending")
    BY <1>8 DEF UnwindPending
  <2>3. plan' \in [Admins -> Plans] /\ pc' \in [Admins -> Steps] /\ taken' \in Nat /\ faults' \in Nat
    BY <2>1, <2>2, RollbackStep
  <2>4. QED
    BY <1>8, <2>3 DEF UnwindPending
<1>9. ASSUME NEW a \in Admins, AuditRollbackFailed(a) PROVE TypeInv'
  <2>1. pc' \in [Admins -> Steps] /\ unrecorded' \in Nat /\ faults' \in Nat
    BY <1>9 DEF AuditRollbackFailed
  <2>2. audit' \subseteq AuditRows
    BY <1>9 DEF AuditRollbackFailed
  <2>3. UNCHANGED <<status, refundAmount, taken, gateway, rollbackOK, plan, finals, stranded>>
    BY <1>9 DEF AuditRollbackFailed
  <2>4. QED
    BY <2>1, <2>2, <2>3
<1>10. ASSUME NEW a \in Admins, RestoreStatus(a) PROVE TypeInv'
  BY <1>10 DEF RestoreStatus
<1>11. ASSUME NEW a \in Admins, MarkRefundFailed(a) PROVE TypeInv'
  BY <1>11 DEF MarkRefundFailed
<1>12. ASSUME NEW a \in Admins, MarkRefundPending(a) PROVE TypeInv'
  BY <1>12 DEF MarkRefundPending
<1>13. ASSUME NEW a \in Admins, AuditPending(a) PROVE TypeInv'
  <2>1. plan' \in [Admins -> Plans] /\ pc' \in [Admins -> Steps]
    BY <1>13, ReturnStep DEF AuditPending
  <2>a. AuditOnce("REFUND_PENDING")
    BY <1>13 DEF AuditPending
  <2>b. audit' \subseteq AuditRows
    BY <2>a
  <2>c. faults' \in Nat
    BY <2>a
  <2>2. audit' \subseteq AuditRows /\ faults' \in Nat
    BY <2>b, <2>c
  <2>3. plan[a].rolledBack \in BOOLEAN
    OBVIOUS
  <2>4. rollbackOK' = plan[a].rolledBack \/ rollbackOK' = rollbackOK
    BY <1>13 DEF AuditPending
  <2>5. rollbackOK' \in BOOLEAN
    BY <2>3, <2>4
  <2>6. UNCHANGED <<status, refundAmount, taken, gateway, unrecorded, finals, stranded>>
    BY <1>13 DEF AuditPending
  <2>7. QED
    BY <2>1, <2>2, <2>5, <2>6
<1>14. ASSUME NEW a \in Admins, StartFinalize(a) PROVE TypeInv'
  <2>1. PICK d \in {rollbackOK, TRUE} :
           plan' = [plan EXCEPT ![a] =
             [was |-> status, amount |-> refundAmount, deduct |-> d, rolledBack |-> TRUE]]
    BY <1>14 DEF StartFinalize
  <2>2. d \in BOOLEAN
    BY <2>1
  <2>3. status \in Refundable /\ refundAmount \in 1 .. Amount
    BY <1>14 DEF StartFinalize
  <2>4. [was |-> status, amount |-> refundAmount, deduct |-> d, rolledBack |-> TRUE] \in Plans
    BY <2>2, <2>3
  <2>5. plan' \in [Admins -> Plans]
    BY <2>1, <2>4
  <2>6. pc' \in [Admins -> Steps] /\ faults' \in Nat
    BY <1>14 DEF StartFinalize
  <2>7. UNCHANGED <<status, refundAmount, taken, gateway, audit, rollbackOK, unrecorded, finals, stranded>>
    BY <1>14 DEF StartFinalize
  <2>8. QED
    BY <2>5, <2>6, <2>7
<1>15. ASSUME NEW a \in Admins, QueryRefund(a) PROVE TypeInv'
  <2>1. plan' \in [Admins -> Plans] /\ pc' \in [Admins -> Steps]
    <3>1. CASE Return(a)
      BY <3>1, ReturnStep
    <3>2. CASE plan' = plan /\ (pc' = [pc EXCEPT ![a] = "finCheck"] \/ pc' = [pc EXCEPT ![a] = "finFailed"])
      BY <3>2
    <3>3. QED
      BY <1>15, <3>1, <3>2 DEF QueryRefund
  <2>2. faults' \in Nat
    BY <1>15 DEF QueryRefund
  <2>3. UNCHANGED <<status, refundAmount, taken, gateway, audit, rollbackOK, unrecorded, finals, stranded>>
    BY <1>15 DEF QueryRefund
  <2>4. QED
    BY <2>1, <2>2, <2>3
<1>16. ASSUME NEW a \in Admins, CheckFinalDeduction(a) PROVE TypeInv'
  BY <1>16 DEF CheckFinalDeduction
<1>17. ASSUME NEW a \in Admins, ApplyFinalDeduction(a) PROVE TypeInv'
  <2>1. plan' \in [Admins -> Plans] /\ pc' \in [Admins -> Steps]
    <3>1. CASE Return(a)
      BY <3>1, ReturnStep
    <3>2. CASE plan' = plan /\ pc' = [pc EXCEPT ![a] = "finOk"]
      BY <3>2
    <3>3. QED
      BY <1>17, <3>1, <3>2 DEF ApplyFinalDeduction
  <2>2. faults' \in Nat /\ taken' \in Nat /\ finals' \in Nat
    BY <1>17 DEF ApplyFinalDeduction
  <2>3. UNCHANGED <<status, refundAmount, gateway, audit, rollbackOK, unrecorded, stranded>>
    BY <1>17 DEF ApplyFinalDeduction
  <2>4. QED
    BY <2>1, <2>2, <2>3
<1>18. ASSUME NEW a \in Admins, MarkRefundOk(a) PROVE TypeInv'
  BY <1>18 DEF MarkRefundOk
<1>19. ASSUME NEW a \in Admins, AuditRefundOk(a) PROVE TypeInv'
  <2>1. plan' \in [Admins -> Plans] /\ pc' \in [Admins -> Steps]
    BY <1>19, ReturnStep DEF AuditRefundOk
  <2>a. AuditOnce("REFUND_SUCCESS")
    BY <1>19 DEF AuditRefundOk
  <2>b. audit' \subseteq AuditRows
    BY <2>a
  <2>c. faults' \in Nat
    BY <2>a
  <2>2. audit' \subseteq AuditRows /\ faults' \in Nat
    BY <2>b, <2>c
  <2>3. UNCHANGED <<status, refundAmount, taken, gateway, rollbackOK, unrecorded, finals, stranded>>
    BY <1>19 DEF AuditRefundOk
  <2>4. QED
    BY <2>1, <2>2, <2>3
<1>20. ASSUME NEW a \in Admins, StatusWriteFails(a) \/ Crash(a) PROVE TypeInv'
  <2>1. Abandon(a) /\ faults' \in Nat
    BY <1>20 DEF StatusWriteFails, Crash
  <2>2. plan' \in [Admins -> Plans] /\ pc' \in [Admins -> Steps]
    BY <2>1, ReturnStep
  <2>3. stranded' \in BOOLEAN
    BY <2>1 DEF Locked
  <2>4. UNCHANGED <<status, refundAmount, taken, gateway, audit, rollbackOK, unrecorded, finals>>
    BY <2>1
  <2>5. QED
    BY <2>1, <2>2, <2>3, <2>4
<1>21. CASE UNCHANGED vars
  BY <1>21 DEF vars
<1>22. QED
  BY <1>1, <1>2, <1>3, <1>4, <1>5, <1>6, <1>7, <1>8, <1>9, <1>10, <1>11, <1>12, <1>13,
     <1>14, <1>15, <1>16, <1>17, <1>18, <1>19, <1>20, <1>21 DEF Next, Continue

-----------------------------------------------------------------------------
\* Where a stands before and after a step decides what the step may do to the counts.
LEMMA CountStep == IInv /\ TypeInv' /\ [Next]_vars => CountInv'
<1> SUFFICES ASSUME TypeInv, CountInv, TypeInv', [Next]_vars PROVE CountInv'
  BY DEF IInv
<1>t. /\ taken \in Nat /\ taken' \in Nat /\ finals \in Nat /\ finals' \in Nat
      /\ unrecorded \in Nat /\ unrecorded' \in Nat
      /\ pc \in [Admins -> Steps] /\ plan \in [Admins -> Plans]
  BY DEF TypeInv, TypeOK
<1>u. used \in {0, 1} /\ used' \in {0, 1}
  BY DEF used
<1>v. used \in Int /\ used <= 1
  BY DEF used
<1> DEFINE Moved(a) == \A b \in Admins \ {a} : pc'[b] = pc[b] /\ plan'[b] = plan[b]
<1>0. ASSUME UNCHANGED <<pc, plan, taken, audit, finals, unrecorded>>, used' = used PROVE CountInv'
  <2>1. lockers' = lockers /\ holders' = holders /\ debtors' = debtors
    BY <1>0 DEF lockers, holders, debtors, Lockers, Holders, Debtors, Locked, Holds, Owes
  <2>2. Kept' <=> Kept
    BY <1>0 DEF Kept
  <2>3. QED
    BY <1>0, <2>1, <2>2 DEF CountInv
<1>1. CASE RequestRefund
  BY <1>0, <1>1 DEF RequestRefund, used, Refundable, history
<1>2. CASE SettleRefund
  BY <1>0, <1>2 DEF SettleRefund, used, order, history
<1>3. ASSUME NEW a \in Admins, PrepareRefund(a) \/ StartFinalize(a) PROVE CountInv'
  <2>1. Moved(a) /\ pc[a] = "idle" /\ pc'[a] \in {"lock", "finQuery"}
    BY <1>3, <1>t DEF PrepareRefund, StartFinalize, Goto, At
  <2>2. ~Locked(a)' /\ ~Holds(a)' /\ ~Owes(a)'
    BY <2>1 DEF Locked, Holds, Owes, LockSteps
  <2>3. UNCHANGED <<taken, audit, finals, unrecorded>> /\ used' = used
    BY <1>3 DEF PrepareRefund, StartFinalize, order, history, used
  <2>4. QED
    BY <1>t, <1>u, <2>1, <2>2, <2>3, Moves DEF CountInv, Kept
<1>4. ASSUME NEW a \in Admins, LockRefund(a) PROVE CountInv'
  <2>0. UNCHANGED <<taken, audit, finals, unrecorded>> /\ ~Locked(a) /\ ~Holds(a)
    BY <1>4 DEF LockRefund, history, At, Locked, Holds, LockSteps
  <2>1. CASE status \in Refundable
    <3>1. Moved(a) /\ pc'[a] = "deduct" /\ used = 0 /\ used' = 1
      BY <1>4, <1>t, <2>1 DEF LockRefund, Goto, used, Refundable
    <3>2. ~Holds(a)'
      BY <3>1 DEF Holds
    <3>3. QED
      BY <1>t, <1>u, <2>0, <3>1, <3>2, Moves DEF CountInv, Kept
  <2>2. CASE status \notin Refundable
    <3>1. Return(a) /\ used' = used
      BY <1>4, <2>2 DEF LockRefund, used
    <3>2. Moved(a) /\ pc'[a] = "idle"
      BY <3>1, ReturnStep
    <3>3. ~Locked(a)' /\ ~Holds(a)' /\ ~Owes(a)'
      BY <3>2 DEF Locked, Holds, Owes, LockSteps
    <3>4. QED
      BY <1>t, <1>u, <2>0, <3>1, <3>2, <3>3, Moves DEF CountInv, Kept
  <2>3. QED
    BY <2>1, <2>2
<1>5. ASSUME NEW a \in Admins, DeductForRefund(a) PROVE CountInv'
  <2>0. /\ UNCHANGED <<audit, finals>> /\ used' = used /\ pc[a] = "deduct"
        /\ Locked(a) /\ Owes(a) /\ ~Holds(a)
    BY <1>5 DEF DeductForRefund, At, used, order, Locked, Owes, Holds, LockSteps
  <2>1. CASE /\ plan[a].deduct /\ taken' = taken + 1 /\ pc' = [pc EXCEPT ![a] = "gateway"] /\ plan' = plan
             /\ (~Kept /\ unrecorded' = unrecorded) \/ unrecorded' = unrecorded + 1
    <3>1. Moved(a) /\ ~Owes(a)'
      BY <1>t, <2>1 DEF Owes
    <3>2. /\ lockers \in Nat /\ lockers' \in Nat /\ lockers' <= lockers
          /\ holders \in Nat /\ holders' \in Nat /\ holders' <= holders + 1
          /\ debtors \in Nat /\ debtors' \in Nat /\ debtors' + 1 <= debtors
      BY <2>0, <3>1, Moves
    <3>3. Kept' <=> Kept
      BY <2>0 DEF Kept
    <3>4. CASE Kept
      BY <1>t, <1>u, <2>0, <2>1, <3>2, <3>3, <3>4 DEF CountInv
    <3>5. CASE ~Kept
      <4>1. taken + debtors <= used + unrecorded + finals /\ lockers <= used + finals /\ holders <= taken
        BY <3>5 DEF CountInv
      <4>2. taken' + debtors' <= used' + unrecorded' + finals' /\ lockers' <= used' + finals' /\ holders' <= taken'
        <5>1. used \in Int /\ used' = used /\ finals' = finals /\ taken' = taken + 1 /\ unrecorded' >= unrecorded
          BY <1>t, <1>u, <2>0, <2>1
        <5>2. QED
          <6>1. (taken + 1) + debtors' <= used + unrecorded' + finals
            BY <1>t, <3>2, <4>1, <5>1, Balance
          <6>2. lockers' <= used' + finals' /\ holders' <= taken'
            BY <1>t, <3>2, <4>1, <5>1
          <6>3. QED
            BY <5>1, <6>1, <6>2
      <4>3. QED
        BY <3>3, <3>5, <4>2 DEF CountInv
    <3>6. QED
      BY <3>4, <3>5
  <2>2. CASE /\ pc' = [pc EXCEPT ![a] = "restore"] /\ plan' = plan
             /\ \E done \in {0, 1} : taken' = taken + done /\ unrecorded' = unrecorded + done
    <3>1. Moved(a) /\ ~Holds(a)'
      BY <1>t, <2>2 DEF Holds
    <3>2. QED
      BY <1>t, <1>u, <2>0, <2>2, <3>1, Moves DEF CountInv, Kept
  <2>3. CASE /\ plan' = [plan EXCEPT ![a].deduct = FALSE]
             /\ pc' = [pc EXCEPT ![a] = "gateway"] /\ UNCHANGED <<taken, unrecorded>>
    <3>1. Moved(a) /\ ~Holds(a)'
      BY <1>t, <2>3, SkipStep DEF Holds
    <3>2. QED
      BY <1>t, <1>u, <2>0, <2>3, <3>1, Moves DEF CountInv, Kept
  <2>4. QED
    BY <1>5, <2>1, <2>2, <2>3 DEF DeductForRefund, SkipsDeduction, Kept, Goto, Take
<1>6. ASSUME NEW a \in Admins, GwRefund(a) PROVE CountInv'
  <2>1. /\ Moved(a) /\ pc[a] = "gateway" /\ pc'[a] \in {"markOk", "unwind", "rollback"} /\ plan' = plan
        /\ UNCHANGED <<taken, audit, finals, unrecorded>> /\ used' = used
    BY <1>6, <1>t DEF GwRefund, Goto, At, order, history, used
  <2>2. Locked(a) /\ (Owes(a)' => Owes(a)) /\ (Holds(a)' => Holds(a))
    BY <2>1 DEF Locked, Owes, Holds, LockSteps
  <2>3. QED
    BY <1>t, <1>u, <2>1, <2>2, Moves DEF CountInv, Kept
<1>7. ASSUME NEW a \in Admins, HandleGwFail(a) \/ UnwindPending(a) PROVE CountInv'
  <2>0. UNCHANGED <<audit, finals, unrecorded>> /\ used' = used
    BY <1>7 DEF HandleGwFail, UnwindPending, order, history, used
  <2>1. /\ pc[a] \in {"rollback", "unwind"}
        /\ \/ RollbackRefund(a, "restore", "noteFailed")
           \/ RollbackRefund(a, "markPending", "notePending")
    BY <1>7 DEF HandleGwFail, UnwindPending, At
  <2>2. {"restore", "noteFailed", "markPending", "notePending"} \subseteq Steps
    BY DEF Steps, LockSteps
  <2>3. /\ Moved(a) /\ plan'[a].deduct = plan[a].deduct
        /\ \/ pc'[a] \in {"restore", "markPending"} /\ taken' = taken - IF plan[a].deduct THEN 1 ELSE 0
           \/ /\ pc'[a] \in {"noteFailed", "notePending"} /\ plan[a].deduct
              /\ taken' \in {taken, taken - 1}
    BY <2>1, <2>2, RollbackStep
  <2>4. Locked(a) /\ ~Holds(a)' /\ (plan[a].deduct => Holds(a) /\ ~Owes(a)) /\ (~plan[a].deduct => Owes(a))
    BY <2>1, <2>3 DEF Locked, Holds, Owes, LockSteps
  <2>5. pc'[a] \in {"noteFailed", "notePending"} /\ plan[a].deduct => ~Owes(a)'
    BY <2>3 DEF Owes
  <2>6. QED
    BY <1>t, <1>u, <2>0, <2>3, <2>4, <2>5, Moves DEF CountInv, Kept
<1>8. ASSUME NEW a \in Admins, AuditRollbackFailed(a) PROVE CountInv'
  <2>1. /\ Moved(a) /\ pc[a] \in {"noteFailed", "notePending"} /\ pc'[a] \in {"markFailed", "markPending"}
        /\ UNCHANGED <<taken, finals>> /\ used' = used
    BY <1>8, <1>t DEF AuditRollbackFailed, Goto, At, order, used
  <2>a. (Kept' /\ unrecorded' = unrecorded) \/ (~Kept' /\ unrecorded' = unrecorded + 1)
    BY <1>8, <1>t DEF AuditRollbackFailed, Kept
  <2>b. Kept => Kept'
    BY <1>8 DEF AuditRollbackFailed, AuditOnce, Kept
  <2>2. Locked(a) /\ ~Holds(a)'
    BY <2>1 DEF Locked, Holds, LockSteps
  <2>3. /\ lockers \in Nat /\ lockers' \in Nat /\ lockers' <= lockers
        /\ holders \in Nat /\ holders' \in Nat /\ holders' <= holders
        /\ debtors \in Nat /\ debtors' \in Nat /\ debtors' <= debtors + 1
    BY <2>1, <2>2, Moves
  <2>4. CASE Kept'
    BY <1>t, <1>u, <2>1, <2>a, <2>3, <2>4 DEF CountInv
  <2>5. CASE ~Kept'
    <3>1. taken + debtors <= used + unrecorded + finals /\ lockers <= used + finals /\ holders <= taken
      BY <2>b, <2>5 DEF CountInv
    <3>2. taken' + debtors' <= used' + unrecorded' + finals' /\ lockers' <= used' + finals' /\ holders' <= taken'
      <4>1. used \in Int /\ used' = used /\ finals' = finals /\ taken' = taken /\ unrecorded' = unrecorded + 1
        BY <1>u, <2>1, <2>a, <2>5
      <4>2. QED
        <5>1. taken + debtors' <= used + unrecorded' + finals
          BY <1>t, <2>3, <3>1, <4>1, Balance
        <5>2. lockers' <= used' + finals' /\ holders' <= taken'
          BY <1>t, <2>3, <3>1, <4>1
        <5>3. QED
          BY <4>1, <5>1, <5>2
    <3>3. QED
      BY <2>5, <3>2 DEF CountInv
  <2>6. QED
    BY <2>4, <2>5
<1>9. ASSUME NEW a \in Admins, RestoreStatus(a) \/ MarkRefundFailed(a) PROVE CountInv'
  <2>1. /\ Return(a) /\ UNCHANGED <<taken, audit, unrecorded>> /\ used' = 0
        /\ \/ pc[a] \in {"restore", "markFailed"} /\ finals' = finals
           \/ pc[a] = "finFailed" /\ finals' = finals + 1
    BY <1>9 DEF RestoreStatus, MarkRefundFailed, history, used, Refundable, At
  <2>2. Moved(a) /\ pc'[a] = "idle"
    BY <2>1, ReturnStep
  <2>3. ~Locked(a)' /\ ~Holds(a)' /\ ~Owes(a)' /\ (pc[a] # "finFailed" => Locked(a) /\ Owes(a))
    BY <2>1, <2>2 DEF Locked, Holds, Owes, LockSteps
  <2>4. Kept' <=> Kept
    BY <2>1 DEF Kept
  <2>5. CASE pc[a] = "finFailed"
    <3>1. /\ lockers \in Nat /\ lockers' \in Nat /\ lockers' <= lockers
          /\ holders \in Nat /\ holders' \in Nat /\ holders' <= holders
          /\ debtors \in Nat /\ debtors' \in Nat /\ debtors' <= debtors
      BY <2>2, <2>3, Moves
    <3>2. taken' = taken /\ unrecorded' = unrecorded /\ used' = 0 /\ finals' = finals + 1
      BY <2>1, <2>5
    <3>3. lockers' <= used' + finals'
      <4>1. lockers <= used + finals
        BY DEF CountInv
      <4>2. QED
        BY <1>t, <1>v, <3>1, <3>2, <4>1, Vacate
    <3>4. holders' <= taken' /\ (Kept => taken' <= 1 + unrecorded' + finals')
      BY <1>t, <3>1, <3>2 DEF CountInv
    <3>5. ASSUME ~Kept PROVE taken' + debtors' <= used' + unrecorded' + finals'
      <4>1. taken + debtors <= used + unrecorded + finals
        BY <3>5 DEF CountInv
      <4>2. taken + debtors' <= 0 + unrecorded + (finals + 1)
        BY <1>t, <1>v, <3>1, <4>1, VacateBalance
      <4>3. QED
        BY <3>2, <4>2
    <3>6. QED
      BY <2>4, <3>3, <3>4, <3>5 DEF CountInv
  <2>6. CASE pc[a] # "finFailed"
    <3>1. /\ lockers \in Nat /\ lockers' \in Nat /\ lockers' + 1 <= lockers
          /\ holders \in Nat /\ holders' \in Nat /\ holders' <= holders
          /\ debtors \in Nat /\ debtors' \in Nat /\ debtors' + 1 <= debtors
      BY <2>2, <2>3, <2>6, Moves
    <3>2. taken' = taken /\ unrecorded' = unrecorded /\ used' = 0 /\ finals' = finals
      BY <2>1, <2>6
    <3>3. lockers' <= used' + finals'
      <4>1. lockers <= used + finals
        BY DEF CountInv
      <4>2. QED
        BY <1>t, <1>v, <3>1, <3>2, <4>1, Vacate
    <3>4. holders' <= taken' /\ (Kept => taken' <= 1 + unrecorded' + finals')
      BY <1>t, <3>1, <3>2 DEF CountInv
    <3>5. ASSUME ~Kept PROVE taken' + debtors' <= used' + unrecorded' + finals'
      <4>1. taken + debtors <= used + unrecorded + finals
        BY <3>5 DEF CountInv
      <4>2. taken + debtors' <= 0 + unrecorded + finals
        BY <1>t, <1>v, <3>1, <4>1, VacateBalance
      <4>3. QED
        BY <3>2, <4>2
    <3>6. QED
      BY <2>4, <3>3, <3>4, <3>5 DEF CountInv
  <2>7. QED
    BY <2>5, <2>6
<1>10. ASSUME NEW a \in Admins, MarkRefundPending(a) PROVE CountInv'
  <2>1. /\ Moved(a) /\ pc[a] = "markPending" /\ pc'[a] = "auditPending"
        /\ UNCHANGED <<taken, audit, unrecorded, finals>> /\ used' = 0
    BY <1>10, <1>t DEF MarkRefundPending, history, used, Refundable, At, Goto
  <2>2. ~Locked(a)' /\ ~Holds(a)' /\ ~Owes(a)' /\ Locked(a) /\ Owes(a)
    BY <2>1 DEF Locked, Holds, Owes, LockSteps
  <2>3. QED
    BY <1>t, <1>u, <2>1, <2>2, Moves DEF CountInv, Kept
<1>11. ASSUME NEW a \in Admins, AuditPending(a) \/ AuditRefundOk(a) PROVE CountInv'
  <2>1. /\ Return(a) /\ UNCHANGED <<taken, unrecorded, finals>> /\ used' = used /\ (Kept' <=> Kept)
    BY <1>11 DEF AuditPending, AuditRefundOk, AuditOnce, order, history, used, Kept
  <2>2. Moved(a) /\ pc'[a] = "idle"
    BY <2>1, ReturnStep
  <2>3. ~Locked(a)' /\ ~Holds(a)' /\ ~Owes(a)'
    BY <2>2 DEF Locked, Holds, Owes, LockSteps
  <2>4. QED
    BY <1>t, <1>u, <2>1, <2>2, <2>3, Moves DEF CountInv
<1>12. ASSUME NEW a \in Admins, QueryRefund(a) \/ CheckFinalDeduction(a) PROVE CountInv'
  <2>1. /\ Moved(a) /\ pc'[a] \in {"finCheck", "finFailed", "idle", "finDeduct", "finOk"}
        /\ UNCHANGED <<taken, audit, unrecorded, finals>> /\ used' = used
    <3>1. CASE Return(a)
      BY <1>12, <3>1, ReturnStep DEF QueryRefund, CheckFinalDeduction, order, history, used
    <3>2. CASE ~Return(a)
      BY <1>12, <1>t, <3>2 DEF QueryRefund, CheckFinalDeduction, order, history, used, Goto
    <3>3. QED
      BY <3>1, <3>2
  <2>2. ~Locked(a)' /\ ~Holds(a)' /\ ~Owes(a)'
    BY <2>1 DEF Locked, Holds, Owes, LockSteps
  <2>3. QED
    BY <1>t, <1>u, <2>1, <2>2, Moves DEF CountInv, Kept
<1>13. ASSUME NEW a \in Admins, ApplyFinalDeduction(a) PROVE CountInv'
  <2>1. /\ Moved(a) /\ pc'[a] \in {"idle", "finOk"} /\ UNCHANGED <<audit, unrecorded>> /\ used' = used
    <3>1. CASE Return(a)
      BY <1>13, <3>1, ReturnStep DEF ApplyFinalDeduction, order, used
    <3>2. CASE ~Return(a)
      BY <1>13, <1>t, <3>2 DEF ApplyFinalDeduction, order, used, Goto
    <3>3. QED
      BY <3>1, <3>2
  <2>2. \E n \in {0, 1} : taken' = taken + n /\ finals' = finals + n
    BY <1>13 DEF ApplyFinalDeduction, Take
  <2>3. ~Locked(a)' /\ ~Holds(a)' /\ ~Owes(a)'
    BY <2>1 DEF Locked, Holds, Owes, LockSteps
  <2>4. QED
    BY <1>t, <1>u, <2>1, <2>2, <2>3, Moves DEF CountInv, Kept
<1>14. ASSUME NEW a \in Admins, MarkRefundOk(a) PROVE CountInv'
  <2>1. /\ Moved(a) /\ pc'[a] = "auditOk" /\ UNCHANGED <<taken, audit, unrecorded, finals>> /\ used' = 1
    BY <1>14, <1>t DEF MarkRefundOk, history, used, Refundable, Goto
  <2>2. ~Locked(a)' /\ ~Holds(a)' /\ ~Owes(a)'
    BY <2>1 DEF Locked, Holds, Owes, LockSteps
  <2>3. QED
    BY <1>t, <1>u, <2>1, <2>2, Moves DEF CountInv, Kept
<1>15. ASSUME NEW a \in Admins, StatusWriteFails(a) \/ Crash(a) PROVE CountInv'
  <2>1. Return(a) /\ UNCHANGED <<taken, audit, unrecorded, finals>> /\ used' = used
    BY <1>15 DEF StatusWriteFails, Crash, Abandon, order, used
  <2>2. Moved(a) /\ pc'[a] = "idle"
    BY <2>1, ReturnStep
  <2>3. ~Locked(a)' /\ ~Holds(a)' /\ ~Owes(a)'
    BY <2>2 DEF Locked, Holds, Owes, LockSteps
  <2>4. QED
    BY <1>t, <1>u, <2>1, <2>2, <2>3, Moves DEF CountInv, Kept
<1>16. CASE UNCHANGED vars
  BY <1>0, <1>16 DEF vars, used
<1>17. QED
  BY <1>1, <1>2, <1>3, <1>4, <1>5, <1>6, <1>7, <1>8, <1>9, <1>10, <1>11, <1>12, <1>13,
     <1>14, <1>15, <1>16 DEF Next, Continue

-----------------------------------------------------------------------------
\* The provider has refunded wherever markRefundOk is ahead, and a refund that was
\* made stays made.
LEMMA PaidStep == IInv /\ [Next]_vars => PaidInv'
<1> SUFFICES ASSUME TypeInv, PaidInv, [Next]_vars PROVE PaidInv'
  BY DEF IInv
<1>t. pc \in [Admins -> Steps]
  BY DEF TypeInv, TypeOK
<1> USE DEF PaidInv, RefundedIsPaidBack, Refundable, Final, order, history, At, Goto
<1>0. ASSUME NEW a \in Admins, Return(a), UNCHANGED gateway, status' = status \/ status' \notin Final
      PROVE  PaidInv'
  BY <1>0, <1>t DEF Return
<1>1. CASE RequestRefund \/ SettleRefund
  BY <1>1 DEF RequestRefund, SettleRefund
<1>2. ASSUME NEW a \in Admins, PrepareRefund(a) \/ StartFinalize(a) PROVE PaidInv'
  BY <1>2, <1>t DEF PrepareRefund, StartFinalize
<1>3. ASSUME NEW a \in Admins, LockRefund(a) PROVE PaidInv'
  <2>1. CASE Return(a)
    BY <1>0, <1>3, <2>1 DEF LockRefund
  <2>2. CASE ~Return(a)
    BY <1>3, <1>t, <2>2 DEF LockRefund
  <2>3. QED
    BY <2>1, <2>2
<1>4. ASSUME NEW a \in Admins, DeductForRefund(a) \/ HandleGwFail(a) \/ UnwindPending(a) PROVE PaidInv'
  BY <1>4, <1>t DEF DeductForRefund, HandleGwFail, UnwindPending, RollbackRefund
<1>5. ASSUME NEW a \in Admins, GwRefund(a) PROVE PaidInv'
  BY <1>5, <1>t DEF GwRefund
<1>6. ASSUME NEW a \in Admins, AuditRollbackFailed(a) \/ MarkRefundPending(a) PROVE PaidInv'
  BY <1>6, <1>t DEF AuditRollbackFailed, MarkRefundPending
<1>7. ASSUME NEW a \in Admins, RestoreStatus(a) \/ MarkRefundFailed(a) PROVE PaidInv'
  BY <1>0, <1>7 DEF RestoreStatus, MarkRefundFailed
<1>8. ASSUME NEW a \in Admins, AuditPending(a) \/ AuditRefundOk(a) PROVE PaidInv'
  BY <1>0, <1>8 DEF AuditPending, AuditRefundOk
<1>9. ASSUME NEW a \in Admins, QueryRefund(a) PROVE PaidInv'
  <2>1. CASE Return(a)
    BY <1>0, <1>9, <2>1 DEF QueryRefund
  <2>2. CASE ~Return(a)
    BY <1>9, <1>t, <2>2 DEF QueryRefund
  <2>3. QED
    BY <2>1, <2>2
<1>10. ASSUME NEW a \in Admins, CheckFinalDeduction(a) PROVE PaidInv'
  BY <1>10, <1>t DEF CheckFinalDeduction
<1>11. ASSUME NEW a \in Admins, ApplyFinalDeduction(a) PROVE PaidInv'
  <2>1. CASE Return(a)
    BY <1>0, <1>11, <2>1 DEF ApplyFinalDeduction
  <2>2. CASE ~Return(a)
    BY <1>11, <1>t, <2>2 DEF ApplyFinalDeduction
  <2>3. QED
    BY <2>1, <2>2
<1>12. ASSUME NEW a \in Admins, MarkRefundOk(a) PROVE PaidInv'
  BY <1>12, <1>t DEF MarkRefundOk
<1>13. ASSUME NEW a \in Admins, StatusWriteFails(a) \/ Crash(a) PROVE PaidInv'
  BY <1>0, <1>13 DEF StatusWriteFails, Crash, Abandon
<1>14. CASE UNCHANGED vars
  BY <1>14 DEF vars
<1>15. QED
  BY <1>1, <1>2, <1>3, <1>4, <1>5, <1>6, <1>7, <1>8, <1>9, <1>10, <1>11, <1>12, <1>13, <1>14
  DEF Next, Continue

\* Whoever leaves the steps of ExecuteRefund has written an outcome, or is stranded.
LEMMA HeldStep == IInv /\ [Next]_vars => RefundingIsHeld'
<1> SUFFICES ASSUME TypeInv, RefundingIsHeld, [Next]_vars, status' = "REFUNDING", ~stranded'
             PROVE  \E b \in Admins : Locked(b)'
  BY DEF IInv, RefundingIsHeld
<1>t. pc \in [Admins -> Steps]
  BY DEF TypeInv, TypeOK
<1> USE DEF RefundingIsHeld, Locked, LockSteps, order, history, At, Goto
<1>0. ASSUME NEW a \in Admins, ~Locked(a), Return(a), UNCHANGED <<status, stranded>>
      PROVE  \E b \in Admins : Locked(b)'
  BY <1>0, <1>t DEF Return
<1>1. CASE RequestRefund \/ SettleRefund
  BY <1>1 DEF RequestRefund, SettleRefund
<1>2. ASSUME NEW a \in Admins, PrepareRefund(a) \/ StartFinalize(a) PROVE \E b \in Admins : Locked(b)'
  BY <1>2, <1>t DEF PrepareRefund, StartFinalize
<1>3. ASSUME NEW a \in Admins, LockRefund(a) PROVE \E b \in Admins : Locked(b)'
  <2>1. CASE status \notin Refundable
    BY <1>0, <1>3, <2>1 DEF LockRefund
  <2>2. CASE status \in Refundable
    BY <1>3, <1>t, <2>2 DEF LockRefund
  <2>3. QED
    BY <2>1, <2>2
<1>4. ASSUME NEW a \in Admins,
             DeductForRefund(a) \/ GwRefund(a) \/ HandleGwFail(a) \/ UnwindPending(a) \/ AuditRollbackFailed(a)
      PROVE  \E b \in Admins : Locked(b)'
  <2>1. pc'[a] \in LockSteps
    BY <1>4, <1>t DEF DeductForRefund, GwRefund, HandleGwFail, UnwindPending, RollbackRefund,
       AuditRollbackFailed
  <2>2. QED
    BY <2>1
<1>5. ASSUME NEW a \in Admins,
             RestoreStatus(a) \/ MarkRefundFailed(a) \/ MarkRefundPending(a) \/ MarkRefundOk(a)
      PROVE  \E b \in Admins : Locked(b)'
  BY <1>5 DEF RestoreStatus, MarkRefundFailed, MarkRefundPending, MarkRefundOk
<1>6. ASSUME NEW a \in Admins, AuditPending(a) \/ AuditRefundOk(a) PROVE \E b \in Admins : Locked(b)'
  BY <1>0, <1>6 DEF AuditPending, AuditRefundOk
<1>7. ASSUME NEW a \in Admins, QueryRefund(a) \/ CheckFinalDeduction(a) \/ ApplyFinalDeduction(a)
      PROVE  \E b \in Admins : Locked(b)'
  <2>1. CASE Return(a)
    BY <1>0, <1>7, <2>1 DEF QueryRefund, CheckFinalDeduction, ApplyFinalDeduction
  <2>2. CASE ~Return(a)
    BY <1>7, <1>t, <2>2 DEF QueryRefund, CheckFinalDeduction, ApplyFinalDeduction
  <2>3. QED
    BY <2>1, <2>2
<1>8. ASSUME NEW a \in Admins, StatusWriteFails(a) \/ Crash(a) PROVE \E b \in Admins : Locked(b)'
  <2>1. Abandon(a)
    BY <1>8 DEF StatusWriteFails, Crash
  <2>2. UNCHANGED status /\ ~stranded /\ ~Locked(a) /\ Return(a)
    BY <2>1 DEF Abandon
  <2>3. QED
    BY <1>t, <2>2 DEF Return
<1>9. CASE UNCHANGED vars
  BY <1>9 DEF vars
<1>10. QED
  BY <1>1, <1>2, <1>3, <1>4, <1>5, <1>6, <1>7, <1>8, <1>9 DEF Next, Continue

LEMMA Invariance == Spec => []IInv
<1>1. Init => IInv
  <2> SUFFICES ASSUME Init PROVE IInv
    OBVIOUS
  <2>1. TypeInv
    <3>1. NoPlan \in Plans
      BY AmountAssumption DEF NoPlan, Plans, Refundable
    <3>2. pc \in [Admins -> Steps] /\ plan \in [Admins -> Plans]
      BY <3>1 DEF Init, Steps
    <3>3. rollbackOK \in BOOLEAN /\ stranded \in BOOLEAN /\ audit \subseteq AuditRows
      BY DEF Init
    <3>4. QED
      BY AmountAssumption, RefundAssumption, <3>2, <3>3 DEF Init, TypeInv, TypeOK, Refundable
  <2>2. Lockers = {} /\ Holders = {} /\ Debtors = {}
    BY DEF Init, Lockers, Holders, Debtors, Locked, Holds, Owes, LockSteps
  <2>3. lockers = 0 /\ holders = 0 /\ debtors = 0
    BY <2>2, FS_EmptySet DEF lockers, holders, debtors
  <2>4. CountInv
    BY <2>3 DEF Init, CountInv, used, Refundable, Kept
  <2>5. PaidInv /\ RefundingIsHeld
    BY DEF Init, PaidInv, RefundedIsPaidBack, RefundingIsHeld, Final
  <2>6. QED
    BY <2>1, <2>4, <2>5 DEF IInv
<1>2. IInv /\ [Next]_vars => IInv'
  BY TypeStep, CountStep, PaidStep, HeldStep DEF IInv
<1>3. QED
  BY <1>1, <1>2, PTL DEF Spec

-----------------------------------------------------------------------------
\* Every variable of the refund, the ledger and the admins has its type, whichever of
\* the handlers run; RollbackRefund gives back only what was taken.
THEOREM TypeCorrect == Spec => []TypeOK
<1>1. IInv => TypeOK
  BY DEF IInv, TypeInv
<1>2. QED
  BY <1>1, Invariance, PTL

\* ExecuteRefund's compare-and-set admits one refund at a time, and one more for each
\* time a finalizer acts.
THEOREM RefundIsExclusiveThm == Spec => []RefundIsExclusive
<1>1. IInv => RefundIsExclusive
  <2> SUFFICES ASSUME IInv PROVE lockers <= 1 + finals
    BY DEF RefundIsExclusive, lockers, Lockers
  <2>1. lockers \in Nat
    <3>1. IsFiniteSet(Lockers)
      BY AdminsAssumption, FS_Subset DEF Lockers
    <3>2. QED
      BY <3>1, FS_CardinalityType DEF lockers
  <2>2. QED
    BY <2>1 DEF IInv, TypeInv, TypeOK, CountInv, used
<1>2. QED
  BY <1>1, Invariance, PTL

\* Retries, failed rollbacks, crashes and failed writes of the status never take a second
\* deduction; errors that hide a deduction, and finalizers, take one each at most.
THEOREM TakenOnceThm == Spec => []TakenOnce
<1>1. IInv => TakenOnce
  <2> SUFFICES ASSUME IInv PROVE TakenOnce
    OBVIOUS
  <2>1. taken \in Nat /\ unrecorded \in Nat /\ finals \in Nat
    BY DEF IInv, TypeInv, TypeOK
  <2>2. debtors \in Nat
    <3>1. IsFiniteSet(Debtors)
      BY AdminsAssumption, FS_Subset DEF Debtors
    <3>2. QED
      BY <3>1, FS_CardinalityType DEF debtors
  <2>3. QED
    BY <2>1, <2>2 DEF IInv, CountInv, used, TakenOnce
<1>2. QED
  BY <1>1, Invariance, PTL

\* An abandoned refund keeps nothing that is not on record, but for what errors hid and
\* finalizers took.
THEOREM RestoredIsWholeThm == Spec => []RestoredIsWhole
<1>1. IInv => RestoredIsWhole
  <2> SUFFICES ASSUME IInv, status \in Refundable, ~Kept PROVE taken <= unrecorded + finals
    BY DEF RestoredIsWhole, Kept
  <2>1. taken \in Nat /\ unrecorded \in Nat /\ finals \in Nat
    BY DEF IInv, TypeInv, TypeOK
  <2>2. debtors \in Nat
    <3>1. IsFiniteSet(Debtors)
      BY AdminsAssumption, FS_Subset DEF Debtors
    <3>2. QED
      BY <3>1, FS_CardinalityType DEF debtors
  <2>3. QED
    BY <2>1, <2>2 DEF IInv, CountInv, used
<1>2. QED
  BY <1>1, Invariance, PTL

\* markRefundOk is reached only after the provider refunded, from ExecuteRefund and
\* from QueryAndFinalizeRefund.
THEOREM RefundedIsPaidBackThm == Spec => []RefundedIsPaidBack
<1>1. IInv => RefundedIsPaidBack
  BY DEF IInv, PaidInv
<1>2. QED
  BY <1>1, Invariance, PTL

\* An order in REFUNDING has a request on its way to the outcome, unless one was cut off.
THEOREM RefundingIsHeldThm == Spec => []RefundingIsHeld
<1>1. IInv => RefundingIsHeld
  BY DEF IInv
<1>2. QED
  BY <1>1, Invariance, PTL
=============================================================================
