---------------------- MODULE SystemOperationLockProofs ----------------------
(***************************************************************************)
(* Proofs about SystemOperationLock, for any number of operations, any ids *)
(* and any lease.  A holder whose id the record has renews its lease; one  *)
(* of another id has its first lease only.  The lock is exclusive until an *)
(* operation of the second kind outlasts that lease (foreign), and so for  *)
(* good when no operation lasts as long as a lease.                        *)
(***************************************************************************)
EXTENDS SystemOperationLock, TLAPS

Rows == [id: Nat, fp: Fingerprints \cup {"none"}, status: Statuses, locked: Times,
         expires: Times, body: Fingerprints \cup {"none"}]
Locals == [now: Times, id: Nat, from: Statuses, renewing: BOOLEAN, due: Times,
           fails: 0 .. MaxFails]

\* Types, and no operation has read a later time than it is.
TimeInv ==
    /\ rec \in Rows /\ lastId \in Nat /\ clock \in 0 .. MaxTime /\ foreign \in BOOLEAN
    /\ pc \in [Ops -> Claiming \cup {"idle", "held"}] /\ op \in [Ops -> Locals]
    /\ \A o \in Ops : op[o].now <= clock

\* An Acquire has read the time not long ago, and has found a record.
ClaimInv ==
    \A o \in Ops : /\ pc[o] \in Claiming => clock <= op[o].now + MaxClaim
                   /\ pc[o] = "reclaim" => op[o].from # "none"

\* Whoever holds the lock owns the record, and it is alone.
OwnerInv ==
    /\ rec.status # "none" => rec.locked <= rec.expires
    /\ \A o \in Ops : At(o, "held") => rec.id = op[o].id /\ rec.status = "processing"
    /\ Exclusive

\* What is left of the lease when the renewals that may still err have erred.
Slack(o) == (MaxFails - op[o].fails) * RenewInterval

\* A holder whose id the record has: its next renewal comes in time.
RenewedInv(o) ==
    /\ op[o].renewing
    /\ clock <= op[o].due /\ op[o].due <= clock + RenewInterval
    /\ op[o].due + Slack(o) < rec.locked

\* A holder with another id: its first lease is still running.
FirstLeaseInv(o) == op[o].now + Lease <= rec.locked /\ clock < op[o].now + Lease

HoldInv ==
    \A o \in Ops : At(o, "held") =>
        /\ rec.fp = OpId[o] => RenewedInv(o)
        /\ rec.fp # OpId[o] => FirstLeaseInv(o)

LockInv == foreign \/ (OwnerInv /\ HoldInv)

Short == MaxHold < Lease
-----------------------------------------------------------------------------
LEMMA InitInv == Init => TimeInv /\ ClaimInv /\ LockInv
<1> SUFFICES ASSUME Init PROVE TimeInv /\ ClaimInv /\ LockInv
  OBVIOUS
<1> USE LeaseAssumption DEF Init
<1>1. NewOp(0) \in Locals /\ NewOp(0).now = 0 /\ NoRow \in Rows
  BY DEF NewOp, NoRow, Locals, Rows, Times, Statuses
<1>2. foreign \in BOOLEAN
  BY Zenon
<1>3. TimeInv
  BY <1>1, <1>2 DEF TimeInv, Claiming
<1>4. QED
  BY <1>3 DEF ClaimInv, LockInv, OwnerInv, HoldInv, Exclusive, At, NoRow, Claiming

\* What an operation does to the others: nothing.
Only(o) == \A p \in Ops : p # o => pc'[p] = pc[p] /\ op'[p] = op[p]

\* The statements that update the record keep its type.
LEMMA RowType ==
    ASSUME rec \in Rows, NEW st \in Statuses, NEW l \in Times, NEW e \in Times,
           NEW b \in Fingerprints
    PROVE  /\ [rec EXCEPT !.locked = l, !.expires = e] \in Rows
           /\ [rec EXCEPT !.status = st, !.locked = l, !.expires = e] \in Rows
           /\ [rec EXCEPT !.status = st, !.locked = l, !.expires = e, !.body = b] \in Rows
<1>1. [rec EXCEPT !.locked = l, !.expires = e] \in Rows
  BY DEF Rows
<1>2. [rec EXCEPT !.status = st, !.locked = l, !.expires = e] \in Rows
  BY DEF Rows
<1>3. [rec EXCEPT !.status = st, !.locked = l, !.expires = e, !.body = b] \in Rows
  BY DEF Rows
<1>4. QED
  BY <1>1, <1>2, <1>3

\* Every step keeps the types.
LEMMA TimeStep == TimeInv /\ [Next]_vars => TimeInv'
<1> SUFFICES ASSUME TimeInv, [Next]_vars PROVE TimeInv'
  OBVIOUS
<1>0. /\ clock \in Times /\ clock + Lease \in Times /\ clock + TTL \in Times
      /\ clock + RenewInterval \in Times /\ 0 \in Times
      /\ clock \in Nat /\ {Lease, TTL, RenewInterval} \subseteq Nat /\ MaxTime \in Nat
  BY LeaseAssumption DEF TimeInv, Times
<1>1. ASSUME NEW o \in Ops
      PROVE  /\ op[o].now + Lease \in Times /\ op[o].now + TTL \in Times
             /\ op[o] \in Locals /\ op[o].now \in Nat /\ op[o].now <= clock
             /\ OpId[o] \in Fingerprints
  BY LeaseAssumption DEF TimeInv, Times, Locals
<1>2. ASSUME NEW o \in Ops, NEW l \in Locals, l.now <= clock,
             op' = [op EXCEPT ![o] = l]
      PROVE  op' \in [Ops -> Locals] /\ \A p \in Ops : op'[p].now <= clock
  BY <1>2 DEF TimeInv
<1>3. ASSUME NEW o \in Ops, NEW l \in Claiming \cup {"idle", "held"}, Goto(o, l)
      PROVE  pc' \in [Ops -> Claiming \cup {"idle", "held"}]
  BY <1>3 DEF TimeInv, Goto
<1>4. ASSUME NEW o \in Ops, NEW id \in Nat, Hold(o, id)
      PROVE  /\ pc' \in [Ops -> Claiming \cup {"idle", "held"}]
             /\ op' \in [Ops -> Locals] /\ \A p \in Ops : op'[p].now <= clock
  <2>a. [op[o] EXCEPT !.id = id, !.renewing = TRUE] \in Locals
    BY <1>1 DEF Locals
  <2>b. 0 \in 0 .. MaxFails
    BY LeaseAssumption
  <2>1. [op[o] EXCEPT !.id = id, !.renewing = TRUE, !.fails = 0,
                      !.due = clock + RenewInterval] \in Locals
    BY <1>0, <2>a, <2>b DEF Locals
  <2>2. [op[o] EXCEPT !.id = id, !.renewing = TRUE, !.fails = 0,
                      !.due = clock + RenewInterval].now <= clock
    BY <1>1 DEF Locals
  <2>3. op' \in [Ops -> Locals] /\ \A p \in Ops : op'[p].now <= clock
    BY <1>2, <1>4, <2>1, <2>2 DEF Hold, TimeInv
  <2>4. QED
    BY <1>3, <1>4, <2>3 DEF Hold
<1>5. ASSUME NEW b \in BOOLEAN, NEW o \in Ops, op' = [op EXCEPT ![o].renewing = b]
      PROVE  op' \in [Ops -> Locals] /\ \A p \in Ops : op'[p].now <= clock
  <2>1. [op[o] EXCEPT !.renewing = b] \in Locals /\ [op[o] EXCEPT !.renewing = b].now <= clock
    BY <1>1 DEF Locals
  <2>2. QED
    BY <1>2, <1>5, <2>1 DEF TimeInv
<1>6. CASE Cleanup
  BY <1>6, <1>0 DEF TimeInv, Cleanup, DeleteExpired, NoRow, Rows, Statuses
<1>7. CASE Tick
  BY <1>7, <1>0, <1>1 DEF TimeInv, Tick, row
<1>8. ASSUME NEW o \in Ops, Acquire(o) PROVE TimeInv'
  <2>1. NewOp(clock) \in Locals /\ NewOp(clock).now <= clock
    BY <1>0, LeaseAssumption DEF NewOp, Locals, Statuses
  <2>2. QED
    BY <1>2, <1>3, <1>8, <2>1 DEF TimeInv, Acquire, Claiming, row
<1>9. ASSUME NEW o \in Ops, Create(o) PROVE TimeInv'
  <2>1. CASE CreateProcessing(OpId[o], op[o].now + Lease, op[o].now + TTL) /\ Hold(o, lastId + 1)
    <3>1. rec' \in Rows /\ lastId' \in Nat
      BY <1>1, <2>1 DEF CreateProcessing, Rows, Statuses, TimeInv
    <3>2. QED
      BY <1>4, <1>9, <2>1, <3>1 DEF TimeInv, Create
  <2>2. CASE Goto(o, "get") /\ UNCHANGED <<row, op>>
    BY <1>3, <1>9, <2>2 DEF TimeInv, Create, Claiming, row
  <2>3. QED
    BY <1>9, <2>1, <2>2 DEF Create
<1>10. ASSUME NEW o \in Ops, GetExisting(o) PROVE TimeInv'
  <2>a. rec.id \in Nat /\ rec.status \in Statuses
    BY DEF TimeInv, Rows
  <2>1. [op[o] EXCEPT !.id = rec.id, !.from = rec.status] \in Locals
    BY <1>1, <2>a DEF Locals
  <2>b. [op[o] EXCEPT !.id = rec.id, !.from = rec.status].now <= clock
    BY <1>1 DEF Locals
  <2>2. op' \in [Ops -> Locals] /\ \A p \in Ops : op'[p].now <= clock
    BY <1>2, <1>10, <2>1, <2>b DEF GetExisting, TimeInv
  <2>3. QED
    BY <1>3, <1>10, <2>2 DEF TimeInv, GetExisting, Claiming, row
<1>11. ASSUME NEW o \in Ops, Reclaim(o) PROVE TimeInv'
  <2>1. CASE /\ TryReclaim(op[o].id, op[o].from, op[o].now, op[o].now + Lease, op[o].now + TTL)
             /\ Hold(o, op[o].id)
    <3>1. rec' \in Rows /\ lastId' \in Nat /\ op[o].id \in Nat
      BY <1>1, <2>1 DEF TryReclaim, Rows, Statuses, TimeInv, Locals
    <3>2. QED
      BY <1>4, <1>11, <2>1, <3>1 DEF TimeInv, Reclaim
  <2>2. CASE Goto(o, "idle") /\ UNCHANGED <<row, op>>
    BY <1>3, <1>11, <2>2 DEF TimeInv, Reclaim, row
  <2>3. QED
    BY <1>11, <2>1, <2>2 DEF Reclaim
<1>12. ASSUME NEW o \in Ops, Renew(o) PROVE TimeInv'
  <2>a. \/ UNCHANGED row
        \/ ExtendProcessingLock(op[o].id, OpId[o], clock + Lease, clock + TTL)
    BY <1>12 DEF Renew
  <2>b. rec \in Rows /\ lastId \in Nat /\ "processing" \in Statuses
    BY DEF TimeInv, Statuses
  <2>1. rec' \in Rows /\ lastId' \in Nat
    BY <1>0, <1>1, <2>a, <2>b, RowType DEF ExtendProcessingLock, row
  <2>2. op' \in [Ops -> Locals] /\ \A p \in Ops : op'[p].now <= clock
    <3>1. ASSUME NEW n \in 0 .. MaxFails
          PROVE  /\ [op[o] EXCEPT !.due = clock + RenewInterval, !.fails = n] \in Locals
                 /\ [op[o] EXCEPT !.due = clock + RenewInterval, !.fails = n].now <= clock
      BY <1>0, <1>1 DEF Locals
    <3>2. 0 \in 0 .. MaxFails /\ (op[o].fails < MaxFails => op[o].fails + 1 \in 0 .. MaxFails)
      BY <1>1, LeaseAssumption DEF Locals
    <3>3. CASE op' = [op EXCEPT ![o].renewing = FALSE]
      BY <1>5, <3>3
    <3>4. CASE op' = [op EXCEPT ![o] = [@ EXCEPT !.due = clock + RenewInterval, !.fails = 0]]
      BY <1>2, <3>1, <3>2, <3>4 DEF TimeInv
    <3>5. CASE /\ op[o].fails < MaxFails
               /\ op' = [op EXCEPT ![o] = [@ EXCEPT !.due = clock + RenewInterval,
                                                    !.fails = op[o].fails + 1]]
      BY <1>2, <3>1, <3>2, <3>5 DEF TimeInv
    <3>6. QED
      BY <1>12, <3>3, <3>4, <3>5 DEF Renew
  <2>3. QED
    BY <1>12, <2>1, <2>2 DEF TimeInv, Renew
<1>13. ASSUME NEW o \in Ops, StopRenew(o) PROVE TimeInv'
  BY <1>5, <1>13 DEF TimeInv, StopRenew, row
<1>14. ASSUME NEW o \in Ops, Release(o) PROVE TimeInv'
  <2>a. rec \in Rows /\ lastId \in Nat /\ {"succeeded", "failed_retryable"} \subseteq Statuses
    BY DEF TimeInv, Statuses
  <2>b. OpId[o] \in Fingerprints /\ 0 \in Times
    BY <1>1, LeaseAssumption DEF Times
  <2>1. rec' \in Rows /\ lastId' \in Nat
    <3>1. CASE MarkSucceeded(op[o].id, OpId[o], clock + TTL)
      BY <1>0, <2>a, <2>b, <3>1, RowType DEF MarkSucceeded
    <3>2. CASE MarkFailedRetryable(op[o].id, clock, clock + TTL)
      BY <1>0, <2>a, <2>b, <3>2, RowType DEF MarkFailedRetryable
    <3>3. QED
      BY <1>14, <3>1, <3>2 DEF Release
  <2>2. QED
    BY <1>3, <1>14, <2>1 DEF TimeInv, Release
<1>15. ASSUME NEW o \in Ops, Crash(o) PROVE TimeInv'
  BY <1>3, <1>5, <1>15 DEF TimeInv, Crash, row
<1>16. CASE UNCHANGED vars
  BY <1>16 DEF vars, TimeInv
<1>17. QED
  BY <1>6, <1>7, <1>8, <1>9, <1>10, <1>11, <1>12, <1>13, <1>14, <1>15, <1>16 DEF Next

-----------------------------------------------------------------------------
(* What the steps do, field by field. *)

LEMMA HoldEffect ==
    ASSUME TimeInv, NEW o \in Ops, NEW id \in Nat, Hold(o, id)
    PROVE  /\ pc'[o] = "held" /\ Only(o) /\ op'[o].id = id /\ op'[o].now = op[o].now
           /\ op'[o].renewing /\ op'[o].fails = 0 /\ op'[o].due = clock + RenewInterval
<1>1. op[o] \in Locals
  BY DEF TimeInv
<1>2. op'[o] = [op[o] EXCEPT !.id = id, !.renewing = TRUE, !.fails = 0,
                             !.due = clock + RenewInterval]
  BY DEF Hold, TimeInv
<1>3. pc'[o] = "held" /\ Only(o)
  BY DEF Hold, Goto, TimeInv, Only
<1>4. QED
  BY <1>1, <1>2, <1>3 DEF Locals

\* Acquire gets the lock only if nobody has it, or if its lock is over.
LEMMA ClaimEffect ==
    ASSUME TimeInv, NEW o \in Ops, Create(o) \/ Reclaim(o)
    PROVE  /\ clock' = clock /\ Only(o) /\ pc[o] \in Claiming
           /\ \/ /\ pc'[o] = "held" /\ op'[o].now = op[o].now /\ op'[o].id = rec'.id
                 /\ op'[o].renewing /\ op'[o].fails = 0 /\ op'[o].due = clock + RenewInterval
                 /\ rec'.status = "processing" /\ rec'.fp \in {rec.fp, OpId[o]}
                 /\ \/ rec'.fp = OpId[o] \/ rec.status # "none"
                    \/ pc[o] = "reclaim" /\ op[o].from = "none"
                 /\ rec'.locked = op[o].now + Lease /\ rec'.expires = op[o].now + TTL
                 /\ rec.status = "none" \/ rec.locked <= op[o].now
              \/ pc'[o] \in {"get", "idle"} /\ op'[o] = op[o] /\ rec' = rec
<1>0. rec \in Rows /\ lastId + 1 \in Nat /\ op[o].id \in Nat
  BY DEF TimeInv, Locals
<1>a. clock' = clock /\ pc[o] \in Claiming
  BY DEF Create, Reclaim, At, Claiming
<1>1. CASE CreateProcessing(OpId[o], op[o].now + Lease, op[o].now + TTL) /\ Hold(o, lastId + 1)
  BY <1>0, <1>a, <1>1, HoldEffect DEF CreateProcessing
<1>2. CASE /\ TryReclaim(op[o].id, op[o].from, op[o].now, op[o].now + Lease, op[o].now + TTL)
           /\ Hold(o, op[o].id) /\ At(o, "reclaim")
  <2>1. rec.id = op[o].id /\ rec.locked <= op[o].now
    BY <1>2 DEF TryReclaim, Reclaims
  <2>2. /\ rec'.id = rec.id /\ rec'.fp = rec.fp /\ rec'.status = "processing"
        /\ rec'.locked = op[o].now + Lease /\ rec'.expires = op[o].now + TTL
    BY <1>0, <1>2 DEF TryReclaim, Rows
  <2>3. pc[o] = "reclaim" /\ op[o].from = rec.status
    BY <1>2 DEF TryReclaim, Reclaims, At
  <2>4. QED
    BY <1>0, <1>a, <1>2, <2>1, <2>2, <2>3, HoldEffect
<1>3. CASE (Goto(o, "get") \/ Goto(o, "idle")) /\ UNCHANGED <<row, op>>
  BY <1>a, <1>3 DEF Goto, row, TimeInv, Only
<1>4. QED
  BY <1>1, <1>2, <1>3 DEF Create, Reclaim

\* renewLoop leaves the ids alone and shortens no lock.
LEMMA RenewEffect ==
    ASSUME TimeInv, NEW o \in Ops, Renew(o)
    PROVE  /\ clock' = clock /\ pc' = pc /\ Only(o)
           /\ op'[o].now = op[o].now /\ op'[o].id = op[o].id /\ op'[o].from = op[o].from
           /\ \/ rec' = rec
              \/ /\ rec'.id = rec.id /\ rec'.status = rec.status /\ rec'.fp = rec.fp
                 /\ rec'.locked = clock + Lease /\ rec'.expires = clock + TTL
<1>1. op[o] \in Locals /\ rec \in Rows
  BY DEF TimeInv
<1>2. clock' = clock /\ pc' = pc /\ Only(o)
  BY DEF Renew, Only, TimeInv
<1>3. op'[o].now = op[o].now /\ op'[o].id = op[o].id /\ op'[o].from = op[o].from
  <2>1. \/ op'[o] = [op[o] EXCEPT !.due = clock + RenewInterval, !.fails = 0]
        \/ op'[o] = [op[o] EXCEPT !.renewing = FALSE]
        \/ op'[o] = [op[o] EXCEPT !.due = clock + RenewInterval, !.fails = op[o].fails + 1]
    BY DEF Renew, TimeInv
  <2>2. QED
    BY <1>1, <2>1 DEF Locals
<1>4. \/ rec' = rec
      \/ rec' = [rec EXCEPT !.locked = clock + Lease, !.expires = clock + TTL]
  BY DEF Renew, ExtendProcessingLock, row
<1>5. QED
  BY <1>1, <1>2, <1>3, <1>4 DEF Rows

\* The other steps of an operation never hand out the lock.
LEMMA LocalEffect ==
    ASSUME TimeInv, NEW o \in Ops, Acquire(o) \/ GetExisting(o) \/ StopRenew(o) \/ Crash(o)
    PROVE  /\ clock' = clock /\ rec' = rec /\ Only(o)
           /\ pc'[o] # "held"
           /\ pc'[o] \in Claiming =>
                 \/ pc'[o] = "create" /\ op'[o].now = clock
                 \/ /\ pc[o] \in Claiming /\ op'[o].now = op[o].now
                    /\ pc'[o] = "reclaim" =>
                          \/ op'[o].from # "none"
                          \/ pc[o] = "reclaim" /\ op'[o].from = op[o].from
<1>1. op[o] \in Locals /\ rec \in Rows
  BY DEF TimeInv
<1>2. CASE Acquire(o)
  <2>1. op'[o] = NewOp(clock) /\ \A p \in Ops : p # o => op'[p] = op[p]
    BY <1>2 DEF Acquire, TimeInv
  <2>2. NewOp(clock).now = clock
    BY DEF NewOp
  <2>3. QED
    BY <1>2, <2>1, <2>2 DEF Acquire, Only, Goto, row, TimeInv
<1>3. CASE GetExisting(o)
  <2>1. CASE Busy(o)
    BY <1>3, <2>1 DEF GetExisting, Only, Goto, row, TimeInv, Claiming
  <2>2. CASE ~Busy(o)
    <3>1. op' = [op EXCEPT ![o] = [@ EXCEPT !.id = rec.id, !.from = rec.status]]
      BY <1>3, <2>2 DEF GetExisting
    <3>2. op'[o].from = rec.status /\ rec.status # "none" /\ op'[o].now = op[o].now
      BY <1>1, <2>2, <3>1 DEF TimeInv, Locals, Busy
    <3>3. \A p \in Ops : p # o => op'[p] = op[p]
      BY <3>1 DEF TimeInv
    <3>4. clock' = clock /\ rec' = rec /\ pc[o] = "get" /\ pc' = [pc EXCEPT ![o] = "reclaim"]
      BY <1>3, <2>2 DEF GetExisting, Goto, row, At
    <3>5. pc'[o] = "reclaim" /\ \A p \in Ops : p # o => pc'[p] = pc[p]
      BY <3>4 DEF TimeInv
    <3>6. Only(o) /\ pc[o] \in Claiming
      BY <3>3, <3>4, <3>5 DEF Only, Claiming
    <3>7. op'[o].from # "none" /\ clock' = clock /\ rec' = rec /\ pc'[o] # "held"
      BY <3>2, <3>4, <3>5
    <3>8. QED
      BY <3>2, <3>6, <3>7
  <2>3. QED
    BY <2>1, <2>2
<1>4. CASE StopRenew(o) \/ Crash(o)
  <2>1. /\ op'[o].from = op[o].from /\ op'[o].now = op[o].now
        /\ \A p \in Ops : p # o => op'[p] = op[p]
    BY <1>1, <1>4 DEF StopRenew, Crash, TimeInv, Locals
  <2>2. QED
    BY <1>4, <2>1 DEF StopRenew, Crash, Only, Goto, row, TimeInv, Claiming
<1>5. QED
  BY <1>2, <1>3, <1>4

LEMMA ClaimStep == TimeInv /\ ClaimInv /\ [Next]_vars => ClaimInv'
<1> SUFFICES ASSUME TimeInv, ClaimInv, [Next]_vars PROVE ClaimInv'
  OBVIOUS
<1>0. /\ pc \in [Ops -> Claiming \cup {"idle", "held"}] /\ clock \in Nat /\ MaxClaim \in Nat
      /\ \A o \in Ops : op[o].now \in Nat /\ op[o].now <= clock
  BY LeaseAssumption DEF TimeInv, Times, Locals
<1> USE <1>0 DEF ClaimInv
<1>1. CASE Cleanup
  BY <1>1 DEF Cleanup
<1>2. CASE Tick
  BY <1>2 DEF Tick, row
<1>3. ASSUME NEW o \in Ops, Create(o) \/ Reclaim(o) PROVE ClaimInv'
  BY <1>3, ClaimEffect DEF Only, Claiming
<1>4. ASSUME NEW o \in Ops, Renew(o) PROVE ClaimInv'
  BY <1>4, RenewEffect DEF Only
<1>5. ASSUME NEW o \in Ops, Acquire(o) \/ GetExisting(o) \/ StopRenew(o) \/ Crash(o)
      PROVE  ClaimInv'
  BY <1>5, LocalEffect DEF Only, Claiming
<1>6. ASSUME NEW o \in Ops, Release(o) PROVE ClaimInv'
  BY <1>6 DEF Release, Goto, Claiming
<1>7. CASE UNCHANGED vars
  BY <1>7 DEF vars
<1>8. QED
  BY <1>1, <1>2, <1>3, <1>4, <1>5, <1>6, <1>7 DEF Next

-----------------------------------------------------------------------------
(* The lock is exclusive as long as no holder's lease runs out. *)

Live == \A o \in Ops : At(o, "held") => rec.locked > clock

LEMMA OwnerStep == TimeInv /\ OwnerInv /\ Live /\ [Next]_vars => OwnerInv'
<1> SUFFICES ASSUME TimeInv, OwnerInv, Live, [Next]_vars PROVE OwnerInv'
  OBVIOUS
<1>0. /\ rec \in Rows /\ pc \in [Ops -> Claiming \cup {"idle", "held"}]
      /\ clock \in Nat /\ rec.locked \in Nat /\ rec.expires \in Nat
      /\ Lease \in Nat /\ TTL \in Nat /\ Lease <= TTL
      /\ \A o \in Ops : op[o].now \in Nat /\ op[o].now <= clock
  BY LeaseAssumption DEF TimeInv, Rows, Times, Locals
<1> USE <1>0 DEF OwnerInv, Live, Exclusive, At
<1>1. CASE Cleanup
  BY <1>1 DEF Cleanup, DeleteExpired, NoRow
<1>2. CASE Tick
  BY <1>2 DEF Tick, row
<1>3. ASSUME NEW o \in Ops, Create(o) \/ Reclaim(o) PROVE OwnerInv'
  BY <1>3, ClaimEffect DEF Only
<1>4. ASSUME NEW o \in Ops, Renew(o) PROVE OwnerInv'
  BY <1>4, RenewEffect DEF Only
<1>5. ASSUME NEW o \in Ops, Acquire(o) \/ GetExisting(o) \/ StopRenew(o) \/ Crash(o)
      PROVE  OwnerInv'
  BY <1>5, LocalEffect DEF Only
<1>6. ASSUME NEW o \in Ops, Release(o) PROVE OwnerInv'
  <2>1. \A p \in Ops : pc'[p] # "held"
    BY <1>6 DEF Release, Goto
  <2>2. rec'.locked <= rec'.expires
    <3>1. rec.id = op[o].id
      BY <1>6 DEF Release
    <3>2. CASE MarkSucceeded(op[o].id, OpId[o], clock + TTL)
      BY <3>1, <3>2 DEF MarkSucceeded, Rows
    <3>3. CASE MarkFailedRetryable(op[o].id, clock, clock + TTL)
      BY <3>1, <3>3 DEF MarkFailedRetryable, Rows
    <3>4. QED
      BY <1>6, <3>2, <3>3 DEF Release
  <2>3. QED
    BY <2>1, <2>2
<1>7. CASE UNCHANGED vars
  BY <1>7 DEF vars
<1>8. QED
  BY <1>1, <1>2, <1>3, <1>4, <1>5, <1>6, <1>7 DEF Next

-----------------------------------------------------------------------------
(* The lease of a holder does not run out. *)

LEMMA SlackFacts ==
    ASSUME NEW m \in Nat, NEW f \in 0 .. m, NEW r \in Nat
    PROVE  /\ (m - f) * r \in Nat /\ (m - f) * r <= m * r
           /\ f < m => (m - (f + 1)) * r = (m - f) * r - r
  BY SMTT(30)

LEMMA HoldLive == TimeInv /\ HoldInv => Live
<1> SUFFICES ASSUME TimeInv, HoldInv, NEW o \in Ops, At(o, "held") PROVE rec.locked > clock
  BY DEF Live
<1>1. /\ op[o].due \in Nat /\ rec.locked \in Nat /\ clock \in Nat /\ op[o].now \in Nat
      /\ op[o].fails \in 0 .. MaxFails /\ MaxFails \in Nat /\ RenewInterval \in Nat /\ Lease \in Nat
  BY LeaseAssumption DEF TimeInv, Rows, Locals, Times
<1>2. Slack(o) \in Nat
  BY <1>1, SlackFacts DEF Slack
<1>3. QED
  BY <1>1, <1>2 DEF HoldInv, RenewedInv, FirstLeaseInv

\* A round of the holder's own renewLoop on a record with its id.
LEMMA RenewHeld ==
    ASSUME TimeInv, OwnerInv, HoldInv, NEW o \in Ops, Renew(o), At(o, "held"), rec.fp = OpId[o]
    PROVE  /\ op'[o].renewing /\ op'[o].due = clock + RenewInterval
           /\ op'[o].due + Slack(o)' < rec'.locked
<1>1. /\ op[o] \in Locals /\ rec \in Rows /\ clock \in Nat /\ op[o].due \in Nat
      /\ op[o].fails \in 0 .. MaxFails /\ MaxFails \in Nat /\ RenewInterval \in Nat
      /\ Lease \in Nat /\ MaxClaim \in Nat /\ rec.locked \in Nat
  BY LeaseAssumption DEF TimeInv, Rows, Locals, Times
<1>2. clock = op[o].due /\ op[o].renewing
  BY <1>1 DEF HoldInv, RenewedInv, Renew
<1>3. Extends(op[o].id, OpId[o])
  BY DEF Extends, OwnerInv
<1>4. CASE /\ ExtendProcessingLock(op[o].id, OpId[o], clock + Lease, clock + TTL)
           /\ op' = [op EXCEPT ![o] = [@ EXCEPT !.due = clock + RenewInterval, !.fails = 0]]
  <2>1. op'[o].renewing /\ op'[o].due = clock + RenewInterval /\ op'[o].fails = 0
    BY <1>1, <1>2, <1>4 DEF TimeInv, Locals
  <2>2. rec'.locked = clock + Lease
    BY <1>1, <1>4 DEF ExtendProcessingLock, Rows
  <2>3. Slack(o)' = MaxFails * RenewInterval
    BY <1>1, <2>1 DEF Slack
  <2>4. MaxFails * RenewInterval \in Nat /\ RenewInterval + MaxFails * RenewInterval < Lease
    BY <1>1, LeaseAssumption, SMTT(30)
  <2>5. QED
    BY <1>1, <2>1, <2>2, <2>3, <2>4
<1>5. CASE /\ op[o].fails < MaxFails
           /\ op' = [op EXCEPT ![o] = [@ EXCEPT !.due = clock + RenewInterval,
                                                !.fails = op[o].fails + 1]]
           /\ UNCHANGED row
  <2>1. /\ op'[o].renewing /\ op'[o].due = clock + RenewInterval
        /\ op'[o].fails = op[o].fails + 1
    BY <1>1, <1>2, <1>5 DEF TimeInv, Locals
  <2>2. Slack(o)' = Slack(o) - RenewInterval /\ Slack(o) \in Nat
    BY <1>1, <1>5, <2>1, SlackFacts DEF Slack
  <2>3. QED
    BY <1>1, <1>2, <1>5, <2>1, <2>2 DEF HoldInv, RenewedInv, row
<1>6. QED
  BY <1>3, <1>4, <1>5 DEF Renew

\* What a holder knows, step by step.
LEMMA HoldStep ==
    TimeInv /\ ClaimInv /\ OwnerInv /\ HoldInv /\ [Next]_vars => foreign' \/ HoldInv'
<1> SUFFICES ASSUME TimeInv, ClaimInv, OwnerInv, HoldInv, [Next]_vars, ~foreign' PROVE HoldInv'
  OBVIOUS
<1>0. /\ clock \in Nat /\ rec.locked \in Nat /\ MaxClaim \in Nat /\ MaxFails \in Nat
      /\ Lease \in Nat /\ RenewInterval \in Nat
      /\ \A o \in Ops : /\ op[o].now \in Nat /\ op[o].now <= clock /\ op[o].due \in Nat
                        /\ op[o].fails \in 0 .. MaxFails
      /\ pc \in [Ops -> Claiming \cup {"idle", "held"}] /\ rec \in Rows
  BY LeaseAssumption DEF TimeInv, Rows, Times, Locals
<1>a. /\ MaxFails * RenewInterval \in Nat
      /\ MaxClaim + RenewInterval + MaxFails * RenewInterval < Lease
  BY <1>0, LeaseAssumption, SMTT(30)
<1>b. \A o \in Ops : Slack(o) \in Nat /\ Slack(o) <= MaxFails * RenewInterval
  BY <1>0, SlackFacts DEF Slack
<1> USE <1>0 DEF HoldInv, RenewedInv, FirstLeaseInv, OwnerInv, At
<1>1. CASE Cleanup
  <2>1. CASE \E o \in Ops : pc[o] = "held"
    <3>1. rec.expires > clock /\ rec.expires \in Nat
      BY <2>1, HoldLive DEF Live, Rows, Times
    <3>2. QED
      BY <1>1, <3>1 DEF Cleanup, DeleteExpired, Slack
  <2>2. CASE ~ \E o \in Ops : pc[o] = "held"
    BY <1>1, <2>2 DEF Cleanup
  <2>3. QED
    BY <2>1, <2>2
<1>2. CASE Tick
  <2>1. ASSUME NEW o \in Ops, pc[o] = "held" PROVE rec.fp # OpId[o] => clock + 1 < op[o].now + Lease
    <3>1. ~Outlives(o, clock + 1)
      BY <1>2, Zenon DEF Tick
    <3>2. QED
      BY <2>1, <3>1 DEF Outlives
  <2>2. QED
    BY <1>2, <2>1 DEF Tick, row, Slack
<1>3. ASSUME NEW o \in Ops, Create(o) \/ Reclaim(o) PROVE HoldInv'
  <2>1. CASE pc'[o] = "held"
    <3>1. \A p \in Ops : pc'[p] = "held" => p = o
      BY <1>3, <2>1, ClaimEffect, HoldLive DEF Only, Live
    <3>2. Slack(o)' = MaxFails * RenewInterval
      BY <1>3, <2>1, ClaimEffect DEF Slack
    <3>3. rec'.locked >= clock + Lease - MaxClaim /\ clock < op[o].now + Lease
      BY <1>3, <1>a, <2>1, ClaimEffect DEF ClaimInv
    <3>5. QED
      BY <1>3, <1>a, <2>1, <3>1, <3>2, <3>3, ClaimEffect
  <2>2. CASE pc'[o] # "held"
    BY <1>3, <2>2, ClaimEffect DEF Only, Slack
  <2>3. QED
    BY <2>1, <2>2
<1>4. ASSUME NEW o \in Ops, Renew(o) PROVE HoldInv'
  <2>0. rec'.fp = rec.fp /\ clock' = clock /\ pc' = pc /\ (rec' = rec \/ rec'.locked = clock + Lease)
    BY <1>4, RenewEffect
  <2>1. ASSUME At(o, "held"), rec.fp = OpId[o] PROVE HoldInv'
    BY <1>4, <2>0, <2>1, RenewEffect, RenewHeld DEF Only, Exclusive
  <2>2. ASSUME At(o, "held"), rec.fp # OpId[o] PROVE HoldInv'
    BY <1>4, <2>0, <2>2, RenewEffect DEF Only, Exclusive
  <2>3. ASSUME ~At(o, "held") PROVE HoldInv'
    <3>1. ASSUME NEW p \in Ops, pc'[p] = "held"
          PROVE  (rec'.fp = OpId[p] => RenewedInv(p)') /\ (rec'.fp # OpId[p] => FirstLeaseInv(p)')
      <4>1. p # o /\ op'[p] = op[p] /\ Slack(p)' = Slack(p) /\ clock' = clock /\ pc[p] = "held"
        BY <1>4, <2>0, <2>3, <3>1, RenewEffect DEF Only, Slack
      <4>2. CASE rec.fp = OpId[p]
        <5>1. op[p].due + Slack(p) < clock + Lease
          BY <1>a, <1>b, <4>1, <4>2
        <5>2. QED
          BY <2>0, <4>1, <4>2, <5>1
      <4>3. CASE rec.fp # OpId[p]
        BY <2>0, <4>1, <4>3
      <4>4. QED
        BY <4>2, <4>3
    <3>2. QED
      BY <3>1
  <2>4. QED
    BY <2>1, <2>2, <2>3
<1>5. ASSUME NEW o \in Ops, Acquire(o) \/ GetExisting(o) \/ StopRenew(o) \/ Crash(o)
      PROVE  HoldInv'
  BY <1>5, LocalEffect DEF Only, Slack
<1>6. ASSUME NEW o \in Ops, Release(o) PROVE HoldInv'
  BY <1>6 DEF Release, Goto, Exclusive
<1>7. CASE UNCHANGED vars
  BY <1>7 DEF vars, Slack
<1>8. QED
  BY <1>1, <1>2, <1>3, <1>4, <1>5, <1>6, <1>7 DEF Next

\* Nobody forgets that an operation outlasted its lease; none does if all are short.
LEMMA ForeignStep ==
    TimeInv /\ [Next]_vars => (foreign => foreign') /\ (Short /\ foreign' => foreign)
<1> SUFFICES ASSUME TimeInv, [Next]_vars
             PROVE  (foreign => foreign') /\ (Short /\ foreign' => foreign)
  OBVIOUS
<1>1. CASE Tick
  <2>1. ASSUME Short, NEW o \in Ops PROVE ~Outlives(o, clock + 1)
    <3>1. op[o].now \in Nat /\ clock \in Nat /\ Lease \in Nat /\ MaxHold \in Nat
      BY LeaseAssumption DEF TimeInv, Locals, Times
    <3>2. At(o, "held") => clock < op[o].now + MaxHold
      BY <1>1 DEF Tick
    <3>3. QED
      BY <2>1, <3>1, <3>2 DEF Outlives, Short
  <2>2. QED
    BY <1>1, <2>1 DEF Tick
<1>2. CASE ~Tick
  <2>1. foreign' = foreign
    BY <1>2 DEF Next, vars, Cleanup, Acquire, Create, GetExisting, Reclaim, Renew, StopRenew, Release, Crash
  <2>2. QED
    BY <2>1
<1>3. QED
  BY <1>1, <1>2

-----------------------------------------------------------------------------
LEMMA Invariance == Spec => [](TimeInv /\ ClaimInv /\ LockInv)
<1>1. TimeInv /\ ClaimInv /\ LockInv /\ [Next]_vars => LockInv'
  BY OwnerStep, HoldStep, HoldLive, ForeignStep DEF LockInv
<1>2. QED
  BY <1>1, InitInv, TimeStep, ClaimStep, PTL DEF Spec

\* Type correctness of the record, the clock and the operations.
THEOREM TypeCorrect == Spec => []TypeOK
<1>1. TimeInv => TypeOK
  BY DEF TimeInv, TypeOK, Rows, Locals
<1>2. QED
  BY <1>1, Invariance, PTL

\* Whatever the ids and however long operations run: two run at once only after one has
\* outlasted its lease on a record that carries another id.
THEOREM LockIsExclusiveThm == Spec => []LockIsExclusive
<1>1. LockInv => LockIsExclusive
  BY DEF LockInv, OwnerInv, LockIsExclusive
<1>2. QED
  BY <1>1, Invariance, PTL

\* Until then renewLoop keeps the holder's lease, although some of its rounds err, holders
\* die and releases come late.
THEOREM HeldIsRenewedThm == Spec => []HeldIsRenewed
<1>1. TimeInv /\ LockInv => HeldIsRenewed
  BY HoldLive DEF LockInv, OwnerInv, Live, HeldIsRenewed
<1>2. QED
  BY <1>1, Invariance, PTL

\* Operations that end within one lease exclude one another for good, whatever their ids.
THEOREM ShortLockIsExclusive == ASSUME Short PROVE Spec => []Exclusive
<1>1. Init => ~foreign
  BY DEF Init
<1>2. TimeInv /\ ~foreign /\ [Next]_vars => ~foreign'
  BY ForeignStep
<1>3. LockInv /\ ~foreign => Exclusive
  BY DEF LockInv, OwnerInv
<1>4. QED
  BY <1>1, <1>2, <1>3, Invariance, PTL DEF Spec
=============================================================================
