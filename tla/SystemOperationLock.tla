------------------------- MODULE SystemOperationLock -------------------------
(***************************************************************************)
(* SystemOperationLockService: update, rollback and restart of the server  *)
(* are serialised by one idempotency record, used as a lease that a        *)
(* goroutine of the holder renews.                                         *)
(***************************************************************************)
EXTENDS IdempotencyStore

CONSTANTS
    Ops,            \* system operations that may run at the same time
    OpId,           \* the operation id of each of them
    Lease,          \* how long the lock lasts without renewal
    RenewInterval,  \* period of the renewal
    TTL,            \* how long the record is kept
    MaxClaim,       \* bound: no Acquire lasts longer
    MaxHold,        \* bound: no operation ends later than this after its Acquire began
    MaxFails,       \* bound: how many renewals in a row may err
    MaxTime         \* bound: the clock stops there

ASSUME LeaseAssumption ==
    /\ OpId \in [Ops -> Fingerprints] /\ "none" \notin Fingerprints
    /\ {Lease, RenewInterval, TTL} \subseteq Nat \ {0}
    /\ {MaxClaim, MaxHold, MaxFails, MaxTime} \subseteq Nat
    /\ MaxClaim + (MaxFails + 1) * RenewInterval < Lease /\ Lease <= TTL
    /\ MaxClaim <= MaxHold

VARIABLES
    clock,   \* wall clock time
    pc, op,  \* per operation: next statement; what Acquire and renewLoop hold
    foreign  \* history: an operation ran for a whole lease on a record of another id

vars == <<rec, lastId, clock, pc, op, foreign>>
row  == <<rec, lastId>>

Claiming == {"create", "get", "reclaim"}
Times    == 0 .. (MaxTime + TTL)

\* The row, the clock and the operations have their types.
TypeOK ==
    /\ rec \in [id: Nat, fp: Fingerprints \cup {"none"}, status: Statuses, locked: Times,
                expires: Times, body: Fingerprints \cup {"none"}]
    /\ lastId \in Nat /\ clock \in 0 .. MaxTime /\ foreign \in BOOLEAN
    /\ pc \in [Ops -> Claiming \cup {"idle", "held"}]
    /\ op \in [Ops -> [now: Times, id: Nat, from: Statuses, renewing: BOOLEAN, due: Times,
                       fails: 0 .. MaxFails]]

NewOp(t) ==
    [now |-> t, id |-> 0, from |-> "none", renewing |-> FALSE, due |-> 0, fails |-> 0]

Init ==
    /\ rec = NoRow /\ lastId = 0 /\ clock = 0
    /\ pc = [o \in Ops |-> "idle"] /\ op = [o \in Ops |-> NewOp(0)] /\ foreign = FALSE

-----------------------------------------------------------------------------
At(o, l) == pc[o] = l

Goto(o, l) == pc' = [pc EXCEPT ![o] = l]

\* Acquire reads the clock.
Acquire(o) ==
    /\ At(o, "idle") /\ ~op[o].renewing
    /\ op' = [op EXCEPT ![o] = NewOp(clock)] /\ Goto(o, "create")
    /\ UNCHANGED <<row, clock, foreign>>

\* Acquire returns the lock and starts renewLoop.
Hold(o, id) ==
    /\ op' = [op EXCEPT ![o] = [@ EXCEPT !.id = id, !.renewing = TRUE, !.fails = 0,
                                         !.due = clock + RenewInterval]]
    /\ Goto(o, "held")

\* Acquire's CreateProcessing.
Create(o) ==
    /\ At(o, "create")
    /\ \/ CreateProcessing(OpId[o], op[o].now + Lease, op[o].now + TTL) /\ Hold(o, lastId + 1)
       \/ rec.status # "none" /\ Goto(o, "get") /\ UNCHANGED <<row, op>>
    /\ UNCHANGED <<clock, foreign>>

\* The record is gone, or its holder's lock still lasts.
Busy(o) == rec.status = "none" \/ (rec.status = "processing" /\ rec.locked > op[o].now)

\* Acquire's read of the record it found.
GetExisting(o) ==
    /\ At(o, "get")
    /\ \/ Busy(o) /\ Goto(o, "idle") /\ UNCHANGED op
       \/ /\ ~Busy(o) /\ Goto(o, "reclaim")
          /\ op' = [op EXCEPT ![o] = [@ EXCEPT !.id = rec.id, !.from = rec.status]]
    /\ UNCHANGED <<row, clock, foreign>>

\* Acquire's TryReclaim.
Reclaim(o) ==
    /\ At(o, "reclaim")
    /\ \/ /\ TryReclaim(op[o].id, op[o].from, op[o].now, op[o].now + Lease, op[o].now + TTL)
          /\ Hold(o, op[o].id)
       \/ /\ ~Reclaims(op[o].id, op[o].from, op[o].now)
          /\ Goto(o, "idle") /\ UNCHANGED <<row, op>>
    /\ UNCHANGED <<clock, foreign>>

\* One round of renewLoop: the lock is extended, the loop ends because the record is
\* not this operation's, or the store errs and the loop goes on.  The loop may be in
\* its last round when the lock is released.
Renew(o) ==
    /\ op[o].renewing /\ clock >= op[o].due
    /\ \/ /\ ExtendProcessingLock(op[o].id, OpId[o], clock + Lease, clock + TTL)
          /\ op' = [op EXCEPT ![o] = [@ EXCEPT !.due = clock + RenewInterval, !.fails = 0]]
       \/ /\ ~Extends(op[o].id, OpId[o])
          /\ op' = [op EXCEPT ![o].renewing = FALSE] /\ UNCHANGED row
       \/ /\ op[o].fails < MaxFails
          /\ op' = [op EXCEPT ![o] = [@ EXCEPT !.due = clock + RenewInterval,
                                                    !.fails = op[o].fails + 1]]
          /\ UNCHANGED row
    /\ UNCHANGED <<clock, pc, foreign>>

\* renewLoop sees the closed channel.
StopRenew(o) ==
    /\ op[o].renewing /\ pc[o] # "held"
    /\ op' = [op EXCEPT ![o].renewing = FALSE] /\ UNCHANGED <<row, clock, pc, foreign>>

\* Release after success or failure of the operation.
Release(o) ==
    /\ At(o, "held") /\ Goto(o, "idle")
    /\ \/ MarkSucceeded(op[o].id, OpId[o], clock + TTL)
       \/ MarkFailedRetryable(op[o].id, clock, clock + TTL)
    /\ UNCHANGED <<clock, op, foreign>>

\* The process dies, or Release's write errs, which its caller ignores.
Crash(o) ==
    /\ pc[o] # "idle" /\ Goto(o, "idle")
    /\ op' = [op EXCEPT ![o].renewing = FALSE] /\ UNCHANGED <<row, clock, foreign>>

\* IdempotencyCleanupService.cleanupOnce.
Cleanup == DeleteExpired(clock) /\ UNCHANGED <<clock, pc, op, foreign>>

\* TryReclaim leaves the record's fingerprint, and ExtendProcessingLock asks for it: an
\* operation with an id of its own (buildSystemOperationID) keeps its first lease only.
Outlives(o, t) == At(o, "held") /\ rec.fp # OpId[o] /\ t >= op[o].now + Lease

\* Time passes; a renewal that is due runs first, and neither an Acquire nor an
\* operation lasts too long.
Tick ==
    /\ clock < MaxTime
    /\ \A o \in Ops : /\ op[o].renewing => clock < op[o].due
                      /\ pc[o] \in Claiming => clock < op[o].now + MaxClaim
                      /\ At(o, "held") => clock < op[o].now + MaxHold
    /\ clock' = clock + 1 /\ foreign' = (foreign \/ \E o \in Ops : Outlives(o, clock + 1))
    /\ UNCHANGED <<row, pc, op>>

Next ==
    \/ Cleanup \/ Tick
    \/ \E o \in Ops : \/ Acquire(o) \/ Create(o) \/ GetExisting(o) \/ Reclaim(o)
                      \/ Renew(o) \/ StopRenew(o) \/ Release(o) \/ Crash(o)

Spec == Init /\ [][Next]_vars

-----------------------------------------------------------------------------
(* Properties. *)

\* "The swap keeps running after a client disconnect; a later retry then hits the system
\* operation lock" (system_handler.go:36): two system operations never run at once.
Exclusive == \A o, p \in Ops : At(o, "held") /\ At(p, "held") => o = p

\* Until an operation has run for a whole lease on the record of another id, two never run
\* at once, however long those run whose id the record has, although the writes that
\* end one are guarded by the record's id only.
LockIsExclusive == foreign \/ Exclusive

\* "locked_until should be renewed while lock is held"
\* (system_operation_lock_service_test.go): until then the holder owns the record, and
\* its lease has not run out.
HeldIsRenewed ==
    foreign \/ \A o \in Ops : At(o, "held") =>
        rec.id = op[o].id /\ rec.status = "processing" /\ rec.locked > clock
=============================================================================
