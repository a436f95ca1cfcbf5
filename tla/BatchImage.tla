----------------------------- MODULE BatchImage -----------------------------
(***************************************************************************)
(* ONE batch image job of one user: the Submit request, the user's cancels *)
(* and resubmissions, the recovery scan, and the workers that take the job *)
(* from the Redis queue, poll the provider, index the output and settle    *)
(* the money that Submit froze.  Every step is one SQL transaction, one    *)
(* Redis script or one provider call; the actors interleave between them.  *)
(*                                                                         *)
(* Abstracted: of the user's balance only what this job took is kept, so   *)
(* that "insufficient" may come at any time; of the indexed items only     *)
(* what they cost (every reading of one output gives the same items);      *)
(* TooMuch stands for all that Settle refuses as often as it looks: a cost *)
(* above the hold, counts that do not add up, an output without a price.   *)
(***************************************************************************)
EXTENDS Integers, FiniteSets

CONSTANTS
    Workers,      \* goroutines running BatchImageWorker.Run
    Callers,      \* requests of the owner: Cancel, or Submit with a known key
    Hold,         \* hold_amount of the job
    OtherFrozen,  \* what the user's other batches have frozen
    MaxRetries,   \* batchImageSettlementMaxRetries
    FaultKinds,   \* which faults of AllFaults may happen
    MaxFaults,    \* bound: how many faults a behaviour contains
    MaxCalls      \* bound: how many calls the Callers make

AllFaults == {"crash", "stall", "slow", "billing", "store", "redis", "provider", "early"}
Unknown   == -1         \* the cost of an output nobody has read yet
TooMuch   == Hold + 1   \* the cost of an output that cannot be settled
Requests  == Callers \cup {"submit", "recover"}
Actors    == Workers \cup Requests

ASSUME HoldAssumption == Hold \in Nat \ {0} /\ OtherFrozen \in Nat
ASSUME BatchAssumption ==
    /\ FaultKinds \subseteq AllFaults /\ {MaxFaults, MaxCalls} \subseteq Nat
    /\ MaxRetries \in Nat \ {0}
    /\ Workers \cap Requests = {} /\ Callers \cap {"submit", "recover"} = {}
    /\ {"none", "dead"} \cap Workers = {}

VARIABLES
    status,    \* batch_image_jobs.status
    fresh,     \* updated_at is younger than the recovery's staleAfter
    retries,   \* batch_image_jobs.retry_count, up to MaxRetries
    cost,      \* success_count times the unit price, once the output was indexed
    claims,    \* usage_billing_dedup rows of the job's hold, capture and release
    taken,     \* what the job has taken from the user's balance, net
    frozen,    \* users.frozen_balance
    upstream,  \* the batch at the provider
    ready,     \* times the job is in the ready list
    queued,    \* of "delayed", "active", "inflight": where else the queue has it
    lock,      \* owner of the job lock
    stalled,   \* workers that stalled past their heartbeats
    overrun,   \* history: a living worker lost its lock
    pc,        \* per actor: next statement
    calls, faults  \* calls and faults left

job   == <<status, fresh, retries>>
money == <<claims, taken, frozen>>
queue == <<ready, queued, lock>>
rest  == <<stalled, overrun, calls>>
vars  == <<job, cost, money, upstream, queue, rest, pc, faults>>

Unsubmitted == {"created", "uploading"}
Terminal    == {"completed", "failed", "cancelled", "output_deleted"}
Submitted   == status \in {"submitted", "running", "indexing"}
Statuses    == Unsubmitted \cup Terminal
               \cup {"none", "submitted", "running", "indexing", "settling"}
Steps == {"idle", "done", "gaveUp", "reserve", "items", "upload", "upstream", "save", "abort",
          "enqueue", "relMark", "relOnly", "relFailed", "recFail", "recLost", "retry",
          "cancel", "stop", "release", "lock", "route", "process", "poll", "toRunning",
          "toIndexing", "toFailed", "toCancelled", "index", "toSettling", "settle",
          "capture", "mark", "record", "exRelease", "exRecord", "exFail", "recheck",
          "ack", "requeue", "unlock"}

\* The row, the money, the queue and the actors have their types.
TypeOK ==
    /\ status \in Statuses /\ fresh \in BOOLEAN /\ retries \in 0 .. MaxRetries
    /\ cost \in Unknown .. TooMuch /\ claims \subseteq {"hold", "capture", "release"}
    /\ taken \in Int /\ frozen \in Int
    /\ upstream \in {"none", "queued", "running", "succeeded", "failed", "cancelled"}
    /\ ready \in Nat /\ queued \subseteq {"delayed", "active", "inflight"}
    /\ lock \in Workers \cup {"none", "dead"} /\ stalled \subseteq Workers
    /\ overrun \in BOOLEAN /\ pc \in [Actors -> Steps]
    /\ calls \in Nat /\ faults \in Nat

Init ==
    /\ status = "none" /\ fresh = TRUE /\ retries = 0 /\ cost = Unknown
    /\ claims = {} /\ taken = 0 /\ frozen = OtherFrozen /\ upstream = "none"
    /\ ready = 0 /\ queued = {} /\ lock = "none" /\ stalled = {} /\ overrun = FALSE
    /\ pc = [a \in Actors |-> "idle"] /\ calls = MaxCalls /\ faults = MaxFaults

-----------------------------------------------------------------------------
(* Helpers. *)

At(a, l) == pc[a] = l

Goto(a, l) == pc' = [pc EXCEPT ![a] = l]

Fault(k) == k \in FaultKinds /\ faults > 0 /\ faults' = faults - 1

\* CanTransitionBatchImageJob.
CanTransition(from, to) ==
    /\ from \notin Terminal \cup {"none"}
    /\ CASE to = "failed"    -> TRUE
         [] to = "uploading" -> from = "created"
         [] to = "submitted" -> from \in Unsubmitted
         [] to = "cancelled" -> from \in Unsubmitted \cup {"submitted", "running"}
         [] to \in {"running", "indexing"} -> from \in {"submitted", "running"}
         [] to = "settling"  -> from = "indexing"
         [] OTHER -> FALSE

\* TransitionBatchImageJobStatus, under the row lock: s is written and a goes to ok,
\* the row does not allow it and a goes to no, or the transaction errs and a goes to
\* err, or to late when the commit went through all the same.
Transition(a, s, ok, no, err, late) ==
    /\ \/ /\ CanTransition(status, s) /\ status' = s /\ fresh' = TRUE
          /\ UNCHANGED retries
          /\ \/ Goto(a, ok) /\ UNCHANGED faults
             \/ Goto(a, late) /\ Fault("store")
       \/ ~CanTransition(status, s) /\ Goto(a, no) /\ UNCHANGED <<job, faults>>
       \/ Fault("store") /\ Goto(a, err) /\ UNCHANGED job
    /\ UNCHANGED <<cost, money, upstream, queue, rest>>

\* Enqueue's script: the inflight key admits one enqueuing until the job is acked.
Enqueue ==
    IF "inflight" \in queued
    THEN UNCHANGED <<ready, queued>>
    ELSE ready' = ready + 1 /\ queued' = queued \cup {"inflight"}

-----------------------------------------------------------------------------
(* The money: each operation claims its own request id and moves the balance *)
(* in one transaction; a claim that exists makes it a no-op.                 *)

\* reserveUsageBillingBatchImageBalance, with a balance that covers the hold.
ReserveTx ==
    claims' = claims \cup {"hold"} /\ taken' = taken + Hold /\ frozen' = frozen + Hold

\* Settle lets the cost pass, and the capture is new or the hold is there.
CanCapture == cost <= Hold /\ ("capture" \in claims \/ frozen >= Hold)

\* captureUsageBillingBatchImageBalance: the hold is spent, the rest given back.
CaptureTx ==
    IF "capture" \in claims
    THEN UNCHANGED money
    ELSE /\ claims' = claims \cup {"capture"}
         /\ taken' = taken - (Hold - cost) /\ frozen' = frozen - Hold

\* Mutant: the release id is not claimed, so that a release may be repeated.
ReleasesAgain == "hold" \in claims

\* The release is new and the hold was reserved once.
Releases == "release" \notin claims /\ "hold" \in claims

\* releaseUsageBillingBatchImageBalance; a job that never reserved only claims.
ReleaseTx ==
    /\ claims' = claims \cup {"release"}
    /\ IF Releases
       THEN taken' = taken - Hold /\ frozen' = frozen - Hold
       ELSE UNCHANGED <<taken, frozen>>

\* releaseBatchImageBalanceHold: it succeeds, is refused, or errs, before or after
\* its commit.
ReleaseHold(a, ok, err) ==
    /\ \/ /\ (Releases => frozen >= Hold) /\ ReleaseTx
          /\ \/ Goto(a, ok) /\ UNCHANGED faults
             \/ Goto(a, err) /\ Fault("billing")
       \/ Releases /\ frozen < Hold /\ Goto(a, err) /\ UNCHANGED <<money, faults>>
       \/ Fault("billing") /\ Goto(a, err) /\ UNCHANGED money
    /\ UNCHANGED <<job, cost, upstream, queue, rest>>

-----------------------------------------------------------------------------
(* The Submit request. *)

\* CreateBatchImageJob.
CreateJob ==
    /\ At("submit", "idle") /\ status = "none"
    /\ status' = "created" /\ fresh' = TRUE /\ Goto("submit", "reserve")
    /\ UNCHANGED <<retries, cost, money, upstream, queue, rest, faults>>

\* reserveBatchImageBalanceHold: the hold is frozen, the balance is too small, or
\* the transaction errs, before or after its commit.
ReserveHold ==
    /\ At("submit", "reserve")
    /\ \/ ReserveTx /\ Goto("submit", "items") /\ UNCHANGED faults
       \/ Goto("submit", "recFail") /\ UNCHANGED <<money, faults>>
       \/ ReserveTx /\ Goto("submit", "recLost") /\ Fault("billing")
    /\ UNCHANGED <<job, cost, upstream, queue, rest>>

\* createPendingItems.
CreateItems ==
    /\ At("submit", "items")
    /\ \/ Goto("submit", "upload") /\ UNCHANGED faults
       \/ Goto("submit", "relMark") /\ Fault("store")
    /\ UNCHANGED <<job, cost, money, upstream, queue, rest>>

\* The transition to uploading; a job that was cancelled meanwhile keeps its status.
StartUpload == At("submit", "upload")
               /\ Transition("submit", "uploading", "upstream", "relOnly", "relMark", "relMark")

\* provider.Submit, which may take minutes; runSubmitHeartbeat keeps updated_at fresh.
ProviderSubmit ==
    /\ At("submit", "upstream")
    /\ \/ upstream' = "queued" /\ Goto("submit", "save")
       \/ Goto("submit", "relMark") /\ UNCHANGED upstream
    /\ UNCHANGED <<job, cost, money, queue, rest, faults>>

\* Mutant: the row is written without looking at its status.
SaveProviderJobUnguarded ==
    /\ At("submit", "save") /\ status' = "submitted" /\ fresh' = TRUE
    /\ Goto("submit", "enqueue")
    /\ UNCHANGED <<retries, cost, money, upstream, queue, rest, faults>>

\* UpdateBatchImageJobProviderSubmit, under the row lock.
SaveProviderJob == At("submit", "save")
                   /\ Transition("submit", "submitted", "enqueue", "abort", "abort", "abort")

\* abortOrphanProviderJob: best effort.  A job that was saved although its transaction
\* reported an error is not queued.
AbortOrphan ==
    /\ At("submit", "abort") /\ Goto("submit", IF Submitted THEN "gaveUp" ELSE "done")
    /\ \/ upstream' = "cancelled" /\ UNCHANGED faults
       \/ UNCHANGED upstream /\ Fault("provider")
    /\ UNCHANGED <<job, cost, money, queue, rest>>

\* Submit's Enqueue, a caller's, and enqueueBillingRetry; a failed one is given up.
EnqueueJob(a) ==
    /\ pc[a] \in {"enqueue", "retry"}
    /\ \/ Enqueue /\ Goto(a, IF a \in Callers THEN "idle" ELSE "done") /\ UNCHANGED faults
       \/ Fault("redis") /\ Goto(a, "gaveUp") /\ UNCHANGED <<ready, queued>>
    /\ UNCHANGED <<job, cost, money, upstream, lock, rest>>

\* releaseFailedSubmitHold.
ReleaseFailedSubmit ==
    \/ At("submit", "relMark") /\ ReleaseHold("submit", "recFail", "relFailed")
    \/ At("submit", "relOnly") /\ ReleaseHold("submit", "done", "relFailed")

\* RecordBatchImageJobSubmitFailure with markFailed, guarded by the id only; its
\* error is ignored.
RecordSubmitFailure ==
    /\ \/ At("submit", "recFail") /\ Goto("submit", "done")
       \/ At("submit", "recLost") /\ Goto("submit", "gaveUp")
       \/ At("submit", "relFailed") /\ Goto("submit", "retry")
    /\ \/ status' = "failed" /\ fresh' = TRUE /\ UNCHANGED <<retries, faults>>
       \/ Fault("store") /\ UNCHANGED job
    /\ UNCHANGED <<cost, money, upstream, queue, rest>>

Submit == CreateJob \/ ReserveHold \/ CreateItems \/ StartUpload \/ ProviderSubmit
          \/ SaveProviderJob \/ AbortOrphan \/ EnqueueJob("submit")
          \/ ReleaseFailedSubmit \/ RecordSubmitFailure

-----------------------------------------------------------------------------
(* The owner's other requests, and the recovery scan. *)

\* Submit with the idempotency key of this job: a submitted job is queued again.
Resubmit(c) ==
    /\ At(c, "idle") /\ calls > 0 /\ calls' = calls - 1
    /\ status = "submitted" /\ Goto(c, "enqueue")
    /\ UNCHANGED <<job, cost, money, upstream, queue, stalled, overrun, faults>>

\* Between the insertion of the job and its hold; without "early" nobody else acts
\* on the job so soon.
TooEarly == At("submit", "reserve") /\ "early" \notin FaultKinds

\* Cancel's read of the job.
Cancel(c) ==
    /\ At(c, "idle") /\ calls > 0 /\ calls' = calls - 1
    /\ status # "none" /\ ~TooEarly
    /\ Goto(c, CASE status \in {"failed", "cancelled"} -> "release"
                 [] status \in {"settling", "completed", "output_deleted"} -> "idle"
                 [] status \in Unsubmitted -> "cancel"
                 [] OTHER -> "stop")
    /\ UNCHANGED <<job, cost, money, upstream, queue, stalled, overrun, faults>>

\* Cancel's transition of a job that has no provider job yet.
CancelUnsubmitted(c) == At(c, "cancel")
                        /\ Transition(c, "cancelled", "release", "idle", "idle", "gaveUp")

\* Cancel's provider.Cancel of a submitted job, which the worker will see.
CancelUpstream(c) ==
    /\ At(c, "stop")
    /\ \/ /\ Goto(c, "enqueue") /\ UNCHANGED faults
          /\ upstream' = IF upstream \in {"queued", "running"} THEN "cancelled" ELSE upstream
       \/ Goto(c, "idle") /\ Fault("provider") /\ UNCHANGED upstream
    /\ UNCHANGED <<job, cost, money, queue, rest>>

\* Cancel's release of the hold of a failed or cancelled job.
CancelRelease(c) == At(c, "release") /\ ReleaseHold(c, "idle", "retry")

Call(c) == Resubmit(c) \/ Cancel(c)

Answer(c) == CancelUnsubmitted(c) \/ CancelUpstream(c) \/ CancelRelease(c) \/ EnqueueJob(c)

\* ReleaseStaleUnsubmittedOnce: FailStaleUnsubmittedBatchImageJob checks the status
\* and updated_at again, whatever the list read before it returned.
FailStale ==
    /\ At("recover", "idle") /\ status \in Unsubmitted /\ ~fresh
    /\ status' = "failed" /\ fresh' = TRUE /\ Goto("recover", "release")
    /\ UNCHANGED <<retries, cost, money, upstream, queue, rest, faults>>

\* Mutant: a failed release is only logged.
RecoverReleaseNoRetry == At("recover", "release") /\ ReleaseHold("recover", "done", "done")

\* ReleaseStaleUnsubmittedOnce's release, and enqueueReleaseRetry when it errs.
RecoverRelease == At("recover", "release") /\ ReleaseHold("recover", "done", "retry")

Recover == FailStale \/ RecoverRelease \/ EnqueueJob("recover")

\* updated_at grows older than staleAfter: Submit is gone, or slower than its heartbeat.
Age ==
    /\ status \in Unsubmitted /\ ~TooEarly /\ fresh /\ fresh' = FALSE
    /\ \/ pc["submit"] \in {"idle", "done", "gaveUp"} /\ UNCHANGED faults
       \/ pc["submit"] \notin {"idle", "done", "gaveUp"} /\ Fault("slow")
    /\ UNCHANGED <<status, retries, cost, money, upstream, queue, rest, pc>>

-----------------------------------------------------------------------------
(* The provider and the queue's movers. *)

\* The provider runs the batch and finishes it.
UpstreamRuns ==
    /\ \/ upstream = "queued" /\ upstream' = "running"
       \/ upstream = "running" /\ upstream' \in {"succeeded", "failed"}
    /\ UNCHANGED <<job, cost, money, queue, rest, pc, faults>>

\* MoveDueDelayedToReady.
MoveDueDelayed ==
    /\ "delayed" \in queued /\ queued' = queued \ {"delayed"} /\ ready' = ready + 1
    /\ UNCHANGED <<job, cost, money, upstream, lock, rest, pc, faults>>

\* Has w reserved the job, with a heartbeat that keeps it active?
Beats(w) == pc[w] \notin {"idle", "unlock"} /\ w \notin stalled

\* RecoverStaleActive: nobody refreshes the active entry any longer.
RecoverStaleActive ==
    /\ "active" \in queued /\ \A w \in Workers : ~Beats(w)
    /\ queued' = queued \ {"active"} /\ ready' = ready + 1
    /\ UNCHANGED <<job, cost, money, upstream, lock, rest, pc, faults>>

\* Mutant: the lock has no TTL.
LockWithoutTTL == FALSE

\* The lock's TTL passes: its owner died, or stalled past its refreshes.
LockExpires ==
    /\ lock \in stalled \cup {"dead"} /\ lock' = "none"
    /\ overrun' = (overrun \/ lock \in stalled)
    /\ UNCHANGED <<job, cost, money, upstream, ready, queued, stalled, calls, pc, faults>>

-----------------------------------------------------------------------------
(* BatchImageWorker.RunOnce. *)

\* Reserve's script: from the ready list to the active set.
Reserve(w) ==
    /\ At(w, "idle") /\ ready > 0 /\ ready' = ready - 1
    /\ queued' = queued \cup {"active"} /\ Goto(w, "lock")
    /\ UNCHANGED <<job, cost, money, upstream, lock, rest, faults>>

\* TryAcquireJobLock; a lock that is taken, or an error, requeues the job.
AcquireLock(w) ==
    /\ At(w, "lock")
    /\ \/ lock = "none" /\ lock' = w /\ Goto(w, "route") /\ UNCHANGED faults
       \/ lock # "none" /\ Goto(w, "requeue") /\ UNCHANGED <<lock, faults>>
       \/ Fault("redis") /\ Goto(w, "requeue") /\ UNCHANGED lock
    /\ UNCHANGED <<job, cost, money, upstream, ready, queued, rest>>

\* A statement of w that only reads the job and goes on to l.
Reads(w, from, l) ==
    /\ At(w, from) /\ Goto(w, l)
    /\ UNCHANGED <<job, cost, money, upstream, queue, rest, faults>>

\* BatchImagePipelineProcessor.Process reads the job.
Route(w) == Reads(w, "route", IF status = "settling" THEN "settle" ELSE "process")

\* BatchImageProviderProcessor.Process reads it again: a done job (a settling one
\* too) is acked, after its hold is released if it failed or was cancelled; a job
\* without provider job is an error.
Process(w) ==
    Reads(w, "process",
          CASE status \in {"failed", "cancelled"} -> "release"
            [] status \in {"settling", "completed", "output_deleted"} -> "ack"
            [] status = "indexing" -> "index"
            [] status \in {"submitted", "running"} -> "poll"
            [] OTHER -> "requeue")

\* provider.Get: the answer decides the transition that follows.
Poll(w) ==
    /\ At(w, "poll")
    /\ \/ /\ Goto(w, CASE upstream = "running"   -> "toRunning"
                       [] upstream = "succeeded" -> "toIndexing"
                       [] upstream = "failed"    -> "toFailed"
                       [] upstream = "cancelled" -> "toCancelled"
                       [] OTHER -> "requeue")
          /\ UNCHANGED faults
       \/ Fault("provider") /\ Goto(w, "requeue")
    /\ UNCHANGED <<job, cost, money, upstream, queue, rest>>

\* Process's transitions on the provider's answer; the row may have moved on.
ApplyAnswer(w) ==
    \/ At(w, "toRunning") /\ Transition(w, "running", "requeue", "requeue", "requeue", "requeue")
    \/ At(w, "toIndexing") /\ Transition(w, "indexing", "index", "requeue", "requeue", "requeue")
    \/ At(w, "toFailed") /\ Transition(w, "failed", "release", "requeue", "requeue", "requeue")
    \/ At(w, "toCancelled") /\ Transition(w, "cancelled", "release", "requeue", "requeue", "requeue")
    \/ At(w, "toSettling") /\ Transition(w, "settling", "requeue", "requeue", "requeue", "requeue")

\* Index and ReplaceBatchImageItemsForJob, which writes only while the row is
\* indexing; an output that cannot be parsed fails the job, a missing one is retried.
Index(w) ==
    /\ At(w, "index")
    /\ \/ /\ status = "indexing" /\ Goto(w, "toSettling") /\ UNCHANGED faults
          /\ cost' \in (IF cost = Unknown THEN 0 .. TooMuch ELSE {cost})
       \/ status # "indexing" /\ Goto(w, "requeue") /\ UNCHANGED <<cost, faults>>
       \/ Goto(w, "toFailed") /\ UNCHANGED <<cost, faults>>
       \/ Goto(w, "requeue") /\ Fault("provider") /\ UNCHANGED cost
    /\ UNCHANGED <<job, money, upstream, queue, rest>>

\* releaseTerminalHold.
ReleaseTerminal(w) == At(w, "release") /\ ReleaseHold(w, "ack", "requeue")

\* Settle's read: an exhausted job goes to failExhaustedSettlement.
Settle(w) ==
    Reads(w, "settle", CASE status = "completed" -> "ack"
                         [] status \notin {"completed", "settling"} -> "requeue"
                         [] status = "settling" /\ retries >= MaxRetries -> "exRelease"
                         [] OTHER -> "capture")

\* Mutant: a failed capture is only logged.
CaptureErrorIgnored(w) ==
    /\ At(w, "capture") /\ Goto(w, "mark")
    /\ \/ CanCapture /\ CaptureTx /\ UNCHANGED faults
       \/ Fault("billing") /\ UNCHANGED money
    /\ UNCHANGED <<job, cost, upstream, queue, rest>>

\* Settle's checks of what it read, and captureBatchImageBalanceHold: captured,
\* refused, or an error before or after the commit.
CaptureHold(w) ==
    /\ At(w, "capture")
    /\ \/ CanCapture /\ CaptureTx /\ Goto(w, "mark") /\ UNCHANGED faults
       \/ ~CanCapture /\ Goto(w, "record") /\ UNCHANGED <<money, faults>>
       \/ CanCapture /\ CaptureTx /\ Goto(w, "record") /\ Fault("billing")
       \/ Fault("billing") /\ Goto(w, "record") /\ UNCHANGED money
    /\ UNCHANGED <<job, cost, upstream, queue, rest>>

\* MarkBatchImageJobSettled, guarded by status = settling.
MarkSettled(w) ==
    /\ At(w, "mark")
    /\ \/ /\ status = "settling" /\ status' = "completed"
          /\ \/ Goto(w, "ack") /\ UNCHANGED faults
             \/ Goto(w, "requeue") /\ Fault("store")
       \/ status # "settling" /\ Goto(w, "requeue") /\ UNCHANGED <<status, faults>>
       \/ Fault("store") /\ Goto(w, "requeue") /\ UNCHANGED status
    /\ UNCHANGED <<fresh, retries, cost, money, upstream, queue, rest>>

\* SetBatchImageJobSettlementFailed, guarded by the id only; from its return value
\* recordSettlementFailure decides whether the retries are exhausted.
RecordSettlementFailure(w) ==
    /\ pc[w] \in {"record", "exRecord"}
    /\ \/ /\ retries' = IF retries < MaxRetries THEN retries + 1 ELSE retries
          /\ Goto(w, IF At(w, "record") /\ retries' = MaxRetries THEN "exRelease" ELSE "recheck")
          /\ UNCHANGED faults
       \/ /\ Fault("store") /\ Goto(w, "recheck")
          /\ retries' = retries \/ (retries < MaxRetries /\ retries' = retries + 1)
    /\ UNCHANGED <<status, fresh, cost, money, upstream, queue, rest>>

\* failExhaustedSettlement's release.
ExhaustedRelease(w) == At(w, "exRelease") /\ ReleaseHold(w, "exFail", "exRecord")

\* Mutant: the exhausted job gets a status outside the enumeration.
ExhaustedFailUnknown(w) ==
    /\ At(w, "exFail") /\ status' = "settlement_failed" /\ Goto(w, "recheck")
    /\ UNCHANGED <<fresh, retries, cost, money, upstream, queue, rest, faults>>

\* failExhaustedSettlement's transition.
ExhaustedFail(w) == At(w, "exFail")
                    /\ Transition(w, "failed", "recheck", "requeue", "requeue", "requeue")

\* The pipeline's read after a billing failure.
Recheck(w) == Reads(w, "recheck", IF status \in Terminal THEN "ack" ELSE "requeue")

\* RequeueAfter.
Requeue(w) ==
    /\ At(w, "requeue") /\ queued' = (queued \ {"active"}) \cup {"delayed"}
    /\ Goto(w, "unlock")
    /\ UNCHANGED <<job, cost, money, upstream, ready, lock, rest, faults>>

\* Ack, which forgets the job except for what the ready list still holds.
Ack(w) ==
    /\ At(w, "ack") /\ queued' = {} /\ Goto(w, "unlock")
    /\ UNCHANGED <<job, cost, money, upstream, ready, lock, rest, faults>>

\* The deferred Release of the lock, by token.
Unlock(w) ==
    /\ At(w, "unlock") /\ lock' = (IF lock = w THEN "none" ELSE lock)
    /\ stalled' = stalled \ {w} /\ Goto(w, "idle")
    /\ UNCHANGED <<job, cost, money, upstream, ready, queued, overrun, calls, faults>>

Work(w) ==
    \/ Reserve(w) \/ AcquireLock(w) \/ Route(w) \/ Process(w) \/ Poll(w) \/ ApplyAnswer(w)
    \/ Index(w) \/ ReleaseTerminal(w) \/ Settle(w) \/ CaptureHold(w) \/ MarkSettled(w)
    \/ RecordSettlementFailure(w) \/ ExhaustedRelease(w) \/ ExhaustedFail(w) \/ Recheck(w)
    \/ Requeue(w) \/ Ack(w) \/ Unlock(w)

\* The heartbeats of w fail or come too late, while it goes on.
Stall(w) ==
    /\ Beats(w) /\ lock = w /\ Fault("stall") /\ stalled' = stalled \cup {w}
    /\ UNCHANGED <<job, cost, money, upstream, queue, overrun, calls, pc>>

\* A worker's process dies; its lock and its active entry time out.
CrashWorker(w) ==
    /\ pc[w] # "idle" /\ Fault("crash") /\ Goto(w, "idle") /\ stalled' = stalled \ {w}
    /\ lock' = (IF lock = w THEN "dead" ELSE lock)
    /\ UNCHANGED <<job, cost, money, upstream, ready, queued, overrun, calls>>

\* Steps that end in the release of the hold or in the queue.
Owing == {"enqueue", "retry", "release", "relMark", "relOnly", "relFailed"}

\* Is r the last that will look at the job?  The recovery scan does not find it.
Owes(r) == \/ pc[r] \in Owing /\ status \notin Unsubmitted
           \/ At(r, "abort") /\ Submitted

\* A request dies, and nobody repeats what it owed.
CrashRequest(r) ==
    /\ pc[r] \notin {"idle", "done", "gaveUp"} /\ Fault("crash")
    /\ Goto(r, IF Owes(r) THEN "gaveUp" ELSE "done")
    /\ UNCHANGED <<job, cost, money, upstream, queue, rest>>

\* DeleteOutputsForOwner and the cleanup of expired outputs.
DeleteOutput ==
    /\ status = "completed" /\ status' = "output_deleted"
    /\ UNCHANGED <<fresh, retries, cost, money, upstream, queue, rest, pc, faults>>

\* Steps of which a behaviour has finitely many.
Background == RecoverStaleActive \/ LockExpires \/ Age \/ UpstreamRuns
Foreground == Submit \/ Recover \/ \E c \in Callers : Answer(c)

Next ==
    \/ Foreground \/ Background \/ MoveDueDelayed \/ DeleteOutput
    \/ \E c \in Callers : Call(c)
    \/ \E w \in Workers : Work(w) \/ Stall(w) \/ CrashWorker(w)
    \/ \E r \in Requests : CrashRequest(r)

Spec == Init /\ [][Next]_vars

\* Started requests go on; the workers, the movers and the scans run for ever; the
\* provider ends every batch, at the latest when it expires.
Fairness ==
    /\ WF_vars(Foreground \/ Background) /\ WF_vars(MoveDueDelayed)
    /\ \A w \in Workers : WF_vars(Work(w))

FairSpec == Spec /\ Fairness

-----------------------------------------------------------------------------
(* Properties. *)

\* The batch neither spends what the user's other batches have frozen nor pays the
\* user money ("the remaining hold is released", docs/BATCH_IMAGE_MVP.md).
OthersUntouched == frozen >= OtherFrozen /\ taken >= 0

\* Whatever is retried, cancelled, recovered or answered too late, the hold leaves the
\* frozen balance once, although captures and releases compare it only with what ALL
\* of the user's batches have frozen.  The exceptions are a hold both captured and
\* released by the exhausted exit (run batch_release), or by two workers of which one
\* had lost its lock.
HoldLeavesOnce ==
    \/ OthersUntouched
    \/ {"capture", "release"} \subseteq claims /\ (retries = MaxRetries \/ overrun)

\* A completed batch has cost exactly its output, and nothing of its hold is left,
\* unless a second worker gave the settlement up while the first was completing it.
CompletedIsCharged ==
    status \in {"completed", "output_deleted"} =>
        \/ taken = cost /\ frozen = OtherFrozen
        \/ "release" \in claims /\ overrun /\ retries = MaxRetries

\* "Never refund then": while the provider works on a submitted batch its hold is
\* frozen, although cancels and the recovery scan race with the submission.
SubmittedIsHeld ==
    Submitted => frozen >= OtherFrozen + Hold

Frozen == frozen > OtherFrozen

\* A hold that is frozen will be looked at again: the recovery scan finds the job,
\* the queue holds it, or an actor has it in hand.  A request that died, or could
\* not enqueue, has given up; two workers at once (`overrun`) may ack each other's job.
FrozenIsInHand ==
    Frozen => \/ status \in Unsubmitted \/ ready > 0 \/ {"delayed", "active"} \cap queued # {}
              \/ \E w \in Workers : pc[w] \notin {"idle", "unlock"}
              \/ \E r \in Requests : pc[r] \in Owing \cup {"abort", "recFail", "recLost", "gaveUp"}
              \/ overrun

\* No hold stays frozen for ever, with the same exceptions.
HoldIsSettled == Frozen ~> ~Frozen \/ overrun \/ \E r \in Requests : At(r, "gaveUp")
=============================================================================
