----------------------------- MODULE Idempotency -----------------------------
(***************************************************************************)
(* IdempotencyCoordinator.Execute on ONE (scope, key): requests with the   *)
(* same key, of the same or of another payload, run at the same time, are  *)
(* retried, stall between two statements, or die.                          *)
(***************************************************************************)
EXTENDS IdempotencyStore

CONSTANTS
    Requests,           \* requests that may run at the same time
    TTL,                \* how long a record is kept
    ProcessingTimeout,  \* how long a claim is locked
    FailedRetryBackoff, \* how long a failure is locked
    MaxStall,           \* bound: no call of Execute lasts longer
    MaxTime             \* bound: the clock stops there

ASSUME IdempotencyAssumption ==
    /\ TTL \in Nat \ {0} /\ ProcessingTimeout \in Nat \ {0}
    /\ FailedRetryBackoff \in Nat \ {0} /\ MaxStall \in Nat /\ MaxTime \in Nat
    /\ {"none", "truncated"} \cap Fingerprints = {}

VARIABLES
    clock,     \* wall clock time
    pc, req,   \* per request: next statement; what Execute holds in its variables
    doneUntil  \* history: until when the results of the executions so far are valid

vars == <<rec, lastId, clock, pc, req, doneUntil>>
row  == <<rec, lastId>>

Steps   == {"idle", "create", "get", "reclaimExpired", "reread", "reclaim",
            "execute", "markOk", "markFailed"}
Bodies  == Fingerprints \cup {"truncated"}
Replies == Bodies \cup {"none"}
Times   == 0 .. (MaxTime + TTL + ProcessingTimeout + FailedRetryBackoff)

\* The row, the clock and the requests have their types.
TypeOK ==
    /\ rec \in [id: Nat, fp: Fingerprints \cup {"none"}, status: Statuses, locked: Times,
                expires: Times, body: Bodies \cup {"none"}]
    /\ lastId \in Nat /\ clock \in 0 .. MaxTime /\ doneUntil \in Times
    /\ pc \in [Requests -> Steps]
    /\ req \in [Requests -> [fp: Fingerprints \cup {"none"}, now: Times, id: Nat,
                             from: Statuses, claimed: Times, reply: Replies]]

NewRequest(fp, t) ==
    [fp |-> fp, now |-> t, id |-> 0, from |-> "none", claimed |-> 0, reply |-> "none"]

Init ==
    /\ rec = NoRow /\ lastId = 0 /\ clock = 0 /\ doneUntil = 0
    /\ pc = [r \in Requests |-> "idle"]
    /\ req = [r \in Requests |-> NewRequest("none", 0)]

-----------------------------------------------------------------------------
At(r, l) == pc[r] = l

Goto(r, l) == pc' = [pc EXCEPT ![r] = l]

\* lockedUntil and expiresAt are computed from the time Execute read first.
Locks(r)   == req[r].now + ProcessingTimeout
Expires(r) == req[r].now + TTL

\* The request owns the record with this id from now on.
Claim(r, id) ==
    /\ req' = [req EXCEPT ![r] = [@ EXCEPT !.id = id, !.claimed = clock]]
    /\ Goto(r, "execute")

\* Execute is called: the key and the payload are normalised, the clock is read.
Begin(r) ==
    /\ At(r, "idle")
    /\ \E fp \in Fingerprints : req' = [req EXCEPT ![r] = NewRequest(fp, clock)]
    /\ Goto(r, "create") /\ UNCHANGED <<row, clock, doneUntil>>

\* repo.CreateProcessing: the record is new, or there is one already.
Create(r) ==
    /\ At(r, "create")
    /\ \/ CreateProcessing(req[r].fp, Locks(r), Expires(r)) /\ Claim(r, lastId + 1)
       \/ rec.status # "none" /\ Goto(r, "get") /\ UNCHANGED <<row, req>>
    /\ UNCHANGED <<clock, doneUntil>>

\* Mutant: a claim whose lock has passed may be taken over.
DispatchTakesOver(r) ==
    \/ /\ rec.status = "succeeded" /\ Goto(r, "idle")
       /\ req' = [req EXCEPT ![r].reply = rec.body]
    \/ /\ rec.status \in {"processing", "failed_retryable"} /\ rec.locked > req[r].now
       /\ Goto(r, "idle") /\ UNCHANGED req
    \/ /\ rec.status \in {"processing", "failed_retryable"} /\ rec.locked <= req[r].now
       /\ req' = [req EXCEPT ![r] = [@ EXCEPT !.id = rec.id, !.from = rec.status]] /\ Goto(r, "reclaim")

\* The switch over the status: replay the stored response (one that was truncated
\* does not decode and is answered with an error), refuse, or reclaim a failure.
Dispatch(r) ==
    \/ /\ rec.status = "succeeded" /\ Goto(r, "idle")
       /\ req' = [req EXCEPT ![r].reply = rec.body]
    \/ /\ \/ rec.status = "processing"
          \/ rec.status = "failed_retryable" /\ rec.locked > req[r].now
       /\ Goto(r, "idle") /\ UNCHANGED req
    \/ /\ rec.status = "failed_retryable" /\ rec.locked <= req[r].now
       /\ req' = [req EXCEPT ![r] = [@ EXCEPT !.id = rec.id, !.from = rec.status]] /\ Goto(r, "reclaim")

\* Mutant: the payload is not compared.
MatchesAny(r) == rec.status # "none"

\* The record is there and was made for the same payload.
Matches(r) == rec.status # "none" /\ rec.fp = req[r].fp

\* repo.GetByScopeAndKeyHash after a lost insert.
GetExisting(r) ==
    /\ At(r, "get")
    /\ \/ ~Matches(r) /\ Goto(r, "idle") /\ UNCHANGED req
       \/ /\ Matches(r) /\ rec.expires <= req[r].now
          /\ req' = [req EXCEPT ![r] = [@ EXCEPT !.id = rec.id, !.from = rec.status]]
          /\ Goto(r, "reclaimExpired")
       \/ Matches(r) /\ rec.expires > req[r].now /\ Dispatch(r)
    /\ UNCHANGED <<row, clock, doneUntil>>

\* TryReclaim of a record that was read as expired.
ReclaimExpired(r) ==
    /\ At(r, "reclaimExpired")
    /\ \/ /\ TryReclaim(req[r].id, req[r].from, req[r].now, Locks(r), Expires(r))
          /\ Claim(r, req[r].id)
       \/ /\ ~Reclaims(req[r].id, req[r].from, req[r].now)
          /\ Goto(r, "reread") /\ UNCHANGED <<row, req>>
    /\ UNCHANGED <<clock, doneUntil>>

\* The second GetByScopeAndKeyHash; the expiry is not looked at again.
Reread(r) ==
    /\ At(r, "reread")
    /\ \/ ~Matches(r) /\ Goto(r, "idle") /\ UNCHANGED req
       \/ Matches(r) /\ Dispatch(r)
    /\ UNCHANGED <<row, clock, doneUntil>>

\* TryReclaim of a failure whose backoff is over.
Reclaim(r) ==
    /\ At(r, "reclaim")
    /\ \/ /\ TryReclaim(req[r].id, req[r].from, req[r].now, Locks(r), Expires(r))
          /\ Claim(r, req[r].id)
       \/ /\ ~Reclaims(req[r].id, req[r].from, req[r].now)
          /\ Goto(r, "idle") /\ UNCHANGED <<row, req>>
    /\ UNCHANGED <<clock, doneUntil>>

Later(x, y) == IF x < y THEN y ELSE x

\* The protected operation runs, and succeeds or fails.
RunOperation(r) ==
    /\ At(r, "execute")
    /\ \/ Goto(r, "markOk") /\ doneUntil' = Later(doneUntil, Expires(r))
       \/ Goto(r, "markFailed") /\ UNCHANGED doneUntil
    /\ UNCHANGED <<row, clock, req>>

\* Mutant: an execution whose response cannot be stored is marked as failed.
MarkOkOrFailed(r) ==
    /\ At(r, "markOk") /\ Goto(r, "idle")
    /\ MarkFailedRetryable(req[r].id, clock, Expires(r))
    /\ UNCHANGED <<clock, req, doneUntil>>

\* marshalStoredResponse and MarkSucceeded; a long response is stored truncated.
MarkOk(r) ==
    /\ At(r, "markOk") /\ Goto(r, "idle")
    /\ \E body \in {req[r].fp, "truncated"} : MarkSucceeded(req[r].id, body, Expires(r))
    /\ UNCHANGED <<clock, req, doneUntil>>

\* MarkFailedRetryable.
MarkFailed(r) ==
    /\ At(r, "markFailed") /\ Goto(r, "idle")
    /\ MarkFailedRetryable(req[r].id, clock + FailedRetryBackoff, Expires(r))
    /\ UNCHANGED <<clock, req, doneUntil>>

\* A store call errs and Execute gives up, or the process dies: the row stays as it is.
Abandon(r) ==
    /\ pc[r] # "idle" /\ Goto(r, "idle") /\ UNCHANGED <<row, clock, req, doneUntil>>

\* IdempotencyCleanupService.cleanupOnce.
Cleanup == DeleteExpired(clock) /\ UNCHANGED <<clock, pc, req, doneUntil>>

\* Time passes.
Tick ==
    /\ clock < MaxTime /\ \A r \in Requests : pc[r] # "idle" => clock < req[r].now + MaxStall
    /\ clock' = clock + 1 /\ UNCHANGED <<row, pc, req, doneUntil>>

Next ==
    \/ Cleanup \/ Tick
    \/ \E r \in Requests :
          \/ Begin(r) \/ Create(r) \/ GetExisting(r) \/ ReclaimExpired(r) \/ Reread(r)
          \/ Reclaim(r) \/ RunOperation(r) \/ MarkOk(r) \/ MarkFailed(r) \/ Abandon(r)

Spec == Init /\ [][Next]_vars

-----------------------------------------------------------------------------
(* Properties. *)

Executing(r) == pc[r] \in {"execute", "markOk", "markFailed"}

\* No record of the key can have expired yet.
FirstLife == clock < TTL

\* Until the first record of a key expires, two requests with the key never run the
\* operation at the same time, whichever of them stalled, failed or died.
ExecuteIsExclusive ==
    FirstLife => \A r, s \in Requests : Executing(r) /\ Executing(s) => r = s

\* While the result of an execution is valid nobody is let in to execute again
\* ("concurrent same-key requests should execute business side-effect once",
\* idempotency_test.go).
ExecutedOnce == \A r \in Requests : pc[r] = "execute" => doneUntil <= req[r].claimed

\* That holds until the first record of the key expires.
ExecutedOnceAtFirst == FirstLife => ExecutedOnce

\* A stored success is not overwritten before it expires for the first time, although
\* the writes that end an execution are guarded by the id only.
SucceededIsKept == [][FirstLife /\ rec.status = "succeeded" => rec' = rec]_vars

\* A request is answered with the stored response of its own payload only, whichever
\* records of the key were reclaimed, deleted and made anew since.
ReplayIsFaithful ==
    \A r \in Requests : req[r].reply \in {"none", "truncated", req[r].fp}
=============================================================================
