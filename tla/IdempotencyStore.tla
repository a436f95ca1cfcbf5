--------------------------- MODULE IdempotencyStore ---------------------------
(***************************************************************************)
(* One row of idempotency_records, the row of one (scope, key hash), and   *)
(* the statements of idempotencyRepository on it.  Every statement is      *)
(* atomic; what a caller does between two of them is in the modules that   *)
(* extend this one.  Times are absolute; 0 stands for a NULL locked_until. *)
(***************************************************************************)
EXTENDS Integers

CONSTANT Fingerprints  \* request fingerprints, or operation ids

VARIABLES rec,     \* the row, or NoRow
          lastId   \* the last id the sequence has given out

NoRow == [id |-> 0, fp |-> "none", status |-> "none", locked |-> 0, expires |-> 0,
          body |-> "none"]

Statuses == {"none", "processing", "succeeded", "failed_retryable"}

\* INSERT ... ON CONFLICT DO NOTHING that inserts.
CreateProcessing(fp, locked, expires) ==
    /\ rec.status = "none"
    /\ lastId' = lastId + 1
    /\ rec' = [id |-> lastId + 1, fp |-> fp, status |-> "processing", locked |-> locked,
               expires |-> expires, body |-> "none"]

\* Mutant: locked_until is not part of the guard.
ReclaimsLocked(id, from, now) == rec.id = id /\ rec.status = from

\* The WHERE clause of TryReclaim; expires_at is not part of it.
Reclaims(id, from, now) == rec.id = id /\ rec.status = from /\ rec.locked <= now

\* TryReclaim of a row that matches; the fingerprint stays.
TryReclaim(id, from, now, locked, expires) ==
    /\ Reclaims(id, from, now)
    /\ rec' = [rec EXCEPT !.status = "processing", !.locked = locked, !.expires = expires]
    /\ UNCHANGED lastId

\* Mutant: only a finished record is extended.
ExtendsFinished(id, fp) == rec.id = id /\ rec.status # "processing" /\ rec.fp = fp

\* The WHERE clause of ExtendProcessingLock.
Extends(id, fp) == rec.id = id /\ rec.status = "processing" /\ rec.fp = fp

\* ExtendProcessingLock of a row that matches.
ExtendProcessingLock(id, fp, locked, expires) ==
    /\ Extends(id, fp)
    /\ rec' = [rec EXCEPT !.locked = locked, !.expires = expires]
    /\ UNCHANGED lastId

\* Mutant: the time to live is added to the expiry the row already has.
MarkSucceededAdds(id, body, expires) ==
    /\ rec' = IF rec.id = id
              THEN [rec EXCEPT !.status = "succeeded", !.locked = 0,
                               !.expires = rec.expires + expires, !.body = body]
              ELSE rec
    /\ UNCHANGED lastId

\* MarkSucceeded, guarded by the id only.
MarkSucceeded(id, body, expires) ==
    /\ rec' = IF rec.id = id
              THEN [rec EXCEPT !.status = "succeeded", !.locked = 0, !.expires = expires,
                               !.body = body]
              ELSE rec
    /\ UNCHANGED lastId

\* MarkFailedRetryable, guarded by the id only.
MarkFailedRetryable(id, locked, expires) ==
    /\ rec' = IF rec.id = id
              THEN [rec EXCEPT !.status = "failed_retryable", !.locked = locked,
                               !.expires = expires]
              ELSE rec
    /\ UNCHANGED lastId

\* Mutant: rows whose lock is over are deleted.
DeleteUnlocked(now) ==
    /\ rec.status # "none" /\ rec.locked <= now
    /\ rec' = NoRow /\ UNCHANGED lastId

\* DeleteExpired of the cleanup service.
DeleteExpired(now) ==
    /\ rec.status # "none" /\ rec.expires <= now
    /\ rec' = NoRow /\ UNCHANGED lastId
=============================================================================
