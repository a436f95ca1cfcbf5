-------------------------- MODULE IdempotencyProofs --------------------------
(***************************************************************************)
(* Proofs about Idempotency, for every number of requests and every        *)
(* timeout.  Two invariants: one about ids and payloads, which holds for   *)
(* ever, and one about the owner of the record, which holds until the      *)
(* first record of the key expires and is lost then (README, section 8).   *)
(***************************************************************************)
EXTENDS Idempotency, TLAPS

\* Types, and no request has read a later time than it is.
TimeInv == TypeOK /\ \A r \in Requests : req[r].now <= clock

Holding == {"reclaimExpired", "reclaim", "execute", "markOk", "markFailed"}

\* An id stands for one payload for ever.
IdInv ==
    /\ rec.status = "none" <=> rec.id = 0
    /\ rec.id <= lastId /\ \A r \in Requests : req[r].id <= lastId
    /\ \A r \in Requests : pc[r] \in Holding =>
          req[r].id > 0 /\ (req[r].id = rec.id => req[r].fp = rec.fp)
    /\ rec.status = "succeeded" => rec.body \in {rec.fp, "truncated"}
    /\ ReplayIsFaithful

ReplayInv == TimeInv /\ IdInv

\* Before the first expiry: whoever executes owns the record, and a result ends it.
OwnerInv ==
    /\ rec.status # "none" => rec.expires >= TTL
    /\ \A r \in Requests :
          /\ pc[r] \notin {"reclaimExpired", "reread"}
          /\ Executing(r) => rec.id = req[r].id /\ rec.status = "processing"
          /\ pc[r] = "reclaim" => req[r].from = "failed_retryable"
          /\ doneUntil > 0 => pc[r] \notin {"execute", "markFailed"}
    /\ doneUntil > 0 => rec.status \in {"processing", "succeeded"}
    /\ \A r, s \in Requests : Executing(r) /\ Executing(s) => r = s

WindowInv == ReplayInv /\ (FirstLife => OwnerInv)

-----------------------------------------------------------------------------
Rows == [id: Nat, fp: Fingerprints \cup {"none"}, status: Statuses, locked: Times,
         expires: Times, body: Bodies \cup {"none"}]
Reqs == [fp: Fingerprints \cup {"none"}, now: Times, id: Nat, from: Statuses,
         claimed: Times, reply: Replies]

\* Claims keep the types: the lock and the expiry lie within the bounds on time.
LEMMA ClaimType ==
    ASSUME TimeInv, NEW r \in Requests, NEW id \in Nat, Claim(r, id)
    PROVE  /\ pc' \in [Requests -> Steps] /\ req' \in [Requests -> Reqs]
           /\ Locks(r) \in Times /\ Expires(r) \in Times
           /\ \A s \in Requests : req'[s].now = req[s].now
<1> USE IdempotencyAssumption DEF TimeInv, TypeOK, Times, Reqs
<1>1. Locks(r) \in Times /\ Expires(r) \in Times /\ clock \in Times
  BY DEF Locks, Expires
<1>2. pc' \in [Requests -> Steps]
  BY DEF Claim, Goto, Steps
<1>3. [req[r] EXCEPT !.id = id, !.claimed = clock] \in Reqs
  BY <1>1
<1>4. req' \in [Requests -> Reqs] /\ \A s \in Requests : req'[s].now = req[s].now
  BY <1>3 DEF Claim
<1>5. QED
  BY <1>1, <1>2, <1>4

\* TryReclaim keeps the row's type.
LEMMA ReclaimType ==
    ASSUME rec \in Rows, NEW id, NEW from, NEW now, NEW l \in Times, NEW e \in Times,
           TryReclaim(id, from, now, l, e)
    PROVE  rec' \in Rows
  BY DEF TryReclaim, Rows, Statuses

\* Dispatch changes the request only.
LEMMA DispatchType ==
    ASSUME TimeInv, NEW r \in Requests, Dispatch(r)
    PROVE  /\ pc' \in [Requests -> Steps] /\ req' \in [Requests -> Reqs]
           /\ \A s \in Requests : req'[s].now = req[s].now
<1> USE DEF TimeInv, TypeOK
<1>1. pc' \in [Requests -> Steps]
  BY DEF Dispatch, Goto, Steps
<1>2. rec.body \in Replies /\ rec.status \in Statuses /\ rec.id \in Nat
  BY DEF Replies
<1>3. /\ \A b \in Replies : [req[r] EXCEPT !.reply = b] \in Reqs
      /\ [req[r] EXCEPT !.id = rec.id, !.from = rec.status] \in Reqs
  BY <1>2 DEF Reqs
<1>4. \/ req' = [req EXCEPT ![r] = [@ EXCEPT !.reply = rec.body]]
      \/ req' = req
      \/ req' = [req EXCEPT ![r] = [@ EXCEPT !.id = rec.id, !.from = rec.status]]
  BY DEF Dispatch
<1>5. req \in [Requests -> Reqs]
  BY DEF Reqs
<1>6. req' \in [Requests -> Reqs]
  BY <1>2, <1>3, <1>4, <1>5
<1>7. \A s \in Requests : req'[s].now = req[s].now
  <2>1. CASE \E b : req' = [req EXCEPT ![r] = [@ EXCEPT !.reply = b]]
    BY <2>1, <1>5 DEF Reqs
  <2>2. CASE req' = [req EXCEPT ![r] = [@ EXCEPT !.id = rec.id, !.from = rec.status]]
    BY <2>2, <1>5 DEF Reqs
  <2>3. QED
    BY <1>4, <2>1, <2>2
<1>8. QED
  BY <1>1, <1>6, <1>7

\* Every step keeps the types.
LEMMA TimeStep == TimeInv /\ [Next]_vars => TimeInv'
<1> SUFFICES ASSUME TimeInv, [Next]_vars PROVE TimeInv'
  OBVIOUS
<1>0. TimeInv <=> /\ rec \in Rows /\ lastId \in Nat /\ clock \in 0 .. MaxTime
                  /\ doneUntil \in Times /\ pc \in [Requests -> Steps]
                  /\ req \in [Requests -> Reqs]
                  /\ \A r \in Requests : req[r].now <= clock
  BY DEF TimeInv, TypeOK, Rows, Reqs
<1>a. TimeInv' <=> /\ rec' \in Rows /\ lastId' \in Nat /\ clock' \in 0 .. MaxTime
                   /\ doneUntil' \in Times /\ pc' \in [Requests -> Steps]
                   /\ req' \in [Requests -> Reqs]
                   /\ \A r \in Requests : req'[r].now <= clock'
  BY DEF TimeInv, TypeOK, Rows, Reqs
<1>b. ASSUME NEW r \in Requests
      PROVE  Locks(r) \in Times /\ Expires(r) \in Times /\ req[r].id \in Nat
             /\ clock + FailedRetryBackoff \in Times
  BY <1>0, IdempotencyAssumption DEF Locks, Expires, Times, Reqs
<1> USE <1>0, <1>a, <1>b DEF row, At
<1>1. CASE Cleanup
  BY <1>1, IdempotencyAssumption DEF Cleanup, DeleteExpired, NoRow, Rows, Times, Statuses
<1>2. CASE Tick
  <2>1. \A r \in Requests : req[r].now \in Nat
    BY DEF Reqs, Times
  <2>2. clock' \in 0 .. MaxTime /\ clock' = clock + 1
    BY <1>2, IdempotencyAssumption DEF Tick
  <2>3. QED
    BY <1>2, <2>1, <2>2 DEF Tick
<1>3. ASSUME NEW r \in Requests, Begin(r) PROVE TimeInv'
  <2>1. PICK fp \in Fingerprints : req' = [req EXCEPT ![r] = NewRequest(fp, clock)]
    BY <1>3 DEF Begin
  <2>2. NewRequest(fp, clock) \in Reqs /\ NewRequest(fp, clock).now = clock
    BY IdempotencyAssumption DEF NewRequest, Reqs, Times, Statuses, Replies
  <2>3. QED
    BY <1>3, <2>1, <2>2 DEF Begin, Goto, Steps
<1>4. ASSUME NEW r \in Requests, Create(r) PROVE TimeInv'
  <2>1. CASE CreateProcessing(req[r].fp, Locks(r), Expires(r)) /\ Claim(r, lastId + 1)
    <3>1. rec' \in Rows /\ lastId' \in Nat
      BY <2>1 DEF CreateProcessing, Rows, Reqs, Statuses
    <3>2. QED
      BY <1>4, <2>1, <3>1, ClaimType DEF Create
  <2>2. CASE UNCHANGED <<row, req>> /\ Goto(r, "get")
    BY <1>4, <2>2 DEF Create, Goto, Steps
  <2>3. QED
    BY <1>4, <2>1, <2>2 DEF Create
<1>5. ASSUME NEW r \in Requests, GetExisting(r) \/ Reread(r) PROVE TimeInv'
  <2>1. UNCHANGED <<row, clock, doneUntil>>
    BY <1>5 DEF GetExisting, Reread
  <2>2. CASE Dispatch(r)
    BY <2>1, <2>2, DispatchType
  <2>3. CASE UNCHANGED req /\ Goto(r, "idle")
    BY <2>1, <2>3 DEF Goto, Steps
  <2>4. CASE /\ req' = [req EXCEPT ![r] = [@ EXCEPT !.id = rec.id, !.from = rec.status]]
             /\ Goto(r, "reclaimExpired")
    <3>1. [req[r] EXCEPT !.id = rec.id, !.from = rec.status] \in Reqs
      BY DEF Rows, Reqs
    <3>2. \A s \in Requests : req'[s].now = req[s].now
      BY <2>4 DEF Reqs
    <3>3. QED
      BY <2>1, <2>4, <3>1, <3>2 DEF Goto, Steps
  <2>5. QED
    BY <1>5, <2>2, <2>3, <2>4 DEF GetExisting, Reread
<1>6. ASSUME NEW r \in Requests, ReclaimExpired(r) \/ Reclaim(r) PROVE TimeInv'
  <2>1. UNCHANGED <<clock, doneUntil>>
    BY <1>6 DEF ReclaimExpired, Reclaim
  <2>2. CASE /\ TryReclaim(req[r].id, req[r].from, req[r].now, Locks(r), Expires(r))
             /\ Claim(r, req[r].id)
    <3>1. rec' \in Rows
      BY <2>2, ReclaimType
    <3>2. UNCHANGED lastId
      BY <2>2 DEF TryReclaim
    <3>3. QED
      BY <2>1, <2>2, <3>1, <3>2, ClaimType
  <2>3. CASE UNCHANGED <<row, req>> /\ (Goto(r, "reread") \/ Goto(r, "idle"))
    BY <2>1, <2>3 DEF Goto, Steps
  <2>4. QED
    BY <1>6, <2>2, <2>3 DEF ReclaimExpired, Reclaim
<1>9. ASSUME NEW r \in Requests, RunOperation(r) PROVE TimeInv'
  BY <1>9 DEF RunOperation, Later, Goto, Steps
<1>10. ASSUME NEW r \in Requests, MarkOk(r) PROVE TimeInv'
  <2>1. PICK body \in {req[r].fp, "truncated"} : MarkSucceeded(req[r].id, body, Expires(r))
    BY <1>10 DEF MarkOk
  <2>2. body \in Bodies \cup {"none"}
    BY DEF Reqs, Bodies
  <2>3. 0 \in Times
    BY IdempotencyAssumption DEF Times
  <2>4. rec' \in Rows /\ UNCHANGED lastId
    BY <2>1, <2>2, <2>3 DEF MarkSucceeded, Rows, Statuses
  <2>5. QED
    BY <1>10, <2>4 DEF MarkOk, Goto, Steps
<1>11. ASSUME NEW r \in Requests, MarkFailed(r) PROVE TimeInv'
  <2>1. rec' \in Rows /\ UNCHANGED lastId
    BY <1>11 DEF MarkFailed, MarkFailedRetryable, Rows, Statuses
  <2>2. QED
    BY <1>11, <2>1 DEF MarkFailed, Goto, Steps
<1>12. ASSUME NEW r \in Requests, Abandon(r) PROVE TimeInv'
  BY <1>12 DEF Abandon, Goto, Steps
<1>13. CASE UNCHANGED vars
  BY <1>13 DEF vars
<1>14. QED
  BY <1>1, <1>2, <1>3, <1>4, <1>5, <1>6, <1>9, <1>10, <1>11, <1>12, <1>13 DEF Next

\* Nothing but r's step and r's variables change.
OnlyRequest(r) == \A s \in Requests : s # r => req'[s] = req[s] /\ pc'[s] = pc[s]

\* What Create does, field by field.
LEMMA CreateEffect ==
    ASSUME TimeInv, NEW r \in Requests, Create(r)
    PROVE  /\ UNCHANGED <<clock, doneUntil>> /\ OnlyRequest(r)
           /\ req'[r].fp = req[r].fp /\ req'[r].reply = req[r].reply
           /\ \/ /\ pc'[r] = "execute" /\ rec.status = "none"
                 /\ lastId' = lastId + 1 /\ rec'.id = lastId + 1 /\ req'[r].id = lastId + 1
                 /\ rec'.fp = req[r].fp /\ rec'.status = "processing"
                 /\ rec'.expires = Expires(r)
              \/ pc'[r] = "get" /\ rec.status # "none" /\ UNCHANGED <<row, req>>
<1>1. req \in [Requests -> Reqs] /\ pc \in [Requests -> Steps]
  BY DEF TimeInv, TypeOK, Reqs
<1>2. CASE CreateProcessing(req[r].fp, Locks(r), Expires(r)) /\ Claim(r, lastId + 1)
  <2>1. /\ rec.status = "none" /\ lastId' = lastId + 1 /\ rec'.id = lastId + 1
        /\ rec'.fp = req[r].fp /\ rec'.status = "processing" /\ rec'.expires = Expires(r)
    BY <1>2 DEF CreateProcessing
  <2>2. /\ req'[r].fp = req[r].fp /\ req'[r].reply = req[r].reply
        /\ req'[r].id = lastId + 1 /\ pc'[r] = "execute" /\ OnlyRequest(r)
    BY <1>1, <1>2 DEF Claim, Goto, Reqs, OnlyRequest
  <2>3. QED
    BY <2>1, <2>2 DEF Create
<1>3. CASE rec.status # "none" /\ Goto(r, "get") /\ UNCHANGED <<row, req>>
  BY <1>1, <1>3 DEF Create, Goto, OnlyRequest
<1>4. QED
  BY <1>2, <1>3 DEF Create

\* What the two reads and Dispatch do, field by field.
LEMMA GetEffect ==
    ASSUME TimeInv, NEW r \in Requests, GetExisting(r) \/ Reread(r)
    PROVE  /\ UNCHANGED <<row, clock, doneUntil>> /\ OnlyRequest(r)
           /\ req'[r].fp = req[r].fp
           /\ \/ /\ pc'[r] = "idle" /\ req'[r].id = req[r].id
                 /\ \/ req'[r].reply = req[r].reply
                    \/ Matches(r) /\ rec.status = "succeeded" /\ req'[r].reply = rec.body
              \/ /\ pc'[r] \in {"reclaim", "reclaimExpired"} /\ Matches(r)
                 /\ req'[r].id = rec.id /\ req'[r].from = rec.status
                 /\ req'[r].reply = req[r].reply
                 /\ pc'[r] = "reclaim" => rec.status = "failed_retryable"
                 /\ pc'[r] = "reclaimExpired" => rec.expires <= req[r].now
<1>1. req \in [Requests -> Reqs] /\ pc \in [Requests -> Steps]
  BY DEF TimeInv, TypeOK, Reqs
<1>2. UNCHANGED <<row, clock, doneUntil>>
  BY DEF GetExisting, Reread
<1>3. CASE UNCHANGED req /\ Goto(r, "idle")
  BY <1>1, <1>2, <1>3 DEF Goto, OnlyRequest
<1>4. CASE /\ Matches(r) /\ Goto(r, "reclaimExpired") /\ rec.expires <= req[r].now
           /\ req' = [req EXCEPT ![r] = [@ EXCEPT !.id = rec.id, !.from = rec.status]]
  BY <1>1, <1>2, <1>4 DEF Goto, OnlyRequest, Reqs
<1>5. CASE Matches(r) /\ Dispatch(r)
  <2>1. CASE /\ rec.status = "succeeded" /\ Goto(r, "idle")
             /\ req' = [req EXCEPT ![r] = [@ EXCEPT !.reply = rec.body]]
    BY <1>1, <1>2, <1>5, <2>1 DEF Goto, OnlyRequest, Reqs
  <2>2. CASE /\ rec.status = "failed_retryable" /\ Goto(r, "reclaim")
             /\ req' = [req EXCEPT ![r] = [@ EXCEPT !.id = rec.id, !.from = rec.status]]
    BY <1>1, <1>2, <1>5, <2>2 DEF Goto, OnlyRequest, Reqs
  <2>3. QED
    BY <1>3, <1>5, <2>1, <2>2 DEF Dispatch
<1>6. QED
  BY <1>3, <1>4, <1>5 DEF GetExisting, Reread

\* What the two reclaims do, field by field.
LEMMA ReclaimEffect ==
    ASSUME TimeInv, NEW r \in Requests, ReclaimExpired(r) \/ Reclaim(r)
    PROVE  /\ UNCHANGED <<lastId, clock, doneUntil>> /\ OnlyRequest(r)
           /\ req'[r].fp = req[r].fp /\ req'[r].reply = req[r].reply
           /\ req'[r].id = req[r].id
           /\ \/ /\ pc'[r] = "execute" /\ Reclaims(req[r].id, req[r].from, req[r].now)
                 /\ rec'.status = "processing" /\ rec'.id = rec.id /\ rec'.fp = rec.fp
                 /\ rec'.expires = Expires(r)
              \/ /\ pc'[r] = "idle" \/ (pc[r] = "reclaimExpired" /\ pc'[r] = "reread")
                 /\ UNCHANGED rec
<1>1. req \in [Requests -> Reqs] /\ pc \in [Requests -> Steps] /\ rec \in Rows
  BY DEF TimeInv, TypeOK, Reqs, Rows
<1>2. UNCHANGED <<lastId, clock, doneUntil>>
  BY DEF ReclaimExpired, Reclaim, TryReclaim, row
<1>3. CASE /\ TryReclaim(req[r].id, req[r].from, req[r].now, Locks(r), Expires(r))
           /\ Claim(r, req[r].id)
  <2>1. /\ Reclaims(req[r].id, req[r].from, req[r].now) /\ rec'.status = "processing"
        /\ rec'.id = rec.id /\ rec'.fp = rec.fp /\ rec'.expires = Expires(r)
    BY <1>1, <1>3 DEF TryReclaim, Rows
  <2>2. /\ req'[r].fp = req[r].fp /\ req'[r].reply = req[r].reply
        /\ req'[r].id = req[r].id /\ pc'[r] = "execute" /\ OnlyRequest(r)
    BY <1>1, <1>3 DEF Claim, Goto, Reqs, OnlyRequest
  <2>3. QED
    BY <1>2, <2>1, <2>2
<1>4. CASE /\ Goto(r, "idle") \/ (pc[r] = "reclaimExpired" /\ Goto(r, "reread"))
           /\ UNCHANGED <<row, req>>
  BY <1>1, <1>2, <1>4 DEF Goto, OnlyRequest, row
<1>5. QED
  BY <1>3, <1>4 DEF ReclaimExpired, Reclaim, At

\* Every step keeps the ids and the payloads together.
LEMMA ReplayStep == ReplayInv /\ [Next]_vars => ReplayInv'
<1> SUFFICES ASSUME ReplayInv, [Next]_vars PROVE IdInv'
  BY TimeStep DEF ReplayInv
<1>0. /\ lastId \in Nat /\ rec.id \in Nat /\ req \in [Requests -> Reqs]
      /\ pc \in [Requests -> Steps] /\ rec \in Rows
  BY DEF ReplayInv, TimeInv, TypeOK, Rows, Reqs
<1> USE <1>0 DEF ReplayInv, IdInv, Holding, ReplayIsFaithful, row, At, Goto, Claim, Reqs, Rows
<1>1. CASE Cleanup
  BY <1>1 DEF Cleanup, DeleteExpired, NoRow
<1>2. CASE Tick
  BY <1>2 DEF Tick
<1>3. ASSUME NEW r \in Requests, Begin(r) PROVE IdInv'
  BY <1>3 DEF Begin, NewRequest
<1>4. ASSUME NEW r \in Requests, Create(r) PROVE IdInv'
  <2>1. CASE pc'[r] = "execute"
    <3>1. /\ lastId' = lastId + 1 /\ rec'.id = lastId + 1 /\ req'[r].id = lastId + 1
          /\ rec'.fp = req'[r].fp /\ rec'.status = "processing" /\ OnlyRequest(r)
          /\ req'[r].fp = req[r].fp /\ req'[r].reply = req[r].reply
      BY <1>4, <2>1, CreateEffect
    <3>2. \A s \in Requests : s # r => req'[s].id <= lastId /\ req'[s].id # rec'.id
      BY <3>1 DEF OnlyRequest
    <3>3. QED
      BY <3>1, <3>2 DEF OnlyRequest
  <2>2. CASE pc'[r] = "get"
    BY <1>4, <2>2, CreateEffect DEF OnlyRequest
  <2>3. QED
    BY <1>4, <2>1, <2>2, CreateEffect
<1>5. ASSUME NEW r \in Requests, GetExisting(r) \/ Reread(r) PROVE IdInv'
  BY <1>5, GetEffect DEF OnlyRequest, Matches
<1>6. ASSUME NEW r \in Requests, ReclaimExpired(r) \/ Reclaim(r) PROVE IdInv'
  <2>1. pc[r] \in Holding
    BY <1>6 DEF ReclaimExpired, Reclaim
  <2>2. QED
    BY <1>6, <2>1, ReclaimEffect DEF OnlyRequest, Reclaims
<1>9. ASSUME NEW r \in Requests, RunOperation(r) PROVE IdInv'
  BY <1>9 DEF RunOperation
<1>10. ASSUME NEW r \in Requests, MarkOk(r) PROVE IdInv'
  BY <1>10 DEF MarkOk, MarkSucceeded
<1>11. ASSUME NEW r \in Requests, MarkFailed(r) PROVE IdInv'
  BY <1>11 DEF MarkFailed, MarkFailedRetryable
<1>12. ASSUME NEW r \in Requests, Abandon(r) PROVE IdInv'
  BY <1>12 DEF Abandon
<1>13. CASE UNCHANGED vars
  BY <1>13 DEF vars
<1>14. QED
  BY <1>1, <1>2, <1>3, <1>4, <1>5, <1>6, <1>9, <1>10, <1>11, <1>12, <1>13
  DEF Next

\* Before the first expiry, every step keeps the owner of the record alone.
LEMMA WindowStep == WindowInv /\ [Next]_vars => WindowInv'
<1> SUFFICES ASSUME WindowInv, [Next]_vars, FirstLife' PROVE OwnerInv'
  BY ReplayStep DEF WindowInv
<1>a. FirstLife
  <2>1. clock' = clock \/ clock' = clock + 1
    BY DEF Next, vars, Cleanup, Tick, Begin, Create, GetExisting, ReclaimExpired, Reread,
           Reclaim, RunOperation, MarkOk, MarkFailed, Abandon
  <2>2. clock \in Nat
    BY IdempotencyAssumption DEF WindowInv, ReplayInv, TimeInv, TypeOK
  <2>3. QED
    BY <2>1, <2>2, IdempotencyAssumption DEF FirstLife
<1>0. /\ lastId \in Nat /\ rec \in Rows /\ req \in [Requests -> Reqs]
      /\ pc \in [Requests -> Steps] /\ doneUntil \in Nat /\ TTL \in Nat \ {0}
      /\ TimeInv /\ IdInv
      /\ \A r \in Requests : req[r].now \in Nat /\ req[r].now < TTL /\ Expires(r) >= TTL
      /\ clock \in Nat /\ clock < TTL
  BY <1>a, IdempotencyAssumption
  DEF FirstLife, WindowInv, ReplayInv, TimeInv, TypeOK, Rows, Reqs, Times, Expires
<1> USE <1>0, <1>a DEF WindowInv, OwnerInv, Executing, row, At, Goto, OnlyRequest
<1>1. CASE Cleanup
  BY <1>1 DEF Cleanup, DeleteExpired, Rows, Times
<1>2. CASE Tick
  BY <1>2 DEF Tick
<1>3. ASSUME NEW r \in Requests, Begin(r) PROVE OwnerInv'
  BY <1>3 DEF Begin
<1>4. ASSUME NEW r \in Requests, Create(r) PROVE OwnerInv'
  BY <1>4, CreateEffect
<1>5. ASSUME NEW r \in Requests, GetExisting(r) \/ Reread(r) PROVE OwnerInv'
  BY <1>5, GetEffect DEF Matches, Rows, Times
<1>6. ASSUME NEW r \in Requests, ReclaimExpired(r) \/ Reclaim(r) PROVE OwnerInv'
  <2>1. pc[r] = "reclaim" /\ req[r].from = "failed_retryable"
    BY <1>6 DEF ReclaimExpired, Reclaim
  <2>2. QED
    BY <1>6, <2>1, ReclaimEffect DEF Reclaims
<1>9. ASSUME NEW r \in Requests, RunOperation(r) PROVE OwnerInv'
  BY <1>9 DEF RunOperation, Later
<1>10. ASSUME NEW r \in Requests, MarkOk(r) PROVE OwnerInv'
  BY <1>10 DEF MarkOk, MarkSucceeded, Rows
<1>11. ASSUME NEW r \in Requests, MarkFailed(r) PROVE OwnerInv'
  BY <1>11 DEF MarkFailed, MarkFailedRetryable, Rows
<1>12. ASSUME NEW r \in Requests, Abandon(r) PROVE OwnerInv'
  BY <1>12 DEF Abandon
<1>13. CASE UNCHANGED vars
  BY <1>13 DEF vars
<1>14. QED
  BY <1>1, <1>2, <1>3, <1>4, <1>5, <1>6, <1>9, <1>10, <1>11, <1>12, <1>13 DEF Next

-----------------------------------------------------------------------------
LEMMA InitInv == Init => WindowInv
<1> SUFFICES ASSUME Init PROVE WindowInv
  OBVIOUS
<1> USE IdempotencyAssumption DEF Init, NoRow, NewRequest
<1>1. NewRequest("none", 0) \in Reqs /\ NoRow \in Rows
  BY DEF Reqs, Rows, Times, Statuses, Replies, Bodies
<1>2. TimeInv
  BY <1>1 DEF TimeInv, TypeOK, Reqs, Rows, Times, Steps
<1>3. IdInv
  BY DEF IdInv, Holding, ReplayIsFaithful
<1>4. OwnerInv
  BY DEF OwnerInv, Executing
<1>5. QED
  BY <1>2, <1>3, <1>4 DEF WindowInv, ReplayInv

LEMMA ReplayInvariance == Spec => []ReplayInv
<1>1. Init => ReplayInv
  BY InitInv DEF WindowInv
<1>2. QED
  BY <1>1, ReplayStep, PTL DEF Spec

LEMMA WindowInvariance == Spec => []WindowInv
  BY InitInv, WindowStep, PTL DEF Spec

\* Type correctness of the row, the clock and the requests.
THEOREM TypeCorrect == Spec => []TypeOK
<1>1. ReplayInv => TypeOK
  BY DEF ReplayInv, TimeInv
<1>2. QED
  BY <1>1, ReplayInvariance, PTL

\* Execute answers with the stored response of the caller's own payload only, also
\* when records expire, are reclaimed, deleted and inserted again.
THEOREM ReplayIsFaithfulThm == Spec => []ReplayIsFaithful
<1>1. ReplayInv => ReplayIsFaithful
  BY DEF ReplayInv, IdInv
<1>2. QED
  BY <1>1, ReplayInvariance, PTL

\* Until the first record of a key expires, Execute runs one request at a time.
THEOREM ExecuteIsExclusiveThm == Spec => []ExecuteIsExclusive
<1>1. WindowInv => ExecuteIsExclusive
  BY DEF WindowInv, OwnerInv, ExecuteIsExclusive
<1>2. QED
  BY <1>1, WindowInvariance, PTL

\* Until then, Execute lets nobody in again after an execution that succeeded.
THEOREM ExecutedOnceThm == Spec => []ExecutedOnceAtFirst
<1>1. WindowInv => ExecutedOnceAtFirst
  <2> SUFFICES ASSUME WindowInv, FirstLife, NEW r \in Requests, pc[r] = "execute"
               PROVE  doneUntil <= req[r].claimed
    BY DEF ExecutedOnceAtFirst, ExecutedOnce
  <2>1. doneUntil \in Nat /\ req[r].claimed \in Nat
    BY IdempotencyAssumption DEF WindowInv, ReplayInv, TimeInv, TypeOK, Times
  <2>2. ~(doneUntil > 0)
    BY DEF WindowInv, OwnerInv
  <2>3. QED
    BY <2>1, <2>2
<1>2. QED
  BY <1>1, WindowInvariance, PTL

\* Until then, no write by id overwrites a stored success.
THEOREM SucceededIsKeptThm == Spec => SucceededIsKept
<1>1. WindowInv /\ [Next]_vars => [FirstLife /\ rec.status = "succeeded" => rec' = rec]_vars
  <2> SUFFICES ASSUME WindowInv, Next, FirstLife, rec.status = "succeeded" PROVE rec' = rec
    OBVIOUS
  <2>0. TimeInv /\ rec.expires \in Nat /\ clock \in Nat /\ TTL \in Nat /\ clock < TTL
    BY IdempotencyAssumption DEF FirstLife, WindowInv, ReplayInv, TimeInv, TypeOK, Times
  <2> USE <2>0 DEF WindowInv, OwnerInv, Executing, row, At
  <2>1. CASE Cleanup \/ Tick
    BY <2>1 DEF Cleanup, DeleteExpired, Tick
  <2>2. ASSUME NEW r \in Requests, Begin(r) \/ RunOperation(r) \/ Abandon(r)
        PROVE rec' = rec
    BY <2>2 DEF Begin, RunOperation, Abandon
  <2>3. ASSUME NEW r \in Requests, Create(r) PROVE rec' = rec
    BY <2>3, CreateEffect
  <2>4. ASSUME NEW r \in Requests, GetExisting(r) \/ Reread(r) PROVE rec' = rec
    BY <2>4, GetEffect
  <2>5. ASSUME NEW r \in Requests, ReclaimExpired(r) \/ Reclaim(r) PROVE rec' = rec
    <3>1. pc[r] = "reclaim" /\ req[r].from = "failed_retryable"
      BY <2>5 DEF ReclaimExpired, Reclaim
    <3>2. QED
      BY <2>5, <3>1, ReclaimEffect DEF Reclaims
  <2>6. ASSUME NEW r \in Requests, MarkOk(r) \/ MarkFailed(r) PROVE rec' = rec
    BY <2>6 DEF MarkOk, MarkFailed
  <2>7. QED
    BY <2>1, <2>2, <2>3, <2>4, <2>5, <2>6 DEF Next
<1>2. QED
  BY <1>1, WindowInvariance, PTL DEF Spec, SucceededIsKept
=============================================================================
