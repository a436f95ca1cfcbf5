---------------------- MODULE ConcurrencySlotsProofs ----------------------
(***************************************************************************)
(* Proofs about ConcurrencySlots.                                          *)
(*                                                                         *)
(* The limit rests on Held and Capacity.  Whoever uses a slot or a lease   *)
(* has it in Redis, unexpired, unless it lapsed; and the slots in Redis,   *)
(* with the slot each lease stands for, are within the limit.  A lease     *)
(* occupies no new place when it is taken, for its request still holds the *)
(* slot it replaces, so the limit survives the two steps of the handover.  *)
(* Counted ties the wait counter to the waiters from both sides: to every  *)
(* one of them from below, and to them and the requests that met a fault   *)
(* and came past the queue from above.                                     *)
(*                                                                         *)
(* A step of a request is summed up three times: in what it does to the    *)
(* stage of the request, to the slots and leases, and to the queues.  The  *)
(* parts of the invariant follow from these summaries, and the actions are *)
(* opened only to establish them.                                          *)
(***************************************************************************)
EXTENDS ConcurrencySlots, FiniteSetTheorems, TLAPS

Leases == {"no", "held", "failed", "open"}

\* The request has not yet come to the queue of k.
Before(r, k) ==
    \/ pc[r] \in {"idle", "try", "queue"} /\ kind[r] = k
    \/ /\ k = "account" /\ kind[r] = "user"
       /\ \/ pc[r] \in {"idle", "try", "touch", "queue", "touchWait", "wait", "dec"}
          \/ pc[r] \in {"idxRead", "idxWrite"} /\ "user" \in got[r]

Past(k) == {r \in hurt : ~Before(r, k)}

Admission == {"idle", "try", "touch", "queue", "touchWait", "wait", "dec"}

\* What a request holds and owes at each stage.
Sane(r) ==
    /\ pc[r] = "idle" => kind[r] = "user"
    /\ pc[r] # "dead" /\ kind[r] = "account" => "user" \in got[r]
    /\ pc[r] \in {"lease", "forward"} => kind[r] = "account" /\ "account" \in got[r]
    /\ queued[r] => pc[r] \in {"touch", "touchWait", "wait", "dec"}
    /\ pc[r] \in {"touchWait", "wait", "dec"} => queued[r]
    /\ pc[r] \in {"create", "save"} => leased[r] = "held"
    /\ leased[r] \in {"held", "failed"} => kind[r] = "account"
    /\ "account" \in got[r] => "user" \in got[r]
    /\ pc[r] = "release" /\ kind[r] = "user" => "account" \notin got[r]
    /\ pc[r] \in Admission => leased[r] = "no"
    /\ pc[r] \in {"idxRead", "idxWrite"} /\ kind[r] \in got[r] => leased[r] = "no"
    /\ pc[r] = "done" => got[r] = {} /\ leased[r] = "no"

Stages == \A r \in Requests : Sane(r)

\* Without a limit no slot is taken.
Unlimited == \A k \in Kinds : Max[k] = 0 => slots[k] = {}

\* A slot or a lease that is in use is in Redis and has not expired there,
\* unless it lapsed.
Held ==
    \A r \in Requests : \A k \in Kinds : <<k, r>> \notin lapsed =>
        /\ k \in got[r] /\ Max[k] > 0 => Own(r) \in Pruned(k)
        /\ leased[r] # "no" => r \in PrunedLive

\* A Live session stands for the slot it traded: while it holds both, they
\* count once.
Lessees(k)  == {r \in PrunedLive : <<k, r>> \notin lapsed}
Occupied(k) == Pruned(k) \cup {Own(r) : r \in Lessees(k)}
Capacity    == \A k \in Kinds : Max[k] > 0 => Cardinality(Occupied(k)) <= Max[k]

\* The wait counter is bounded by the queue, counts every waiter but those it
\* missed, and counts nobody who has not been there.
Counted ==
    \A k \in Kinds :
        /\ wait[k] <= Queue[k]
        /\ Cardinality(Waiting(k)) <= wait[k] + missed[k]
        /\ wait[k] <= Cardinality(Waiting(k) \cup Past(k))

\* Whatever a request that met no fault has in Redis, it still holds.
Clean ==
    \A r \in Requests \ hurt :
        /\ r \in live => leased[r] # "no"
        /\ \A k \in Kinds : \A m \in slots[k] : m[1] = r => m = Own(r) /\ k \in got[r]

IndInv == TypeOK /\ Stages /\ Unlimited /\ Held /\ Capacity /\ Counted /\ Clean

-----------------------------------------------------------------------------
(* What a step of a request does to its local variables. *)

LocalTypes ==
    /\ pc \in [Requests -> Labels] /\ kind \in [Requests -> Kinds]
    /\ got \in [Requests -> SUBSET Kinds] /\ queued \in [Requests -> BOOLEAN]
    /\ leased \in [Requests -> Leases] /\ load \in [Requests -> Loads]

\* The step leaves the other requests alone, and takes r to the label l.
Moves(r, l, k, gs, q, le) ==
    /\ LocalTypes'
    /\ \A s \in Requests \ {r} :
        /\ pc'[s] = pc[s] /\ kind'[s] = kind[s] /\ got'[s] = got[s]
        /\ queued'[s] = queued[s] /\ leased'[s] = leased[s]
    /\ pc'[r] = l /\ kind'[r] = k /\ got'[r] = gs /\ queued'[r] = q /\ leased'[r] = le

LEMMA Went ==
    ASSUME TypeOK, NEW r \in Requests, NEW l \in Labels, Goto(r, l) \/ (l = pc[r] /\ pc' = pc),
           UNCHANGED load \/ \E x \in Loads : load' = [load EXCEPT ![r] = x]
    PROVE  /\ UNCHANGED <<kind, got, queued, leased>>
              => Moves(r, l, kind[r], got[r], queued[r], leased[r])
           /\ \A k \in Kinds :
                /\ kind' = [kind EXCEPT ![r] = k] /\ UNCHANGED <<got, queued, leased>>
                   => Moves(r, l, k, got[r], queued[r], leased[r])
                /\ got' = [got EXCEPT ![r] = @ \cup {k}] /\ UNCHANGED <<kind, queued, leased>>
                   => Moves(r, l, kind[r], got[r] \cup {k}, queued[r], leased[r])
                /\ got' = [got EXCEPT ![r] = @ \ {k}] /\ UNCHANGED <<kind, queued, leased>>
                   => Moves(r, l, kind[r], got[r] \ {k}, queued[r], leased[r])
           /\ \A q \in BOOLEAN :
                queued' = [queued EXCEPT ![r] = q] /\ UNCHANGED <<kind, got, leased>>
                => Moves(r, l, kind[r], got[r], q, leased[r])
           /\ \A le \in Leases :
                leased' = [leased EXCEPT ![r] = le] /\ UNCHANGED <<kind, got, queued>>
                => Moves(r, l, kind[r], got[r], queued[r], le)
<1>1. pc' \in [Requests -> Labels] /\ pc'[r] = l /\ \A s \in Requests \ {r} : pc'[s] = pc[s]
  BY DEF TypeOK, Goto
<1>2. load' \in [Requests -> Loads]
  BY DEF TypeOK
<1>3. LocalTypes
  BY DEF TypeOK, LocalTypes, Leases
<1> QED BY <1>1, <1>2, <1>3 DEF Moves, LocalTypes

\* Where Resume may take a request that owes nothing.
Onward(r, k, gs, le) ==
    \/ k = "user" /\ k \in gs /\ Moves(r, "try", "account", gs, FALSE, le)
    \/ /\ k = "account" /\ k \in gs
       /\ \E l \in {"lease", "forward"} : Moves(r, l, k, gs, FALSE, le)
    \/ k \notin gs /\ le = "held" /\ Moves(r, "save", k, gs, FALSE, le)
    \/ k \notin gs /\ le = "failed" /\ Moves(r, "releaseLease", k, gs, FALSE, le)
    \/ k \notin gs /\ le \in {"no", "open"} /\ gs # {} /\ Moves(r, "release", "user", gs, FALSE, le)
    \/ gs = {} /\ le = "open" /\ Moves(r, "session", "user", gs, FALSE, le)
    \/ gs = {} /\ le = "no" /\ Moves(r, "done", "user", gs, FALSE, le)

LEMMA Assigned ==
    ASSUME TypeOK, NEW r \in Requests, NEW l \in Labels, NEW k \in Kinds, NEW gs \in SUBSET Kinds,
           NEW q \in BOOLEAN, NEW le \in Leases,
           Goto(r, l), kind' = [kind EXCEPT ![r] = k], got' = [got EXCEPT ![r] = gs],
           queued' = [queued EXCEPT ![r] = q], leased' = [leased EXCEPT ![r] = le],
           load' = [load EXCEPT ![r] = "none"]
    PROVE  Moves(r, l, k, gs, q, le)
<1>1. LocalTypes'
  BY DEF TypeOK, LocalTypes, Leases, Goto, Loads
<1> QED BY <1>1 DEF Moves, TypeOK, Goto

\* Resume: back to the decrement, or onward.
LEMMA Resumes ==
    ASSUME TypeOK, NEW r \in Requests, NEW k \in Kinds, NEW gs \in SUBSET Kinds,
           NEW le \in Leases
    PROVE  /\ Resume(r, k, gs, TRUE, le) => Moves(r, "dec", k, gs, TRUE, le)
           /\ Resume(r, k, gs, FALSE, le) => Onward(r, k, gs, le)
<1> DEFINE Go(l, kk) == Goto(r, l) /\ kind' = [kind EXCEPT ![r] = kk]
           Sets(q)   == /\ got' = [got EXCEPT ![r] = gs] /\ queued' = [queued EXCEPT ![r] = q]
                        /\ leased' = [leased EXCEPT ![r] = le]
                        /\ load' = [load EXCEPT ![r] = "none"]
<1>1. ASSUME NEW q \in BOOLEAN, Sets(q), NEW l \in Labels, NEW kk \in Kinds, Go(l, kk)
      PROVE  Moves(r, l, kk, gs, q, le)
  BY <1>1, Assigned
<1>2. ASSUME Resume(r, k, gs, TRUE, le)
      PROVE  Moves(r, "dec", k, gs, TRUE, le)
  <2>1. Sets(TRUE)
    BY <1>2 DEF Resume, Goto
  <2>2. Go("dec", k)
    BY <1>2 DEF Resume, Goto
  <2> QED BY <1>1, <2>1, <2>2 DEF Labels
<1>3. ASSUME Resume(r, k, gs, FALSE, le)
      PROVE  Onward(r, k, gs, le)
  <2>1. Sets(FALSE)
    BY <1>3 DEF Resume
  <2>2. \/ k = "user" /\ k \in gs /\ Go("try", "account")
        \/ k = "account" /\ k \in gs /\ \E l \in {"lease", "forward"} : Go(l, k)
        \/ k \notin gs /\ le = "held" /\ Go("save", k)
        \/ k \notin gs /\ le = "failed" /\ Go("releaseLease", k)
        \/ k \notin gs /\ le \in {"no", "open"} /\ gs # {} /\ Go("release", "user")
        \/ gs = {} /\ le = "open" /\ Go("session", "user")
        \/ gs = {} /\ le = "no" /\ Go("done", "user")
    BY <1>3 DEF Resume, Goto, Kinds, Leases
  <2>3. ASSUME NEW l \in Labels, NEW kk \in Kinds, Go(l, kk)
        PROVE  Moves(r, l, kk, gs, FALSE, le)
    BY <1>1, <2>1, <2>3
  <2> QED BY <2>2, <2>3 DEF Onward, Labels, Kinds
<1> QED BY <1>2, <1>3

-----------------------------------------------------------------------------
(* The summaries of a step of request r. *)

RedisTypes ==
    /\ slots \in [Kinds -> SUBSET Members] /\ aged \subseteq Kinds \X Members
    /\ live \subseteq Requests /\ agedLive \subseteq live
    /\ wait \in [Kinds -> Nat] /\ index \in [Kinds -> {"absent", "fresh", "due"}]

\* What a script does to the slots and leases that have not expired.
Still ==
    /\ \A j \in Kinds : Pruned(j)' = Pruned(j) /\ slots'[j] \subseteq slots[j]
    /\ PrunedLive' = PrunedLive /\ live' \subseteq live

Adds(k, m) ==
    /\ \A j \in Kinds :
        /\ Pruned(j)' = IF j = k THEN Pruned(j) \cup {m} ELSE Pruned(j)
        /\ slots'[j] \subseteq IF j = k THEN slots[j] \cup {m} ELSE slots[j]
    /\ PrunedLive' = PrunedLive /\ live' \subseteq live

Drops(k, r) ==
    /\ \A j \in Kinds :
        /\ Pruned(j)' = IF j = k THEN Pruned(j) \ {Own(r)} ELSE Pruned(j)
        /\ slots'[j] \subseteq IF j = k THEN slots[j] \ {Own(r)} ELSE slots[j]
    /\ PrunedLive' = PrunedLive /\ live' \subseteq live

AddsLease(r) ==
    /\ \A j \in Kinds : Pruned(j)' = Pruned(j) /\ slots'[j] \subseteq slots[j]
    /\ PrunedLive' = PrunedLive \cup {r} /\ live' \subseteq live \cup {r}

DropsLease(r) ==
    /\ \A j \in Kinds : Pruned(j)' = Pruned(j) /\ slots'[j] \subseteq slots[j]
    /\ PrunedLive' = PrunedLive \ {r} /\ live' \subseteq live \ {r}

SameHoldings(r) == got'[r] = got[r] /\ leased'[r] = leased[r]

\* The request holds what it held, what is unlimited apart ...
Keeps(r) ==
    /\ Still
    /\ \A j \in Kinds : Max[j] > 0 => (j \in got'[r] <=> j \in got[r])
    /\ leased'[r] = "no" <=> leased[r] = "no"

\* ... or a fault made it leave something behind;
Loses(r) ==
    /\ Still /\ r \in hurt'
    /\ \A j \in Kinds : Max[j] > 0 /\ j \in got'[r] => j \in got[r]
    /\ leased[r] = "no" => leased'[r] = "no"

\* it takes a slot, or one is taken that it will not know of;
Takes(r, k) ==
    /\ HasRoom(k) /\ Adds(k, Own(r))
    /\ got'[r] = got[r] \cup {k} /\ leased'[r] = leased[r]

Strays(r, k) ==
    /\ HasRoom(k) /\ r \in hurt' /\ SameHoldings(r)
    /\ \E x \in {"try", "wait"} : Adds(k, <<r, x>>)

\* it gives a slot back; it takes a lease for its slots, or gives it back.
GivesBack(r, k) == Drops(k, r) /\ got'[r] = got[r] \ {k} /\ leased'[r] = leased[r]

Trades(r) ==
    /\ AddsLease(r) /\ got'[r] = got[r] /\ Kinds \subseteq got[r]
    /\ leased'[r] # "no" \/ r \in hurt'

EndsLease(r) == DropsLease(r) /\ got'[r] = got[r] /\ leased'[r] = "no"

SlotStep(r) ==
    \/ Keeps(r) \/ Loses(r) \/ Trades(r) \/ EndsLease(r)
    \/ \E k \in Kinds : Takes(r, k) \/ Strays(r, k) \/ GivesBack(r, k)

\* The queues: the request stays where it is; it joins one, counted or not;
\* it leaves one, and is discounted or not.
Stays(r) ==
    /\ UNCHANGED <<wait, missed>>
    /\ \A j \in Kinds : (queued'[r] /\ kind'[r] = j) <=> (queued[r] /\ kind[r] = j)

Joins(r) ==
    /\ ~queued[r] /\ queued'[r] /\ kind'[r] = kind[r] /\ Before(r, kind[r])
    /\ wait[kind[r]] < Queue[kind[r]]
    /\ wait' = [wait EXCEPT ![kind[r]] = @ + 1]
    /\ missed' = [missed EXCEPT ![kind[r]] = Missed(kind[r])]

Slips(r) ==
    /\ ~queued[r] /\ queued'[r] /\ kind'[r] = kind[r]
    /\ UNCHANGED wait /\ missed' = [missed EXCEPT ![kind[r]] = Missed(kind[r]) + 1]

Leaves(r) ==
    /\ queued[r] /\ ~queued'[r] /\ UNCHANGED missed
    /\ wait' = [wait EXCEPT ![kind[r]] = IF @ > 0 THEN @ - 1 ELSE @]

Abandons(r) ==
    /\ queued[r] /\ ~queued'[r] /\ UNCHANGED <<wait, missed>>
    /\ r \in hurt' /\ \A j \in Kinds : Before(r, j)' => j # kind[r]

QueueStep(r) ==
    /\ Stays(r) \/ Joins(r) \/ Slips(r) \/ Leaves(r) \/ Abandons(r)
    /\ \A j \in Kinds : Before(r, j)' => Before(r, j)

Alone(r) ==
    \A s \in Requests \ {r} :
        /\ pc'[s] = pc[s] /\ kind'[s] = kind[s] /\ got'[s] = got[s]
        /\ queued'[s] = queued[s] /\ leased'[s] = leased[s]

Served(r) ==
    /\ TypeOK' /\ Alone(r) /\ Sane(r)' /\ SlotStep(r) /\ QueueStep(r)
    /\ UNCHANGED lapsed /\ hurt \subseteq hurt' /\ hurt' \subseteq hurt \cup {r}

\* The faults and the requests' history.
LEMMA Hurts ==
    ASSUME TypeOK, NEW r \in Requests
    PROVE  /\ Sound => hurt' = hurt /\ faults' \in 0 .. MaxFaults
           /\ \A x : Fault(x, {r}) => hurt' = hurt \cup {r} /\ faults' \in 0 .. MaxFaults
BY SlotConstants DEF TypeOK, Sound, Fault

\* The scripts, by what they do to the slots and leases that have not expired.
LEMMA Scripts ==
    ASSUME TypeOK, NEW k \in Kinds, NEW r \in Requests, NEW m \in Members
    PROVE  /\ UNCHANGED redis => Still /\ RedisTypes' /\ wait' = wait
           /\ Acquire(k, {}) => Still /\ RedisTypes' /\ wait' = wait
           /\ Acquire(k, {m}) => Adds(k, m) /\ RedisTypes' /\ wait' = wait
           /\ PruneSlots(k) /\ UNCHANGED <<live, agedLive, wait, index>>
              => Still /\ RedisTypes' /\ wait' = wait
           /\ \A v \in {"absent", "fresh", "due"} :
                SetIndex(k, v) => Still /\ RedisTypes' /\ wait' = wait
           /\ /\ slots' = [slots EXCEPT ![k] = @ \ {Own(r)}]
              /\ aged' = aged \ {<<k, Own(r)>>} /\ UNCHANGED <<live, agedLive, wait, index>>
              => Drops(k, r) /\ RedisTypes' /\ wait' = wait
           /\ live' = PrunedLive /\ agedLive' = {} /\ UNCHANGED <<slots, aged, wait, index>>
              => Still /\ RedisTypes' /\ wait' = wait
           /\ live' = PrunedLive \cup {r} /\ agedLive' = {} /\ UNCHANGED <<slots, aged, wait, index>>
              => AddsLease(r) /\ RedisTypes' /\ wait' = wait
           /\ /\ live' = live \ {r} /\ agedLive' = agedLive \ {r}
              /\ UNCHANGED <<slots, aged, wait, index>>
              => DropsLease(r) /\ RedisTypes' /\ wait' = wait
           /\ UNCHANGED <<slots, aged, live, agedLive>> => Still
<1>1. RedisTypes
  BY DEF TypeOK, RedisTypes
<1>2. UNCHANGED redis => Still /\ RedisTypes' /\ wait' = wait
  BY <1>1 DEF redis, RedisTypes, Still, Pruned, PrunedLive
<1>3. Acquire(k, {}) => Still /\ RedisTypes' /\ wait' = wait
  BY <1>1 DEF Acquire, RedisTypes, Still, Pruned, PrunedLive
<1>4. Acquire(k, {m}) => Adds(k, m) /\ RedisTypes' /\ wait' = wait
  BY <1>1 DEF Acquire, RedisTypes, Adds, Pruned, PrunedLive
<1>5. PruneSlots(k) /\ UNCHANGED <<live, agedLive, wait, index>>
      => Still /\ RedisTypes' /\ wait' = wait
  BY <1>1 DEF PruneSlots, RedisTypes, Still, Pruned, PrunedLive
<1>6. \A v \in {"absent", "fresh", "due"} :
        SetIndex(k, v) => Still /\ RedisTypes' /\ wait' = wait
  BY <1>1 DEF SetIndex, RedisTypes, Still, Pruned, PrunedLive
<1>7. ASSUME slots' = [slots EXCEPT ![k] = @ \ {Own(r)}],
             aged' = aged \ {<<k, Own(r)>>}, UNCHANGED <<live, agedLive, wait, index>>
      PROVE  Drops(k, r) /\ RedisTypes' /\ wait' = wait
  BY <1>1, <1>7 DEF RedisTypes, Drops, Pruned, PrunedLive, Own
<1>8. live' = PrunedLive /\ agedLive' = {} /\ UNCHANGED <<slots, aged, wait, index>>
      => Still /\ RedisTypes' /\ wait' = wait
  BY <1>1 DEF RedisTypes, Still, Pruned, PrunedLive
<1>9. live' = PrunedLive \cup {r} /\ agedLive' = {} /\ UNCHANGED <<slots, aged, wait, index>>
      => AddsLease(r) /\ RedisTypes' /\ wait' = wait
  BY <1>1 DEF RedisTypes, AddsLease, Pruned, PrunedLive
<1>10. /\ live' = live \ {r} /\ agedLive' = agedLive \ {r}
       /\ UNCHANGED <<slots, aged, wait, index>>
       => DropsLease(r) /\ RedisTypes' /\ wait' = wait
  BY <1>1 DEF RedisTypes, DropsLease, Pruned, PrunedLive
<1>11. UNCHANGED <<slots, aged, live, agedLive>> => Still
  BY <1>1 DEF RedisTypes, Still, Pruned, PrunedLive
<1> QED BY <1>2, <1>3, <1>4, <1>5, <1>6, <1>7, <1>8, <1>9, <1>10, <1>11

\* The types, from their parts.
LEMMA Types ==
    ASSUME TypeOK, LocalTypes', RedisTypes', UNCHANGED <<up, cleaner, lapsed>>,
           faults' \in 0 .. MaxFaults, missed' \in [Kinds -> Nat], hurt' \subseteq Requests
    PROVE  TypeOK'
BY DEF TypeOK, LocalTypes, RedisTypes, Leases

\* A request that goes onward is sane, owes nothing, and has at most the
\* account's queue before it.
LEMMA Advances ==
    ASSUME TypeOK, NEW r \in Requests, NEW k \in Kinds, NEW gs \in SUBSET Kinds, NEW le \in Leases,
           Onward(r, k, gs, le),
           k = "account" /\ (k \in gs \/ le \in {"held", "failed"}) => "user" \in gs,
           k = "user" /\ k \in gs => le = "no", le \in {"held", "failed"} => k = "account",
           "account" \in gs => "user" \in gs
    PROVE  /\ LocalTypes' /\ Alone(r) /\ Sane(r)' /\ ~queued'[r]
           /\ got'[r] = gs /\ leased'[r] = le
           /\ \A j \in Kinds : Before(r, j)' => j = "account" /\ k = "user" /\ k \in gs
<1>1. /\ LocalTypes' /\ Alone(r) /\ ~queued'[r] /\ got'[r] = gs /\ leased'[r] = le
      /\ \/ pc'[r] = "try" /\ kind'[r] = "account" /\ k = "user" /\ k \in gs
         \/ pc'[r] \in {"lease", "forward"} /\ kind'[r] = k /\ k = "account" /\ k \in gs
         \/ pc'[r] = "save" /\ kind'[r] = k /\ k \notin gs /\ le = "held"
         \/ pc'[r] = "releaseLease" /\ kind'[r] = k /\ k \notin gs /\ le = "failed"
         \/ /\ pc'[r] = "release" /\ kind'[r] = "user" /\ k \notin gs
            /\ le \in {"no", "open"} /\ gs # {}
         \/ pc'[r] = "session" /\ kind'[r] = "user" /\ gs = {} /\ le = "open"
         \/ pc'[r] = "done" /\ kind'[r] = "user" /\ gs = {} /\ le = "no"
  BY DEF Onward, Moves, Alone
<1>2. k \in {"user", "account"}
  BY DEF Kinds
<1>3. Sane(r)'
  BY <1>1, <1>2 DEF Sane, Admission
<1>4. \A j \in Kinds : Before(r, j)' => j = "account" /\ k = "user" /\ k \in gs
  BY <1>1, <1>2 DEF Before, Kinds
<1> QED BY <1>1, <1>3, <1>4

LEMMA Serves ==
    ASSUME TypeOK, NEW r \in Requests, LocalTypes', RedisTypes', Alone(r), Sane(r)',
           SlotStep(r), QueueStep(r), UNCHANGED <<up, cleaner, lapsed>>, missed' \in [Kinds -> Nat],
           faults' \in 0 .. MaxFaults, hurt' = hurt \/ hurt' = hurt \cup {r}
    PROVE  Served(r)
<1>1. hurt' \subseteq Requests
  BY DEF TypeOK
<1> QED BY <1>1, Types DEF Served

\* A step of a request that is in admission, or writes the index after it,
\* leaves nothing before it that was behind it.
LEMMA Onwards ==
    ASSUME TypeOK, NEW r \in Requests, Sane(r), NEW gs \in SUBSET Kinds, NEW le \in Leases,
           Onward(r, kind[r], gs, le), pc[r] # "dead", "user" \in got[r] => "user" \in gs,
           "account" \in gs => "user" \in got[r] \/ kind[r] = "account",
           \/ pc[r] \in Admission /\ le = "no"
           \/ pc[r] \in {"idxRead", "idxWrite"} /\ gs = got[r] /\ le = leased[r]
    PROVE  /\ LocalTypes' /\ Alone(r) /\ Sane(r)' /\ ~queued'[r]
           /\ got'[r] = gs /\ leased'[r] = le
           /\ \A j \in Kinds : Before(r, j)' => Before(r, j) /\ j # kind[r]
<1>1. /\ kind[r] \in Kinds /\ got[r] \in SUBSET Kinds
      /\ kind[r] = "account" => "user" \in gs
      /\ kind[r] = "user" /\ kind[r] \in gs => le = "no"
      /\ le \in {"held", "failed"} => kind[r] = "account"
      /\ "account" \in gs => "user" \in gs
  BY DEF TypeOK, Sane, Kinds, Admission
<1>2. /\ LocalTypes' /\ Alone(r) /\ Sane(r)' /\ ~queued'[r] /\ got'[r] = gs /\ leased'[r] = le
      /\ \A j \in Kinds : Before(r, j)' => j = "account" /\ kind[r] = "user" /\ kind[r] \in gs
  BY <1>1, Advances
<1>3. kind[r] = "user" /\ kind[r] \in gs => Before(r, "account")
  BY <1>1 DEF Before, Admission, Sane
<1> QED BY <1>1, <1>2, <1>3

LEMMA StartServed ==
    ASSUME TypeOK, Stages, NEW r \in Requests, Start(r) PROVE Served(r)
<1>1. Sane(r) /\ pc[r] = "idle" /\ UNCHANGED <<up, cleaner, lapsed, missed>>
  BY DEF Stages, Start, At
<1>2. Moves(r, "try", kind[r], got[r], queued[r], leased[r])
  BY Went DEF Start, local, Labels
<1>3. Still /\ RedisTypes' /\ wait' = wait /\ hurt' = hurt /\ faults' \in 0 .. MaxFaults
  <2>1. "user" \in Kinds /\ Own(r) \in Members
    BY DEF Kinds, Members, Own
  <2> QED BY <2>1, Scripts, Hurts DEF Start
<1>4. LocalTypes' /\ Alone(r) /\ Sane(r)' /\ \A j \in Kinds : Before(r, j)' => Before(r, j)
  BY <1>1, <1>2 DEF Moves, Alone, Sane, Before, Admission
<1>5. SlotStep(r) /\ QueueStep(r)
  BY <1>1, <1>2, <1>3, <1>4 DEF SlotStep, Keeps, QueueStep, Stays, Moves
<1> QED BY <1>1, <1>3, <1>4, <1>5, Serves DEF TypeOK

LEMMA TryAcquireServed ==
    ASSUME TypeOK, Stages, NEW r \in Requests, TryAcquire(r) PROVE Served(r)
<1> DEFINE k == kind[r]
           refused == \/ Resume(r, k, got[r], FALSE, "no")
                      \/ Goto(r, "queue") /\ UNCHANGED local
<1>1. Sane(r) /\ pc[r] = "try" /\ UNCHANGED <<up, cleaner, lapsed, missed>> /\ k \in Kinds
      /\ got[r] \in SUBSET Kinds /\ missed' \in [Kinds -> Nat] /\ ~queued[r] /\ leased[r] = "no"
  BY DEF TypeOK, Stages, TryAcquire, At, Sane, Admission
<1>2. \/ /\ Max[k] = 0 /\ Sound /\ UNCHANGED redis
         /\ Resume(r, k, got[r] \cup {k}, FALSE, "no")
      \/ /\ HasRoom(k) /\ Sound /\ Acquire(k, {Own(r)})
         /\ got' = [got EXCEPT ![r] = @ \cup {k}]
         /\ Goto(r, "touch") /\ UNCHANGED <<kind, queued, leased, load>>
      \/ Sound /\ Acquire(k, {}) /\ refused
      \/ Fault("redis", {r}) /\ UNCHANGED redis /\ refused
      \/ HasRoom(k) /\ Fault("lost", {r}) /\ Acquire(k, {<<r, "try">>}) /\ refused
  BY DEF TryAcquire
<1>3. ASSUME refused
      PROVE  /\ LocalTypes' /\ Alone(r) /\ Sane(r)' /\ SameHoldings(r) /\ ~queued'[r]
             /\ \A j \in Kinds : Before(r, j)' => Before(r, j)
  <2>1. CASE Resume(r, k, got[r], FALSE, "no")
    <3>1. Onward(r, k, got[r], "no")
      BY <1>1, <2>1, Resumes DEF Leases
    <3> QED BY <1>1, <3>1, Onwards DEF SameHoldings, Admission, Leases, Sane, Kinds
  <2>2. CASE Goto(r, "queue") /\ UNCHANGED local
    <3>1. Moves(r, "queue", kind[r], got[r], queued[r], leased[r])
      BY <2>2, Went DEF local, Labels
    <3> QED BY <1>1, <3>1 DEF Moves, Alone, Sane, SameHoldings, Before, Admission
  <2> QED BY <1>3, <2>1, <2>2
<1>4. <<r, "try">> \in Members /\ Own(r) \in Members
  BY DEF Members, Own
<1> HIDE DEF refused
<1>5. CASE /\ Max[k] = 0 /\ Sound /\ UNCHANGED redis
           /\ Resume(r, k, got[r] \cup {k}, FALSE, "no")
  <2>1. Onward(r, k, got[r] \cup {k}, "no")
    BY <1>1, <1>5, Resumes DEF Leases
  <2>2. /\ LocalTypes' /\ Alone(r) /\ Sane(r)' /\ ~queued'[r] /\ got'[r] = got[r] \cup {k}
        /\ leased'[r] = "no" /\ \A j \in Kinds : Before(r, j)' => Before(r, j)
    BY <1>1, <2>1, Onwards DEF Admission, Leases, Sane, Kinds
  <2>3. Still /\ RedisTypes' /\ wait' = wait /\ hurt' = hurt /\ faults' \in 0 .. MaxFaults
    BY <1>1, <1>4, <1>5, Scripts, Hurts
  <2>4. SlotStep(r) /\ QueueStep(r)
    BY <1>1, <1>5, <2>2, <2>3 DEF SlotStep, Keeps, QueueStep, Stays
  <2> QED BY <1>1, <2>2, <2>3, <2>4, Serves
<1>6. CASE /\ HasRoom(k) /\ Sound /\ Acquire(k, {Own(r)})
           /\ got' = [got EXCEPT ![r] = @ \cup {k}]
           /\ Goto(r, "touch") /\ UNCHANGED <<kind, queued, leased, load>>
  <2>1. Moves(r, "touch", kind[r], got[r] \cup {k}, queued[r], leased[r])
    BY <1>1, <1>6, Went DEF Labels
  <2>2. /\ LocalTypes' /\ Alone(r) /\ Sane(r)' /\ got'[r] = got[r] \cup {k}
        /\ leased'[r] = leased[r] /\ \A j \in Kinds : Before(r, j)' => Before(r, j)
    BY <1>1, <2>1 DEF Moves, Alone, Sane, Before, Admission, Kinds
  <2>3. /\ Adds(k, Own(r)) /\ RedisTypes' /\ wait' = wait /\ hurt' = hurt
        /\ faults' \in 0 .. MaxFaults
    BY <1>1, <1>4, <1>6, Scripts, Hurts
  <2>4. SlotStep(r) /\ QueueStep(r)
    BY <1>1, <1>6, <2>1, <2>2, <2>3 DEF SlotStep, Takes, QueueStep, Stays, Moves
  <2> QED BY <1>1, <2>2, <2>3, <2>4, Serves
<1>7. CASE /\ \/ Sound /\ Acquire(k, {})
              \/ Fault("redis", {r}) /\ UNCHANGED redis
           /\ refused
  <2>1. /\ Still /\ RedisTypes' /\ wait' = wait /\ faults' \in 0 .. MaxFaults
        /\ hurt' = hurt \/ hurt' = hurt \cup {r}
    BY <1>1, <1>4, <1>7, Scripts, Hurts
  <2>2. SlotStep(r) /\ QueueStep(r)
    BY <1>1, <1>3, <1>7, <2>1 DEF SlotStep, Keeps, SameHoldings, QueueStep, Stays
  <2> QED BY <1>1, <1>3, <1>7, <2>1, <2>2, Serves
<1>8. CASE HasRoom(k) /\ Fault("lost", {r}) /\ Acquire(k, {<<r, "try">>}) /\ refused
  <2>1. /\ Adds(k, <<r, "try">>) /\ RedisTypes' /\ wait' = wait /\ hurt' = hurt \cup {r}
        /\ faults' \in 0 .. MaxFaults
    BY <1>1, <1>4, <1>8, Scripts, Hurts
  <2>2. SlotStep(r) /\ QueueStep(r)
    BY <1>1, <1>3, <1>8, <2>1 DEF SlotStep, Strays, QueueStep, Stays
  <2> QED BY <1>1, <1>3, <1>8, <2>1, <2>2, Serves
<1> QED BY <1>2, <1>5, <1>6, <1>7, <1>8

LEMMA TouchServed ==
    ASSUME TypeOK, Stages, NEW r \in Requests, Touch(r) PROVE Served(r)
<1>1. /\ Sane(r) /\ pc[r] = "touch" /\ UNCHANGED <<up, cleaner, lapsed, missed>>
      /\ kind[r] \in Kinds /\ got[r] \in SUBSET Kinds /\ missed' \in [Kinds -> Nat] /\ leased[r] = "no"
      /\ queued[r] \in BOOLEAN /\ Own(r) \in Members
  BY DEF TypeOK, Stages, Touch, At, Sane, Admission, Members, Own
<1>2. /\ \/ SetIndex(kind[r], "fresh") /\ Sound
         \/ UNCHANGED redis /\ Fault("redis", {r})
      /\ Resume(r, kind[r], got[r], queued[r], leased[r])
  BY DEF Touch
<1>3. /\ Still /\ RedisTypes' /\ wait' = wait /\ faults' \in 0 .. MaxFaults
      /\ hurt' = hurt \/ hurt' = hurt \cup {r}
  BY <1>1, <1>2, Scripts, Hurts
<1>4. /\ LocalTypes' /\ Alone(r) /\ Sane(r)' /\ SameHoldings(r)
      /\ \A j \in Kinds : (queued'[r] /\ kind'[r] = j) <=> (queued[r] /\ kind[r] = j)
      /\ \A j \in Kinds : Before(r, j)' => Before(r, j)
  <2>1. CASE queued[r] = TRUE
    <3>1. Resume(r, kind[r], got[r], TRUE, leased[r])
      BY <1>2, <2>1, Zenon
    <3>2. Moves(r, "dec", kind[r], got[r], TRUE, leased[r])
      BY <1>1, <3>1, Resumes DEF Leases
    <3> QED BY <1>1, <2>1, <3>2 DEF Moves, Alone, Sane, SameHoldings, Before, Admission
  <2>2. CASE queued[r] = FALSE
    <3>1. Resume(r, kind[r], got[r], FALSE, leased[r])
      BY <1>2, <2>2, Zenon
    <3>2. Onward(r, kind[r], got[r], leased[r])
      BY <1>1, <3>1, Resumes DEF Leases
    <3> QED BY <1>1, <2>2, <3>2, Onwards DEF SameHoldings, Admission, Leases, Sane, Kinds
  <2> QED BY <1>1, <2>1, <2>2
<1>5. SlotStep(r) /\ QueueStep(r)
  BY <1>1, <1>3, <1>4 DEF SlotStep, Keeps, SameHoldings, QueueStep, Stays
<1> QED BY <1>1, <1>3, <1>4, <1>5, Serves

LEMMA IncrementWaitServed ==
    ASSUME TypeOK, Stages, NEW r \in Requests, IncrementWait(r) PROVE Served(r)
<1> DEFINE k == kind[r]
           counted == /\ wait' = [wait EXCEPT ![k] = @ + 1]
                      /\ missed' = [missed EXCEPT ![k] = Missed(k)]
                      /\ UNCHANGED <<slots, aged, live, agedLive, index>>
           waits(l) == /\ queued' = [queued EXCEPT ![r] = TRUE]
                       /\ Goto(r, l) /\ UNCHANGED <<kind, got, leased, load>>
<1>1. /\ Sane(r) /\ pc[r] = "queue" /\ UNCHANGED <<up, cleaner, lapsed>> /\ Own(r) \in Members
      /\ k \in Kinds /\ got[r] \in SUBSET Kinds /\ leased[r] = "no"
      /\ ~queued[r] /\ Before(r, k) /\ missed \in [Kinds -> Nat] /\ Missed(k) \in Nat
  BY DEF TypeOK, Stages, IncrementWait, At, Sane, Admission, Members, Own, Before, Missed
<1>2. \/ wait[k] < Queue[k] /\ Sound /\ counted /\ waits("touchWait")
      \/ /\ Sound /\ UNCHANGED redis /\ UNCHANGED missed
         /\ Resume(r, k, got[r], FALSE, "no")
      \/ /\ Fault("redis", {r}) /\ UNCHANGED redis
         /\ missed' = [missed EXCEPT ![k] = Missed(k) + 1] /\ waits("wait")
      \/ wait[k] < Queue[k] /\ Fault("lost", {r}) /\ counted /\ waits("wait")
  BY DEF IncrementWait
<1>3. ASSUME NEW l \in {"touchWait", "wait"}, waits(l)
      PROVE  /\ LocalTypes' /\ Alone(r) /\ Sane(r)' /\ SameHoldings(r)
             /\ queued'[r] /\ kind'[r] = k /\ \A j \in Kinds : Before(r, j)' => Before(r, j)
  <2>1. Moves(r, l, kind[r], got[r], TRUE, leased[r])
    BY <1>3, Went DEF Labels
  <2> QED BY <1>1, <2>1 DEF Moves, Alone, Sane, SameHoldings, Before, Admission
<1>4. ASSUME counted
      PROVE  /\ Still /\ RedisTypes' /\ missed' \in [Kinds -> Nat]
             /\ wait' = [wait EXCEPT ![kind[r]] = @ + 1]
             /\ missed' = [missed EXCEPT ![kind[r]] = Missed(kind[r])]
  <2>1. Still /\ missed' \in [Kinds -> Nat]
    BY <1>1, <1>4, Scripts
  <2> QED BY <1>1, <1>4, <2>1 DEF TypeOK, RedisTypes
<1> HIDE DEF counted, waits
<1>5. CASE /\ wait[k] < Queue[k] /\ counted /\ \E l \in {"touchWait", "wait"} : waits(l)
           /\ Sound \/ Fault("lost", {r})
  <2>1. faults' \in 0 .. MaxFaults /\ (hurt' = hurt \/ hurt' = hurt \cup {r})
    BY <1>5, Hurts
  <2>2. SlotStep(r) /\ QueueStep(r)
    BY <1>1, <1>3, <1>4, <1>5 DEF SlotStep, Keeps, SameHoldings, QueueStep, Joins
  <2> QED BY <1>1, <1>3, <1>4, <1>5, <2>1, <2>2, Serves
<1>6. CASE Sound /\ UNCHANGED redis /\ UNCHANGED missed /\ Resume(r, k, got[r], FALSE, "no")
  <2>1. Onward(r, k, got[r], "no")
    BY <1>1, <1>6, Resumes DEF Leases
  <2>2. /\ LocalTypes' /\ Alone(r) /\ Sane(r)' /\ ~queued'[r] /\ SameHoldings(r)
        /\ \A j \in Kinds : Before(r, j)' => Before(r, j)
    BY <1>1, <2>1, Onwards DEF SameHoldings, Admission, Leases, Sane, Kinds
  <2>3. Still /\ RedisTypes' /\ wait' = wait /\ hurt' = hurt /\ faults' \in 0 .. MaxFaults
    BY <1>1, <1>6, Scripts, Hurts
  <2>4. SlotStep(r) /\ QueueStep(r)
    BY <1>1, <1>6, <2>2, <2>3 DEF SlotStep, Keeps, SameHoldings, QueueStep, Stays
  <2> QED BY <1>1, <1>6, <2>2, <2>3, <2>4, Serves
<1>7. CASE /\ Fault("redis", {r}) /\ UNCHANGED redis
           /\ missed' = [missed EXCEPT ![k] = Missed(k) + 1] /\ waits("wait")
  <2>1. /\ Still /\ RedisTypes' /\ wait' = wait /\ hurt' = hurt \cup {r}
        /\ faults' \in 0 .. MaxFaults
    BY <1>1, <1>7, Scripts, Hurts
  <2>2. missed' \in [Kinds -> Nat]
    BY <1>1, <1>7
  <2>3. SlotStep(r) /\ QueueStep(r)
    BY <1>1, <1>3, <1>7, <2>1 DEF SlotStep, Keeps, SameHoldings, QueueStep, Slips
  <2> QED BY <1>1, <1>3, <1>7, <2>1, <2>2, <2>3, Serves
<1> QED BY <1>2, <1>5, <1>6, <1>7

LEMMA TouchWaitServed ==
    ASSUME TypeOK, Stages, NEW r \in Requests, TouchWait(r) PROVE Served(r)
<1>1. /\ Sane(r) /\ pc[r] = "touchWait" /\ UNCHANGED <<up, cleaner, lapsed, missed>>
      /\ kind[r] \in Kinds /\ missed' \in [Kinds -> Nat] /\ Own(r) \in Members
  BY DEF TypeOK, Stages, TouchWait, At, Members, Own
<1>2. /\ (SetIndex(kind[r], "fresh") /\ Sound) \/ (UNCHANGED redis /\ Fault("redis", {r}))
      /\ Goto(r, "wait") /\ UNCHANGED local
  BY DEF TouchWait
<1>3. /\ Still /\ RedisTypes' /\ wait' = wait /\ faults' \in 0 .. MaxFaults
      /\ hurt' = hurt \/ hurt' = hurt \cup {r}
  BY <1>1, <1>2, Scripts, Hurts
<1>4. Moves(r, "wait", kind[r], got[r], queued[r], leased[r])
  BY <1>2, Went DEF local, Labels
<1>5. /\ LocalTypes' /\ Alone(r) /\ Sane(r)' /\ SameHoldings(r)
      /\ \A j \in Kinds : Before(r, j)' => Before(r, j)
  BY <1>1, <1>4 DEF Moves, Alone, Sane, SameHoldings, Before, Admission
<1>6. SlotStep(r) /\ QueueStep(r)
  BY <1>1, <1>3, <1>4, <1>5 DEF SlotStep, Keeps, SameHoldings, QueueStep, Stays, Moves
<1> QED BY <1>1, <1>3, <1>5, <1>6, Serves

LEMMA PollServed ==
    ASSUME TypeOK, Stages, NEW r \in Requests, Poll(r) PROVE Served(r)
<1> DEFINE k == kind[r]
<1>1. /\ Sane(r) /\ pc[r] = "wait" /\ UNCHANGED <<up, cleaner, lapsed, missed>> /\ k \in Kinds
      /\ got[r] \in SUBSET Kinds /\ missed' \in [Kinds -> Nat] /\ queued[r] = TRUE /\ leased[r] = "no"
      /\ Own(r) \in Members /\ <<r, "wait">> \in Members
  BY DEF TypeOK, Stages, Poll, At, Sane, Admission, Members, Own
<1>2. \/ /\ HasRoom(k) /\ Sound /\ Acquire(k, {Own(r)})
         /\ got' = [got EXCEPT ![r] = @ \cup {k}]
         /\ Goto(r, "touch") /\ UNCHANGED <<kind, queued, leased, load>>
      \/ Sound /\ Acquire(k, {}) /\ UNCHANGED <<pc, local>>
      \/ Sound /\ UNCHANGED redis /\ Resume(r, k, got[r], TRUE, "no")
      \/ /\ HasRoom(k) /\ Fault("lost", {r}) /\ Acquire(k, {<<r, "wait">>})
         /\ Resume(r, k, got[r], TRUE, "no")
  BY DEF Poll
<1>3. ASSUME Resume(r, k, got[r], TRUE, "no")
      PROVE  /\ LocalTypes' /\ Alone(r) /\ Sane(r)' /\ SameHoldings(r)
             /\ queued'[r] = TRUE /\ kind'[r] = k
             /\ \A j \in Kinds : Before(r, j)' => Before(r, j)
  <2>1. Moves(r, "dec", kind[r], got[r], TRUE, "no")
    BY <1>1, <1>3, Resumes DEF Leases
  <2> QED BY <1>1, <2>1 DEF Moves, Alone, Sane, SameHoldings, Before, Admission
<1>4. CASE /\ HasRoom(k) /\ Sound /\ Acquire(k, {Own(r)})
           /\ got' = [got EXCEPT ![r] = @ \cup {k}]
           /\ Goto(r, "touch") /\ UNCHANGED <<kind, queued, leased, load>>
  <2>1. Moves(r, "touch", kind[r], got[r] \cup {k}, queued[r], leased[r])
    BY <1>1, <1>4, Went DEF Labels
  <2>2. /\ LocalTypes' /\ Alone(r) /\ Sane(r)' /\ got'[r] = got[r] \cup {k}
        /\ leased'[r] = leased[r] /\ \A j \in Kinds : Before(r, j)' => Before(r, j)
    BY <1>1, <2>1 DEF Moves, Alone, Sane, Before, Admission, Kinds
  <2>3. /\ Adds(k, Own(r)) /\ RedisTypes' /\ wait' = wait /\ hurt' = hurt
        /\ faults' \in 0 .. MaxFaults
    BY <1>1, <1>4, Scripts, Hurts
  <2>4. SlotStep(r) /\ QueueStep(r)
    BY <1>1, <1>4, <2>1, <2>2, <2>3 DEF SlotStep, Takes, QueueStep, Stays, Moves
  <2> QED BY <1>1, <2>2, <2>3, <2>4, Serves
<1>5. CASE Sound /\ Acquire(k, {}) /\ UNCHANGED <<pc, local>>
  <2>1. Moves(r, pc[r], kind[r], got[r], queued[r], leased[r])
    BY <1>5, Went DEF local, TypeOK
  <2>2. /\ LocalTypes' /\ Alone(r) /\ Sane(r)' /\ SameHoldings(r)
        /\ \A j \in Kinds : Before(r, j)' => Before(r, j)
    BY <1>1, <2>1 DEF Moves, Alone, Sane, SameHoldings, Before
  <2>3. Still /\ RedisTypes' /\ wait' = wait /\ hurt' = hurt /\ faults' \in 0 .. MaxFaults
    BY <1>1, <1>5, Scripts, Hurts
  <2>4. SlotStep(r) /\ QueueStep(r)
    BY <1>1, <2>1, <2>2, <2>3 DEF SlotStep, Keeps, SameHoldings, QueueStep, Stays, Moves
  <2> QED BY <1>1, <2>2, <2>3, <2>4, Serves
<1>6. CASE Sound /\ UNCHANGED redis /\ Resume(r, k, got[r], TRUE, "no")
  <2>1. Still /\ RedisTypes' /\ wait' = wait /\ hurt' = hurt /\ faults' \in 0 .. MaxFaults
    BY <1>1, <1>6, Scripts, Hurts
  <2>2. SlotStep(r) /\ QueueStep(r)
    BY <1>1, <1>3, <1>6, <2>1 DEF SlotStep, Keeps, SameHoldings, QueueStep, Stays
  <2> QED BY <1>1, <1>3, <1>6, <2>1, <2>2, Serves
<1>7. CASE /\ HasRoom(k) /\ Fault("lost", {r}) /\ Acquire(k, {<<r, "wait">>})
           /\ Resume(r, k, got[r], TRUE, "no")
  <2>1. /\ Adds(k, <<r, "wait">>) /\ RedisTypes' /\ wait' = wait /\ hurt' = hurt \cup {r}
        /\ faults' \in 0 .. MaxFaults
    BY <1>1, <1>7, Scripts, Hurts
  <2>2. SlotStep(r) /\ QueueStep(r)
    BY <1>1, <1>3, <1>7, <2>1 DEF SlotStep, Strays, QueueStep, Stays
  <2> QED BY <1>1, <1>3, <1>7, <2>1, <2>2, Serves
<1> QED BY <1>2, <1>4, <1>5, <1>6, <1>7

LEMMA DecrementWaitServed ==
    ASSUME TypeOK, Stages, NEW r \in Requests, DecrementWait(r) PROVE Served(r)
<1> DEFINE k == kind[r]
           lowered == /\ wait' = [wait EXCEPT ![k] = IF @ > 0 THEN @ - 1 ELSE @]
                      /\ UNCHANGED <<slots, aged, live, agedLive, index>>
<1>1. /\ Sane(r) /\ pc[r] = "dec" /\ UNCHANGED <<up, cleaner, lapsed, missed>> /\ k \in Kinds
      /\ got[r] \in SUBSET Kinds /\ missed' \in [Kinds -> Nat] /\ queued[r] = TRUE /\ leased[r] = "no"
      /\ Own(r) \in Members
  BY DEF TypeOK, Stages, DecrementWait, At, Sane, Admission, Members, Own
<1>2. \/ /\ lowered /\ Sound /\ Goto(r, "idxRead")
         /\ queued' = [queued EXCEPT ![r] = FALSE] /\ UNCHANGED <<kind, got, leased, load>>
      \/ Fault("redis", {r}) /\ UNCHANGED redis /\ Resume(r, k, got[r], FALSE, leased[r])
      \/ Fault("lost", {r}) /\ lowered /\ Resume(r, k, got[r], FALSE, leased[r])
  BY DEF DecrementWait
<1>3. ASSUME Resume(r, k, got[r], FALSE, leased[r])
      PROVE  /\ LocalTypes' /\ Alone(r) /\ Sane(r)' /\ SameHoldings(r) /\ ~queued'[r]
             /\ \A j \in Kinds : Before(r, j)' => Before(r, j) /\ j # kind[r]
  <2>1. Onward(r, k, got[r], leased[r])
    BY <1>1, <1>3, Resumes DEF Leases
  <2> QED BY <1>1, <2>1, Onwards DEF SameHoldings, Admission, Leases, Sane, Kinds
<1>4. ASSUME lowered
      PROVE  /\ Still /\ RedisTypes'
             /\ wait' = [wait EXCEPT ![kind[r]] = IF @ > 0 THEN @ - 1 ELSE @]
  <2>1. Still
    BY <1>1, <1>4, Scripts
  <2> QED BY <1>1, <1>4, <2>1 DEF TypeOK, RedisTypes
<1> HIDE DEF lowered
<1>5. CASE /\ lowered /\ Sound /\ Goto(r, "idxRead")
           /\ queued' = [queued EXCEPT ![r] = FALSE] /\ UNCHANGED <<kind, got, leased, load>>
  <2>1. Moves(r, "idxRead", kind[r], got[r], FALSE, leased[r])
    BY <1>5, Went DEF Labels
  <2>2. /\ LocalTypes' /\ Alone(r) /\ Sane(r)' /\ SameHoldings(r) /\ ~queued'[r]
        /\ \A j \in Kinds : Before(r, j)' => Before(r, j)
    BY <1>1, <2>1 DEF Moves, Alone, Sane, SameHoldings, Before, Admission
  <2>3. hurt' = hurt /\ faults' \in 0 .. MaxFaults
    BY <1>5, Hurts
  <2>4. SlotStep(r) /\ QueueStep(r)
    BY <1>1, <1>4, <1>5, <2>2 DEF SlotStep, Keeps, SameHoldings, QueueStep, Leaves
  <2> QED BY <1>1, <1>4, <1>5, <2>2, <2>3, <2>4, Serves
<1>6. CASE Fault("redis", {r}) /\ UNCHANGED redis /\ Resume(r, k, got[r], FALSE, leased[r])
  <2>1. /\ Still /\ RedisTypes' /\ wait' = wait /\ hurt' = hurt \cup {r}
        /\ faults' \in 0 .. MaxFaults
    BY <1>1, <1>6, Scripts, Hurts
  <2>2. SlotStep(r) /\ QueueStep(r)
    BY <1>1, <1>3, <1>6, <2>1 DEF SlotStep, Keeps, SameHoldings, QueueStep, Abandons
  <2> QED BY <1>1, <1>3, <1>6, <2>1, <2>2, Serves
<1>7. CASE Fault("lost", {r}) /\ lowered /\ Resume(r, k, got[r], FALSE, leased[r])
  <2>1. hurt' = hurt \cup {r} /\ faults' \in 0 .. MaxFaults
    BY <1>7, Hurts
  <2>2. SlotStep(r) /\ QueueStep(r)
    BY <1>1, <1>3, <1>4, <1>7 DEF SlotStep, Keeps, SameHoldings, QueueStep, Leaves
  <2> QED BY <1>1, <1>3, <1>4, <1>7, <2>1, <2>2, Serves
<1> QED BY <1>2, <1>5, <1>6, <1>7

LEMMA IndexReadServed ==
    ASSUME TypeOK, Stages, NEW r \in Requests, IndexRead(r) PROVE Served(r)
<1> DEFINE k == kind[r]
<1>1. /\ Sane(r) /\ pc[r] = "idxRead" /\ UNCHANGED <<up, cleaner, lapsed, missed>> /\ k \in Kinds
      /\ got[r] \in SUBSET Kinds /\ missed' \in [Kinds -> Nat] /\ queued[r] = FALSE
      /\ leased[r] \in Leases /\ Own(r) \in Members
  BY DEF TypeOK, Stages, IndexRead, At, Sane, Leases, Members, Own
<1>2. \/ /\ PruneSlots(k) /\ UNCHANGED <<live, agedLive, wait, index>> /\ Sound
         /\ load' = [load EXCEPT ![r] = ReadLoad(k)]
         /\ Goto(r, "idxWrite") /\ UNCHANGED <<kind, got, queued, leased>>
      \/ /\ Fault("redis", {r}) /\ UNCHANGED redis
         /\ Resume(r, k, got[r], queued[r], leased[r])
  BY DEF IndexRead
<1>3. /\ Still /\ RedisTypes' /\ wait' = wait /\ faults' \in 0 .. MaxFaults
      /\ hurt' = hurt \/ hurt' = hurt \cup {r}
  BY <1>1, <1>2, Scripts, Hurts
<1>4. /\ LocalTypes' /\ Alone(r) /\ Sane(r)' /\ SameHoldings(r) /\ queued'[r] = FALSE
      /\ \A j \in Kinds : Before(r, j)' => Before(r, j)
  <2>1. CASE /\ load' = [load EXCEPT ![r] = ReadLoad(k)]
             /\ Goto(r, "idxWrite") /\ UNCHANGED <<kind, got, queued, leased>>
    <3>1. ReadLoad(k) \in Loads
      BY DEF ReadLoad, Loads
    <3>2. Moves(r, "idxWrite", kind[r], got[r], queued[r], leased[r])
      BY <2>1, <3>1, Went DEF Labels
    <3> QED BY <1>1, <3>2 DEF Moves, Alone, Sane, SameHoldings, Before, Admission
  <2>2. CASE Resume(r, k, got[r], queued[r], leased[r])
    <3>1. Resume(r, k, got[r], FALSE, leased[r])
      BY <1>1, <2>2, Zenon
    <3>2. Onward(r, k, got[r], leased[r])
      BY <1>1, <3>1, Resumes
    <3> QED BY <1>1, <3>2, Onwards DEF SameHoldings, Sane, Kinds, LocalTypes
  <2> QED BY <1>2, <2>1, <2>2
<1>5. SlotStep(r) /\ QueueStep(r)
  BY <1>1, <1>3, <1>4 DEF SlotStep, Keeps, SameHoldings, QueueStep, Stays
<1> QED BY <1>1, <1>3, <1>4, <1>5, Serves

LEMMA IndexWriteServed ==
    ASSUME TypeOK, Stages, NEW r \in Requests, IndexWrite(r) PROVE Served(r)
<1>1. /\ Sane(r) /\ pc[r] = "idxWrite" /\ UNCHANGED <<up, cleaner, lapsed, missed>>
      /\ kind[r] \in Kinds /\ got[r] \in SUBSET Kinds /\ missed' \in [Kinds -> Nat]
      /\ queued[r] = FALSE /\ leased[r] \in Leases /\ Own(r) \in Members
      /\ Indexed(load[r]) \in {"absent", "fresh", "due"}
  BY DEF TypeOK, Stages, IndexWrite, At, Sane, Leases, Members, Own, Indexed
<1>2. /\ \/ SetIndex(kind[r], Indexed(load[r])) /\ Sound
         \/ UNCHANGED redis /\ Fault("redis", {r})
      /\ Resume(r, kind[r], got[r], queued[r], leased[r])
  BY DEF IndexWrite
<1>3. /\ Still /\ RedisTypes' /\ wait' = wait /\ faults' \in 0 .. MaxFaults
      /\ hurt' = hurt \/ hurt' = hurt \cup {r}
  BY <1>1, <1>2, Scripts, Hurts
<1>4. /\ LocalTypes' /\ Alone(r) /\ Sane(r)' /\ SameHoldings(r) /\ ~queued'[r]
      /\ \A j \in Kinds : Before(r, j)' => Before(r, j)
  <2>1. Resume(r, kind[r], got[r], FALSE, leased[r])
    BY <1>1, <1>2, Zenon
  <2>2. Onward(r, kind[r], got[r], leased[r])
    BY <1>1, <2>1, Resumes
  <2> QED BY <1>1, <2>2, Onwards DEF SameHoldings, Sane, Kinds
<1>5. SlotStep(r) /\ QueueStep(r)
  BY <1>1, <1>3, <1>4 DEF SlotStep, Keeps, SameHoldings, QueueStep, Stays
<1> QED BY <1>1, <1>3, <1>4, <1>5, Serves

LEMMA ForwardEndsServed ==
    ASSUME TypeOK, Stages, NEW r \in Requests, ForwardEnds(r) PROVE Served(r)
<1>1. /\ Sane(r) /\ pc[r] = "forward" /\ UNCHANGED <<up, cleaner, lapsed, missed>>
      /\ kind[r] \in Kinds /\ missed' \in [Kinds -> Nat] /\ Own(r) \in Members
      /\ queued[r] = FALSE
  BY DEF TypeOK, Stages, ForwardEnds, At, Sane, Members, Own
<1>2. Moves(r, "release", "account", got[r], queued[r], leased[r])
  BY Went DEF ForwardEnds, Labels, Kinds
<1>3. Still /\ RedisTypes' /\ wait' = wait /\ hurt' = hurt /\ faults' \in 0 .. MaxFaults
  <2>1. UNCHANGED redis /\ Sound
    BY DEF ForwardEnds
  <2> QED BY <1>1, <2>1, Scripts, Hurts
<1>4. /\ LocalTypes' /\ Alone(r) /\ Sane(r)' /\ SameHoldings(r) /\ queued'[r] = FALSE
      /\ \A j \in Kinds : Before(r, j)' => Before(r, j)
  BY <1>1, <1>2 DEF Moves, Alone, Sane, SameHoldings, Before, Admission
<1>5. SlotStep(r) /\ QueueStep(r)
  BY <1>1, <1>3, <1>4 DEF SlotStep, Keeps, SameHoldings, QueueStep, Stays
<1> QED BY <1>1, <1>3, <1>4, <1>5, Serves

LEMMA ReleaseServed ==
    ASSUME TypeOK, Stages, NEW r \in Requests, Release(r) PROVE Served(r)
<1> DEFINE k == kind[r]
           removed == /\ slots' = [slots EXCEPT ![k] = @ \ {Own(r)}]
                      /\ aged' = aged \ {<<k, Own(r)>>}
                      /\ UNCHANGED <<live, agedLive, wait, index>>
<1>1. /\ Sane(r) /\ pc[r] = "release" /\ UNCHANGED <<up, cleaner, lapsed, missed>> /\ k \in Kinds
      /\ got[r] \in SUBSET Kinds /\ missed' \in [Kinds -> Nat] /\ queued[r] = FALSE
      /\ leased[r] \in Leases /\ Own(r) \in Members
  BY DEF TypeOK, Stages, Release, At, Sane, Leases, Members, Own
<1>2. \/ /\ Max[k] = 0 /\ Sound /\ UNCHANGED redis
         /\ Resume(r, k, got[r] \ {k}, FALSE, leased[r])
      \/ /\ removed /\ Sound /\ Goto(r, "idxRead")
         /\ got' = [got EXCEPT ![r] = @ \ {k}] /\ UNCHANGED <<kind, queued, leased, load>>
      \/ /\ Fault("redis", {r}) /\ UNCHANGED redis
         /\ Resume(r, k, got[r] \ {k}, FALSE, leased[r])
      \/ /\ Fault("lost", {r}) /\ removed
         /\ Resume(r, k, got[r] \ {k}, FALSE, leased[r])
  BY DEF Release
<1> DEFINE Done == /\ LocalTypes' /\ Alone(r) /\ Sane(r)' /\ queued'[r] = FALSE
                   /\ got'[r] = got[r] \ {k} /\ leased'[r] = leased[r]
                   /\ \A j \in Kinds : Before(r, j)' => Before(r, j)
<1>3. ASSUME Resume(r, k, got[r] \ {k}, FALSE, leased[r])
      PROVE  Done
  <2>1. Onward(r, k, got[r] \ {k}, leased[r])
    BY <1>1, <1>3, Resumes
  <2>2. /\ k = "account" /\ (k \in got[r] \ {k} \/ leased[r] \in {"held", "failed"})
           => "user" \in got[r] \ {k}
        /\ k = "user" /\ k \in got[r] \ {k} => leased[r] = "no"
        /\ leased[r] \in {"held", "failed"} => k = "account"
        /\ "account" \in got[r] \ {k} => "user" \in got[r] \ {k}
    BY <1>1 DEF Sane, Kinds
  <2> QED BY <1>1, <2>1, <2>2, Advances
<1>4. ASSUME Goto(r, "idxRead"), got' = [got EXCEPT ![r] = @ \ {k}],
             UNCHANGED <<kind, queued, leased, load>>
      PROVE  Done
  <2>1. Moves(r, "idxRead", kind[r], got[r] \ {k}, queued[r], leased[r])
    BY <1>1, <1>4, Went DEF Labels
  <2> QED BY <1>1, <2>1 DEF Moves, Alone, Sane, Before, Admission, Kinds
<1>5. removed => Drops(k, r) /\ RedisTypes' /\ wait' = wait
  BY <1>1, Scripts
<1>6. UNCHANGED redis => Still /\ RedisTypes' /\ wait' = wait
  BY <1>1, Scripts
<1> HIDE DEF removed
<1>7. CASE Max[k] = 0 /\ Sound /\ UNCHANGED redis /\ Resume(r, k, got[r] \ {k}, FALSE, leased[r])
  <2>1. hurt' = hurt /\ faults' \in 0 .. MaxFaults
    BY <1>7, Hurts
  <2>2. Done /\ Still /\ RedisTypes' /\ wait' = wait
    BY <1>3, <1>6, <1>7
  <2>3. \A j \in Kinds : Max[j] > 0 => (j \in got'[r] <=> j \in got[r])
    BY <1>7, <2>2
  <2>4. SlotStep(r)
    BY <2>2, <2>3 DEF SlotStep, Keeps
  <2>5. QueueStep(r)
    BY <1>1, <2>2 DEF QueueStep, Stays
  <2> QED BY <1>1, <2>1, <2>2, <2>4, <2>5, Serves
<1>8. CASE /\ removed /\ Done
           /\ Sound \/ Fault("lost", {r})
  <2>1. faults' \in 0 .. MaxFaults /\ (hurt' = hurt \/ hurt' = hurt \cup {r})
    BY <1>8, Hurts
  <2>2. SlotStep(r) /\ QueueStep(r)
    BY <1>1, <1>5, <1>8 DEF SlotStep, GivesBack, QueueStep, Stays
  <2> QED BY <1>1, <1>5, <1>8, <2>1, <2>2, Serves
<1>9. CASE /\ Fault("redis", {r}) /\ UNCHANGED redis
           /\ Resume(r, k, got[r] \ {k}, FALSE, leased[r])
  <2>1. hurt' = hurt \cup {r} /\ faults' \in 0 .. MaxFaults
    BY <1>9, Hurts
  <2>2. SlotStep(r) /\ QueueStep(r)
    BY <1>1, <1>3, <1>6, <1>9, <2>1 DEF SlotStep, Loses, QueueStep, Stays
  <2> QED BY <1>1, <1>3, <1>6, <1>9, <2>1, <2>2, Serves
<1> QED BY <1>2, <1>3, <1>4, <1>7, <1>8, <1>9

LEMMA AcquireLeaseServed ==
    ASSUME TypeOK, Stages, NEW r \in Requests, AcquireLease(r) PROVE Served(r)
<1> DEFINE added(rs) == /\ live' = PrunedLive \cup rs /\ agedLive' = {}
                        /\ UNCHANGED <<slots, aged, wait, index>>
           refused   == Goto(r, "release") /\ UNCHANGED local
<1>1. /\ Sane(r) /\ pc[r] = "lease" /\ UNCHANGED <<up, cleaner, lapsed, missed>>
      /\ kind[r] \in Kinds /\ got[r] \in SUBSET Kinds /\ missed' \in [Kinds -> Nat]
      /\ queued[r] = FALSE /\ Own(r) \in Members /\ Kinds \subseteq got[r]
  BY DEF TypeOK, Stages, AcquireLease, At, Sane, Members, Own, Kinds
<1>2. \/ /\ Sound /\ added({r}) /\ Goto(r, "create")
         /\ leased' = [leased EXCEPT ![r] = "held"] /\ UNCHANGED <<kind, got, queued, load>>
      \/ Sound /\ added({}) /\ refused
      \/ Fault("redis", {r}) /\ UNCHANGED redis /\ refused
      \/ Fault("lost", {r}) /\ added({r}) /\ refused
  BY DEF AcquireLease
<1>3. ASSUME refused
      PROVE  /\ LocalTypes' /\ Alone(r) /\ Sane(r)' /\ SameHoldings(r) /\ queued'[r] = FALSE
             /\ \A j \in Kinds : Before(r, j)' => Before(r, j)
  <2>1. Moves(r, "release", kind[r], got[r], queued[r], leased[r])
    BY <1>3, Went DEF local, Labels
  <2> QED BY <1>1, <2>1 DEF Moves, Alone, Sane, SameHoldings, Before, Admission
<1>4. added({r}) => AddsLease(r) /\ RedisTypes' /\ wait' = wait
  BY <1>1, Scripts
<1>5. added({}) => Still /\ RedisTypes' /\ wait' = wait
  <2>1. added({}) => live' = PrunedLive /\ agedLive' = {} /\ UNCHANGED <<slots, aged, wait, index>>
    OBVIOUS
  <2> QED BY <1>1, <2>1, Scripts
<1> HIDE DEF added, refused
<1>6. CASE /\ Sound /\ added({r}) /\ Goto(r, "create")
           /\ leased' = [leased EXCEPT ![r] = "held"] /\ UNCHANGED <<kind, got, queued, load>>
  <2>1. Moves(r, "create", kind[r], got[r], queued[r], "held")
    BY <1>6, Went DEF Labels, Leases
  <2>2. /\ LocalTypes' /\ Alone(r) /\ Sane(r)' /\ got'[r] = got[r] /\ leased'[r] = "held"
        /\ queued'[r] = FALSE /\ \A j \in Kinds : Before(r, j)' => Before(r, j)
    BY <1>1, <2>1 DEF Moves, Alone, Sane, Before, Admission
  <2>3. hurt' = hurt /\ faults' \in 0 .. MaxFaults
    BY <1>6, Hurts
  <2>4. SlotStep(r) /\ QueueStep(r)
    BY <1>1, <1>4, <1>6, <2>2 DEF SlotStep, Trades, QueueStep, Stays
  <2> QED BY <1>1, <1>4, <1>6, <2>2, <2>3, <2>4, Serves
<1>7. CASE /\ \/ Sound /\ added({})
              \/ Fault("redis", {r}) /\ UNCHANGED redis
           /\ refused
  <2>1. /\ Still /\ RedisTypes' /\ wait' = wait /\ faults' \in 0 .. MaxFaults
        /\ hurt' = hurt \/ hurt' = hurt \cup {r}
    BY <1>1, <1>5, <1>7, Scripts, Hurts
  <2>2. SlotStep(r) /\ QueueStep(r)
    BY <1>1, <1>3, <1>7, <2>1 DEF SlotStep, Keeps, SameHoldings, QueueStep, Stays
  <2> QED BY <1>1, <1>3, <1>7, <2>1, <2>2, Serves
<1>8. CASE Fault("lost", {r}) /\ added({r}) /\ refused
  <2>1. hurt' = hurt \cup {r} /\ faults' \in 0 .. MaxFaults
    BY <1>8, Hurts
  <2>2. SlotStep(r) /\ QueueStep(r)
    BY <1>1, <1>3, <1>4, <1>8, <2>1 DEF SlotStep, Trades, SameHoldings, QueueStep, Stays
  <2> QED BY <1>1, <1>3, <1>4, <1>8, <2>1, <2>2, Serves
<1> QED BY <1>2, <1>6, <1>7, <1>8

LEMMA CreateUpstreamServed ==
    ASSUME TypeOK, Stages, NEW r \in Requests, CreateUpstream(r) PROVE Served(r)
<1>1. /\ Sane(r) /\ pc[r] = "create" /\ UNCHANGED <<up, cleaner, lapsed, missed>>
      /\ kind[r] \in Kinds /\ missed' \in [Kinds -> Nat] /\ Own(r) \in Members /\ queued[r] = FALSE
  BY DEF TypeOK, Stages, CreateUpstream, At, Sane, Members, Own
<1>2. PICK le \in {"held", "failed"} : leased' = [leased EXCEPT ![r] = le]
  BY DEF CreateUpstream
<1>3. /\ UNCHANGED redis /\ Sound /\ Goto(r, "release") /\ UNCHANGED <<kind, got, queued, load>>
  BY DEF CreateUpstream
<1>4. Moves(r, "release", kind[r], got[r], queued[r], le)
  BY <1>2, <1>3, Went DEF Labels, Leases
<1>5. Still /\ RedisTypes' /\ wait' = wait /\ hurt' = hurt /\ faults' \in 0 .. MaxFaults
  BY <1>1, <1>3, Scripts, Hurts
<1>6. /\ LocalTypes' /\ Alone(r) /\ Sane(r)' /\ got'[r] = got[r] /\ leased'[r] # "no"
      /\ leased[r] # "no" /\ queued'[r] = FALSE
      /\ \A j \in Kinds : Before(r, j)' => Before(r, j)
  BY <1>1, <1>4 DEF Moves, Alone, Sane, Before, Admission
<1>7. SlotStep(r) /\ QueueStep(r)
  BY <1>1, <1>5, <1>6 DEF SlotStep, Keeps, QueueStep, Stays
<1> QED BY <1>1, <1>5, <1>6, <1>7, Serves

LEMMA SaveCallServed ==
    ASSUME TypeOK, Stages, NEW r \in Requests, SaveCall(r) PROVE Served(r)
<1>1. /\ Sane(r) /\ pc[r] = "save" /\ UNCHANGED <<up, cleaner, lapsed, missed>>
      /\ "account" \in Kinds /\ got[r] \in SUBSET Kinds /\ missed' \in [Kinds -> Nat]
      /\ Own(r) \in Members /\ queued[r] = FALSE
  BY DEF TypeOK, Stages, SaveCall, At, Sane, Members, Own, Kinds
<1>2. UNCHANGED redis /\ Sound
  BY DEF SaveCall
<1>3. PICK le \in {"open", "failed"} : Resume(r, "account", got[r], FALSE, le)
  BY DEF SaveCall
<1>4. Onward(r, "account", got[r], le)
  BY <1>1, <1>3, Resumes DEF Leases
<1>5. Still /\ RedisTypes' /\ wait' = wait /\ hurt' = hurt /\ faults' \in 0 .. MaxFaults
  BY <1>1, <1>2, Scripts, Hurts
<1>6. "user" \in got[r] /\ leased[r] # "no"
  BY <1>1 DEF Sane
<1>7. /\ LocalTypes' /\ Alone(r) /\ Sane(r)' /\ got'[r] = got[r] /\ leased'[r] = le
      /\ ~queued'[r] /\ \A j \in Kinds : Before(r, j)' => Before(r, j)
  BY <1>1, <1>4, <1>6, Advances DEF Leases
<1>8. SlotStep(r) /\ QueueStep(r)
  BY <1>1, <1>5, <1>6, <1>7 DEF SlotStep, Keeps, QueueStep, Stays
<1> QED BY <1>1, <1>5, <1>7, <1>8, Serves

LEMMA RefreshLeaseServed ==
    ASSUME TypeOK, Stages, NEW r \in Requests, RefreshLease(r) PROVE Served(r)
<1>1. /\ Sane(r) /\ pc[r] = "session" /\ UNCHANGED <<up, cleaner, lapsed, missed>>
      /\ "account" \in Kinds /\ missed' \in [Kinds -> Nat] /\ Own(r) \in Members /\ queued[r] = FALSE
  BY DEF TypeOK, Stages, RefreshLease, At, Sane, Members, Own, Kinds
<1>2. /\ \/ Sound /\ live' = PrunedLive /\ agedLive' = {} /\ UNCHANGED <<slots, aged, wait, index>>
         \/ Fault("redis", {r}) /\ UNCHANGED redis
         \/ Sound /\ UNCHANGED redis
      /\ \/ Goto(r, "releaseLease") /\ UNCHANGED local
         \/ UNCHANGED <<pc, local>>
  BY DEF RefreshLease
<1>3. /\ Still /\ RedisTypes' /\ wait' = wait /\ faults' \in 0 .. MaxFaults
      /\ hurt' = hurt \/ hurt' = hurt \cup {r}
  BY <1>1, <1>2, Scripts, Hurts
<1>4. \E l \in {"releaseLease", "session"} :
        Moves(r, l, kind[r], got[r], queued[r], leased[r])
  BY <1>1, <1>2, Went DEF local, Labels
<1>5. /\ LocalTypes' /\ Alone(r) /\ Sane(r)' /\ SameHoldings(r) /\ queued'[r] = FALSE
      /\ \A j \in Kinds : Before(r, j)' => Before(r, j)
  BY <1>1, <1>4 DEF Moves, Alone, Sane, SameHoldings, Before, Admission
<1>6. SlotStep(r) /\ QueueStep(r)
  BY <1>1, <1>3, <1>5 DEF SlotStep, Keeps, SameHoldings, QueueStep, Stays
<1> QED BY <1>1, <1>3, <1>5, <1>6, Serves

LEMMA ReleaseLeaseServed ==
    ASSUME TypeOK, Stages, NEW r \in Requests, ReleaseLease(r) PROVE Served(r)
<1>1. /\ Sane(r) /\ pc[r] = "releaseLease" /\ UNCHANGED <<up, cleaner, lapsed, missed>>
      /\ "account" \in Kinds /\ got[r] \in SUBSET Kinds /\ missed' \in [Kinds -> Nat]
      /\ Own(r) \in Members /\ queued[r] = FALSE
  BY DEF TypeOK, Stages, ReleaseLease, At, Sane, Members, Own, Kinds
<1>2. /\ \/ /\ Sound /\ live' = live \ {r} /\ agedLive' = agedLive \ {r}
            /\ UNCHANGED <<slots, aged, wait, index>>
         \/ Fault("redis", {r}) /\ UNCHANGED redis
      /\ Resume(r, "account", got[r], FALSE, "no")
  BY DEF ReleaseLease
<1>3. Onward(r, "account", got[r], "no")
  BY <1>1, <1>2, Resumes DEF Leases
<1>4. "account" \in got[r] => "user" \in got[r]
  BY <1>1 DEF Sane
<1>5. /\ LocalTypes' /\ Alone(r) /\ Sane(r)' /\ got'[r] = got[r] /\ leased'[r] = "no"
      /\ ~queued'[r] /\ \A j \in Kinds : Before(r, j)' => Before(r, j)
  BY <1>1, <1>3, <1>4, Advances DEF Leases
<1>6. /\ RedisTypes' /\ wait' = wait /\ faults' \in 0 .. MaxFaults
      /\ hurt' = hurt \/ hurt' = hurt \cup {r}
      /\ DropsLease(r) \/ (Still /\ r \in hurt')
  BY <1>1, <1>2, Scripts, Hurts
<1>7. SlotStep(r) /\ QueueStep(r)
  BY <1>1, <1>5, <1>6 DEF SlotStep, Loses, EndsLease, QueueStep, Stays
<1> QED BY <1>1, <1>5, <1>6, <1>7, Serves

\* Every step of a request is one of those that the summaries describe.
LEMMA EveryServe ==
    ASSUME TypeOK, Stages, NEW r \in Requests, Serve(r) PROVE Served(r)
BY StartServed, TryAcquireServed, TouchServed, IncrementWaitServed, TouchWaitServed, PollServed,
   DecrementWaitServed, IndexReadServed, IndexWriteServed, ForwardEndsServed, ReleaseServed,
   AcquireLeaseServed, CreateUpstreamServed, SaveCallServed, RefreshLeaseServed,
   ReleaseLeaseServed DEF Serve

-----------------------------------------------------------------------------
(* Counting. *)

LEMMA Finite ==
    ASSUME NEW S, S \subseteq Members \/ S \subseteq Requests
    PROVE  IsFiniteSet(S) /\ Cardinality(S) \in Nat
<1>1. IsFiniteSet({"own", "try", "wait"})
  <2>1. {"own", "try", "wait"} = (({} \cup {"own"}) \cup {"try"}) \cup {"wait"}
    OBVIOUS
  <2>2. IsFiniteSet({} \cup {"own"})
    BY FS_EmptySet, FS_AddElement
  <2>3. IsFiniteSet(({} \cup {"own"}) \cup {"try"})
    BY <2>2, FS_AddElement
  <2>4. IsFiniteSet((({} \cup {"own"}) \cup {"try"}) \cup {"wait"})
    BY <2>3, FS_AddElement
  <2> QED BY <2>1, <2>4
<1>2. IsFiniteSet(Members)
  BY <1>1, SlotConstants, FS_Product DEF Members
<1>3. IsFiniteSet(S)
  BY <1>2, SlotConstants, FS_Subset
<1> QED BY <1>3, FS_CardinalityType

\* Every request has a slot of its own.
LEMMA Owners ==
    ASSUME NEW S \in SUBSET Requests
    PROVE  /\ {Own(r) : r \in S} \subseteq Members
           /\ Cardinality({Own(r) : r \in S}) = Cardinality(S)
<1> DEFINE T == {Own(r) : r \in S}
           f == [r \in S |-> Own(r)]
<1>1. T \subseteq Members
  BY DEF Members, Own
<1>2. f \in Surjection(S, T) /\ f \in Injection(S, T)
  BY DEF Surjection, Injection, IsInjective, Own
<1>3. Cardinality(T) = Cardinality(S)
  BY <1>2, Finite, FS_Surjection
<1> QED BY <1>1, <1>3

LEMMA Sizes ==
    ASSUME NEW S, NEW T, S \subseteq T, T \subseteq Members \/ T \subseteq Requests
    PROVE  /\ Cardinality(S) \in Nat /\ Cardinality(T) \in Nat
           /\ Cardinality(S) <= Cardinality(T)
           /\ \A x \in T : x \notin S => Cardinality(S) + 1 <= Cardinality(T)
           /\ \A x : T \subseteq S \cup {x} => Cardinality(T) <= Cardinality(S) + 1
<1>1. /\ IsFiniteSet(S) /\ IsFiniteSet(T)
      /\ Cardinality(S) \in Nat /\ Cardinality(T) \in Nat
  BY Finite
<1>2. Cardinality(S) <= Cardinality(T) /\ (Cardinality(S) = Cardinality(T) => S = T)
  BY <1>1, FS_Subset
<1>3. \A x \in T : x \notin S => Cardinality(S) + 1 <= Cardinality(T)
  BY <1>1, <1>2
<1>4. ASSUME NEW x, T \subseteq S \cup {x}
      PROVE  Cardinality(T) <= Cardinality(S) + 1
  <2>1. /\ IsFiniteSet(S \cup {x})
        /\ Cardinality(S \cup {x}) = IF x \in S THEN Cardinality(S) ELSE Cardinality(S) + 1
    BY <1>1, FS_AddElement
  <2>2. Cardinality(T) <= Cardinality(S \cup {x})
    BY <1>4, <2>1, FS_Subset
  <2> QED BY <1>1, <2>1, <2>2
<1> QED BY <1>1, <1>2, <1>3, <1>4

-----------------------------------------------------------------------------
(* The parts of the invariant, for a step of a request. *)

LEMMA ServedStages ==
    ASSUME Stages, NEW r \in Requests, Served(r) PROVE Stages'
BY DEF Stages, Served, Alone, Sane

LEMMA ServedSlots ==
    ASSUME IndInv, NEW r \in Requests, Served(r) PROVE Unlimited' /\ Held' /\ Clean'
<1>1. /\ TypeOK /\ TypeOK' /\ Alone(r) /\ SlotStep(r) /\ lapsed' = lapsed /\ hurt \subseteq hurt'
      /\ Unlimited /\ Held /\ Clean
  BY DEF IndInv, Served
<1>2. \A k \in Kinds : HasRoom(k) => Max[k] > 0
  <2>1. ASSUME NEW k \in Kinds, HasRoom(k) PROVE Max[k] > 0
    <3>1. Pruned(k) \subseteq Members /\ PrunedLive \subseteq Requests
      BY <1>1 DEF TypeOK, Pruned, PrunedLive
    <3>2. Cardinality(Pruned(k)) \in Nat /\ Cardinality(PrunedLive) \in Nat
      BY <3>1, Finite
    <3> QED BY <2>1, <3>2, SlotConstants DEF HasRoom
  <2> QED BY <2>1
<1>3. CASE Keeps(r) \/ Loses(r)
  <2>1. Unlimited'
    BY <1>1, <1>3 DEF Unlimited, Keeps, Loses, Still
  <2>2. Held'
    BY <1>1, <1>3 DEF Held, Keeps, Loses, Still, Alone
  <2>3. Clean'
    <3>1. CASE Keeps(r)
      <4>1. ASSUME NEW k \in Kinds, NEW m \in slots'[k] PROVE Max[k] > 0 /\ m \in slots[k]
        BY <1>1, <3>1, <4>1, SlotConstants DEF Unlimited, Keeps, Still
      <4> QED BY <1>1, <3>1, <4>1 DEF Clean, Keeps, Still, Alone
    <3>2. CASE Loses(r)
      BY <1>1, <3>2 DEF Clean, Loses, Still, Alone
    <3> QED BY <1>3, <3>1, <3>2
  <2> QED BY <2>1, <2>2, <2>3
<1>4. CASE Trades(r) \/ EndsLease(r)
  <2>1. Unlimited'
    BY <1>1, <1>4 DEF Unlimited, Trades, EndsLease, AddsLease, DropsLease
  <2>2. Held'
    BY <1>1, <1>4 DEF Held, Trades, EndsLease, AddsLease, DropsLease, Alone
  <2>3. Clean'
    BY <1>1, <1>4 DEF Clean, Trades, EndsLease, AddsLease, DropsLease, Alone
  <2> QED BY <2>1, <2>2, <2>3
<1>5. ASSUME NEW k \in Kinds, Takes(r, k) \/ Strays(r, k)
      PROVE  Unlimited' /\ Held' /\ Clean'
  <2>1. Unlimited'
    BY <1>1, <1>2, <1>5 DEF Unlimited, Takes, Strays, Adds
  <2>2. Held'
    BY <1>1, <1>5 DEF Held, Takes, Strays, SameHoldings, Adds, Alone
  <2>3. Clean'
    BY <1>1, <1>5 DEF Clean, Takes, Strays, SameHoldings, Adds, Alone, Own
  <2> QED BY <2>1, <2>2, <2>3
<1>6. ASSUME NEW k \in Kinds, GivesBack(r, k)
      PROVE  Unlimited' /\ Held' /\ Clean'
  <2>1. Unlimited'
    BY <1>1, <1>6 DEF Unlimited, GivesBack, Drops
  <2>2. Held'
    BY <1>1, <1>6 DEF Held, GivesBack, Drops, Alone, Own
  <2>3. Clean'
    BY <1>1, <1>6 DEF Clean, GivesBack, Drops, Alone, Own
  <2> QED BY <2>1, <2>2, <2>3
<1> QED BY <1>1, <1>3, <1>4, <1>5, <1>6 DEF SlotStep

\* Capacity is kept where no place is newly occupied.
LEMMA Shrinks ==
    ASSUME TypeOK, Capacity, NEW k \in Kinds, Max[k] > 0, Occupied(k)' \subseteq Occupied(k)
    PROVE  Cardinality(Occupied(k)') <= Max[k]
<1>1. Lessees(k) \subseteq Requests /\ Pruned(k) \subseteq Members
  BY DEF TypeOK, Lessees, Pruned, PrunedLive
<1>2. Occupied(k) \subseteq Members
  BY <1>1, Owners DEF Occupied
<1>3. /\ Cardinality(Occupied(k)') \in Nat /\ Cardinality(Occupied(k)) \in Nat
      /\ Cardinality(Occupied(k)') <= Cardinality(Occupied(k))
  BY <1>2, Sizes
<1> QED BY <1>3, SlotConstants DEF Capacity

LEMMA ServedCapacity ==
    ASSUME IndInv, NEW r \in Requests, Served(r) PROVE Capacity'
<1>1. TypeOK /\ TypeOK' /\ SlotStep(r) /\ lapsed' = lapsed /\ Held /\ Capacity
  BY DEF IndInv, Served
<1> SUFFICES ASSUME NEW k \in Kinds, Max[k] > 0
             PROVE  Cardinality(Occupied(k)') <= Max[k]
  BY DEF Capacity
<1>2. CASE Keeps(r) \/ Loses(r)
  <2>1. Occupied(k)' \subseteq Occupied(k)
    BY <1>1, <1>2 DEF Keeps, Loses, Still, Occupied, Lessees
  <2> QED BY <1>1, <2>1, Shrinks
<1>3. CASE Trades(r)
  <2>1. <<k, r>> \notin lapsed => Own(r) \in Pruned(k)
    BY <1>1, <1>3 DEF Held, Trades
  <2>2. Occupied(k)' \subseteq Occupied(k)
    BY <1>1, <1>3, <2>1 DEF Trades, AddsLease, Occupied, Lessees
  <2> QED BY <1>1, <2>2, Shrinks
<1>4. CASE EndsLease(r)
  <2>1. Occupied(k)' \subseteq Occupied(k)
    BY <1>1, <1>4 DEF EndsLease, DropsLease, Occupied, Lessees
  <2> QED BY <1>1, <2>1, Shrinks
<1>5. ASSUME NEW j \in Kinds, GivesBack(r, j)
      PROVE  Cardinality(Occupied(k)') <= Max[k]
  <2>1. Occupied(k)' \subseteq Occupied(k)
    BY <1>1, <1>5 DEF GivesBack, Drops, Occupied, Lessees
  <2> QED BY <1>1, <2>1, Shrinks
<1>6. ASSUME NEW j \in Kinds, Takes(r, j) \/ Strays(r, j)
      PROVE  Cardinality(Occupied(k)') <= Max[k]
  <2>1. PICK m \in Members : HasRoom(j) /\ Adds(j, m)
    BY <1>6 DEF Takes, Strays, Members, Own
  <2>2. CASE j # k
    <3>1. Occupied(k)' \subseteq Occupied(k)
      BY <1>1, <2>1, <2>2 DEF Adds, Occupied, Lessees
    <3> QED BY <1>1, <3>1, Shrinks
  <2>3. CASE j = k
    <3> DEFINE O == {Own(q) : q \in PrunedLive}
    <3>1. Occupied(k)' \subseteq (Pruned(k) \cup O) \cup {m}
      BY <1>1, <2>1, <2>3 DEF Adds, Occupied, Lessees
    <3>2. PrunedLive \subseteq Requests /\ Pruned(k) \subseteq Members
      BY <1>1 DEF TypeOK, PrunedLive, Pruned
    <3>3. O \subseteq Members /\ Cardinality(O) = Cardinality(PrunedLive)
      BY <3>2, Owners
    <3> HIDE DEF O
    <3>4. /\ IsFiniteSet(O) /\ IsFiniteSet(Pruned(k)) /\ IsFiniteSet(Pruned(k) \cap O)
          /\ Cardinality(O) \in Nat /\ Cardinality(Pruned(k)) \in Nat
          /\ Cardinality(Pruned(k) \cap O) \in Nat /\ Cardinality(Pruned(k) \cup O) \in Nat
      BY <3>2, <3>3, Finite
    <3>5. Cardinality(Pruned(k) \cup O)
          = Cardinality(Pruned(k)) + Cardinality(O) - Cardinality(Pruned(k) \cap O)
      BY <3>4, FS_Union
    <3>6. Cardinality(Pruned(k) \cup O) + 1 <= Max[k]
      BY <2>1, <2>3, <3>3, <3>4, <3>5, SlotConstants DEF HasRoom
    <3> DEFINE U == (Pruned(k) \cup O) \cup {m}
    <3>7. U \subseteq Members /\ Pruned(k) \cup O \subseteq U
      BY <2>1, <3>2, <3>3
    <3>8. Cardinality(U) \in Nat /\ Cardinality(U) <= Cardinality(Pruned(k) \cup O) + 1
      BY <3>7, Sizes
    <3>9. Cardinality(Occupied(k)') \in Nat /\ Cardinality(Occupied(k)') <= Cardinality(U)
      BY <3>1, <3>7, Sizes
    <3> HIDE DEF U
    <3> QED BY <3>4, <3>6, <3>8, <3>9, SlotConstants
  <2> QED BY <2>2, <2>3
<1> QED BY <1>1, <1>2, <1>3, <1>4, <1>5, <1>6 DEF SlotStep

\* What Counted says of one queue.
Tallied(k) ==
    /\ wait[k] <= Queue[k]
    /\ Cardinality(Waiting(k)) <= wait[k] + missed[k]
    /\ wait[k] <= Cardinality(Waiting(k) \cup Past(k))

LEMMA ServedCounted ==
    ASSUME IndInv, NEW r \in Requests, Served(r) PROVE Counted'
<1>1. /\ TypeOK /\ TypeOK' /\ Alone(r) /\ QueueStep(r) /\ hurt \subseteq hurt' /\ Counted
  BY DEF IndInv, Served
<1> SUFFICES ASSUME NEW k \in Kinds PROVE Tallied(k)'
  BY DEF Counted, Tallied
<1> DEFINE W == Waiting(k)  P == Past(k)  V == Waiting(k)'  Q == Past(k)'
<1>2. /\ W \subseteq Requests /\ V \subseteq Requests /\ P \subseteq Requests /\ Q \subseteq Requests
  BY <1>1 DEF TypeOK, Waiting, Past
<1>3. \A s \in Requests \ {r} : s \in V <=> s \in W
  BY <1>1 DEF Alone, Waiting
<1>4. P \subseteq Q
  BY <1>1, <1>2 DEF QueueStep, Alone, Past, Before
<1>5. /\ wait[k] \in Nat /\ wait'[k] \in Nat /\ Queue[k] \in Nat
      /\ wait[k] <= Queue[k] /\ missed[k] \in Nat /\ missed'[k] \in Nat /\ Cardinality(W) <= wait[k] + missed[k]
      /\ wait[k] <= Cardinality(W \cup P)
  BY <1>1, SlotConstants DEF TypeOK, Counted
<1>6. (r \in W <=> queued[r] /\ kind[r] = k) /\ (r \in V <=> queued'[r] /\ kind'[r] = k)
  BY DEF Waiting
<1>7. r \in P => ~Before(r, k)
  BY DEF Past
<1>8. r \in hurt' /\ ~Before(r, k)' => r \in Q
  BY DEF Past
<1>9. SUFFICES /\ wait'[k] <= Queue[k]
               /\ Cardinality(V) <= wait'[k] + missed'[k]
               /\ wait'[k] <= Cardinality(V \cup Q)
  BY DEF Tallied
<1> HIDE DEF W, P, V, Q
<1>10. /\ Cardinality(W) \in Nat /\ Cardinality(V) \in Nat
       /\ Cardinality(W \cup P) \in Nat /\ Cardinality(V \cup Q) \in Nat
  BY <1>2, Finite
<1>11. ASSUME r \in W <=> r \in V, wait'[k] = wait[k], missed'[k] = missed[k]
       PROVE  /\ wait'[k] <= Queue[k]
              /\ Cardinality(V) <= wait'[k] + missed'[k]
              /\ wait'[k] <= Cardinality(V \cup Q)
  <2>1. V = W
    BY <1>2, <1>3, <1>11
  <2>2. Cardinality(W \cup P) <= Cardinality(V \cup Q)
    BY <1>2, <1>4, <2>1, Sizes
  <2> QED BY <1>5, <1>10, <1>11, <2>1, <2>2
<1>12. CASE Stays(r)
  BY <1>6, <1>11, <1>12 DEF Stays
<1>13. CASE Joins(r)
  <2>1. CASE kind[r] = k
    <3>1. /\ r \notin W /\ r \in V /\ r \notin P /\ wait'[k] = wait[k] + 1
          /\ wait[k] < Queue[k] /\ missed'[k] = Missed(k)
      BY <1>1, <1>6, <1>7, <1>13, <2>1 DEF Joins, TypeOK
    <3>2. V = W \cup {r}
      BY <1>2, <1>3, <3>1
    <3>3. Cardinality(V) <= Cardinality(W) + 1
      BY <1>2, <3>2, Sizes
    <3>5. Cardinality(V) <= wait'[k] + missed'[k]
      <4>1. CASE W = {}
        BY <1>5, <1>10, <3>1, <3>3, <4>1, FS_EmptySet
      <4>2. CASE W # {}
        BY <1>5, <1>10, <3>1, <3>3, <4>2 DEF Missed, W
      <4> QED BY <4>1, <4>2
    <3>4. Cardinality(W \cup P) + 1 <= Cardinality(V \cup Q)
      <4>1. W \cup P \subseteq V \cup Q /\ r \in V \cup Q /\ r \notin W \cup P /\ V \cup Q \subseteq Requests
        BY <1>2, <1>4, <3>1, <3>2
      <4> QED BY <4>1, Sizes
    <3> QED BY <1>5, <1>10, <3>1, <3>4, <3>5
  <2>2. CASE kind[r] # k
    BY <1>1, <1>6, <1>11, <1>13, <2>2 DEF Joins, TypeOK
  <2> QED BY <2>1, <2>2
<1>14. CASE Slips(r)
  <2>1. CASE kind[r] = k
    <3>1. r \in V /\ missed'[k] = Missed(k) + 1 /\ wait'[k] = wait[k]
      BY <1>1, <1>6, <1>14, <2>1 DEF Slips, TypeOK
    <3>5. Cardinality(V) <= Cardinality(W) + 1
      <4>1. V = W \cup {r}
        BY <1>2, <1>3, <3>1, <1>6, <1>14 DEF Slips
      <4> QED BY <1>2, <4>1, Sizes
    <3>4. Cardinality(V) <= wait'[k] + missed'[k]
      <4>1. CASE W = {}
        <5>1. Missed(k) = 0
          BY <4>1 DEF Missed, W
        <5> QED BY <1>5, <1>10, <3>1, <3>5, <4>1, <5>1, FS_EmptySet
      <4>2. CASE W # {}
        <5>1. Missed(k) = missed[k]
          BY <4>2 DEF Missed, W
        <5> QED BY <1>5, <1>10, <3>1, <3>5, <5>1
      <4> QED BY <4>1, <4>2
    <3>2. W \cup P \subseteq V \cup Q
      BY <1>2, <1>3, <1>4, <3>1
    <3>3. Cardinality(W \cup P) <= Cardinality(V \cup Q)
      BY <1>2, <3>2, Sizes
    <3> QED BY <1>5, <1>10, <3>1, <3>3, <3>4
  <2>2. CASE kind[r] # k
    BY <1>1, <1>6, <1>11, <1>14, <2>2 DEF Slips, TypeOK
  <2> QED BY <2>1, <2>2
<1>15. CASE Leaves(r)
  <2>1. CASE kind[r] = k
    <3>1. /\ r \in W /\ r \notin V /\ missed'[k] = missed[k]
          /\ wait'[k] = IF wait[k] > 0 THEN wait[k] - 1 ELSE wait[k]
      BY <1>1, <1>6, <1>15, <2>1 DEF Leaves, TypeOK
    <3>2. Cardinality(V) + 1 <= Cardinality(W)
      <4>1. V \subseteq W
        BY <1>2, <1>3, <3>1
      <4> QED BY <1>2, <3>1, <4>1, Sizes
    <3>3. Cardinality(W \cup P) <= Cardinality(V \cup Q) + 1
      <4>1. /\ W \cup P \subseteq (V \cup Q) \cup {r} /\ V \cup Q \subseteq (V \cup Q) \cup {r}
            /\ (V \cup Q) \cup {r} \subseteq Requests
        BY <1>2, <1>3, <1>4
      <4>2. /\ Cardinality((V \cup Q) \cup {r}) \in Nat
            /\ Cardinality(W \cup P) <= Cardinality((V \cup Q) \cup {r})
        BY <4>1, Sizes
      <4>3. Cardinality((V \cup Q) \cup {r}) <= Cardinality(V \cup Q) + 1
        BY <4>1, Sizes
      <4> QED BY <1>10, <4>2, <4>3
    <3> QED BY <1>5, <1>10, <3>1, <3>2, <3>3
  <2>2. CASE kind[r] # k
    <3>1. r \notin W /\ r \notin V /\ wait'[k] = wait[k] /\ missed'[k] = missed[k]
      BY <1>1, <1>6, <1>15, <2>2 DEF Leaves, TypeOK
    <3> QED BY <1>11, <3>1
  <2> QED BY <2>1, <2>2
<1>16. CASE Abandons(r)
  <2>1. CASE kind[r] = k
    <3>1. /\ r \in W /\ r \notin V /\ r \in Q /\ wait'[k] = wait[k] /\ missed'[k] = missed[k]
      BY <1>6, <1>8, <1>16, <2>1 DEF Abandons
    <3>2. V \subseteq W /\ W \cup P \subseteq V \cup Q
      BY <1>2, <1>3, <1>4, <3>1
    <3>3. Cardinality(V) <= Cardinality(W) /\ Cardinality(W \cup P) <= Cardinality(V \cup Q)
      BY <1>2, <3>2, Sizes
    <3> QED BY <1>5, <1>10, <3>1, <3>3
  <2>2. CASE kind[r] # k
    BY <1>6, <1>11, <1>16, <2>2 DEF Abandons
  <2> QED BY <2>1, <2>2
<1> QED BY <1>1, <1>12, <1>13, <1>14, <1>15, <1>16 DEF QueueStep

LEMMA ServeKeeps ==
    ASSUME IndInv, NEW r \in Requests, Serve(r) PROVE IndInv'
<1>1. Served(r)
  BY EveryServe DEF IndInv
<1>2. TypeOK' /\ Stages'
  BY <1>1, ServedStages DEF IndInv, Served
<1> QED BY <1>1, <1>2, ServedSlots, ServedCapacity, ServedCounted DEF IndInv

-----------------------------------------------------------------------------
(* Time, crashes and the cleanups. *)

LEMMA Recounted ==
    ASSUME TypeOK, TypeOK', Counted, NEW k \in Kinds, Waiting(k)' \subseteq Waiting(k),
           Waiting(k) \cup Past(k) \subseteq Waiting(k)' \cup Past(k)', wait'[k] = wait[k],
           missed'[k] = missed[k]
    PROVE  Tallied(k)'
<1> DEFINE W == Waiting(k)  P == Past(k)  V == Waiting(k)'  Q == Past(k)'
<1>1. W \subseteq Requests /\ V \cup Q \subseteq Requests
  BY DEF TypeOK, Waiting, Past
<1>2. /\ wait[k] \in Nat /\ missed[k] \in Nat /\ missed'[k] \in Nat /\ Cardinality(W) <= wait[k] + missed[k]
      /\ wait[k] <= Queue[k] /\ wait[k] <= Cardinality(W \cup P)
  BY DEF TypeOK, Counted
<1>3. /\ V \subseteq W /\ W \cup P \subseteq V \cup Q
  OBVIOUS
<1>4. SUFFICES /\ wait'[k] <= Queue[k]
               /\ Cardinality(V) <= wait'[k] + missed'[k]
               /\ wait'[k] <= Cardinality(V \cup Q)
  BY DEF Tallied
<1> HIDE DEF W, P, V, Q
<1>5. /\ Cardinality(V) \in Nat /\ Cardinality(W) \in Nat /\ Cardinality(V) <= Cardinality(W)
  BY <1>1, <1>3, Sizes
<1>6. /\ Cardinality(W \cup P) \in Nat /\ Cardinality(V \cup Q) \in Nat
      /\ Cardinality(W \cup P) <= Cardinality(V \cup Q)
  BY <1>1, <1>3, Sizes
<1> QED BY <1>2, <1>5, <1>6

LEMMA Reset ==
    ASSUME TypeOK', NEW k \in Kinds, wait'[k] = 0, missed'[k] = Cardinality(Waiting(k)')
    PROVE  Tallied(k)'
<1>1. Waiting(k)' \cup Past(k)' \subseteq Requests /\ Waiting(k)' \subseteq Requests
  BY DEF TypeOK, Waiting, Past
<1>2. Cardinality(Waiting(k)' \cup Past(k)') \in Nat /\ Cardinality(Waiting(k)') \in Nat
  BY <1>1, Finite
<1> QED BY <1>2, SlotConstants DEF Tallied

\* The queues are as they were where only the requests' history grows.
LEMMA QueuesAlone ==
    ASSUME TypeOK, TypeOK', Counted, UNCHANGED <<pc, kind, got, queued, wait, missed>>,
           hurt \subseteq hurt'
    PROVE  Counted'
<1>1. ASSUME NEW k \in Kinds PROVE Tallied(k)'
  <2>1. Waiting(k)' = Waiting(k) /\ Past(k) \subseteq Past(k)'
    BY DEF Waiting, Past, Before
  <2> QED BY <2>1, Recounted
<1> QED BY <1>1 DEF Counted, Tallied

LEMMA Shrunk ==
    ASSUME TypeOK, Capacity, \A k \in Kinds : Occupied(k)' \subseteq Occupied(k)
    PROVE  Capacity'
BY Shrinks DEF Capacity

LEMMA Pruning ==
    ASSUME TypeOK, NEW k \in Kinds, PruneSlots(k), UNCHANGED <<live, agedLive, wait, index>>
    PROVE  Still /\ RedisTypes'
BY DEF TypeOK, PruneSlots, RedisTypes, Still, Pruned, PrunedLive

\* Nothing but the index, the counters and the expired members changes.
LEMMA Slotted ==
    ASSUME IndInv, Still, UNCHANGED <<pc, local, lapsed, hurt>>
    PROVE  Stages' /\ Unlimited' /\ Held' /\ Clean' /\ Capacity'
<1>1. Stages' /\ Unlimited' /\ Held' /\ Clean'
  BY DEF IndInv, Still, local, Stages, Sane, Unlimited, Held, Clean
<1>2. Capacity'
  BY Shrunk DEF IndInv, Still, Occupied, Lessees
<1> QED BY <1>1, <1>2

LEMMA Tidied ==
    ASSUME IndInv, TypeOK', Still, UNCHANGED <<pc, local, wait, lapsed, missed, hurt>>
    PROVE  IndInv'
<1>1. Counted'
  BY QueuesAlone DEF IndInv, local
<1> QED BY <1>1, Slotted DEF IndInv

LEMMA AgeKeeps ==
    ASSUME IndInv, NEW k \in Kinds, NEW m \in Members, Age(k, m) PROVE IndInv'
<1>1. /\ UNCHANGED <<slots, live, agedLive, wait, index, kind, got, queued, leased, load, pc,
                     up, cleaner, missed>>
      /\ m \in Pruned(k) /\ aged' = aged \cup {<<k, m>>} /\ m[1] \in Requests
      /\ \/ /\ m = Own(m[1]) /\ k \in got[m[1]] /\ Fault("slow", {m[1]})
            /\ lapsed' = lapsed \cup {<<k, m[1]>>}
         \/ ~(m = Own(m[1]) /\ k \in got[m[1]]) /\ UNCHANGED lapsed /\ Sound
  BY DEF Age, local, Members
<1>2. /\ hurt \subseteq hurt' /\ hurt' \subseteq Requests /\ faults' \in 0 .. MaxFaults
  BY <1>1, Hurts DEF IndInv, TypeOK
<1>3. TypeOK'
  BY <1>1, <1>2 DEF IndInv, TypeOK
<1>4. /\ \A j \in Kinds : Pruned(j)' = IF j = k THEN Pruned(j) \ {m} ELSE Pruned(j)
      /\ PrunedLive' = PrunedLive /\ lapsed \subseteq lapsed'
  BY <1>1 DEF Pruned, PrunedLive
<1>5. Stages' /\ Unlimited' /\ Clean'
  BY <1>1, <1>2 DEF IndInv, Stages, Sane, Unlimited, Clean
<1>6. Held'
  BY <1>1, <1>4 DEF IndInv, Held, Own
<1>7. Capacity'
  BY <1>4, Shrunk DEF IndInv, Occupied, Lessees
<1>8. Counted'
  BY <1>1, <1>2, <1>3, QueuesAlone DEF IndInv
<1> QED BY <1>3, <1>5, <1>6, <1>7, <1>8 DEF IndInv

LEMMA AgeLeaseKeeps ==
    ASSUME IndInv, NEW r \in Requests, AgeLease(r) PROVE IndInv'
<1>1. /\ UNCHANGED <<slots, aged, live, wait, index, kind, got, queued, leased, load, pc,
                     up, cleaner, missed>>
      /\ r \in PrunedLive /\ agedLive' = agedLive \cup {r}
      /\ \/ Fault("slow", {r}) /\ lapsed' = lapsed \cup (Kinds \X {r})
         \/ leased[r] = "no" /\ UNCHANGED lapsed /\ Sound
  BY DEF AgeLease, local
<1>2. /\ hurt \subseteq hurt' /\ hurt' \subseteq Requests /\ faults' \in 0 .. MaxFaults
  BY <1>1, Hurts DEF IndInv, TypeOK
<1>3. TypeOK'
  BY <1>1, <1>2 DEF IndInv, TypeOK, PrunedLive
<1>4. /\ \A j \in Kinds : Pruned(j)' = Pruned(j)
      /\ PrunedLive' = PrunedLive \ {r} /\ lapsed \subseteq lapsed'
  BY <1>1 DEF Pruned, PrunedLive
<1>5. Stages' /\ Unlimited' /\ Clean'
  BY <1>1, <1>2 DEF IndInv, Stages, Sane, Unlimited, Clean
<1>6. Held'
  BY <1>1, <1>4 DEF IndInv, Held
<1>7. Capacity'
  BY <1>4, Shrunk DEF IndInv, Occupied, Lessees
<1>8. Counted'
  BY <1>1, <1>2, <1>3, QueuesAlone DEF IndInv
<1> QED BY <1>3, <1>5, <1>6, <1>7, <1>8 DEF IndInv

\* A counter that is deleted.
LEMMA Deleted ==
    ASSUME IndInv, NEW k \in Kinds, DeleteWait(k),
           UNCHANGED <<slots, aged, live, agedLive, index, pc, local, cleaner, hurt, lapsed>>,
           up' \in [Instances -> Startup], faults' \in 0 .. MaxFaults
    PROVE  IndInv'
<1>1. /\ TypeOK /\ UNCHANGED <<kind, got, queued, leased, load>>
      /\ wait' = [wait EXCEPT ![k] = 0] /\ missed' = [missed EXCEPT ![k] = Cardinality(Waiting(k))]
  BY DEF IndInv, local, DeleteWait
<1>2. Waiting(k) \subseteq Requests
  BY DEF Waiting
<1>3. Cardinality(Waiting(k)) \in Nat
  BY <1>2, Finite
<1>4. Still /\ TypeOK'
  BY <1>1, <1>3 DEF TypeOK, Still, Pruned, PrunedLive
<1>5. Stages' /\ Unlimited' /\ Held' /\ Clean' /\ Capacity'
  BY <1>4, Slotted
<1>6. ASSUME NEW j \in Kinds PROVE Tallied(j)'
  <2>1. Waiting(j)' = Waiting(j) /\ Past(j)' = Past(j)
    BY <1>1 DEF Waiting, Past, Before
  <2>2. CASE j = k
    <3>1. wait'[k] = 0 /\ missed'[k] = Cardinality(Waiting(k))
      BY <1>1 DEF TypeOK
    <3> QED BY <1>4, <2>1, <2>2, <3>1, Reset
  <2>3. CASE j # k
    <3>1. wait'[j] = wait[j] /\ missed'[j] = missed[j]
      BY <1>1, <2>3 DEF TypeOK
    <3> QED BY <1>1, <1>4, <2>1, <3>1, Recounted DEF IndInv
  <2> QED BY <2>2, <2>3
<1> QED BY <1>4, <1>5, <1>6 DEF IndInv, Counted, Tallied

LEMMA KeyExpiresKeeps ==
    ASSUME IndInv, NEW k \in Kinds, KeyExpires(k) PROVE IndInv'
<1>1. /\ UNCHANGED <<live, agedLive, index, local, pc, up, cleaner, faults, hurt, lapsed>>
      /\ \/ PruneSlots(k) /\ UNCHANGED <<wait, missed>>
         \/ DeleteWait(k) /\ UNCHANGED <<slots, aged>>
  BY DEF KeyExpires
<1>2. TypeOK
  BY DEF IndInv
<1>3. CASE PruneSlots(k) /\ UNCHANGED <<wait, missed>>
  <2>1. Still /\ RedisTypes'
    BY <1>1, <1>2, <1>3, Pruning
  <2>2. TypeOK'
    BY <1>1, <1>2, <1>3, <2>1 DEF TypeOK, RedisTypes, local
  <2> QED BY <1>1, <1>3, <2>1, <2>2, Tidied
<1>4. CASE DeleteWait(k) /\ UNCHANGED <<slots, aged>>
  BY <1>1, <1>2, <1>4, Deleted DEF TypeOK
<1> QED BY <1>1, <1>3, <1>4

LEMMA IndexDueKeeps ==
    ASSUME IndInv, NEW k \in Kinds, IndexDue(k) PROVE IndInv'
<1>1. /\ UNCHANGED <<slots, aged, live, agedLive, wait, pc, local, up, cleaner, faults, hurt,
                     lapsed, missed>>
      /\ index' = [index EXCEPT ![k] = "due"]
  BY DEF IndexDue, SetIndex
<1>2. Still /\ TypeOK'
  BY <1>1 DEF IndInv, TypeOK, Still, Pruned, PrunedLive, local
<1> QED BY <1>1, <1>2, Tidied

LEMMA ReconcileKeeps ==
    ASSUME IndInv, NEW k \in Kinds, Reconcile(k) PROVE IndInv'
<1>1. /\ UNCHANGED <<live, agedLive, wait, pc, local, up, faults, hurt, lapsed, missed>>
      /\ cleaner' \in [at : Kinds \cup {"none"}, load : Loads]
      /\ \/ PruneSlots(k) /\ UNCHANGED index
         \/ UNCHANGED <<slots, aged>> /\ \E v \in {"absent", "fresh"} : index' = [index EXCEPT ![k] = v]
  BY DEF Reconcile, SetIndex, Indexed, ReadLoad, Loads
<1>2. TypeOK
  BY DEF IndInv
<1>3. CASE PruneSlots(k) /\ UNCHANGED index
  <2>1. Still /\ RedisTypes'
    BY <1>1, <1>2, <1>3, Pruning
  <2>2. TypeOK'
    BY <1>1, <1>2, <2>1 DEF TypeOK, RedisTypes, local
  <2> QED BY <1>1, <2>1, <2>2, Tidied
<1>4. CASE UNCHANGED <<slots, aged>> /\ \E v \in {"absent", "fresh"} : index' = [index EXCEPT ![k] = v]
  <2>1. Still /\ TypeOK'
    BY <1>1, <1>2, <1>4 DEF TypeOK, Still, Pruned, PrunedLive, local
  <2> QED BY <1>1, <2>1, Tidied
<1> QED BY <1>1, <1>3, <1>4

LEMMA CrashKeeps ==
    ASSUME IndInv, NEW i \in Instances, Crash(i) PROVE IndInv'
<1> DEFINE dies == {r \in Requests : Home[r] = i /\ pc[r] \notin {"idle", "done", "dead"}}
<1>1. /\ UNCHANGED <<slots, aged, live, agedLive, wait, index, kind, load, cleaner, lapsed, missed>>
      /\ Fault("crash", dies) /\ up' = [up EXCEPT ![i] = <<"down">>]
      /\ pc' = [r \in Requests |-> IF r \in dies THEN "dead" ELSE pc[r]]
      /\ got' = [r \in Requests |-> IF r \in dies THEN {} ELSE got[r]]
      /\ queued' = [r \in Requests |-> queued[r] /\ r \notin dies]
      /\ leased' = [r \in Requests |-> IF r \in dies THEN "no" ELSE leased[r]]
  BY DEF Crash, redis
<1>2. dies \subseteq Requests /\ TypeOK
  BY DEF IndInv
<1> HIDE DEF dies
<1>3. hurt' = hurt \cup dies /\ faults' \in 0 .. MaxFaults
  BY <1>1, <1>2, SlotConstants DEF Fault, TypeOK
<1>4. TypeOK'
  <2>1. pc' \in [Requests -> Labels] /\ got' \in [Requests -> SUBSET Kinds]
        /\ leased' \in [Requests -> {"no", "held", "failed", "open"}]
        /\ up' \in [Instances -> Startup]
    BY <1>1, <1>2 DEF TypeOK, Labels, Startup
  <2>2. queued' \in [Requests -> BOOLEAN]
    BY <1>1, Zenon
  <2> QED BY <1>1, <1>2, <1>3, <2>1, <2>2 DEF TypeOK
<1>5. \A r \in Requests :
        /\ r \in dies => pc'[r] = "dead" /\ got'[r] = {} /\ ~queued'[r] /\ leased'[r] = "no"
        /\ r \notin dies => /\ pc'[r] = pc[r] /\ got'[r] = got[r] /\ leased'[r] = leased[r]
                            /\ queued'[r] <=> queued[r]
  BY <1>1
<1>6. Stages'
  BY <1>1, <1>5 DEF IndInv, Stages, Sane, Admission
<1>7. Still /\ Unlimited'
  BY <1>1 DEF Still, Pruned, PrunedLive, Unlimited, IndInv
<1>8. Held'
  BY <1>1, <1>5, <1>7 DEF IndInv, Held, Still
<1>9. Clean'
  BY <1>1, <1>3, <1>5 DEF IndInv, Clean
<1>10. Capacity'
  BY <1>1, <1>7, Shrunk DEF IndInv, Still, Occupied, Lessees
<1>11. ASSUME NEW k \in Kinds PROVE Tallied(k)'
  <2>1. Waiting(k)' \subseteq Waiting(k)
    BY <1>1, <1>5 DEF Waiting
  <2>2. ASSUME NEW r \in Waiting(k) \cup Past(k) PROVE r \in Waiting(k)' \cup Past(k)'
    <3>1. r \in Requests
      BY <1>2 DEF Waiting, Past, TypeOK
    <3>2. CASE r \in dies
      BY <1>3, <1>5, <3>1, <3>2 DEF Past, Before
    <3>3. CASE r \notin dies
      BY <1>1, <1>3, <1>5, <3>1, <3>3 DEF Waiting, Past, Before
    <3> QED BY <3>2, <3>3
  <2> QED BY <1>1, <1>2, <1>4, <2>1, <2>2, Recounted DEF IndInv
<1> QED BY <1>4, <1>6, <1>7, <1>8, <1>9, <1>10, <1>11 DEF IndInv, Counted, Tallied

LEMMA BootKeeps ==
    ASSUME IndInv, NEW i \in Instances, Boot(i) PROVE IndInv'
<1> DEFINE s == up[i]
           k == s[2]
           goes(t) == up' = [up EXCEPT ![i] = t]
           next == IF k = "account" THEN <<"read", "user">> ELSE <<"up">>
<1>1. /\ UNCHANGED <<pc, local, cleaner, live, agedLive>> /\ TypeOK
      /\ \/ s = <<"down">> /\ goes(<<"read", "account">>)
            /\ UNCHANGED <<slots, aged, wait, index, lapsed, missed>> /\ Sound
         \/ s[1] = "read" /\ goes(IF index[k] = "absent" THEN next ELSE <<"slots", k>>)
            /\ UNCHANGED <<slots, aged, wait, index, lapsed, missed>> /\ Sound
         \/ /\ s[1] = "slots" /\ goes(<<"wait", k>>)
            /\ slots' = [slots EXCEPT ![k] = {}] /\ aged' = {x \in aged : x[1] # k}
            /\ lapsed' = lapsed \cup {<<k, r>> : r \in {q \in Requests : k \in got[q]}}
            /\ UNCHANGED <<wait, index, missed>> /\ Sound
         \/ /\ s[1] = "wait" /\ goes(<<"write", k>>)
            /\ DeleteWait(k)
            /\ UNCHANGED <<slots, aged, index, lapsed>> /\ Sound
         \/ /\ s[1] = "write" /\ goes(next) /\ index' = [index EXCEPT ![k] = "absent"]
            /\ UNCHANGED <<slots, aged, wait, lapsed, missed>> /\ Sound
         \/ /\ s \notin {<<"up">>, <<"down">>} /\ Fault("redis", {}) /\ goes(<<"up">>)
            /\ UNCHANGED <<slots, aged, wait, index, lapsed, missed>>
  BY DEF Boot, IndInv
<1>2. s \in Startup
  BY <1>1 DEF TypeOK
<1>3. s[1] \in {"read", "slots", "wait", "write"} => k \in Kinds
  BY <1>2 DEF Startup, Kinds
<1>4. hurt' = hurt /\ faults' \in 0 .. MaxFaults
  <2>1. CASE Sound
    BY <1>1, <2>1 DEF Sound, TypeOK
  <2>2. CASE Fault("redis", {})
    BY <1>1, <2>2, SlotConstants DEF Fault, TypeOK
  <2> QED BY <1>1, <2>1, <2>2
<1>5. up' \in [Instances -> Startup]
  <2>1. /\ <<"up">> \in Startup /\ <<"read", "account">> \in Startup /\ <<"read", "user">> \in Startup
        /\ k \in Kinds => <<"slots", k>> \in Startup /\ <<"wait", k>> \in Startup /\ <<"write", k>> \in Startup
    BY DEF Startup, Kinds
  <2>2. PICK t : goes(t) /\ t \in Startup
    BY <1>1, <1>3, <2>1
  <2> QED BY <1>1, <2>2 DEF TypeOK
<1> HIDE DEF s, k, goes, next
<1>6. CASE UNCHANGED <<slots, aged, wait, lapsed, missed>>
  <2>1. index' \in [Kinds -> {"absent", "fresh", "due"}]
    BY <1>1 DEF TypeOK
  <2>2. TypeOK'
    BY <1>1, <1>4, <1>5, <1>6, <2>1 DEF TypeOK, local
  <2>3. Still
    BY <1>1, <1>6 DEF Still, Pruned, PrunedLive
  <2> QED BY <1>1, <1>4, <1>6, <2>2, <2>3, Tidied
<1>7. ASSUME NEW c \in Kinds, slots' = [slots EXCEPT ![c] = {}], aged' = {x \in aged : x[1] # c},
             lapsed' = lapsed \cup {<<c, r>> : r \in {q \in Requests : c \in got[q]}},
             UNCHANGED <<wait, index, missed>>
      PROVE  IndInv'
  <2>1. lapsed' \subseteq Kinds \X Requests
    BY <1>1, <1>7 DEF TypeOK
  <2>2. TypeOK'
    BY <1>1, <1>4, <1>5, <1>7, <2>1 DEF TypeOK, local
  <2>3. /\ \A j \in Kinds \ {c} : Pruned(j)' = Pruned(j) /\ slots'[j] = slots[j]
        /\ slots'[c] = {} /\ Pruned(c)' = {} /\ PrunedLive' = PrunedLive /\ lapsed \subseteq lapsed'
        /\ \A r \in Requests : c \in got[r] => <<c, r>> \in lapsed'
    <3>1. slots'[c] = {} /\ \A j \in Kinds \ {c} : slots'[j] = slots[j]
      BY <1>1, <1>7 DEF TypeOK
    <3>2. Pruned(c)' = {} /\ \A j \in Kinds \ {c} : Pruned(j)' = Pruned(j)
      BY <1>7, <3>1 DEF Pruned
    <3>3. PrunedLive' = PrunedLive
      BY <1>1 DEF PrunedLive
    <3>4. lapsed \subseteq lapsed' /\ \A r \in Requests : c \in got[r] => <<c, r>> \in lapsed'
      BY <1>7
    <3> QED BY <3>1, <3>2, <3>3, <3>4
  <2>4. Stages' /\ Unlimited' /\ Clean'
    BY <1>1, <1>4, <1>7, <2>3 DEF IndInv, local, Stages, Sane, Unlimited, Clean
  <2>5. Held'
    BY <1>1, <1>7, <2>3 DEF IndInv, local, Held
  <2>6. Capacity'
    <3>1. ASSUME NEW j \in Kinds PROVE Occupied(j)' \subseteq Occupied(j)
      BY <2>3 DEF Occupied, Lessees
    <3> QED BY <1>1, <3>1, Shrunk DEF IndInv
  <2>7. Counted'
    BY <1>1, <1>4, <1>7, <2>2, QueuesAlone DEF IndInv, local
  <2> QED BY <2>2, <2>4, <2>5, <2>6, <2>7 DEF IndInv
<1>8. ASSUME NEW c \in Kinds, DeleteWait(c), UNCHANGED <<slots, aged, index, lapsed>>
      PROVE  IndInv'
  BY <1>1, <1>4, <1>5, <1>8, Deleted
<1> QED BY <1>1, <1>3, <1>6, <1>7, <1>8

-----------------------------------------------------------------------------
(* The theorems. *)

LEMMA InitHolds == Init => IndInv
<1> SUFFICES ASSUME Init PROVE IndInv
  OBVIOUS
<1>1. TypeOK
  BY SlotConstants DEF Init, TypeOK, Kinds, Labels, Loads, Startup
<1>2. Stages /\ Unlimited /\ Held /\ Clean
  BY DEF Init, Stages, Sane, Unlimited, Held, Clean, Kinds
<1>3. ASSUME NEW k \in Kinds PROVE Cardinality(Occupied(k)) <= Max[k]
  <2>1. Occupied(k) = {}
    BY DEF Init, Occupied, Lessees, Pruned, PrunedLive
  <2> QED BY <2>1, FS_EmptySet, SlotConstants
<1>4. ASSUME NEW k \in Kinds
      PROVE  /\ wait[k] <= Queue[k] /\ Cardinality(Waiting(k)) <= wait[k] + missed[k]
             /\ wait[k] <= Cardinality(Waiting(k) \cup Past(k))
  <2>1. Waiting(k) = {} /\ Past(k) = {} /\ wait[k] = 0 /\ missed[k] = 0
    BY DEF Init, Waiting, Past
  <2>2. Cardinality({}) = 0 /\ Cardinality({} \cup {}) = 0
    BY FS_EmptySet
  <2> QED BY <2>1, <2>2, SlotConstants
<1> QED BY <1>1, <1>2, <1>3, <1>4 DEF IndInv, Capacity, Counted

LEMMA Stutters == IndInv /\ UNCHANGED vars => IndInv'
<1> SUFFICES ASSUME IndInv, UNCHANGED vars PROVE IndInv'
  OBVIOUS
<1>1. TypeOK' /\ Still
  BY DEF IndInv, vars, redis, local, TypeOK, Still, Pruned, PrunedLive
<1>2. UNCHANGED <<pc, local, wait, lapsed, missed, hurt>>
  BY DEF vars, redis
<1> QED BY <1>1, <1>2, Tidied

LEMMA StepHolds == IndInv /\ [Next]_vars => IndInv'
BY Stutters, ServeKeeps, AgeLeaseKeeps, KeyExpiresKeeps, IndexDueKeeps, ReconcileKeeps, AgeKeeps,
   CrashKeeps, BootKeeps DEF Next

LEMMA InvHolds == Spec => []IndInv
BY InitHolds, StepHolds, PTL DEF Spec

\* A request's own slot stands for it: no two requests share one.
LEMMA CapHolds == IndInv => CapIsKept
<1> SUFFICES ASSUME IndInv, NEW k \in Kinds, Max[k] > 0 PROVE Cardinality(Using(k)) <= Max[k]
  BY DEF CapIsKept
<1>1. TypeOK /\ Held /\ Capacity
  BY DEF IndInv
<1>2. Using(k) \subseteq Requests /\ Lessees(k) \subseteq Requests /\ Pruned(k) \subseteq Members
  BY <1>1 DEF Using, Lessees, PrunedLive, Pruned, TypeOK
<1>3. {Own(r) : r \in Using(k)} \subseteq Occupied(k)
  BY <1>1 DEF Using, Held, Occupied, Lessees
<1>4. Occupied(k) \subseteq Members
  BY <1>2, Owners DEF Occupied
<1>5. /\ Cardinality(Occupied(k)) \in Nat /\ Cardinality({Own(r) : r \in Using(k)}) \in Nat
      /\ Cardinality({Own(r) : r \in Using(k)}) <= Cardinality(Occupied(k))
  BY <1>3, <1>4, Sizes
<1>6. Cardinality({Own(r) : r \in Using(k)}) = Cardinality(Using(k))
  BY <1>2, Owners
<1> QED BY <1>1, <1>5, <1>6, SlotConstants DEF Capacity

LEMMA QueueHolds == IndInv => QueueIsBounded
<1> SUFFICES ASSUME IndInv, NEW k \in Kinds PROVE Cardinality(Waiting(k)) <= Queue[k] + missed[k]
  BY DEF QueueIsBounded
<1>1. Waiting(k) \subseteq Requests
  BY DEF Waiting
<1>2. Cardinality(Waiting(k)) \in Nat
  BY <1>1, Finite
<1>3. /\ wait[k] \in Nat /\ Queue[k] \in Nat /\ missed[k] \in Nat
      /\ Cardinality(Waiting(k)) <= wait[k] + missed[k] /\ wait[k] <= Queue[k]
  BY SlotConstants DEF IndInv, TypeOK, Counted
<1> QED BY <1>2, <1>3

LEMMA LeaksNothing == IndInv => NothingLeaks
<1> SUFFICES ASSUME IndInv PROVE NothingLeaks
  OBVIOUS
<1>1. TypeOK /\ Stages /\ Counted /\ Clean
  BY DEF IndInv
<1>2. \A r \in Requests \ hurt :
        pc[r] = "done" => r \notin live /\ \A k \in Kinds : \A m \in slots[k] : m[1] # r
  BY <1>1 DEF Stages, Sane, Clean
<1>3. ASSUME NEW k \in Kinds PROVE wait[k] <= Cardinality(Waiting(k) \cup hurt)
  <2>1. Waiting(k) \cup Past(k) \subseteq Waiting(k) \cup hurt /\ Waiting(k) \cup hurt \subseteq Requests
    BY <1>1 DEF Waiting, Past, TypeOK
  <2>2. /\ Cardinality(Waiting(k) \cup Past(k)) \in Nat /\ Cardinality(Waiting(k) \cup hurt) \in Nat
        /\ Cardinality(Waiting(k) \cup Past(k)) <= Cardinality(Waiting(k) \cup hurt)
    BY <2>1, Sizes
  <2> QED BY <1>1, <2>2 DEF TypeOK, Counted
<1> QED BY <1>2, <1>3 DEF NothingLeaks, Waiting

\* Every variable keeps its type, whatever the number of requests and
\* instances: the wait counters never go below zero, although DecrementWaitCount
\* runs for waiters that were never counted.
THEOREM TypeCorrect == Spec => []TypeOK
<1>1. IndInv => TypeOK
  BY DEF IndInv
<1> QED BY <1>1, InvHolds, PTL

\* The acquire scripts keep the limit for every number of requests, instances
\* and Live sessions, whatever limits they compete for and however often
\* commands fail, replies are lost and instances die.
THEOREM CapIsKeptThm == Spec => []CapIsKept
  BY InvHolds, CapHolds, PTL

\* IncrementWaitCount bounds the queue but for the counts that were lost: of the
\* increments that failed, and of those who were waiting when an expiry or a
\* restart last deleted the counter.
THEOREM QueueIsBoundedThm == Spec => []QueueIsBounded
  BY InvHolds, QueueHolds, PTL

\* A request that met no fault leaves neither slot nor lease nor count behind,
\* whichever of its paths it took.
THEOREM NothingLeaksThm == Spec => []NothingLeaks
  BY InvHolds, LeaksNothing, PTL
=============================================================================
