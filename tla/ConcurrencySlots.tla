-------------------------- MODULE ConcurrencySlots --------------------------
(***************************************************************************)
(* The admission of gateway requests: the concurrency slots of one user    *)
(* and one upstream account, their wait counters, the leases of Live       *)
(* sessions and the index of active ids, all kept in Redis and shared by   *)
(* every instance of the gateway (repository/concurrency_cache.go,         *)
(* service/concurrency_service.go, handler/gateway_helper.go and           *)
(* CreateLiveCall in service/openai_live.go).                              *)
(*                                                                         *)
(* Every Lua script and every Redis command is one action. A request takes *)
(* the user's slot, then the account's, forwards, and gives both back in   *)
(* the opposite order; a Live request trades the account's slot for a      *)
(* lease which outlives the call that created it.                          *)
(***************************************************************************)
EXTENDS Integers, FiniteSets

CONSTANTS
    Requests,     \* the requests, each served once
    LiveRequests, \* those that create a Live session
    Instances,    \* the gateway processes
    Home,         \* the process each request arrives at
    Max,          \* the concurrency limit of the user and of the account; 0 is no limit
    Queue,        \* how many requests may wait for each
    FaultKinds,   \* the faults that may happen
    MaxFaults     \* and how many of them

Kinds == {"user", "account"}

\* A command fails, or takes effect and its reply is lost (a deadline that
\* fires under a script is one); a process dies; a slot outlives its TTL.
AllFaults == {"redis", "lost", "crash", "slow"}

ASSUME SlotConstants ==
    /\ IsFiniteSet(Requests)
    /\ LiveRequests \subseteq Requests
    /\ Home \in [Requests -> Instances]
    /\ Max \in [Kinds -> Nat]
    /\ Queue \in [Kinds -> Nat \ {0}]
    /\ FaultKinds \subseteq AllFaults
    /\ MaxFaults \in Nat

VARIABLES
    slots,    \* the members of each slot set
    aged,     \* the members whose score is older than the slot TTL
    live,     \* the members of the Live sets: the user's and the account's are written together
    agedLive, \* those older than the lease TTL
    wait,     \* the wait counters
    index,    \* whether the id is in the active index, and whether its score has passed
    pc,       \* where each request is
    kind,     \* the kind of slot it is dealing with
    got,      \* the kinds whose release function it holds
    queued,   \* whether it owes a decrement of the wait counter
    leased,   \* its Live lease: none, held, to be given back, or of an open session
    load,     \* what its refresh of the index read
    up,       \* the startup of each instance
    cleaner,  \* the background cleanup: the kind it is reconciling and the load it read
    faults,   \* faults left
    lapsed,   \* history: the slots that went while a request was using them
    missed,   \* history: how many waiters each wait counter may have missed
    hurt      \* history: requests that met a fault

redis == <<slots, aged, live, agedLive, wait, index>>
local == <<kind, got, queued, leased, load>>
vars  == <<redis, local, pc, up, cleaner, faults, lapsed, missed, hurt>>

\* Every attempt to acquire has an id of its own: the one the request holds,
\* or those of the attempts whose reply was lost.
Members == Requests \X {"own", "try", "wait"}
Own(r)  == <<r, "own">>

Labels == {"idle", "try", "touch", "queue", "touchWait", "wait", "dec", "idxRead", "idxWrite",
           "lease", "create", "save", "forward", "session", "release", "releaseLease",
           "done", "dead"}
Loads   == {"none", "busy", "free"}
Startup == {<<"up">>, <<"down">>} \cup ({"read", "slots", "wait", "write"} \X Kinds)

\* The variables have the types the code gives them.
TypeOK ==
    /\ slots \in [Kinds -> SUBSET Members]
    /\ aged \subseteq Kinds \X Members
    /\ live \subseteq Requests /\ agedLive \subseteq live
    /\ wait \in [Kinds -> Nat]
    /\ index \in [Kinds -> {"absent", "fresh", "due"}]
    /\ pc \in [Requests -> Labels]
    /\ kind \in [Requests -> Kinds]
    /\ got \in [Requests -> SUBSET Kinds]
    /\ queued \in [Requests -> BOOLEAN]
    /\ leased \in [Requests -> {"no", "held", "failed", "open"}]
    /\ load \in [Requests -> Loads]
    /\ up \in [Instances -> Startup]
    /\ cleaner \in [at: Kinds \cup {"none"}, load: Loads]
    /\ faults \in 0 .. MaxFaults
    /\ lapsed \subseteq Kinds \X Requests
    /\ missed \in [Kinds -> Nat]
    /\ hurt \subseteq Requests

Init ==
    /\ slots = [k \in Kinds |-> {}] /\ aged = {} /\ live = {} /\ agedLive = {}
    /\ wait = [k \in Kinds |-> 0] /\ index = [k \in Kinds |-> "absent"]
    /\ pc = [r \in Requests |-> "idle"] /\ kind = [r \in Requests |-> "user"]
    /\ got = [r \in Requests |-> {}] /\ queued = [r \in Requests |-> FALSE]
    /\ leased = [r \in Requests |-> "no"] /\ load = [r \in Requests |-> "none"]
    /\ up = [i \in Instances |-> <<"up">>] /\ cleaner = [at |-> "none", load |-> "none"]
    /\ faults = MaxFaults /\ lapsed = {} /\ missed = [k \in Kinds |-> 0] /\ hurt = {}

At(r, l) == pc[r] = l /\ UNCHANGED <<up, cleaner>>
Goto(r, l) == pc' = [pc EXCEPT ![r] = l]

\* A fault of kind x, met by the requests of rs.
Fault(x, rs) ==
    /\ x \in FaultKinds /\ faults > 0 /\ faults' = faults - 1
    /\ hurt' = hurt \cup rs

Sound == UNCHANGED <<faults, hurt>>

\* The requests in the queue for k: they owe a decrement of its counter.
Waiting(k) == {r \in Requests : queued[r] /\ kind[r] = k}

\* The waiters the counter of k may have missed: none, when nobody waits.
Missed(k) == IF Waiting(k) = {} THEN 0 ELSE missed[k]

\* Request r goes on with slot kind k, holding the slots gs: on to the next
\* stage with a slot it has just acquired, else back through what it holds.
Resume(r, k, gs, owes, lease) ==
    LET goes(l, to) == Goto(r, l) /\ kind' = [kind EXCEPT ![r] = to]
    IN  /\ got' = [got EXCEPT ![r] = gs] /\ queued' = [queued EXCEPT ![r] = owes]
        /\ leased' = [leased EXCEPT ![r] = lease] /\ load' = [load EXCEPT ![r] = "none"]
        /\ \/ owes /\ goes("dec", k)
           \/ /\ ~owes /\ k \in gs
              /\ \/ k = "user" /\ goes("try", "account")
                 \/ k = "account" /\ goes(IF r \in LiveRequests THEN "lease" ELSE "forward", k)
           \/ /\ ~owes /\ k \notin gs
              /\ \/ lease = "held" /\ goes("save", k)
                 \/ lease = "failed" /\ goes("releaseLease", k)
                 \/ lease \in {"no", "open"} /\ gs # {} /\ goes("release", "user")
                 \/ lease = "open" /\ gs = {} /\ goes("session", "user")
                 \/ lease = "no" /\ gs = {} /\ goes("done", "user")

-----------------------------------------------------------------------------
(* The Redis scripts. *)

\* What ZREMRANGEBYSCORE leaves of a slot set, and of the Live set beside it.
Pruned(k)  == {m \in slots[k] : <<k, m>> \notin aged}
PrunedLive == live \ agedLive

\* Mutant: the acquire script counts the plain slots only.
HasRoomIgnoresLive(k) == Cardinality(Pruned(k)) < Max[k]

\* The acquire script counts the plain slots and the Live leases together.
HasRoom(k) == Cardinality(Pruned(k)) + Cardinality(PrunedLive) < Max[k]

\* The acquire script prunes both sets and adds the members ms.
Acquire(k, ms) ==
    /\ slots' = [slots EXCEPT ![k] = Pruned(k) \cup ms]
    /\ aged' = {x \in aged : x[1] # k}
    /\ live' = PrunedLive /\ agedLive' = {}
    /\ UNCHANGED <<wait, index>>

\* The lease script prunes only the Live sets, and allows for the one plain
\* slot the lease replaces.
LeaseHasRoom(k) == Max[k] > 0 => Cardinality(slots[k]) + Cardinality(PrunedLive) < Max[k] + 1

\* The pipeline that reads an id's load prunes its slot set on the way.
ReadLoad(k) == IF Pruned(k) = {} /\ wait[k] = 0 THEN "free" ELSE "busy"

PruneSlots(k) ==
    /\ slots' = [slots EXCEPT ![k] = Pruned(k)]
    /\ aged' = {x \in aged : x[1] # k}

\* The index entry a refresh writes for the load it read.
Indexed(l) == IF l = "free" THEN "absent" ELSE "fresh"

SetIndex(k, v) ==
    /\ index' = [index EXCEPT ![k] = v]
    /\ UNCHANGED <<slots, aged, live, agedLive, wait>>

-----------------------------------------------------------------------------
(* A request. *)

\* A request arrives at an instance that has finished its startup.
Start(r) ==
    /\ At(r, "idle") /\ up[Home[r]] = <<"up">>
    /\ Goto(r, "try")
    /\ UNCHANGED <<redis, local, lapsed, missed>> /\ Sound

\* TryAcquireUserSlot and tryAcquireAccountSlot. An error ends the request for
\* the user's slot; for the account's the scheduler falls through to a wait
\* plan. A Live request never waits.
TryAcquire(r) ==
    LET k == kind[r]
        refused == IF r \in LiveRequests \/ (k = "user" /\ hurt' # hurt)
                   THEN Resume(r, k, got[r], FALSE, "no")
                   ELSE Goto(r, "queue") /\ UNCHANGED local
    IN  /\ At(r, "try") /\ UNCHANGED <<lapsed, missed>>
        /\ \/ /\ Max[k] = 0 /\ Sound /\ UNCHANGED redis
              /\ Resume(r, k, got[r] \cup {k}, FALSE, "no")
           \/ /\ Max[k] > 0 /\ HasRoom(k) /\ Sound
              /\ Acquire(k, {Own(r)})
              /\ got' = [got EXCEPT ![r] = @ \cup {k}]
              /\ Goto(r, "touch") /\ UNCHANGED <<kind, queued, leased, load>>
           \/ Max[k] > 0 /\ ~HasRoom(k) /\ Sound /\ Acquire(k, {}) /\ refused
           \/ Max[k] > 0 /\ Fault("redis", {r}) /\ UNCHANGED redis /\ refused
           \/ HasRoom(k) /\ Fault("lost", {r}) /\ Acquire(k, {<<r, "try">>}) /\ refused

\* touchActiveIndexAt after a successful acquire; its failure is only logged.
Touch(r) ==
    /\ At(r, "touch") /\ UNCHANGED <<lapsed, missed>>
    /\ \/ SetIndex(kind[r], "fresh") /\ Sound
       \/ UNCHANGED redis /\ Fault("redis", {r})
    /\ Resume(r, kind[r], got[r], queued[r], leased[r])

\* Mutant: the counter is raised before it is compared.
IncrementWaitUnbounded(r) ==
    LET k == kind[r]
    IN  /\ At(r, "queue") /\ UNCHANGED <<kind, got, leased, load, lapsed>>
        /\ wait' = [wait EXCEPT ![k] = @ + 1] /\ missed' = [missed EXCEPT ![k] = Missed(k)]
        /\ UNCHANGED <<slots, aged, live, agedLive, index>>
        /\ queued' = [queued EXCEPT ![r] = TRUE] /\ Goto(r, "touchWait") /\ Sound

\* IncrementWaitCount: refused when the queue is full; an error lets the
\* request wait all the same, and it will decrement all the same.
IncrementWait(r) ==
    LET k == kind[r]
        counted == /\ wait' = [wait EXCEPT ![k] = @ + 1]
                   /\ missed' = [missed EXCEPT ![k] = Missed(k)]
                   /\ UNCHANGED <<slots, aged, live, agedLive, index>>
        waits(l) == /\ queued' = [queued EXCEPT ![r] = TRUE]
                    /\ Goto(r, l) /\ UNCHANGED <<kind, got, leased, load>>
    IN  /\ At(r, "queue") /\ UNCHANGED lapsed
        /\ \/ wait[k] < Queue[k] /\ Sound /\ counted /\ waits("touchWait")
           \/ /\ wait[k] >= Queue[k] /\ Sound /\ UNCHANGED <<redis, missed>>
              /\ Resume(r, k, got[r], FALSE, "no")
           \/ /\ Fault("redis", {r}) /\ UNCHANGED redis
              /\ missed' = [missed EXCEPT ![k] = Missed(k) + 1] /\ waits("wait")
           \/ wait[k] < Queue[k] /\ Fault("lost", {r}) /\ counted /\ waits("wait")

\* touchActiveIndexAt after a successful increment.
TouchWait(r) ==
    /\ At(r, "touchWait") /\ UNCHANGED <<local, lapsed, missed>>
    /\ \/ SetIndex(kind[r], "fresh") /\ Sound
       \/ UNCHANGED redis /\ Fault("redis", {r})
    /\ Goto(r, "wait")

\* waitForSlotWithPingTimeout: one poll, which may come back empty-handed, or
\* the deadline, the client's departure or an error.
Poll(r) ==
    LET k == kind[r]
    IN  /\ At(r, "wait") /\ UNCHANGED <<lapsed, missed>>
        /\ \/ /\ HasRoom(k) /\ Sound /\ Acquire(k, {Own(r)})
              /\ got' = [got EXCEPT ![r] = @ \cup {k}]
              /\ Goto(r, "touch") /\ UNCHANGED <<kind, queued, leased, load>>
           \/ ~HasRoom(k) /\ Sound /\ Acquire(k, {}) /\ UNCHANGED <<pc, local>>
           \/ Sound /\ UNCHANGED redis /\ Resume(r, k, got[r], TRUE, "no")
           \/ /\ HasRoom(k) /\ Fault("lost", {r}) /\ Acquire(k, {<<r, "wait">>})
              /\ Resume(r, k, got[r], TRUE, "no")

\* Mutant: a request that gives up waiting does not decrement the counter.
DecrementWaitOnSuccessOnly(r) ==
    LET k == kind[r]
    IN  /\ At(r, "dec") /\ UNCHANGED <<kind, got, leased, load, lapsed, missed>> /\ Sound
        /\ wait' = [wait EXCEPT ![k] = IF @ > 0 /\ k \in got[r] THEN @ - 1 ELSE @]
        /\ queued' = [queued EXCEPT ![r] = FALSE]
        /\ UNCHANGED <<slots, aged, live, agedLive, index>>
        /\ Goto(r, "idxRead")

\* Mutant: the script decrements whatever the counter holds.
DecrementWaitUnguarded(r) ==
    LET k == kind[r]
    IN  /\ At(r, "dec") /\ UNCHANGED <<kind, got, leased, load, lapsed, missed>> /\ Sound
        /\ wait' = [wait EXCEPT ![k] = @ - 1]
        /\ queued' = [queued EXCEPT ![r] = FALSE]
        /\ UNCHANGED <<slots, aged, live, agedLive, index>>
        /\ Goto(r, "idxRead")

\* DecrementWaitCount: never below zero; an error leaves the index alone.
DecrementWait(r) ==
    LET k == kind[r]
        lowered == /\ wait' = [wait EXCEPT ![k] = IF @ > 0 THEN @ - 1 ELSE @]
                   /\ UNCHANGED <<slots, aged, live, agedLive, index>>
    IN  /\ At(r, "dec") /\ UNCHANGED <<lapsed, missed>>
        /\ \/ /\ lowered /\ Sound /\ Goto(r, "idxRead")
              /\ queued' = [queued EXCEPT ![r] = FALSE] /\ UNCHANGED <<kind, got, leased, load>>
           \/ Fault("redis", {r}) /\ UNCHANGED redis /\ Resume(r, k, got[r], FALSE, leased[r])
           \/ Fault("lost", {r}) /\ lowered /\ Resume(r, k, got[r], FALSE, leased[r])

\* refreshActiveIndex reads the load ...
IndexRead(r) ==
    LET k == kind[r]
    IN  /\ At(r, "idxRead") /\ UNCHANGED <<lapsed, missed>>
        /\ \/ /\ PruneSlots(k) /\ UNCHANGED <<live, agedLive, wait, index>> /\ Sound
              /\ load' = [load EXCEPT ![r] = ReadLoad(k)]
              /\ Goto(r, "idxWrite") /\ UNCHANGED <<kind, got, queued, leased>>
           \/ /\ Fault("redis", {r}) /\ UNCHANGED redis
              /\ Resume(r, k, got[r], queued[r], leased[r])

\* ... and writes the index by what it read, with a later command.
IndexWrite(r) ==
    /\ At(r, "idxWrite") /\ UNCHANGED <<lapsed, missed>>
    /\ \/ SetIndex(kind[r], Indexed(load[r])) /\ Sound
       \/ UNCHANGED redis /\ Fault("redis", {r})
    /\ Resume(r, kind[r], got[r], queued[r], leased[r])

\* The forward ends, or the client leaves and AfterFunc releases the slots.
ForwardEnds(r) ==
    /\ At(r, "forward")
    /\ Goto(r, "release") /\ kind' = [kind EXCEPT ![r] = "account"]
    /\ UNCHANGED <<redis, got, queued, leased, load, lapsed, missed>> /\ Sound

\* ReleaseAccountSlot and ReleaseUserSlot; an error skips the index.
Release(r) ==
    LET k == kind[r]
        removed == /\ slots' = [slots EXCEPT ![k] = @ \ {Own(r)}]
                   /\ aged' = aged \ {<<k, Own(r)>>}
                   /\ UNCHANGED <<live, agedLive, wait, index>>
    IN  /\ At(r, "release") /\ UNCHANGED <<lapsed, missed>>
        /\ \/ /\ Max[k] = 0 /\ Sound /\ UNCHANGED redis
              /\ Resume(r, k, got[r] \ {k}, FALSE, leased[r])
           \/ /\ Max[k] > 0 /\ removed /\ Sound /\ Goto(r, "idxRead")
              /\ got' = [got EXCEPT ![r] = @ \ {k}] /\ UNCHANGED <<kind, queued, leased, load>>
           \/ /\ Max[k] > 0 /\ Fault("redis", {r}) /\ UNCHANGED redis
              /\ Resume(r, k, got[r] \ {k}, FALSE, leased[r])
           \/ /\ Max[k] > 0 /\ Fault("lost", {r}) /\ removed
              /\ Resume(r, k, got[r] \ {k}, FALSE, leased[r])

-----------------------------------------------------------------------------
(* A Live session. *)

\* The lease script, written to both Live sets at once, or an error: the
\* account's slot is then given back and the call fails.
AcquireLease(r) ==
    LET added(rs) == /\ live' = PrunedLive \cup rs /\ agedLive' = {}
                     /\ UNCHANGED <<slots, aged, wait, index>>
        room == \A k \in Kinds : LeaseHasRoom(k)
        refused == Goto(r, "release") /\ UNCHANGED local
    IN  /\ At(r, "lease") /\ UNCHANGED <<lapsed, missed>>
        /\ \/ /\ room /\ Sound /\ added({r}) /\ Goto(r, "create")
              /\ leased' = [leased EXCEPT ![r] = "held"] /\ UNCHANGED <<kind, got, queued, load>>
           \/ ~room /\ Sound /\ added({}) /\ refused
           \/ Fault("redis", {r}) /\ UNCHANGED redis /\ refused
           \/ room /\ Fault("lost", {r}) /\ added({r}) /\ refused

\* createUpstreamLiveCall, after which the account's slot is given back; the
\* lease follows when the call failed.
CreateUpstream(r) ==
    /\ At(r, "create") /\ Goto(r, "release")
    /\ \E ok \in BOOLEAN : leased' = [leased EXCEPT ![r] = IF ok THEN "held" ELSE "failed"]
    /\ UNCHANGED <<redis, kind, got, queued, load, lapsed, missed>> /\ Sound

\* SaveLiveCall: the session is observed from here on, or the lease goes back.
SaveCall(r) ==
    /\ At(r, "save") /\ UNCHANGED <<redis, lapsed, missed>> /\ Sound
    /\ \/ Resume(r, "account", got[r], FALSE, "open")
       \/ Resume(r, "account", got[r], FALSE, "failed")

\* The observer renews the lease, and ends the session when the lease is gone
\* or Redis cannot say; it also ends on its own.
RefreshLease(r) ==
    LET ends == Goto(r, "releaseLease") /\ UNCHANGED local
    IN  /\ At(r, "session") /\ UNCHANGED <<lapsed, missed>>
        /\ \/ /\ Sound /\ live' = PrunedLive /\ agedLive' = {}
              /\ UNCHANGED <<slots, aged, wait, index>>
              /\ IF r \in PrunedLive THEN UNCHANGED <<pc, local>> ELSE ends
           \/ Fault("redis", {r}) /\ UNCHANGED redis /\ ends
           \/ Sound /\ UNCHANGED redis /\ ends

\* ReleaseLiveLease.
ReleaseLease(r) ==
    /\ At(r, "releaseLease") /\ UNCHANGED <<lapsed, missed>>
    /\ \/ /\ Sound /\ live' = live \ {r} /\ agedLive' = agedLive \ {r}
          /\ UNCHANGED <<slots, aged, wait, index>>
       \/ Fault("redis", {r}) /\ UNCHANGED redis
    /\ Resume(r, "account", got[r], FALSE, "no")

-----------------------------------------------------------------------------
(* Time, crashes and the cleanups. *)

\* A score falls behind the TTL: of a leaked member sooner or later, of a slot
\* in use when the request outlives the slot TTL, which nothing renews.
Age(k, m) ==
    LET r == m[1]
    IN  /\ m \in Pruned(k)
        /\ aged' = aged \cup {<<k, m>>}
        /\ IF m = Own(r) /\ k \in got[r]
           THEN Fault("slow", {r}) /\ lapsed' = lapsed \cup {<<k, r>>}
           ELSE UNCHANGED lapsed /\ Sound
        /\ UNCHANGED <<slots, live, agedLive, wait, index, local, pc, up, cleaner, missed>>

\* The same for a lease; the observer of an open session would have renewed it.
AgeLease(r) ==
    /\ r \in PrunedLive
    /\ agedLive' = agedLive \cup {r}
    /\ IF leased[r] # "no"
       THEN Fault("slow", {r}) /\ lapsed' = lapsed \cup (Kinds \X {r})
       ELSE UNCHANGED lapsed /\ Sound
    /\ UNCHANGED <<slots, aged, live, wait, index, local, pc, up, cleaner, missed>>

\* The counter of k is deleted, and forgets whoever waits.
DeleteWait(k) ==
    /\ wait' = [wait EXCEPT ![k] = 0]
    /\ missed' = [missed EXCEPT ![k] = Cardinality(Waiting(k))]

\* A key expires: a slot set once every member is old, a wait counter when nobody has
\* joined the queue for its TTL.  ProvideConcurrencyCache takes that from the longest
\* configured wait for an account, and a user's wait is fixed: it may pass under a waiter.
KeyExpires(k) ==
    /\ \/ slots[k] # {} /\ Pruned(k) = {} /\ PruneSlots(k) /\ UNCHANGED <<wait, missed>>
       \/ wait[k] > 0 /\ DeleteWait(k) /\ UNCHANGED <<slots, aged>>
    /\ UNCHANGED <<live, agedLive, index, local, pc, up, cleaner, faults, hurt, lapsed>>

\* The score of an index entry passes.
IndexDue(k) ==
    /\ index[k] = "fresh" /\ SetIndex(k, "due")
    /\ UNCHANGED <<local, pc, up, cleaner, faults, hurt, lapsed, missed>>

\* reconcileExpiredIndexCandidates reads the load of a due entry, and later
\* renews or removes the entry by what it read.
Reconcile(k) ==
    /\ \/ /\ cleaner.at = "none" /\ index[k] = "due"
          /\ PruneSlots(k) /\ UNCHANGED <<live, agedLive, wait, index>>
          /\ cleaner' = [at |-> k, load |-> ReadLoad(k)]
       \/ /\ cleaner.at = k
          /\ SetIndex(k, Indexed(cleaner.load))
          /\ cleaner' = [at |-> "none", load |-> "none"]
    /\ UNCHANGED <<local, pc, up, faults, hurt, lapsed, missed>>

\* A process dies with its requests.
Crash(i) ==
    LET dies == {r \in Requests : Home[r] = i /\ pc[r] \notin {"idle", "done", "dead"}}
    IN  /\ up[i] = <<"up">> /\ dies # {} /\ Fault("crash", dies)
        /\ up' = [up EXCEPT ![i] = <<"down">>]
        /\ pc' = [r \in Requests |-> IF r \in dies THEN "dead" ELSE pc[r]]
        /\ got' = [r \in Requests |-> IF r \in dies THEN {} ELSE got[r]]
        /\ queued' = [r \in Requests |-> queued[r] /\ r \notin dies]
        /\ leased' = [r \in Requests |-> IF r \in dies THEN "no" ELSE leased[r]]
        /\ UNCHANGED <<redis, kind, load, cleaner, lapsed, missed>>

\* CleanupStaleProcessSlots of a restarted process: for the ids in the index,
\* the account's before the user's, it removes every slot that is not its own
\* (it has none yet), then the wait counter, then the index entry. An error
\* ends the cleanup, not the startup.
Boot(i) ==
    LET s == up[i]
        k == s[2]
        goes(t) == up' = [up EXCEPT ![i] = t]
        next == IF k = "account" THEN <<"read", "user">> ELSE <<"up">>
    IN  /\ UNCHANGED <<pc, local, cleaner, live, agedLive>>
        /\ \/ s = <<"down">> /\ goes(<<"read", "account">>)
              /\ UNCHANGED <<slots, aged, wait, index, lapsed, missed>> /\ Sound
           \/ s[1] = "read" /\ goes(IF index[k] = "absent" THEN next ELSE <<"slots", k>>)
              /\ UNCHANGED <<slots, aged, wait, index, lapsed, missed>> /\ Sound
           \/ /\ s[1] = "slots" /\ goes(<<"wait", k>>)
              /\ slots' = [slots EXCEPT ![k] = {}] /\ aged' = {x \in aged : x[1] # k}
              /\ lapsed' = lapsed \cup {<<k, r>> : r \in {q \in Requests : k \in got[q]}}
              /\ UNCHANGED <<wait, index, missed>> /\ Sound
           \/ /\ s[1] = "wait" /\ goes(<<"write", k>>)
              /\ DeleteWait(k)
              /\ UNCHANGED <<slots, aged, index, lapsed>> /\ Sound
           \/ /\ s[1] = "write" /\ goes(next) /\ index' = [index EXCEPT ![k] = "absent"]
              /\ UNCHANGED <<slots, aged, wait, lapsed, missed>> /\ Sound
           \/ /\ s \notin {<<"up">>, <<"down">>} /\ Fault("redis", {}) /\ goes(<<"up">>)
              /\ UNCHANGED <<slots, aged, wait, index, lapsed, missed>>

Serve(r) ==
    \/ Start(r) \/ TryAcquire(r) \/ Touch(r) \/ IncrementWait(r) \/ TouchWait(r) \/ Poll(r)
    \/ DecrementWait(r) \/ IndexRead(r) \/ IndexWrite(r) \/ ForwardEnds(r) \/ Release(r)
    \/ AcquireLease(r) \/ CreateUpstream(r) \/ SaveCall(r) \/ RefreshLease(r) \/ ReleaseLease(r)

Next ==
    \/ \E r \in Requests : Serve(r) \/ AgeLease(r)
    \/ \E k \in Kinds : KeyExpires(k) \/ IndexDue(k) \/ Reconcile(k)
    \/ \E k \in Kinds, m \in Members : Age(k, m)
    \/ \E i \in Instances : Crash(i) \/ Boot(i)

Spec == Init /\ [][Next]_vars

-----------------------------------------------------------------------------
\* The requests and Live sessions that are using a slot of kind k, those
\* whose slot lapsed under them excepted.
Using(k) == {r \in Requests : (k \in got[r] \/ leased[r] # "no") /\ <<k, r>> \notin lapsed}

\* However the requests of several instances interleave, and whatever fails,
\* no more requests and Live sessions use the user or the account than its
\* limit: the handover from a slot to a lease neither double-books nor frees a
\* place for a moment. Slots that outlive the TTL, or that the startup cleanup
\* of another instance removes, are the exception.
CapIsKept == \A k \in Kinds : Max[k] > 0 => Cardinality(Using(k)) <= Max[k]

\* However counts are lost, the queue grows no further than by those counts: beyond what
\* IncrementWaitCount admits there are only the waiters whose increment failed, and those
\* who were waiting when an expiry or a restart last deleted the counter.
QueueIsBounded == \A k \in Kinds : Cardinality(Waiting(k)) <= Queue[k] + missed[k]

\* A request that ended without meeting a fault leaves nothing behind, on any
\* of its paths: no slot, no lease and no count in a queue.
NothingLeaks ==
    /\ \A r \in Requests \ hurt :
        pc[r] = "done" => r \notin live /\ \A k \in Kinds : \A m \in slots[k] : m[1] # r
    /\ \A k \in Kinds :
        wait[k] <= Cardinality(Waiting(k) \cup hurt)
=============================================================================
