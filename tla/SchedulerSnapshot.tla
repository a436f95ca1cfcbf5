-------------------------- MODULE SchedulerSnapshot --------------------------
(***************************************************************************)
(* The scheduler's cached account snapshot of one group and the outbox     *)
(* that keeps it up to date (scheduler_snapshot_service.go,                *)
(* scheduler_cache.go, scheduler_outbox_repo.go).  Writers change accounts *)
(* or the group in PostgreSQL and insert an outbox row; every instance     *)
(* polls the rows above a watermark shared in Redis, and rebuilds the      *)
(* snapshot or retires its bucket; a full rebuild runs at an interval; a   *)
(* gateway request that misses the cache publishes what it loaded itself.  *)
(*                                                                         *)
(* One step is one SQL statement, one Redis command or one Lua script.     *)
(* The group's accounts are one number, the count of committed changes.    *)
(* Versions of the snapshot are kept as the order in which the writers in  *)
(* flight allocated them, which is all that activateSnapshotScript tells   *)
(* apart.  The twelve canonical buckets of a group are handled alike and   *)
(* are one bucket here.                                                    *)
(***************************************************************************)
EXTENDS Naturals, FiniteSets

CONSTANTS
    Pollers,     \* outbox workers, one per instance
    Rebuilders,  \* full-rebuild workers
    Readers,     \* gateway requests that list the group's accounts
    Writers,     \* requests that change the database
    MaxFaults,   \* bound: failed steps and lost enqueues in a behaviour
    None, NoSnap \* model values: nobody, no published snapshot

Actors == Pollers \cup Rebuilders \cup Readers \cup Writers

ASSUME SchedulerAssumption ==
    /\ MaxFaults \in Nat /\ IsFiniteSet(Writers)
    /\ Pollers \cap Rebuilders = {} /\ Readers \cap Writers = {}
    /\ (Pollers \cup Rebuilders) \cap (Readers \cup Writers) = {}
    /\ None \notin Actors /\ NoSnap \notin Nat

VARIABLES
    content, active,   \* PostgreSQL: committed account changes, group status
    rows, nextId,      \* PostgreSQL: scheduler_outbox and its id sequence
    watermark,         \* Redis: sched:outbox:watermark
    epoch, retired,    \* Redis: the bucket's writer generation and mark
    registered,        \* Redis: the bucket is in sched:buckets
    snap,              \* Redis: what the active version holds, or NoSnap
    order,             \* older and newer writer of unpublished versions (reflexive)
    meta,              \* Redis: sched:acc / sched:meta of the accounts
    lock, lease,       \* Redis: bucket lock, group lifecycle lease
    st,                \* where every actor is, with its local variables
    lost,              \* history: a group change whose event no poll may return
    passed,            \* history: ids of group events a poll has passed unseen
    faults

vars == <<content, active, rows, nextId, watermark, epoch, retired, registered, snap,
          order, meta, lock, lease, st, lost, passed, faults>>
dbVars == <<content, active, rows, nextId>>
bucketVars == <<epoch, retired, registered, snap, order>>
historyVars == <<lost, passed, faults>>

\* The rows the other sessions see.
Committed == {r \in rows : r.visible}

Blank == [pc |-> "idle", tok |-> 0, load |-> 0, strict |-> FALSE, failed |-> FALSE,
           known |-> FALSE, batch |-> {}, last |-> 0, seen |-> {}]

\* Actor a moves to p; At(a, p) is its guard.
At(a, p)   == st[a].pc = p
Goto(a, p) == st' = [st EXCEPT ![a].pc = p]
\* The operation ends; an error ends it the same way: nothing is kept.
Ended(a)   == [Blank EXCEPT !.pc = IF a \in Readers \cup Writers THEN "done" ELSE "idle"]
Stop(a)    == st' = [st EXCEPT ![a] = Ended(a)]

(***************************************************************************)
(* enqueueSchedulerOutbox: the insert with its deduplication key.  It      *)
(* takes its id from the sequence, and the row becomes visible when the    *)
(* statement, or the transaction around it, commits.  A row with the same  *)
(* key that is still pending makes it a no-op; a concurrent uncommitted    *)
(* one makes it wait.                                                      *)
(***************************************************************************)
DedupRow(k) == {r \in rows : r.kind = k /\ r.dedup}

\* Writer w inserts its row and goes on to p, or merges into the pending one and skips
\* the commit of a row of its own.
Enqueue(w, k, p, skip) ==
    /\ \A r \in DedupRow(k) : r.visible
    /\ \/ DedupRow(k) # {} /\ UNCHANGED <<rows, nextId>> /\ skip
       \/ /\ DedupRow(k) = {}
          /\ rows' = rows \cup {[id |-> nextId, kind |-> k, dedup |-> TRUE, visible |-> FALSE]}
          /\ nextId' = nextId + 1
          /\ st' = [st EXCEPT ![w].pc = p, ![w].last = nextId]

\* The row of writer w becomes visible.
Publish(w) == rows' = {IF r.id = st[w].last THEN [r EXCEPT !.visible = TRUE] ELSE r : r \in rows}

----------------------------------------------------------------------------
(***************************************************************************)
(* Writers.                                                                *)
(***************************************************************************)
\* An account update committed by its own statement; the enqueue follows.
ChangeAccount(w) ==
    /\ At(w, "idle")
    /\ content' = content + 1
    /\ Goto(w, "enqueue")
    /\ UNCHANGED <<active, rows, nextId, watermark, bucketVars, meta, lock, lease, historyVars>>

\* A group update or delete: the status changes, the enqueue follows.
ChangeGroup(w) ==
    /\ At(w, "idle")
    /\ active' = ~active
    /\ Goto(w, "announce")
    /\ UNCHANGED <<content, rows, nextId, watermark, bucketVars, meta, lock, lease, historyVars>>

\* The insert by a statement of its own.  A group change that merges into an event which
\* a poll has passed is lost with it.
EnqueueChange(w) ==
    /\ \/ At(w, "enqueue") /\ Enqueue(w, "account", "inserted", Goto(w, "sync")) /\ UNCHANGED lost
       \/ /\ At(w, "announce") /\ Enqueue(w, "group", "announced", Stop(w))
          /\ lost' = (lost \/ \E r \in DedupRow("group") : r.id \in passed)
    /\ UNCHANGED <<content, active, watermark, bucketVars, meta, lock, lease, passed, faults>>

\* The statement commits; the account's writer goes on.
CommitInsert(w) ==
    /\ Publish(w)
    /\ \/ At(w, "inserted") /\ st' = [st EXCEPT ![w] = [Blank EXCEPT !.pc = "sync"]]
       \/ At(w, "announced") /\ Stop(w)
    /\ UNCHANGED <<content, active, nextId, watermark, bucketVars, meta, lock, lease, historyVars>>

\* The insert inside the account's transaction.
EnqueueInTx(w) ==
    /\ At(w, "idle")
    /\ Enqueue(w, "account", "commit", Goto(w, "commit"))
    /\ UNCHANGED <<content, active, watermark, bucketVars, meta, lock, lease, historyVars>>

CommitTx(w) ==
    /\ At(w, "commit")
    /\ content' = content + 1 /\ Publish(w)
    /\ st' = [st EXCEPT ![w] = [Blank EXCEPT !.pc = "sync"]]
    /\ UNCHANGED <<active, nextId, watermark, bucketVars, meta, lock, lease, historyVars>>

\* A statement of a writer fails.  An enqueue or a sync after the commit is
\* only logged; a transaction is rolled back.
WriterFails(w) ==
    /\ faults < MaxFaults /\ faults' = faults + 1
    /\ \/ (At(w, "enqueue") \/ At(w, "inserted")) /\ UNCHANGED lost
          /\ st' = [st EXCEPT ![w] = [Blank EXCEPT !.pc = "sync"]]
       \/ (At(w, "announce") \/ At(w, "announced")) /\ Stop(w) /\ lost' = TRUE
       \/ (At(w, "commit") \/ At(w, "sync") \/ At(w, "syncset")) /\ Stop(w) /\ UNCHANGED lost
    /\ rows' = {r \in rows : r.id # st[w].last}
    /\ UNCHANGED <<content, active, nextId, watermark, bucketVars, meta, lock, lease, passed>>

\* syncSchedulerAccountSnapshot: read the account, then SetAccount.
SyncRead(w) ==
    /\ At(w, "sync")
    /\ st' = [st EXCEPT ![w].pc = "syncset", ![w].load = content]
    /\ UNCHANGED <<dbVars, watermark, bucketVars, meta, lock, lease, historyVars>>

SyncSet(w) ==
    /\ At(w, "syncset")
    /\ meta' = st[w].load
    /\ Stop(w)
    /\ UNCHANGED <<dbVars, watermark, bucketVars, lock, lease, historyVars>>

----------------------------------------------------------------------------
(***************************************************************************)
(* pollOutbox.                                                             *)
(***************************************************************************)
ReadWatermark(p) ==
    /\ At(p, "idle")
    /\ st' = [st EXCEPT ![p].pc = "list", ![p].last = watermark]
    /\ UNCHANGED <<dbVars, watermark, bucketVars, meta, lock, lease, historyVars>>

\* The group events that are not visible yet and have a smaller id than m.
Overtaken(m) == {r.id : r \in {q \in rows : q.kind = "group" /\ ~q.visible /\ q.id < m}}

\* ListAfterAndReleaseDedup: the committed rows above the watermark read, whose
\* keys are released so that a later change is enqueued.
ListAfterAndReleaseDedup(p) ==
    LET got == {r \in Committed : r.id > st[p].last}
        max == CHOOSE m \in {r.id : r \in got} : \A r \in got : r.id <= m
    IN  /\ At(p, "list")
        /\ rows' = (rows \ got) \cup {[r EXCEPT !.dedup = FALSE] : r \in got}
        /\ \/ got = {} /\ Stop(p) /\ UNCHANGED <<lost, passed>>
           \/ /\ got # {}
              /\ st' = [st EXCEPT ![p].pc = "next", ![p].batch = got, ![p].last = max]
              /\ passed' = passed \cup Overtaken(max)
              /\ lost' = (lost \/ Overtaken(max) # {})
        /\ UNCHANGED <<content, active, nextId, watermark, bucketVars, meta, lock, lease, faults>>

\* The events of a batch are handled in the order of their ids: the first one, and
\* what remains after it.
First(batch) == CHOOSE e \in batch : \A f \in batch : e.id <= f.id
Event(p) == First(st[p].batch)
Handled(s) == [Blank EXCEPT !.pc = "next", !.batch = s.batch \ {First(s.batch)},
                                !.last = s.last, !.seen = s.seen]

\* handleAccountEvent reads the account ...
HandleAccount(p) ==
    /\ At(p, "next") /\ st[p].batch # {} /\ Event(p).kind = "account"
    /\ st' = [st EXCEPT ![p].pc = "setaccount", ![p].load = content]
    /\ UNCHANGED <<dbVars, watermark, bucketVars, meta, lock, lease, historyVars>>

\* ... writes its cache entry, and rebuilds the group's buckets unless an
\* event of this batch already did.
SetAccount(p) ==
    /\ At(p, "setaccount")
    /\ meta' = st[p].load
    /\ st' = [st EXCEPT ![p] = IF "platform" \in @.seen
                               THEN Handled(@)
                               ELSE [@ EXCEPT !.pc = "capture", !.strict = FALSE,
                                              !.seen = st[p].seen \cup {"platform"}]]
    /\ UNCHANGED <<dbVars, watermark, bucketVars, lock, lease, historyVars>>

\* handleGroupEvent: an event of this batch already settled the group.
SkipGroup(p) ==
    /\ At(p, "next") /\ st[p].batch # {} /\ Event(p).kind = "group"
    /\ "lifecycle" \in st[p].seen
    /\ st' = [st EXCEPT ![p] = Handled(@)]
    /\ UNCHANGED <<dbVars, watermark, bucketVars, meta, lock, lease, historyVars>>

\* Mutant: the watermark is the id the next poll starts from.
AdvancePastLast(p) ==
    /\ At(p, "next") /\ st[p].batch = {}
    /\ watermark' = st[p].last + 1
    /\ Goto(p, "cleanup")
    /\ UNCHANGED <<dbVars, bucketVars, meta, lock, lease, historyVars>>

\* The whole batch is handled: SetOutboxWatermark to its last id.
AdvanceWatermark(p) ==
    /\ At(p, "next") /\ st[p].batch = {}
    /\ watermark' = st[p].last
    /\ Goto(p, "cleanup")
    /\ UNCHANGED <<dbVars, bucketVars, meta, lock, lease, historyVars>>

\* DeleteConsumedUpTo: the committed rows up to the watermark, if they are
\* old enough; checkOutboxLag may only ask for a full rebuild after it.
Cleanup(p) ==
    /\ At(p, "cleanup")
    /\ \E aged \in BOOLEAN :
           rows' = IF aged THEN {r \in rows : ~r.visible \/ r.id > st[p].last} ELSE rows
    /\ Stop(p)
    /\ UNCHANGED <<content, active, nextId, watermark, bucketVars, meta, lock, lease, historyVars>>

----------------------------------------------------------------------------
(***************************************************************************)
(* prepareGroupLifecycle, under the group's lease.                         *)
(***************************************************************************)
\* A group event, or a full rebuild that found the group retired or gone.
WantsLease(a) ==
    \/ At(a, "lease")
    \/ /\ At(a, "next") /\ st[a].batch # {} /\ Event(a).kind = "group"
       /\ "lifecycle" \notin st[a].seen

\* TryAcquireGroupLifecycleLease; busy is an error that ends the poll.
AcquireLease(a) ==
    /\ WantsLease(a)
    /\ IF lease = None THEN lease' = a /\ Goto(a, "authority")
                       ELSE Stop(a) /\ UNCHANGED lease
    /\ UNCHANGED <<dbVars, watermark, bucketVars, meta, lock, historyVars>>

\* The group's row is read again: plan.active.
ReadAuthority(a) ==
    /\ At(a, "authority")
    /\ Goto(a, IF active THEN "reopen" ELSE "retire")
    /\ UNCHANGED <<dbVars, watermark, bucketVars, meta, lock, lease, historyVars>>

\* reopenBucketScript
ReopenBucket(a) ==
    /\ At(a, "reopen")
    /\ epoch' = IF epoch = 0 THEN 1 ELSE epoch
    /\ retired' = FALSE
    /\ IF retired THEN registered' = FALSE /\ snap' = NoSnap
                  ELSE UNCHANGED <<registered, snap>>
    /\ st' = [st EXCEPT ![a].pc = "release", ![a].tok = epoch', ![a].strict = TRUE]
    /\ UNCHANGED <<dbVars, watermark, order, meta, lock, lease, historyVars>>

\* retireBucketScript; if the group is still not active, no earlier change is missing.
RetireBucket(a) ==
    /\ At(a, "retire")
    /\ epoch' = IF retired THEN epoch ELSE epoch + 1
    /\ retired' = TRUE /\ registered' = FALSE /\ snap' = NoSnap
    /\ st' = [st EXCEPT ![a].pc = "release", ![a].strict = FALSE]
    /\ lost' = (lost /\ active)
    /\ UNCHANGED <<dbVars, watermark, order, meta, lock, lease, passed, faults>>

\* The operation that called rebuild or lifecycle goes on.
Continue(a) ==
    st' = [st EXCEPT ![a] = IF a \in Pollers /\ @.batch # {} THEN Handled(@) ELSE Ended(a)]

LifecycleSeen == {"lifecycle", "platform"}

\* releaseGroupLifecycleLeaseScript: only the owner's lease is deleted, and
\* a lost one is an error.  An active group is then rebuilt, strictly.
ReleaseLease(a) ==
    /\ At(a, "release")
    /\ IF lease # a
       THEN Stop(a) /\ UNCHANGED lease
       ELSE /\ lease' = None
            /\ st' = [st EXCEPT ![a] =
                         IF @.strict THEN [@ EXCEPT !.pc = "lock"]
                         ELSE IF a \in Pollers
                              THEN Handled([@ EXCEPT !.seen = st[a].seen \cup LifecycleSeen])
                              ELSE Blank]
    /\ UNCHANGED <<dbVars, watermark, bucketVars, meta, lock, historyVars>>

----------------------------------------------------------------------------
(***************************************************************************)
(* rebuildBucket: capture, lock, load, allocate, write, activate, unlock.  *)
(***************************************************************************)
\* captureBucketWriteTokenScript; a retired bucket is skipped by an event
\* and by a request.
CaptureToken(a) ==
    /\ At(a, "capture")
    /\ IF retired
       THEN Continue(a) /\ UNCHANGED epoch
       ELSE /\ epoch' = IF epoch = 0 THEN 1 ELSE epoch
            /\ st' = [st EXCEPT ![a].pc = IF a \in Readers THEN "load" ELSE "lock",
                                ![a].tok = epoch']
    /\ UNCHANGED <<dbVars, watermark, retired, registered, snap, order, meta, lock, lease, historyVars>>

\* TryLockBucket: a busy bucket is skipped, or an error when strict.
TryLockBucket(a) ==
    /\ At(a, "lock")
    /\ IF lock = None THEN lock' = a /\ Goto(a, "load")
       ELSE /\ IF st[a].strict THEN Stop(a) ELSE Continue(a)
            /\ UNCHANGED lock
    /\ UNCHANGED <<dbVars, watermark, bucketVars, meta, lease, historyVars>>

\* loadAccountsFromDB
LoadAccounts(a) ==
    /\ At(a, "load")
    /\ st' = [st EXCEPT ![a].pc = "allocate", ![a].load = content]
    /\ UNCHANGED <<dbVars, watermark, bucketVars, meta, lock, lease, historyVars>>

Fenced(a) == retired \/ epoch # st[a].tok

\* A fenced rebuild ends with its lock; it is an error when strict.
AfterPublish(a, failed) ==
    st' = [st EXCEPT ![a] = IF a \in Readers THEN Ended(a)
                            ELSE [@ EXCEPT !.pc = "unlock", !.failed = failed /\ st[a].strict]]

\* The writers whose versions nobody has published or superseded.
InFlight == {a \in Actors : <<a, a>> \in order}

\* What is left of the order without the writers of as.
Without(as) == {x \in order : x[1] \notin as /\ x[2] \notin as}

\* allocateSnapshotVersionScript
AllocateVersion(a) ==
    /\ At(a, "allocate")
    /\ IF Fenced(a) THEN AfterPublish(a, TRUE) /\ UNCHANGED order
                    ELSE order' = order \cup ((InFlight \cup {a}) \X {a}) /\ Goto(a, "write")
    /\ UNCHANGED <<dbVars, watermark, epoch, retired, registered, snap, meta, lock, lease, historyVars>>

\* writeAccountIDs: the accounts' entries are shared by all versions.
WriteAccounts(a) ==
    /\ At(a, "write")
    /\ meta' = st[a].load
    /\ Goto(a, "activate")
    /\ UNCHANGED <<dbVars, watermark, bucketVars, lock, lease, historyVars>>

\* Mutant: the activation does not check the writer's generation.
ActivateUnfenced(a) ==
    /\ At(a, "activate")
    /\ snap' = st[a].load /\ registered' = TRUE
    /\ order' = Without({a})
    /\ AfterPublish(a, FALSE)
    /\ UNCHANGED <<dbVars, watermark, epoch, retired, meta, lock, lease, historyVars>>

\* activateSnapshotScript: fenced, or older than what is published, or
\* published; a published version makes all older ones too old.
ActivateSnapshot(a) ==
    /\ At(a, "activate")
    /\ IF ~Fenced(a) /\ a \in InFlight
       THEN /\ snap' = st[a].load /\ registered' = TRUE
            /\ order' = Without({b \in Actors : <<b, a>> \in order})
       ELSE /\ order' = Without({a})
            /\ UNCHANGED <<snap, registered>>
    /\ AfterPublish(a, Fenced(a))
    /\ UNCHANGED <<dbVars, watermark, epoch, retired, meta, lock, lease, historyVars>>

\* UnlockBucket deletes the key, whoever set it.
UnlockBucket(a) ==
    /\ At(a, "unlock")
    /\ lock' = None
    /\ IF st[a].failed THEN Stop(a)
       ELSE st' = [st EXCEPT ![a] =
                     IF a \in Pollers
                     THEN Handled(IF @.strict
                                  THEN [@ EXCEPT !.seen = st[a].seen \cup LifecycleSeen] ELSE @)
                     ELSE Blank]
    /\ UNCHANGED <<dbVars, watermark, bucketVars, meta, lease, historyVars>>

----------------------------------------------------------------------------
(***************************************************************************)
(* rebuildFullSnapshot, at start, at the interval and when the outbox lags.*)
(***************************************************************************)
ListBuckets(f) ==
    /\ At(f, "idle")
    /\ st' = [st EXCEPT ![f].pc = "groups", ![f].known = registered]
    /\ UNCHANGED <<dbVars, watermark, bucketVars, meta, lock, lease, historyVars>>

\* Mutant: registered buckets of groups that are gone are left alone.
ListGroupsIgnoresStale(f) ==
    /\ At(f, "groups")
    /\ IF active THEN st' = [st EXCEPT ![f] = [Blank EXCEPT !.pc = "recapture"]] ELSE Stop(f)
    /\ UNCHANGED <<dbVars, watermark, bucketVars, meta, lock, lease, historyVars>>

\* An active group is captured; the registered bucket of one that is not
\* goes through its lifecycle.
ListActiveGroups(f) ==
    /\ At(f, "groups")
    /\ IF active \/ st[f].known
       THEN st' = [st EXCEPT ![f] = [Blank EXCEPT !.pc = IF active THEN "recapture" ELSE "lease"]]
       ELSE Stop(f)
    /\ UNCHANGED <<dbVars, watermark, bucketVars, meta, lock, lease, historyVars>>

\* captureFullRebuildCanonicalTasks: a retired bucket of an active group is
\* reopened under the lease.
CaptureCanonical(f) ==
    /\ At(f, "recapture")
    /\ IF retired
       THEN Goto(f, "lease") /\ UNCHANGED epoch
       ELSE /\ epoch' = IF epoch = 0 THEN 1 ELSE epoch
            /\ st' = [st EXCEPT ![f].pc = "lock", ![f].tok = epoch']
    /\ UNCHANGED <<dbVars, watermark, retired, registered, snap, order, meta, lock, lease, historyVars>>

\* ListSchedulableAccounts: GetSnapshot misses (no snapshot, one without accounts, an
\* account's entry that is gone, or an error), the request goes to the database and
\* publishes without the bucket's lock.
CacheMiss(r) ==
    /\ At(r, "idle")
    /\ Goto(r, "capture")
    /\ UNCHANGED <<dbVars, watermark, bucketVars, meta, lock, lease, historyVars>>

----------------------------------------------------------------------------
(***************************************************************************)
(* Failures.                                                               *)
(***************************************************************************)
\* A statement or command of a fails: deferred calls release what it holds;
\* or its process dies: the keys stay until their TTL.
Fail(a) ==
    /\ st[a].pc \notin {"idle", "done"} /\ faults < MaxFaults
    /\ faults' = faults + 1
    /\ Stop(a)
    /\ order' = Without({a})
    /\ \E dies \in BOOLEAN :
           /\ lock'  = IF lock = a /\ ~dies THEN None ELSE lock
           /\ lease' = IF lease = a /\ ~dies THEN None ELSE lease
    /\ UNCHANGED <<dbVars, watermark, epoch, retired, registered, snap, meta, lost, passed>>

\* The bucket lock's TTL runs out, also under a rebuild: its timeout is as long, and
\* starts later.
LockExpires ==
    /\ lock # None
    /\ lock' = None
    /\ UNCHANGED <<dbVars, watermark, bucketVars, meta, lease, st, historyVars>>

\* The TTL of the lease outlives its holder's timeout: it only ends a lease whose
\* holder is gone.
LeaseExpires ==
    /\ lease # None /\ st[lease].pc \notin {"authority", "reopen", "retire", "release"}
    /\ lease' = None
    /\ UNCHANGED <<dbVars, watermark, bucketVars, meta, lock, st, historyVars>>

----------------------------------------------------------------------------
\* Nothing is published yet; a group that is not active has been retired.
Init ==
    /\ content = 0 /\ active \in BOOLEAN
    /\ rows = {} /\ nextId = 1 /\ watermark = 0
    /\ retired = ~active /\ epoch = IF active THEN 0 ELSE 1
    /\ registered = FALSE /\ snap = NoSnap
    /\ order = {} /\ meta = 0 /\ lock = None /\ lease = None
    /\ st = [a \in Actors |-> Blank]
    /\ lost = FALSE /\ passed = {} /\ faults = 0

WriterStep(w) ==
    \/ EnqueueChange(w) \/ CommitInsert(w) \/ CommitTx(w) \/ SyncRead(w) \/ SyncSet(w)

Lifecycle(a) ==
    \/ AcquireLease(a) \/ ReadAuthority(a) \/ ReopenBucket(a) \/ RetireBucket(a) \/ ReleaseLease(a)

Rebuild(a) ==
    \/ CaptureToken(a) \/ TryLockBucket(a) \/ LoadAccounts(a) \/ AllocateVersion(a)
    \/ WriteAccounts(a) \/ ActivateSnapshot(a) \/ UnlockBucket(a)

PollerStep(p) ==
    \/ ReadWatermark(p) \/ ListAfterAndReleaseDedup(p) \/ HandleAccount(p) \/ SetAccount(p)
    \/ SkipGroup(p) \/ AdvanceWatermark(p) \/ Cleanup(p) \/ Lifecycle(p) \/ Rebuild(p)

RebuilderStep(f) ==
    \/ ListBuckets(f) \/ ListActiveGroups(f) \/ CaptureCanonical(f) \/ Lifecycle(f) \/ Rebuild(f)

Next ==
    \/ \E w \in Writers : ChangeAccount(w) \/ ChangeGroup(w) \/ EnqueueInTx(w) \/ WriterStep(w)
                      \/ WriterFails(w)
    \/ \E p \in Pollers : PollerStep(p) \/ Fail(p)
    \/ \E f \in Rebuilders : RebuilderStep(f) \/ Fail(f)
    \/ \E r \in Readers : CacheMiss(r) \/ Rebuild(r) \/ Fail(r)
    \/ LockExpires \/ LeaseExpires

Spec == Init /\ [][Next]_vars

\* Timers fire and started operations go on; nothing makes a request or a
\* change arrive.
FairSpec ==
    /\ Spec
    /\ \A w \in Writers : WF_vars(WriterStep(w))
    /\ \A p \in Pollers : WF_vars(PollerStep(p))
    /\ \A f \in Rebuilders : WF_vars(RebuilderStep(f))
    /\ \A r \in Readers : WF_vars(Rebuild(r))
    /\ WF_vars(LockExpires) /\ WF_vars(LeaseExpires)

----------------------------------------------------------------------------
Row == [id : 1 .. Cardinality(Writers), kind : {"account", "group"},
        dedup : BOOLEAN, visible : BOOLEAN]

\* Every key, row and local variable keeps its domain; a row's id is unique, the
\* holders of the bucket lock and of the lease are workers, and of two versions in
\* flight one is the older.
TypeOK ==
    /\ content \in 0 .. Cardinality(Writers) /\ active \in BOOLEAN
    /\ rows \subseteq Row /\ \A r, s \in rows : r.id = s.id => r = s
    /\ watermark < nextId /\ \A p \in Pollers : st[p].last < nextId
    /\ snap \in 0 .. content \cup {NoSnap} /\ meta \in 0 .. content
    /\ lock \in Pollers \cup Rebuilders \cup {None}
    /\ lease \in Pollers \cup Rebuilders \cup {None}
    /\ \A a, b \in InFlight : a = b \/ (<<a, b>> \in order <=> <<b, a>> \notin order)

\* A group change whose row is above the watermark, or is being enqueued.
GroupAnnounced ==
    \/ \E r \in rows : r.kind = "group" /\ r.id > watermark
    \/ \E w \in Writers : At(w, "announce")

\* A group that is deleted or disabled is served from the cache only while
\* its change is still announced, or after it was lost: its enqueue failed, or a poll
\* passed its id before the insert committed.  No token captured, no plan read and no
\* event listed before the retirement can publish its accounts again.
RetiredGroupIsNotServed == snap # NoSnap /\ ~active => GroupAnnounced \/ lost

\* What the gateway reads is what the database holds.
UpToDate ==
    IF active THEN snap = content /\ meta = content ELSE snap = NoSnap

\* Once the changes stop, the cache ends up with the database's accounts and
\* stays there, whichever stale writers, lost events and skipped rebuilds
\* came before.
Converges == <>[]UpToDate

\* The watermark never passes a committed outbox row that no poll has
\* returned: a poll clears the row's deduplication key.
RowsAreRead == \A r \in Committed : r.dedup => r.id > watermark
=============================================================================
