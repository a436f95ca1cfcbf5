----------------------- MODULE SchedulerSnapshotProofs -----------------------
(***************************************************************************)
(* Proofs about SchedulerSnapshot.                                         *)
(*                                                                         *)
(* The heart is Fencing: whenever the watermark, or what a poll is about   *)
(* to store as the watermark, says that no group event is left, and the    *)
(* group is not active, then the bucket is retired, nothing is published   *)
(* and nobody is about to reopen it.  A retired bucket fences every writer *)
(* whatever token it captured, and only the holder of the lease can reopen *)
(* it, after reading an active group.  A group row that is invisible when  *)
(* a poll lists rows above it is passed; that, a failed enqueue and a      *)
(* merge into a passed row are the only ways a change is lost.             *)
(*                                                                         *)
(* First, what the steps do to the local variables and to the outbox;      *)
(* then Frame, which steps can disturb which part of the invariant; then   *)
(* one lemma for each part.                                                *)
(***************************************************************************)
EXTENDS SchedulerSnapshot, WellFoundedInduction, FiniteSetTheorems, TLAPS

(* What a step does to the local variables of the actor that takes it, and *)
(* that it leaves the others' alone.                                       *)

AllSteps ==
    {"idle", "enqueue", "announce", "inserted", "announced", "commit", "sync", "syncset",
     "done", "list", "next", "setaccount", "cleanup", "capture", "lock", "load", "allocate",
     "write", "activate", "unlock", "lease", "authority", "reopen", "retire", "release",
     "groups", "recapture"}

AnyRow == [id : Nat, kind : {"account", "group"}, dedup : BOOLEAN, visible : BOOLEAN]

Local == [pc : AllSteps, tok : Nat, load : Nat, strict : BOOLEAN, failed : BOOLEAN,
          known : BOOLEAN, batch : SUBSET AnyRow, last : Nat, seen : SUBSET LifecycleSeen]

Domains ==
    /\ content \in Nat /\ active \in BOOLEAN /\ lost \in BOOLEAN /\ retired \in BOOLEAN
    /\ registered \in BOOLEAN /\ rows \subseteq AnyRow /\ nextId \in Nat /\ watermark \in Nat
    /\ epoch \in Nat /\ st \in [Actors -> Local]

Moved(a, pc, load, last, batch, seen, strict) ==
    /\ st' \in [Actors -> Local] /\ \A b \in Actors \ {a} : st'[b] = st[b]
    /\ st'[a].pc = pc /\ st'[a].load = load /\ st'[a].last = last
    /\ st'[a].batch = batch /\ st'[a].seen = seen /\ st'[a].strict = strict

Goes(a, l)    == Moved(a, l, st[a].load, st[a].last, st[a].batch, st[a].seen, st[a].strict)
Loads(a, l)   == Moved(a, l, content, st[a].last, st[a].batch, st[a].seen, st[a].strict)
Clears(a, l)  == Moved(a, l, 0, 0, {}, {}, FALSE)
Ends(a)       == Clears(a, IF a \in Readers \cup Writers THEN "done" ELSE "idle")
Handles(a, s) == Moved(a, "next", 0, st[a].last, st[a].batch \ {Event(a)}, s, FALSE)
Inserts(w, l) ==
    nextId' = nextId + 1
    /\ Moved(w, l, st[w].load, nextId, st[w].batch, st[w].seen, st[w].strict)
Merges(w, l)  == nextId' = nextId /\ Goes(w, l)

LEMMA Replaced ==
    ASSUME Domains, NEW a \in Actors, NEW s \in Local, st' = [st EXCEPT ![a] = s]
    PROVE  Moved(a, s.pc, s.load, s.last, s.batch, s.seen, s.strict)
BY DEF Domains, Moved

\* The actions assign the program counter, with or without a token or a flag, ...
LEMMA Went ==
    ASSUME Domains, NEW a \in Actors, NEW l \in AllSteps, NEW n \in Nat,
           NEW f \in BOOLEAN
    PROVE  /\ st' = [st EXCEPT ![a].pc = l] => Goes(a, l)
           /\ st' = [st EXCEPT ![a].pc = l, ![a].tok = n] => Goes(a, l)
           /\ st' = [st EXCEPT ![a].pc = l, ![a].known = f] => Goes(a, l)
           /\ st' = [st EXCEPT ![a] = [@ EXCEPT !.pc = l, !.failed = f]] => Goes(a, l)
<1>1. st[a] \in Local
  BY DEF Domains
<1>2. ASSUME st' = [st EXCEPT ![a].pc = l]
      PROVE  Goes(a, l)
  <2> DEFINE s == [st[a] EXCEPT !.pc = l]
  <2>1. /\ s \in Local /\ s.pc = l /\ s.load = st[a].load /\ s.last = st[a].last
        /\ s.batch = st[a].batch /\ s.seen = st[a].seen /\ s.strict = st[a].strict
    BY <1>1 DEF Local
  <2>2. st' = [st EXCEPT ![a] = s]
    BY <1>2
  <2> HIDE DEF s
  <2>3. QED
    BY <2>1, <2>2, Replaced DEF Goes
<1>3. ASSUME st' = [st EXCEPT ![a].pc = l, ![a].tok = n]
      PROVE  Goes(a, l)
  <2> DEFINE s == [st[a] EXCEPT !.pc = l, !.tok = n]
  <2>1. /\ s \in Local /\ s.pc = l /\ s.load = st[a].load /\ s.last = st[a].last
        /\ s.batch = st[a].batch /\ s.seen = st[a].seen /\ s.strict = st[a].strict
    BY <1>1 DEF Local
  <2>2. st' = [st EXCEPT ![a] = s]
    BY <1>3
  <2> HIDE DEF s
  <2>3. QED
    BY <2>1, <2>2, Replaced DEF Goes
<1>4. ASSUME st' = [st EXCEPT ![a].pc = l, ![a].known = f]
      PROVE  Goes(a, l)
  <2> DEFINE s == [st[a] EXCEPT !.pc = l, !.known = f]
  <2>1. /\ s \in Local /\ s.pc = l /\ s.load = st[a].load /\ s.last = st[a].last
        /\ s.batch = st[a].batch /\ s.seen = st[a].seen /\ s.strict = st[a].strict
    BY <1>1 DEF Local
  <2>2. st' = [st EXCEPT ![a] = s]
    BY <1>4
  <2> HIDE DEF s
  <2>3. QED
    BY <2>1, <2>2, Replaced DEF Goes
<1>5. ASSUME st' = [st EXCEPT ![a] = [@ EXCEPT !.pc = l, !.failed = f]]
      PROVE  Goes(a, l)
  <2> DEFINE s == [st[a] EXCEPT !.pc = l, !.failed = f]
  <2>1. /\ s \in Local /\ s.pc = l /\ s.load = st[a].load /\ s.last = st[a].last
        /\ s.batch = st[a].batch /\ s.seen = st[a].seen /\ s.strict = st[a].strict
    BY <1>1 DEF Local
  <2>2. st' = [st EXCEPT ![a] = s]
    BY <1>5
  <2> HIDE DEF s
  <2>3. QED
    BY <2>1, <2>2, Replaced DEF Goes
<1>6. QED
  BY <1>2, <1>3, <1>4, <1>5

\* ... or what the properties depend on, ...
LEMMA Assigned ==
    ASSUME Domains, NEW a \in Actors, NEW l \in AllSteps, NEW n \in Nat,
           NEW f \in BOOLEAN, NEW b \in SUBSET AnyRow, NEW e \in SUBSET LifecycleSeen
    PROVE  /\ st' = [st EXCEPT ![a].pc = l, ![a].last = n] =>
                  Moved(a, l, st[a].load, n, st[a].batch, st[a].seen, st[a].strict)
           /\ st' = [st EXCEPT ![a].pc = l, ![a].load = n] =>
                  Moved(a, l, n, st[a].last, st[a].batch, st[a].seen, st[a].strict)
           /\ st' = [st EXCEPT ![a].pc = l, ![a].tok = n, ![a].strict = f] =>
                  Moved(a, l, st[a].load, st[a].last, st[a].batch, st[a].seen, f)
           /\ st' = [st EXCEPT ![a].pc = l, ![a].strict = f] =>
                  Moved(a, l, st[a].load, st[a].last, st[a].batch, st[a].seen, f)
           /\ st' = [st EXCEPT ![a].pc = l, ![a].batch = b, ![a].last = n] =>
                  Moved(a, l, st[a].load, n, b, st[a].seen, st[a].strict)
           /\ st' = [st EXCEPT ![a] = [@ EXCEPT !.pc = l, !.strict = f, !.seen = e]] =>
                  Moved(a, l, st[a].load, st[a].last, st[a].batch, e, f)
<1>1. st[a] \in Local
  BY DEF Domains
<1>2. ASSUME st' = [st EXCEPT ![a].pc = l, ![a].last = n]
      PROVE  Moved(a, l, st[a].load, n, st[a].batch, st[a].seen, st[a].strict)
  <2> DEFINE s == [st[a] EXCEPT !.pc = l, !.last = n]
  <2>1. /\ s \in Local /\ s.pc = l /\ s.load = st[a].load /\ s.last = n
        /\ s.batch = st[a].batch /\ s.seen = st[a].seen /\ s.strict = st[a].strict
    BY <1>1 DEF Local
  <2>2. st' = [st EXCEPT ![a] = s]
    BY <1>2
  <2> HIDE DEF s
  <2>3. QED
    BY <2>1, <2>2, Replaced
<1>3. ASSUME st' = [st EXCEPT ![a].pc = l, ![a].load = n]
      PROVE  Moved(a, l, n, st[a].last, st[a].batch, st[a].seen, st[a].strict)
  <2> DEFINE s == [st[a] EXCEPT !.pc = l, !.load = n]
  <2>1. /\ s \in Local /\ s.pc = l /\ s.load = n /\ s.last = st[a].last
        /\ s.batch = st[a].batch /\ s.seen = st[a].seen /\ s.strict = st[a].strict
    BY <1>1 DEF Local
  <2>2. st' = [st EXCEPT ![a] = s]
    BY <1>3
  <2> HIDE DEF s
  <2>3. QED
    BY <2>1, <2>2, Replaced
<1>4. ASSUME st' = [st EXCEPT ![a].pc = l, ![a].tok = n, ![a].strict = f]
      PROVE  Moved(a, l, st[a].load, st[a].last, st[a].batch, st[a].seen, f)
  <2> DEFINE s == [st[a] EXCEPT !.pc = l, !.tok = n, !.strict = f]
  <2>1. /\ s \in Local /\ s.pc = l /\ s.load = st[a].load /\ s.last = st[a].last
        /\ s.batch = st[a].batch /\ s.seen = st[a].seen /\ s.strict = f
    BY <1>1 DEF Local
  <2>2. st' = [st EXCEPT ![a] = s]
    BY <1>4
  <2> HIDE DEF s
  <2>3. QED
    BY <2>1, <2>2, Replaced
<1>5. ASSUME st' = [st EXCEPT ![a].pc = l, ![a].strict = f]
      PROVE  Moved(a, l, st[a].load, st[a].last, st[a].batch, st[a].seen, f)
  <2> DEFINE s == [st[a] EXCEPT !.pc = l, !.strict = f]
  <2>1. /\ s \in Local /\ s.pc = l /\ s.load = st[a].load /\ s.last = st[a].last
        /\ s.batch = st[a].batch /\ s.seen = st[a].seen /\ s.strict = f
    BY <1>1 DEF Local
  <2>2. st' = [st EXCEPT ![a] = s]
    BY <1>5
  <2> HIDE DEF s
  <2>3. QED
    BY <2>1, <2>2, Replaced
<1>6. ASSUME st' = [st EXCEPT ![a].pc = l, ![a].batch = b, ![a].last = n]
      PROVE  Moved(a, l, st[a].load, n, b, st[a].seen, st[a].strict)
  <2> DEFINE s == [st[a] EXCEPT !.pc = l, !.batch = b, !.last = n]
  <2>1. /\ s \in Local /\ s.pc = l /\ s.load = st[a].load /\ s.last = n
        /\ s.batch = b /\ s.seen = st[a].seen /\ s.strict = st[a].strict
    BY <1>1 DEF Local
  <2>2. st' = [st EXCEPT ![a] = s]
    BY <1>6
  <2> HIDE DEF s
  <2>3. QED
    BY <2>1, <2>2, Replaced
<1>7. ASSUME st' = [st EXCEPT ![a] = [@ EXCEPT !.pc = l, !.strict = f, !.seen = e]]
      PROVE  Moved(a, l, st[a].load, st[a].last, st[a].batch, e, f)
  <2> DEFINE s == [st[a] EXCEPT !.pc = l, !.strict = f, !.seen = e]
  <2>1. /\ s \in Local /\ s.pc = l /\ s.load = st[a].load /\ s.last = st[a].last
        /\ s.batch = st[a].batch /\ s.seen = e /\ s.strict = f
    BY <1>1 DEF Local
  <2>2. st' = [st EXCEPT ![a] = s]
    BY <1>7
  <2> HIDE DEF s
  <2>3. QED
    BY <2>1, <2>2, Replaced
<1>8. QED
  BY <1>2, <1>3, <1>4, <1>5, <1>6, <1>7

\* ... or, at the end of an operation, everything, ...
LEMMA Cleared ==
    ASSUME Domains, NEW a \in Actors
    PROVE  /\ Stop(a) => Ends(a)
           /\ st' = [st EXCEPT ![a] = Blank] => Clears(a, "idle")
           /\ \A l \in AllSteps :
                  st' = [st EXCEPT ![a] = [Blank EXCEPT !.pc = l]] => Clears(a, l)
<1>1. ASSUME NEW l \in AllSteps, st' = [st EXCEPT ![a] = [Blank EXCEPT !.pc = l]]
      PROVE  Clears(a, l)
  <2>1. [Blank EXCEPT !.pc = l] \in Local
    BY DEF Blank, Local
  <2>2. QED
    BY <1>1, <2>1, Replaced DEF Clears, Blank
<1>2. Blank \in Local /\ Ended(a) \in Local
  BY DEF Blank, Ended, Local, AllSteps
<1>3. Stop(a) => Ends(a)
  BY <1>2, Replaced DEF Stop, Ended, Ends, Clears, Blank
<1>4. st' = [st EXCEPT ![a] = Blank] => Clears(a, "idle")
  BY <1>2, Replaced DEF Clears, Blank
<1>5. QED
  BY <1>1, <1>3, <1>4

\* ... or, at the end of an event, all but the rest of the batch.
LEMMA EventEnds ==
    ASSUME Domains, NEW a \in Actors
    PROVE  /\ st' = [st EXCEPT ![a] = Handled(@)] => Handles(a, st[a].seen)
           /\ \A e \in SUBSET LifecycleSeen :
                  st' = [st EXCEPT ![a] = Handled([@ EXCEPT !.seen = e])] => Handles(a, e)
<1>1. st[a] \in Local
  BY DEF Domains
<1>2. ASSUME NEW s \in Local
      PROVE  /\ Handled(s) \in Local /\ Handled(s).pc = "next" /\ Handled(s).load = 0
             /\ Handled(s).last = s.last /\ Handled(s).batch = s.batch \ {First(s.batch)}
             /\ Handled(s).seen = s.seen /\ Handled(s).strict = FALSE
  BY DEF Handled, Blank, Local, AllSteps
<1>3. st' = [st EXCEPT ![a] = Handled(@)] => Handles(a, st[a].seen)
  BY <1>1, <1>2, Replaced DEF Handles, Event
<1>4. ASSUME NEW e \in SUBSET LifecycleSeen,
             st' = [st EXCEPT ![a] = Handled([@ EXCEPT !.seen = e])]
      PROVE  Handles(a, e)
  <2> DEFINE s == [st[a] EXCEPT !.seen = e]
  <2>1. s \in Local /\ s.last = st[a].last /\ s.seen = e /\ s.batch = st[a].batch
    BY <1>1 DEF Local
  <2>2. st' = [st EXCEPT ![a] = Handled(s)]
    BY <1>4
  <2> HIDE DEF s
  <2>3. QED
    BY <1>2, <2>1, <2>2, Replaced DEF Handles, Event
<1>5. QED
  BY <1>3, <1>4

\* The writers.
LEMMA WriterMoves ==
    ASSUME Domains, NEW w \in Writers
    PROVE  /\ ChangeAccount(w) => Goes(w, "enqueue")
           /\ ChangeGroup(w) => Goes(w, "announce")
           /\ EnqueueChange(w) =>
                  \/ At(w, "enqueue") /\ (Merges(w, "sync") \/ Inserts(w, "inserted"))
                  \/ At(w, "announce") /\ ((nextId' = nextId /\ Ends(w)) \/ Inserts(w, "announced"))
           /\ CommitInsert(w) => (At(w, "inserted") \/ At(w, "announced"))
                                 /\ (Clears(w, "sync") \/ Ends(w))
           /\ EnqueueInTx(w) => Merges(w, "commit") \/ Inserts(w, "commit")
           /\ CommitTx(w) => Clears(w, "sync")
           /\ WriterFails(w) => Clears(w, "sync") \/ Ends(w)
           /\ SyncRead(w) => Loads(w, "syncset")
           /\ SyncSet(w) => Ends(w)
<1>1. w \in Actors /\ content \in Nat /\ nextId \in Nat
      /\ {"enqueue", "announce", "inserted", "announced", "sync", "syncset", "commit"}
            \subseteq AllSteps
  BY DEF Actors, Domains, AllSteps
<1>2. (ChangeAccount(w) => Goes(w, "enqueue")) /\ (ChangeGroup(w) => Goes(w, "announce"))
  BY <1>1, Went DEF ChangeAccount, ChangeGroup, Goto
<1>3. \A l \in AllSteps : st' = [st EXCEPT ![w].pc = l, ![w].last = nextId] =>
          Moved(w, l, st[w].load, nextId, st[w].batch, st[w].seen, st[w].strict)
  BY <1>1, Assigned
<1>4. ASSUME EnqueueChange(w)
      PROVE  \/ At(w, "enqueue") /\ (Merges(w, "sync") \/ Inserts(w, "inserted"))
             \/ At(w, "announce") /\ ((nextId' = nextId /\ Ends(w)) \/ Inserts(w, "announced"))
  <2>1. \/ /\ At(w, "enqueue")
           /\ \/ nextId' = nextId /\ Goto(w, "sync")
              \/ nextId' = nextId + 1 /\ st' = [st EXCEPT ![w].pc = "inserted", ![w].last = nextId]
        \/ /\ At(w, "announce")
           /\ \/ nextId' = nextId /\ Stop(w)
              \/ nextId' = nextId + 1 /\ st' = [st EXCEPT ![w].pc = "announced", ![w].last = nextId]
    BY <1>4, Zenon DEF EnqueueChange, Enqueue
  <2>2. QED
    BY <1>1, <1>3, <2>1, Went, Cleared DEF Goto, Merges, Inserts
<1>5. EnqueueInTx(w) => Merges(w, "commit") \/ Inserts(w, "commit")
  <2>1. EnqueueInTx(w) =>
            \/ nextId' = nextId /\ Goto(w, "commit")
            \/ nextId' = nextId + 1 /\ st' = [st EXCEPT ![w].pc = "commit", ![w].last = nextId]
    BY Zenon DEF EnqueueInTx, Enqueue
  <2>2. QED
    BY <1>1, <1>3, <2>1, Went DEF Goto, Merges, Inserts
<1>6. SyncRead(w) => Loads(w, "syncset")
  BY <1>1, Assigned DEF SyncRead, Loads
<1>7. (CommitTx(w) => Clears(w, "sync")) /\ (SyncSet(w) => Ends(w))
  BY <1>1, Cleared DEF CommitTx, SyncSet
<1>8. WriterFails(w) => Clears(w, "sync") \/ Ends(w)
  BY <1>1, Cleared DEF WriterFails
<1>9. CommitInsert(w) => (At(w, "inserted") \/ At(w, "announced")) /\ (Clears(w, "sync") \/ Ends(w))
  BY <1>1, Cleared DEF CommitInsert
<1>10. QED
  BY <1>2, <1>4, <1>5, <1>6, <1>7, <1>8, <1>9

\* The pollers, outside lifecycle and rebuild.
LEMMA PollerMoves ==
    ASSUME Domains, NEW p \in Pollers
    PROVE  /\ ReadWatermark(p) =>
                  Moved(p, "list", st[p].load, watermark, st[p].batch, st[p].seen, st[p].strict)
           /\ HandleAccount(p) => Loads(p, "setaccount")
           /\ SetAccount(p) => \/ Handles(p, st[p].seen)
                               \/ Moved(p, "capture", st[p].load, st[p].last, st[p].batch,
                                        st[p].seen \cup {"platform"}, FALSE)
           /\ SkipGroup(p) => Handles(p, st[p].seen)
           /\ AdvanceWatermark(p) => Goes(p, "cleanup")
           /\ Cleanup(p) => Ends(p)
<1>1. p \in Actors /\ content \in Nat /\ watermark \in Nat
      /\ {"list", "setaccount", "capture", "cleanup"} \subseteq AllSteps
  BY DEF Actors, Domains, AllSteps
<1>2. ReadWatermark(p) =>
          Moved(p, "list", st[p].load, watermark, st[p].batch, st[p].seen, st[p].strict)
  BY <1>1, Assigned DEF ReadWatermark
<1>3. HandleAccount(p) => Loads(p, "setaccount")
  BY <1>1, Assigned DEF HandleAccount, Loads
<1>4. ASSUME SetAccount(p)
      PROVE  \/ Handles(p, st[p].seen)
             \/ Moved(p, "capture", st[p].load, st[p].last, st[p].batch,
                      st[p].seen \cup {"platform"}, FALSE)
  <2>1. CASE "platform" \in st[p].seen
    <3>1. st' = [st EXCEPT ![p] = Handled(@)]
      BY <1>4, <2>1 DEF SetAccount
    <3>2. QED
      BY <1>1, <3>1, EventEnds
  <2>2. CASE "platform" \notin st[p].seen
    <3>1. st[p].seen \cup {"platform"} \in SUBSET LifecycleSeen
      BY <1>1 DEF Domains, Local, LifecycleSeen
    <3> DEFINE s == [st[p] EXCEPT !.pc = "capture", !.strict = FALSE,
                                  !.seen = st[p].seen \cup {"platform"}]
    <3>2. st' = [st EXCEPT ![p] = IF "platform" \in @.seen THEN Handled(@) ELSE s]
      BY <1>4 DEF SetAccount
    <3>3. st' = [st EXCEPT ![p] = s]
      BY <2>2, <3>2
    <3>4. QED
      BY <1>1, <3>1, <3>3, Assigned
  <2>3. QED
    BY <2>1, <2>2
<1>5. SkipGroup(p) => Handles(p, st[p].seen)
  BY <1>1, EventEnds DEF SkipGroup
<1>6. (AdvanceWatermark(p) => Goes(p, "cleanup")) /\ (Cleanup(p) => Ends(p))
  BY <1>1, Went, Cleared DEF AdvanceWatermark, Cleanup, Goto
<1>7. QED
  BY <1>2, <1>3, <1>4, <1>5, <1>6

\* The lifecycle of the group, under the lease.
LEMMA LifecycleMoves ==
    ASSUME Domains, NEW a \in Pollers \cup Rebuilders
    PROVE  /\ AcquireLease(a) => IF lease = None THEN Goes(a, "authority") ELSE Ends(a)
           /\ ReadAuthority(a) => Goes(a, IF active THEN "reopen" ELSE "retire")
           /\ ReopenBucket(a) => Moved(a, "release", st[a].load, st[a].last, st[a].batch,
                                       st[a].seen, TRUE)
           /\ RetireBucket(a) => Moved(a, "release", st[a].load, st[a].last, st[a].batch,
                                       st[a].seen, FALSE)
           /\ ReleaseLease(a) => \/ Ends(a) \/ (Goes(a, "lock") /\ st[a].strict)
                                 \/ (a \in Pollers /\ Handles(a, st[a].seen \cup LifecycleSeen))
<1>1. a \in Actors /\ a \notin Readers \cup Writers
      /\ {"authority", "reopen", "retire", "release", "lock"} \subseteq AllSteps
  BY SchedulerAssumption DEF Actors, AllSteps
<1>2. AcquireLease(a) => IF lease = None THEN Goes(a, "authority") ELSE Ends(a)
  BY <1>1, Went, Cleared DEF AcquireLease, Goto
<1>3. ReadAuthority(a) => Goes(a, IF active THEN "reopen" ELSE "retire")
  BY <1>1, Went DEF ReadAuthority, Goto
<1>4. ASSUME ReopenBucket(a)
      PROVE  Moved(a, "release", st[a].load, st[a].last, st[a].batch, st[a].seen, TRUE)
  <2>1. epoch' \in Nat
    BY <1>4 DEF ReopenBucket, Domains
  <2>2. st' = [st EXCEPT ![a].pc = "release", ![a].tok = epoch', ![a].strict = TRUE]
    BY <1>4 DEF ReopenBucket
  <2>3. QED
    BY <1>1, <2>1, <2>2, Assigned
<1>5. ASSUME RetireBucket(a)
      PROVE  Moved(a, "release", st[a].load, st[a].last, st[a].batch, st[a].seen, FALSE)
  <2>1. st' = [st EXCEPT ![a].pc = "release", ![a].strict = FALSE]
    BY <1>5 DEF RetireBucket
  <2>2. QED
    BY <1>1, <2>1, Assigned
<1>6. ASSUME ReleaseLease(a)
      PROVE  \/ Ends(a) \/ (Goes(a, "lock") /\ st[a].strict)
             \/ (a \in Pollers /\ Handles(a, st[a].seen \cup LifecycleSeen))
  <2>1. CASE lease # a
    <3>1. Stop(a)
      BY <1>6, <2>1 DEF ReleaseLease
    <3>2. QED
      BY <1>1, <3>1, Cleared
  <2>2. CASE lease = a /\ st[a].strict
    <3>1. st' = [st EXCEPT ![a].pc = "lock"]
      BY <1>6, <2>2 DEF ReleaseLease
    <3>2. QED
      BY <1>1, <2>2, <3>1, Went
  <2>3. CASE lease = a /\ ~st[a].strict /\ a \in Pollers
    <3>1. st[a].seen \cup LifecycleSeen \in SUBSET LifecycleSeen
      BY <1>1 DEF Domains, Local
    <3>2. st' = [st EXCEPT ![a] = Handled([@ EXCEPT !.seen = st[a].seen \cup LifecycleSeen])]
      BY <1>6, <2>3 DEF ReleaseLease
    <3>3. QED
      BY <1>1, <2>3, <3>1, <3>2, EventEnds
  <2>4. CASE lease = a /\ ~st[a].strict /\ a \notin Pollers
    <3>1. st' = [st EXCEPT ![a] = Blank]
      BY <1>6, <2>4 DEF ReleaseLease
    <3>2. QED
      BY <1>1, <3>1, Cleared DEF Ends
  <2>5. QED
    BY <2>1, <2>2, <2>3, <2>4
<1>7. QED
  BY <1>2, <1>3, <1>4, <1>5, <1>6

\* Capture, rebuild and publication of the snapshot.
LEMMA RebuildMoves ==
    ASSUME Domains, NEW a \in Actors
    PROVE  /\ CaptureToken(a) => \/ Ends(a) \/ (Handles(a, st[a].seen) /\ a \in Pollers)
                                 \/ Goes(a, IF a \in Readers THEN "load" ELSE "lock")
           /\ TryLockBucket(a) => \/ Ends(a) \/ (lock = None /\ Goes(a, "load"))
                                  \/ (Handles(a, st[a].seen) /\ a \in Pollers /\ ~st[a].strict)
           /\ LoadAccounts(a) => Loads(a, "allocate")
           /\ AllocateVersion(a) =>
                  \/ (Fenced(a) /\ (Ends(a) \/ (a \notin Readers /\ Goes(a, "unlock"))))
                  \/ (~Fenced(a) /\ Goes(a, "write"))
           /\ WriteAccounts(a) => Goes(a, "activate")
           /\ ActivateSnapshot(a) => Ends(a) \/ (a \notin Readers /\ Goes(a, "unlock"))
           /\ UnlockBucket(a) =>
                  \/ Ends(a) \/ Clears(a, "idle")
                  \/ (a \in Pollers /\ Handles(a, st[a].seen \cup LifecycleSeen) /\ st[a].strict)
                  \/ (a \in Pollers /\ Handles(a, st[a].seen) /\ ~st[a].strict)
           /\ Fail(a) => Ends(a)
<1>1. st[a] \in Local /\ content \in Nat
      /\ {"load", "lock", "allocate", "write", "activate", "unlock"} \subseteq AllSteps
  BY DEF Domains, AllSteps
<1>2. ASSUME Continue(a) PROVE Ends(a) \/ (Handles(a, st[a].seen) /\ a \in Pollers)
  <2>1. CASE a \in Pollers /\ st[a].batch # {}
    <3>1. st' = [st EXCEPT ![a] = Handled(@)]
      BY <1>2, <2>1 DEF Continue
    <3>2. QED
      BY <2>1, <3>1, EventEnds
  <2>2. CASE ~(a \in Pollers /\ st[a].batch # {})
    <3>1. Stop(a)
      BY <1>2, <2>2 DEF Continue, Stop
    <3>2. QED
      BY <3>1, Cleared
  <2>3. QED
    BY <2>1, <2>2
<1>3. ASSUME NEW f \in BOOLEAN, AfterPublish(a, f)
      PROVE  Ends(a) \/ (a \notin Readers /\ Goes(a, "unlock"))
  <2>1. CASE a \in Readers
    <3>1. Stop(a)
      BY <1>3, <2>1 DEF AfterPublish, Stop
    <3>2. QED
      BY <3>1, Cleared
  <2>2. CASE a \notin Readers
    <3> DEFINE g == f /\ st[a].strict
    <3>1. g \in BOOLEAN /\ st' = [st EXCEPT ![a] = [@ EXCEPT !.pc = "unlock", !.failed = g]]
      BY <1>3, <2>2 DEF AfterPublish
    <3> HIDE DEF g
    <3>2. QED
      BY <1>1, <2>2, <3>1, Went
  <2>3. QED
    BY <2>1, <2>2
<1>4. ASSUME CaptureToken(a)
      PROVE  \/ Ends(a) \/ (Handles(a, st[a].seen) /\ a \in Pollers)
             \/ Goes(a, IF a \in Readers THEN "load" ELSE "lock")
  <2>1. CASE retired
    BY <1>2, <1>4, <2>1 DEF CaptureToken
  <2>2. CASE ~retired
    <3> DEFINE l == IF a \in Readers THEN "load" ELSE "lock"
    <3>1. l \in AllSteps /\ epoch' \in Nat
      BY <1>1, <1>4, <2>2 DEF CaptureToken, Domains
    <3>2. st' = [st EXCEPT ![a].pc = l, ![a].tok = epoch']
      BY <1>4, <2>2 DEF CaptureToken
    <3> HIDE DEF l
    <3>3. Goes(a, l)
      BY <3>1, <3>2, Went
    <3>4. QED
      BY <3>3 DEF l
  <2>3. QED
    BY <2>1, <2>2
<1>5. ASSUME TryLockBucket(a)
      PROVE  \/ Ends(a) \/ (lock = None /\ Goes(a, "load"))
             \/ (Handles(a, st[a].seen) /\ a \in Pollers /\ ~st[a].strict)
  BY <1>1, <1>2, <1>5, Went, Cleared DEF TryLockBucket, Goto
<1>6. LoadAccounts(a) => Loads(a, "allocate")
  BY <1>1, Assigned DEF LoadAccounts, Loads
<1>7. ASSUME AllocateVersion(a)
      PROVE  \/ (Fenced(a) /\ (Ends(a) \/ (a \notin Readers /\ Goes(a, "unlock"))))
             \/ (~Fenced(a) /\ Goes(a, "write"))
  BY <1>1, <1>3, <1>7, Went DEF AllocateVersion, Goto
<1>8. WriteAccounts(a) => Goes(a, "activate")
  BY <1>1, Went DEF WriteAccounts, Goto
<1>9. ASSUME ActivateSnapshot(a) PROVE Ends(a) \/ (a \notin Readers /\ Goes(a, "unlock"))
  <2>1. Fenced(a) \in BOOLEAN /\ AfterPublish(a, Fenced(a))
    BY <1>9 DEF ActivateSnapshot, Fenced, Domains
  <2>2. QED
    BY <1>3, <2>1
<1>10. ASSUME UnlockBucket(a)
       PROVE  \/ Ends(a) \/ Clears(a, "idle")
              \/ (a \in Pollers /\ Handles(a, st[a].seen \cup LifecycleSeen) /\ st[a].strict)
              \/ (a \in Pollers /\ Handles(a, st[a].seen) /\ ~st[a].strict)
  <2>1. CASE st[a].failed
    BY <1>10, <2>1, Cleared DEF UnlockBucket
  <2>2. CASE ~st[a].failed /\ a \in Pollers /\ st[a].strict
    <3>1. st[a].seen \cup LifecycleSeen \in SUBSET LifecycleSeen
      BY <1>1 DEF Local
    <3>2. st' = [st EXCEPT ![a] = Handled([@ EXCEPT !.seen = st[a].seen \cup LifecycleSeen])]
      BY <1>10, <2>2 DEF UnlockBucket
    <3>3. QED
      BY <2>2, <3>1, <3>2, EventEnds
  <2>3. CASE ~st[a].failed /\ a \in Pollers /\ ~st[a].strict
    <3>1. st' = [st EXCEPT ![a] = Handled(@)]
      BY <1>10, <2>3 DEF UnlockBucket
    <3>2. QED
      BY <2>3, <3>1, EventEnds
  <2>4. CASE ~st[a].failed /\ a \notin Pollers
    <3>1. st' = [st EXCEPT ![a] = Blank]
      BY <1>10, <2>4 DEF UnlockBucket
    <3>2. QED
      BY <3>1, Cleared
  <2>5. QED
    BY <2>1, <2>2, <2>3, <2>4
<1>11. Fail(a) => Ends(a)
  BY Cleared DEF Fail
<1>12. QED
  BY <1>4, <1>5, <1>6, <1>7, <1>8, <1>9, <1>10, <1>11

\* The full rebuild, and a request that misses the cache.
LEMMA FullMoves ==
    ASSUME Domains, NEW f \in Actors
    PROVE  /\ ListBuckets(f) => Goes(f, "groups")
           /\ ListActiveGroups(f) => Ends(f) \/ Clears(f, IF active THEN "recapture" ELSE "lease")
           /\ CaptureCanonical(f) => Goes(f, "lease") \/ Goes(f, "lock")
           /\ CacheMiss(f) => Goes(f, "capture")
<1>1. registered \in BOOLEAN
      /\ {"groups", "recapture", "lease", "lock", "capture"} \subseteq AllSteps
  BY DEF Domains, AllSteps
<1>2. ListBuckets(f) => Goes(f, "groups")
  BY <1>1, Went DEF ListBuckets
<1>3. ASSUME ListActiveGroups(f)
      PROVE  Ends(f) \/ Clears(f, IF active THEN "recapture" ELSE "lease")
  <2>1. CASE active \/ st[f].known
    BY <1>1, <1>3, <2>1, Cleared DEF ListActiveGroups
  <2>2. CASE ~(active \/ st[f].known)
    BY <1>3, <2>2, Cleared DEF ListActiveGroups
  <2>3. QED
    BY <2>1, <2>2
<1>4. ASSUME CaptureCanonical(f) PROVE Goes(f, "lease") \/ Goes(f, "lock")
  <2>1. epoch' \in Nat
    BY <1>4 DEF CaptureCanonical, Domains
  <2>2. QED
    BY <1>1, <1>4, <2>1, Went DEF CaptureCanonical, Goto
<1>5. CacheMiss(f) => Goes(f, "capture")
  BY <1>1, Went DEF CacheMiss, Goto
<1>6. QED
  BY <1>2, <1>3, <1>4, <1>5

\* A bounded set of ids has a greatest one.
LEMMA Greatest ==
    ASSUME NEW S, S \subseteq Nat, S # {}, NEW n \in Nat, \A x \in S : x < n
    PROVE  \E m \in S : \A x \in S : x <= m
<1> DEFINE T == {n - x : x \in S}
<1>1. T \subseteq Nat
  <2>1. ASSUME NEW x \in S PROVE n - x \in Nat
    <3>1. x \in Nat /\ x < n
      OBVIOUS
    <3>2. QED
      BY <3>1
  <2>2. QED
    BY <2>1
<1>1a. PICK x0 \in S : TRUE
  OBVIOUS
<1>1b. n - x0 \in T
  OBVIOUS
<1>2. \E y \in T : \A z \in T : ~(<<z, y>> \in OpToRel(<, Nat))
  BY <1>1, <1>1b, NatLessThanWellFounded, WFMin
<1>3. PICK y \in T : \A z \in T : ~(z < y)
  BY <1>1, <1>2 DEF OpToRel
<1>4. PICK m \in S : y = n - m
  BY <1>3
<1>5. ASSUME NEW x \in S PROVE x <= m
  <2>1. n - x \in T /\ x \in Nat /\ m \in Nat
    BY <1>4
  <2>2. ~(n - x < n - m)
    BY <1>3, <1>4, <2>1
  <2>3. QED
    BY <2>1, <2>2
<1>6. QED
  BY <1>5


\* What a poll lists: the visible rows above the watermark it read.
Listed(p) == {r \in rows : r.visible /\ r.id > st[p].last}

LEMMA ListMoves ==
    ASSUME Domains, NEW p \in Pollers, \A r \in rows : r.id < nextId,
           ListAfterAndReleaseDedup(p)
    PROVE  \/ Listed(p) = {} /\ Ends(p) /\ lost' = lost /\ passed' = passed
           \/ \E m \in Nat :
                  /\ m < nextId /\ \A r \in Listed(p) : r.id <= m
                  /\ \E r \in Listed(p) : r.id = m
                  /\ Moved(p, "next", st[p].load, m, Listed(p), st[p].seen, st[p].strict)
                  /\ passed' = passed \cup Overtaken(m)
                  /\ lost' = (lost \/ Overtaken(m) # {})
<1> DEFINE got == Listed(p)
           ids == {r.id : r \in got}
<1>1. /\ p \in Actors /\ got = {r \in Committed : r.id > st[p].last}
      /\ "next" \in AllSteps /\ got \subseteq rows /\ got \in SUBSET AnyRow
  BY DEF Listed, Committed, Actors, Domains, AllSteps
<1>2. CASE got = {}
  <2>1. Stop(p) /\ lost' = lost /\ passed' = passed
    BY <1>1, <1>2 DEF ListAfterAndReleaseDedup
  <2>2. QED
    BY <1>1, <1>2, <2>1, Cleared
<1>3. CASE got # {}
  <2> DEFINE greatest == CHOOSE m \in ids : \A r \in got : r.id <= m
  <2>1. ids \subseteq Nat /\ ids # {} /\ \A x \in ids : x < nextId
    BY <1>1, <1>3 DEF AnyRow
  <2>2. \E m \in ids : \A x \in ids : x <= m
    BY <2>1, Greatest DEF Domains
  <2>3. \E m \in ids : \A r \in got : r.id <= m
    BY <2>2
  <2>4. greatest \in ids /\ \A r \in got : r.id <= greatest
    BY <2>3
  <2>5. /\ st' = [st EXCEPT ![p].pc = "next", ![p].batch = got, ![p].last = greatest]
        /\ passed' = passed \cup Overtaken(greatest)
        /\ lost' = (lost \/ Overtaken(greatest) # {})
    BY <1>1, <1>3 DEF ListAfterAndReleaseDedup
  <2> HIDE DEF greatest
  <2>6. greatest \in Nat /\ greatest < nextId
    BY <2>1, <2>4
  <2>7. Moved(p, "next", st[p].load, greatest, got, st[p].seen, st[p].strict)
    BY <1>1, <2>5, <2>6, Assigned
  <2>8. \E r \in got : r.id = greatest
    BY <2>4
  <2>9. QED
    BY <2>4, <2>5, <2>6, <2>7, <2>8
<1>4. QED
  BY <1>2, <1>3
-----------------------------------------------------------------------------
(* The inductive invariant.                                                *)

Workers     == Pollers \cup Rebuilders
ReaderSteps == {"idle", "capture", "load", "allocate", "write", "activate", "done"}
LeaseSteps  == {"authority", "reopen", "retire", "release"}
AccountSteps ==
    {"setaccount", "capture", "lock", "load", "allocate", "write", "activate", "unlock"}

\* Who holds a lock or a version; a request takes neither lock nor lease; a poll
\* starts with empty local variables, and only a reopened group is rebuilt strictly.
Places ==
    /\ lock \in Workers \cup {None} /\ lease \in Workers \cup {None}
    /\ order \subseteq Actors \X Actors
    /\ \A r \in Readers : st[r].pc \in ReaderSteps
    /\ \A p \in Pollers :
          /\ st[p].pc \in {"idle", "list", "cleanup"} => st[p].batch = {}
          /\ st[p].pc \in {"idle", "list"} => st[p].seen = {}
          /\ st[p].pc \in {"idle", "list", "next", "setaccount", "capture"} => ~st[p].strict

\* Ids come from the sequence, loads from the database.
Bounds ==
    /\ \A r \in rows : 0 < r.id /\ r.id < nextId
    /\ \A r, s \in rows : r.id = s.id => r = s
    /\ 0 < nextId /\ watermark < nextId /\ \A a \in Actors : st[a].last < nextId
    /\ \A a \in Actors : st[a].load <= content
    /\ snap \in 0 .. content \cup {NoSnap} /\ meta \in 0 .. content

\* A writer changes the database once and enqueues at most one row.
Changed  == {w \in Writers : st[w].pc \notin {"idle", "commit"}}
Enqueued == {w \in Writers : st[w].pc \notin {"idle", "enqueue", "announce"}}
Counts   == content <= Cardinality(Changed) /\ nextId <= Cardinality(Enqueued) + 1

\* The versions in flight belong to rebuilds that have not activated theirs.
Ordered ==
    /\ \A x \in order : x[1] \in InFlight /\ x[2] \in InFlight
    /\ \A a \in InFlight : st[a].pc \in {"write", "activate"}
    /\ \A a, b \in InFlight : a = b \/ (<<a, b>> \in order <=> <<b, a>> \notin order)

\* A plan is read and carried out under the lease.
LeaseHeld == \A a \in Actors : st[a].pc \in LeaseSteps => lease = a

\* A group row that no poll has passed stays ahead of every poll until one of them
\* lists it; only the writer that inserted it can take it back.
GroupRows ==
    \A r \in rows : r.kind = "group" =>
        /\ \A w \in Writers : r.id = st[w].last => st[w].pc = "announced"
        /\ r.dedup /\ r.id \notin passed =>
               r.id > watermark /\ \A p \in Pollers : r.id > st[p].last

\* A rebuild that is not strict is the work of an account event.
Handling ==
    \A p \in Pollers :
        st[p].pc \in AccountSteps /\ ~st[p].strict => Event(p).kind = "account"

\* No group row above n, and no group change whose row is still to come.
Quiet(n) ==
    /\ ~active /\ ~lost
    /\ \A r \in rows : r.kind = "group" => r.id <= n
    /\ \A w \in Writers : st[w].pc # "announce"

\* The bucket is closed, and nobody is about to open it.
Settled == retired /\ snap = NoSnap /\ \A a \in Actors : st[a].pc # "reopen"

\* The poll has settled the group, is doing so, or has no group event left.
Covered(p) ==
    \/ st[p].pc \in {"reopen", "release"} \/ st[p].strict \/ "lifecycle" \in st[p].seen
    \/ \A e \in st[p].batch : e.kind # "group"

\* A watermark that says the group's events are handled, stored or about to be
\* stored, is right.
Fencing ==
    /\ Quiet(watermark) => Settled
    /\ \A p \in Pollers :
          st[p].pc # "idle" /\ Covered(p) /\ Quiet(st[p].last) => Settled

-----------------------------------------------------------------------------
(* What the steps do to the outbox.                                        *)

UniqueIds == \A r, s \in rows : r.id = s.id => r = s

\* Row r is what a step made of row s.
Kept(r, s) ==
    r.id = s.id /\ r.kind = s.kind /\ (r.dedup => s.dedup) /\ (s.visible => r.visible)

\* An insert of kind k, or the row whose key it found.
Pended(k) ==
    \/ DedupRow(k) # {} /\ UNCHANGED <<rows, nextId>>
    \/ /\ nextId' = nextId + 1
       /\ rows' = rows \cup {[id |-> nextId, kind |-> k, dedup |-> TRUE, visible |-> FALSE]}

Inserted(k) ==
    /\ rows' \subseteq AnyRow /\ rows \subseteq rows' /\ UniqueIds'
    /\ \/ nextId' = nextId /\ rows' = rows /\ DedupRow(k) # {}
       \/ /\ nextId' = nextId + 1
          /\ \A r \in rows' : r \in rows \/ (r.id = nextId /\ r.kind = k)
          /\ \E r \in rows' : r.id = nextId /\ r.kind = k

LEMMA EnqueueRows ==
    ASSUME Domains, Bounds, NEW k \in {"account", "group"}, Pended(k)
    PROVE  Inserted(k)
<1>1. CASE DedupRow(k) # {} /\ UNCHANGED <<rows, nextId>>
  BY <1>1 DEF Domains, Bounds, UniqueIds, Inserted
<1>2. CASE ~(DedupRow(k) # {} /\ UNCHANGED <<rows, nextId>>)
  <2> DEFINE new == [id |-> nextId, kind |-> k, dedup |-> TRUE, visible |-> FALSE]
  <2>1. new \in AnyRow /\ new.id = nextId /\ new.kind = k
    BY DEF AnyRow, Domains
  <2>2. rows' = rows \cup {new} /\ nextId' = nextId + 1
    BY <1>2 DEF Pended
  <2> HIDE DEF new
  <2>3. \A r \in rows : r.id # new.id
    BY <2>1 DEF Bounds, Domains, AnyRow
  <2>4. QED
    BY <2>1, <2>2, <2>3 DEF Domains, Bounds, UniqueIds, Inserted
<1>3. QED
  BY <1>1, <1>2

LEMMA WriterRows ==
    ASSUME Domains, Bounds, NEW w \in Writers
    PROVE  /\ EnqueueChange(w) => Inserted(IF At(w, "enqueue") THEN "account" ELSE "group")
           /\ EnqueueInTx(w) => Inserted("account")
<1>1. (Pended("account") => Inserted("account")) /\ (Pended("group") => Inserted("group"))
  BY EnqueueRows, Zenon
<1>2. EnqueueInTx(w) => Pended("account")
  BY Zenon DEF EnqueueInTx, Enqueue, Pended
<1>3. EnqueueChange(w) => \/ At(w, "enqueue") /\ Pended("account")
                          \/ At(w, "announce") /\ Pended("group")
  BY Zenon DEF EnqueueChange, Enqueue, Pended
<1>4. At(w, "announce") => ~At(w, "enqueue")
  BY DEF At
<1>5. QED
  BY <1>1, <1>2, <1>3, <1>4

\* The row of a writer becomes visible.
LEMMA PublishRows ==
    ASSUME Domains, Bounds, NEW w \in Writers, Publish(w)
    PROVE  /\ rows' \subseteq AnyRow /\ UniqueIds'
           /\ \A r \in rows' : \E s \in rows : Kept(r, s)
           /\ \A s \in rows : \E r \in rows' : Kept(r, s)
<1> DEFINE F(s) == IF s.id = st[w].last THEN [s EXCEPT !.visible = TRUE] ELSE s
<1>1. \A s \in AnyRow : F(s) \in AnyRow /\ Kept(F(s), s)
  BY DEF AnyRow, Kept
<1>2. rows' = {F(s) : s \in rows}
  BY DEF Publish
<1> HIDE DEF F
<1>3. QED
  BY <1>1, <1>2 DEF Domains, Bounds, UniqueIds, Kept

\* The keys of the rows a poll lists are released.
LEMMA ListRows ==
    ASSUME Domains, Bounds, NEW p \in Pollers, ListAfterAndReleaseDedup(p)
    PROVE  /\ rows' \subseteq AnyRow /\ UniqueIds'
           /\ \A r \in rows' : \E s \in rows : Kept(r, s) /\ (r.dedup => s \notin Listed(p))
           /\ \A s \in rows : \E r \in rows' : Kept(r, s)
<1> DEFINE F(s) == [s EXCEPT !.dedup = FALSE]
           got == Listed(p)
<1>1. \A s \in AnyRow : F(s) \in AnyRow /\ Kept(F(s), s) /\ ~F(s).dedup /\ Kept(s, s)
  BY DEF AnyRow, Kept
<1>2. rows' = (rows \ got) \cup {F(s) : s \in got} /\ got \subseteq rows
  BY DEF ListAfterAndReleaseDedup, Listed, Committed
<1> HIDE DEF F, got
<1>3. \A r \in rows' : \E s \in rows : Kept(r, s) /\ (r.dedup => s \notin got)
                                     /\ r = (IF s \in got THEN F(s) ELSE s)
  BY <1>1, <1>2 DEF Domains
<1>4. \A s \in rows : \E r \in rows' : Kept(r, s)
  BY <1>1, <1>2 DEF Domains
<1>5. UniqueIds'
  BY <1>3 DEF Bounds, UniqueIds, Kept
<1>6. rows' \subseteq AnyRow
  BY <1>1, <1>2 DEF Domains
<1>7. QED
  BY <1>3, <1>4, <1>5, <1>6 DEF got

\* The four kinds of actor are different.
LEMMA RolesApart ==
    /\ Actors = Pollers \cup Rebuilders \cup Readers \cup Writers
    /\ Workers = Pollers \cup Rebuilders /\ None \notin Actors
    /\ Workers \cap (Readers \cup Writers) = {} /\ Readers \cap Writers = {}
    /\ Pollers \cap Rebuilders = {} /\ NoSnap \notin Nat
BY SchedulerAssumption DEF Actors, Workers

\* Every step keeps the domains.
LEMMA DomainsStep ==
    ASSUME Domains, Bounds, [Next]_vars
    PROVE  Domains'
<1> USE RolesApart
<1>1. ASSUME NEW w \in Writers, ChangeAccount(w) PROVE Domains'
  BY <1>1, WriterMoves DEF ChangeAccount, Goes, At, Moved, bucketVars, historyVars, Domains
<1>2. ASSUME NEW w \in Writers, ChangeGroup(w) PROVE Domains'
  BY <1>2, WriterMoves DEF ChangeGroup, Goes, At, Moved, bucketVars, historyVars, Domains
<1>3. ASSUME NEW w \in Writers, EnqueueChange(w) PROVE Domains'
  <2>0. nextId \in Nat
    BY DEF Domains
  <2>1. st' \in [Actors -> Local]
    BY <1>3, WriterMoves DEF Moved, Merges, Inserts, Goes, Ends, Clears
  <2>2. rows' \subseteq AnyRow /\ nextId' \in Nat
    BY <1>3, <2>0, WriterRows DEF Inserted
  <2>3. QED
    BY <1>3, <2>1, <2>2 DEF EnqueueChange, bucketVars, historyVars, Domains
<1>4. ASSUME NEW w \in Writers, EnqueueInTx(w) PROVE Domains'
  <2>0. nextId \in Nat
    BY DEF Domains
  <2>1. st' \in [Actors -> Local]
    BY <1>4, WriterMoves DEF Moved, Merges, Inserts, Goes
  <2>2. rows' \subseteq AnyRow /\ nextId' \in Nat
    BY <1>4, <2>0, WriterRows DEF Inserted
  <2>3. QED
    BY <1>4, <2>1, <2>2 DEF EnqueueInTx, bucketVars, historyVars, Domains
<1>5. ASSUME NEW w \in Writers, CommitTx(w) PROVE Domains'
  <2>1. st' \in [Actors -> Local]
    BY <1>5, WriterMoves DEF Domains, Moved, Clears, At
  <2>2. rows' \subseteq AnyRow
    BY <1>5, PublishRows DEF CommitTx
  <2>3. QED
    BY <1>5, <2>1, <2>2 DEF CommitTx, bucketVars, historyVars, Domains
<1>5a. ASSUME NEW w \in Writers, CommitInsert(w) PROVE Domains'
  <2>1. st' \in [Actors -> Local]
    BY <1>5a, WriterMoves DEF Moved, Clears, Ends
  <2>2. rows' \subseteq AnyRow
    BY <1>5a, PublishRows DEF CommitInsert
  <2>3. QED
    BY <1>5a, <2>1, <2>2 DEF CommitInsert, bucketVars, historyVars, Domains
<1>6. ASSUME NEW w \in Writers, WriterFails(w) PROVE Domains'
  BY <1>6, WriterMoves DEF WriterFails, Ends, Clears, At, Moved, bucketVars, Domains
<1>7. ASSUME NEW w \in Writers, SyncRead(w) PROVE Domains'
  BY <1>7, WriterMoves DEF SyncRead, Loads, At, Moved, dbVars, bucketVars, historyVars,
     Domains
<1>8. ASSUME NEW w \in Writers, SyncSet(w) PROVE Domains'
  BY <1>8, WriterMoves DEF SyncSet, Ends, Clears, At, Moved, dbVars, bucketVars,
     historyVars, Domains
<1>9. ASSUME NEW p \in Pollers, ReadWatermark(p) PROVE Domains'
  BY <1>9, PollerMoves DEF ReadWatermark, At, Moved, dbVars, bucketVars, historyVars,
     Domains
<1>10. ASSUME NEW p \in Pollers, ListAfterAndReleaseDedup(p) PROVE Domains'
  <2>1. st' \in [Actors -> Local]
    BY <1>10, ListMoves DEF Domains, Bounds, Moved, Ends, Clears, At
  <2>2. QED
    BY <1>10, <2>1, ListRows DEF ListAfterAndReleaseDedup, bucketVars, historyVars, Domains
<1>11. ASSUME NEW p \in Pollers, HandleAccount(p) PROVE Domains'
  BY <1>11, PollerMoves DEF HandleAccount, Loads, At, Moved, dbVars, bucketVars,
     historyVars, Domains
<1>12. ASSUME NEW p \in Pollers, SetAccount(p) PROVE Domains'
  BY <1>12, PollerMoves DEF SetAccount, Handles, At, Moved, dbVars, bucketVars, historyVars,
     Domains
<1>13. ASSUME NEW p \in Pollers, SkipGroup(p) PROVE Domains'
  BY <1>13, PollerMoves DEF SkipGroup, Handles, At, Moved, dbVars, bucketVars, historyVars,
     Domains
<1>14. ASSUME NEW p \in Pollers, AdvanceWatermark(p) PROVE Domains'
  <2>1. st' \in [Actors -> Local]
    BY <1>14, PollerMoves DEF Domains, Bounds, Moved, Goes, At
  <2>2. QED
    BY <1>14, <2>1 DEF AdvanceWatermark, dbVars, bucketVars, historyVars, Local, Domains
<1>15. ASSUME NEW p \in Pollers, Cleanup(p) PROVE Domains'
  BY <1>15, PollerMoves DEF Cleanup, Ends, Clears, At, Moved, bucketVars, historyVars,
     Domains
<1>16. ASSUME NEW a \in Workers, AcquireLease(a) PROVE Domains'
  BY <1>16, LifecycleMoves DEF AcquireLease, WantsLease, Goes, Ends, Clears, At, Moved,
     dbVars, bucketVars, historyVars, Domains
<1>17. ASSUME NEW a \in Workers, ReadAuthority(a) PROVE Domains'
  BY <1>17, LifecycleMoves DEF ReadAuthority, Goes, At, Moved, dbVars, bucketVars,
     historyVars, Domains
<1>18. ASSUME NEW a \in Workers, ReopenBucket(a) PROVE Domains'
  BY <1>18, LifecycleMoves DEF ReopenBucket, At, Moved, dbVars, historyVars, Domains
<1>19. ASSUME NEW a \in Workers, RetireBucket(a) PROVE Domains'
  <2>0. epoch \in Nat
    BY DEF Domains
  <2>1. st' \in [Actors -> Local]
    BY <1>19, LifecycleMoves DEF Domains, Moved, At
  <2>2. epoch' \in Nat
    BY <1>19, <2>0 DEF RetireBucket
  <2>3. QED
    BY <1>19, <2>1, <2>2 DEF RetireBucket, dbVars, historyVars, Domains
<1>20. ASSUME NEW a \in Workers, ReleaseLease(a) PROVE Domains'
  BY <1>20, LifecycleMoves DEF ReleaseLease, Goes, Ends, Clears, Handles, At, Moved, dbVars,
     bucketVars, historyVars, Domains
<1>21. ASSUME NEW a \in Actors \ Writers, CaptureToken(a) PROVE Domains'
  <2>1. st' \in [Actors -> Local]
    BY <1>21, RebuildMoves DEF Domains, Bounds, Moved, Goes, Ends, Clears, Handles, At
  <2>2. QED
    BY <1>21, <2>1 DEF CaptureToken, dbVars, historyVars, Domains
<1>22. ASSUME NEW a \in Actors \ Writers, TryLockBucket(a) PROVE Domains'
  BY <1>22, RebuildMoves DEF TryLockBucket, Goes, Ends, Clears, Handles, At, Moved, dbVars,
     bucketVars, historyVars, Domains
<1>23. ASSUME NEW a \in Actors \ Writers, LoadAccounts(a) PROVE Domains'
  BY <1>23, RebuildMoves DEF LoadAccounts, Loads, At, Moved, dbVars, bucketVars,
     historyVars, Domains
<1>24. ASSUME NEW a \in Actors \ Writers, AllocateVersion(a) PROVE Domains'
  BY <1>24, RebuildMoves DEF AllocateVersion, Goes, Ends, Clears, At, Moved, dbVars,
     historyVars, Domains
<1>25. ASSUME NEW a \in Actors \ Writers, WriteAccounts(a) PROVE Domains'
  BY <1>25, RebuildMoves DEF WriteAccounts, Goes, At, Moved, dbVars, bucketVars,
     historyVars, Domains
<1>26. ASSUME NEW a \in Actors \ Writers, ActivateSnapshot(a) PROVE Domains'
  BY <1>26, RebuildMoves DEF ActivateSnapshot, Goes, Ends, Clears, At, Moved, dbVars,
     historyVars, Domains
<1>27. ASSUME NEW a \in Actors \ Writers, UnlockBucket(a) PROVE Domains'
  BY <1>27, RebuildMoves DEF UnlockBucket, Ends, Clears, Handles, At, Moved, dbVars,
     bucketVars, historyVars, Domains
<1>28. ASSUME NEW a \in Actors \ Writers, Fail(a) PROVE Domains'
  BY <1>28, RebuildMoves DEF Fail, Ends, Clears, Moved, dbVars, Domains
<1>29. ASSUME NEW f \in Rebuilders, ListBuckets(f) PROVE Domains'
  BY <1>29, FullMoves DEF ListBuckets, Goes, At, Moved, dbVars, bucketVars, historyVars,
     Domains
<1>30. ASSUME NEW f \in Rebuilders, ListActiveGroups(f) PROVE Domains'
  BY <1>30, FullMoves DEF ListActiveGroups, Ends, Clears, At, Moved, dbVars, bucketVars,
     historyVars, Domains
<1>31. ASSUME NEW f \in Rebuilders, CaptureCanonical(f) PROVE Domains'
  <2>1. st' \in [Actors -> Local]
    BY <1>31, FullMoves DEF Domains, Bounds, Moved, Goes, At
  <2>2. QED
    BY <1>31, <2>1 DEF CaptureCanonical, dbVars, historyVars, Domains
<1>32. ASSUME NEW r \in Readers, CacheMiss(r) PROVE Domains'
  BY <1>32, FullMoves DEF CacheMiss, Goes, At, Moved, dbVars, bucketVars, historyVars,
     Domains
<1>33. CASE LockExpires
  BY <1>33 DEF LockExpires, dbVars, bucketVars, historyVars, Domains
<1>34. CASE LeaseExpires
  BY <1>34 DEF LeaseExpires, dbVars, bucketVars, historyVars, Domains
<1>35. CASE UNCHANGED vars
  BY <1>35 DEF vars, dbVars, bucketVars, historyVars, Domains
<1>36. QED
  BY <1>1, <1>2, <1>3, <1>4, <1>5, <1>5a, <1>6, <1>7, <1>8, <1>9, <1>10, <1>11, <1>12,
       <1>13,
     <1>14, <1>15, <1>16, <1>17, <1>18, <1>19, <1>20, <1>21, <1>22, <1>23, <1>24, <1>25,
     <1>26, <1>27, <1>28, <1>29, <1>30, <1>31, <1>32, <1>33, <1>34, <1>35, RolesApart
     DEF Next, WriterStep, PollerStep, RebuilderStep, Lifecycle, Rebuild

-----------------------------------------------------------------------------
(* What a step leaves alone, by the part of the invariant it matters to.   *)

OutboxKept ==
    /\ rows' = rows /\ nextId' = nextId /\ watermark' = watermark /\ passed' = passed
    /\ \A a \in Actors : st'[a].last \in {0, st[a].last}
    /\ \A w \in Writers : st[w].pc = "announced" => st'[w].pc = "announced"

LoadsKept ==
    /\ content' \in {content, content + 1} /\ meta' \in {meta} \cup {st[a].load : a \in Actors}
    /\ snap' \in {snap, NoSnap} \cup {st[a].load : a \in Actors}
    /\ \A a \in Actors : st'[a].load \in {0, content, st[a].load}

WritersKept == content' = content /\ nextId' = nextId /\ \A w \in Writers : st'[w] = st[w]

OrderKept ==
    /\ order' = order
    /\ \A a \in Actors : st[a].pc \in {"write", "activate"} =>
                             st'[a].pc \in {"write", "activate"}

LeaseKept ==
    /\ lease' = lease
    /\ \A a \in Actors : st'[a].pc \in LeaseSteps => st[a].pc \in LeaseSteps

GroupKept ==
    /\ active' = active /\ lost' = lost
    /\ \A w \in Writers : st[w].pc = "announce" => st'[w].pc = "announce"

EventKept ==
    \A p \in Pollers :
        st'[p].pc \in AccountSteps /\ ~st'[p].strict =>
            st'[p].batch = st[p].batch /\ st[p].pc \in AccountSteps /\ ~st[p].strict

PollsKept ==
    \A p \in Pollers :
        st'[p].pc # "idle" /\ Covered(p)' =>
            st[p].pc # "idle" /\ Covered(p) /\ st'[p].last = st[p].last

SettledKept == ~active /\ Settled => Settled'

Framed ==
    /\ \/ OutboxKept
       \/ \E w \in Writers : EnqueueChange(w) \/ CommitInsert(w) \/ EnqueueInTx(w)
                             \/ CommitTx(w) \/ WriterFails(w)
       \/ \E p \in Pollers : ReadWatermark(p) \/ ListAfterAndReleaseDedup(p)
                             \/ AdvanceWatermark(p) \/ Cleanup(p)
    /\ LoadsKept
    /\ \/ WritersKept
       \/ \E w \in Writers : ChangeAccount(w) \/ ChangeGroup(w) \/ EnqueueChange(w)
                             \/ CommitInsert(w) \/ EnqueueInTx(w) \/ CommitTx(w)
                             \/ WriterFails(w) \/ SyncRead(w) \/ SyncSet(w)
    /\ \/ OrderKept
       \/ \E a \in Actors \ Writers : AllocateVersion(a) \/ ActivateSnapshot(a) \/ Fail(a)
    /\ \/ LeaseKept
       \/ \E a \in Workers : AcquireLease(a) \/ ReleaseLease(a)
       \/ \E a \in Actors \ Writers : Fail(a)
       \/ LeaseExpires
    /\ \/ GroupKept
       \/ \E w \in Writers : ChangeGroup(w) \/ EnqueueChange(w) \/ WriterFails(w)
       \/ \E p \in Pollers : ListAfterAndReleaseDedup(p)
       \/ \E a \in Workers : RetireBucket(a)
    /\ \/ EventKept
       \/ \E p \in Pollers : HandleAccount(p)
    /\ \/ PollsKept
       \/ \E p \in Pollers : ReadWatermark(p) \/ ListAfterAndReleaseDedup(p)
       \/ \E a \in Workers : ReadAuthority(a) \/ RetireBucket(a)
    /\ SettledKept

\* Each part of the state changes in the steps that Framed names.
LEMMA Frame ==
    ASSUME Domains, Places, Bounds, Handling, [Next]_vars
    PROVE  Framed /\ Places'
<1> USE RolesApart
<1>1. ASSUME NEW w \in Writers, ChangeAccount(w) PROVE Framed /\ Places'
  <2>1. Goes(w, "enqueue")
    BY <1>1, WriterMoves
  <2>2. OutboxKept /\ LoadsKept /\ OrderKept /\ LeaseKept /\ GroupKept
    BY <1>1, <2>1 DEF ChangeAccount, Goes, At, Moved, bucketVars, historyVars, OutboxKept,
       LoadsKept, OrderKept, LeaseKept, LeaseSteps, GroupKept
  <2>3. EventKept /\ PollsKept /\ SettledKept
    BY <1>1, <2>1 DEF ChangeAccount, Goes, At, Moved, bucketVars, historyVars, EventKept,
       AccountSteps, Places, ReaderSteps, PollsKept, Covered, Places, SettledKept,
       Settled, Handling, AccountSteps
  <2>4. Places'
    BY <1>1, <2>1 DEF ChangeAccount, Goes, At, Moved, bucketVars, historyVars, Places,
       ReaderSteps
  <2>5. QED
    BY <1>1, <2>2, <2>3, <2>4 DEF Framed
<1>2. ASSUME NEW w \in Writers, ChangeGroup(w) PROVE Framed /\ Places'
  <2>1. Goes(w, "announce")
    BY <1>2, WriterMoves
  <2>2. OutboxKept /\ LoadsKept /\ OrderKept /\ LeaseKept
    BY <1>2, <2>1 DEF ChangeGroup, Goes, At, Moved, bucketVars, historyVars, OutboxKept,
       LoadsKept, OrderKept, LeaseKept, LeaseSteps
  <2>3. EventKept /\ PollsKept /\ SettledKept
    BY <1>2, <2>1 DEF ChangeGroup, Goes, At, Moved, bucketVars, historyVars, EventKept,
       AccountSteps, Places, ReaderSteps, PollsKept, Covered, Places, SettledKept,
       Settled, Handling, AccountSteps
  <2>4. Places'
    BY <1>2, <2>1 DEF ChangeGroup, Goes, At, Moved, bucketVars, historyVars, Places,
       ReaderSteps
  <2>5. QED
    BY <1>2, <2>2, <2>3, <2>4 DEF Framed
<1>3. ASSUME NEW w \in Writers, EnqueueChange(w) PROVE Framed /\ Places'
  <2>1. \/ At(w, "enqueue") /\ (Merges(w, "sync") \/ Inserts(w, "inserted"))
        \/ At(w, "announce") /\ (Ends(w) \/ Inserts(w, "announced"))
    BY <1>3, WriterMoves
  <2>2. LoadsKept /\ OrderKept /\ LeaseKept
    BY <1>3, <2>1 DEF EnqueueChange, Merges, Inserts, Goes, Ends, Clears, At, Moved,
       bucketVars, historyVars,
       LoadsKept, OrderKept, LeaseKept, LeaseSteps
  <2>3. EventKept /\ PollsKept /\ SettledKept
    BY <1>3, <2>1 DEF EnqueueChange, Merges, Inserts, Goes, Ends, Clears, At, Moved,
       bucketVars, historyVars,
       EventKept, AccountSteps, Places, PollsKept, Covered, SettledKept, Settled
  <2>4. Places'
    BY <1>3, <2>1 DEF EnqueueChange, Merges, Inserts, Goes, Ends, Clears, At, Moved,
       bucketVars, historyVars,
       Places, ReaderSteps
  <2>5. QED
    BY <1>3, <2>2, <2>3, <2>4 DEF Framed
<1>4. ASSUME NEW w \in Writers, EnqueueInTx(w) PROVE Framed /\ Places'
  <2>1. Merges(w, "commit") \/ Inserts(w, "commit")
    BY <1>4, WriterMoves
  <2>2. LoadsKept /\ OrderKept /\ LeaseKept /\ GroupKept
    BY <1>4, <2>1 DEF EnqueueInTx, Merges, Inserts, Goes, At, Moved, bucketVars,
       historyVars,
       LoadsKept, OrderKept, LeaseKept, LeaseSteps, GroupKept
  <2>3. EventKept /\ PollsKept /\ SettledKept
    BY <1>4, <2>1 DEF EnqueueInTx, Merges, Inserts, Goes, At, Moved, bucketVars,
       historyVars,
       EventKept, AccountSteps, Places, PollsKept, Covered, SettledKept, Settled
  <2>4. Places'
    BY <1>4, <2>1 DEF EnqueueInTx, Merges, Inserts, Goes, At, Moved, bucketVars,
       historyVars,
       Places, ReaderSteps
  <2>5. QED
    BY <1>4, <2>2, <2>3, <2>4 DEF Framed
<1>5. ASSUME NEW w \in Writers, CommitTx(w) PROVE Framed /\ Places'
  <2>1. Clears(w, "sync")
    BY <1>5, WriterMoves
  <2>2. LoadsKept /\ OrderKept /\ LeaseKept /\ GroupKept
    BY <1>5, <2>1 DEF CommitTx, Clears, At, Moved, bucketVars, historyVars,
       LoadsKept, OrderKept, LeaseKept, LeaseSteps, GroupKept
  <2>3. EventKept /\ PollsKept /\ SettledKept
    BY <1>5, <2>1 DEF CommitTx, Clears, At, Moved, bucketVars, historyVars,
       EventKept, AccountSteps, Places, PollsKept, Covered, SettledKept, Settled
  <2>4. Places'
    BY <1>5, <2>1 DEF CommitTx, Clears, At, Moved, bucketVars, historyVars,
       Places, ReaderSteps
  <2>5. QED
    BY <1>5, <2>2, <2>3, <2>4 DEF Framed
<1>5a. ASSUME NEW w \in Writers, CommitInsert(w) PROVE Framed /\ Places'
  <2>1. Clears(w, "sync") \/ Ends(w)
    BY <1>5a, WriterMoves
  <2>2. LoadsKept /\ OrderKept /\ LeaseKept /\ GroupKept
    BY <1>5a, <2>1 DEF CommitInsert, Ends, Clears, At, Moved, bucketVars, historyVars,
       LoadsKept, OrderKept, LeaseKept, LeaseSteps, GroupKept
  <2>3. EventKept /\ PollsKept /\ SettledKept
    BY <1>5a, <2>1 DEF CommitInsert, Ends, Clears, At, Moved, bucketVars, historyVars,
       EventKept, AccountSteps, Places, PollsKept, Covered, SettledKept, Settled
  <2>4. Places'
    BY <1>5a, <2>1 DEF CommitInsert, Ends, Clears, At, Moved, bucketVars, historyVars,
       Places, ReaderSteps
  <2>5. QED
    BY <1>5a, <2>2, <2>3, <2>4 DEF Framed
<1>6. ASSUME NEW w \in Writers, WriterFails(w) PROVE Framed /\ Places'
  <2>1. Clears(w, "sync") \/ Ends(w)
    BY <1>6, WriterMoves
  <2>2. LoadsKept /\ OrderKept /\ LeaseKept
    BY <1>6, <2>1 DEF WriterFails, Ends, Clears, At, Moved, bucketVars, historyVars,
       LoadsKept, OrderKept, LeaseKept, LeaseSteps
  <2>3. EventKept /\ PollsKept /\ SettledKept
    BY <1>6, <2>1 DEF WriterFails, Ends, Clears, At, Moved, bucketVars, historyVars,
       EventKept, AccountSteps, Places, PollsKept, Covered, SettledKept, Settled
  <2>4. Places'
    BY <1>6, <2>1 DEF WriterFails, Ends, Clears, At, Moved, bucketVars, historyVars,
       Places, ReaderSteps
  <2>5. QED
    BY <1>6, <2>2, <2>3, <2>4 DEF Framed
<1>7. ASSUME NEW w \in Writers, SyncRead(w) PROVE Framed /\ Places'
  <2>1. Loads(w, "syncset")
    BY <1>7, WriterMoves
  <2>2. OutboxKept /\ LoadsKept /\ OrderKept /\ LeaseKept /\ GroupKept
    BY <1>7, <2>1 DEF SyncRead, Loads, At, Moved, dbVars, bucketVars, historyVars,
       OutboxKept, LoadsKept, OrderKept, LeaseKept, LeaseSteps, GroupKept
  <2>3. EventKept /\ PollsKept /\ SettledKept
    BY <1>7, <2>1 DEF SyncRead, Loads, At, Moved, dbVars, bucketVars, historyVars,
       EventKept, AccountSteps, Places, ReaderSteps, PollsKept, Covered, Places,
       SettledKept, Settled, Handling, AccountSteps
  <2>4. Places'
    BY <1>7, <2>1 DEF SyncRead, Loads, At, Moved, dbVars, bucketVars, historyVars, Places,
       ReaderSteps
  <2>5. QED
    BY <1>7, <2>2, <2>3, <2>4 DEF Framed
<1>8. ASSUME NEW w \in Writers, SyncSet(w) PROVE Framed /\ Places'
  <2>1. Ends(w)
    BY <1>8, WriterMoves
  <2>2. OutboxKept /\ LoadsKept /\ OrderKept /\ LeaseKept /\ GroupKept
    BY <1>8, <2>1 DEF SyncSet, Ends, Clears, At, Moved, dbVars, bucketVars, historyVars,
       OutboxKept, LoadsKept, OrderKept, LeaseKept, LeaseSteps, GroupKept
  <2>3. EventKept /\ PollsKept /\ SettledKept
    BY <1>8, <2>1 DEF SyncSet, Ends, Clears, At, Moved, dbVars, bucketVars, historyVars,
       EventKept, AccountSteps, Places, ReaderSteps, PollsKept, Covered, Places,
       SettledKept, Settled, Handling, AccountSteps
  <2>4. Places'
    BY <1>8, <2>1 DEF SyncSet, Ends, Clears, At, Moved, dbVars, bucketVars, historyVars,
       Places, ReaderSteps
  <2>5. QED
    BY <1>8, <2>2, <2>3, <2>4 DEF Framed
<1>9. ASSUME NEW p \in Pollers, ReadWatermark(p) PROVE Framed /\ Places'
  <2>1. Moved(p, "list", st[p].load, watermark, st[p].batch, st[p].seen, st[p].strict)
    BY <1>9, PollerMoves
  <2>2. LoadsKept /\ WritersKept /\ OrderKept /\ LeaseKept /\ GroupKept
    BY <1>9, <2>1 DEF ReadWatermark, At, Moved, dbVars, bucketVars, historyVars, LoadsKept,
       WritersKept, OrderKept, LeaseKept, LeaseSteps, GroupKept
  <2>3. EventKept /\ SettledKept
    BY <1>9, <2>1 DEF ReadWatermark, At, Moved, dbVars, bucketVars, historyVars, EventKept,
       AccountSteps, Places, ReaderSteps, SettledKept, Settled
  <2>4. Places'
    BY <1>9, <2>1 DEF ReadWatermark, At, Moved, dbVars, bucketVars, historyVars, Places,
       ReaderSteps
  <2>5. QED
    BY <1>9, <2>2, <2>3, <2>4 DEF Framed
<1>10. ASSUME NEW p \in Pollers, ListAfterAndReleaseDedup(p) PROVE Framed /\ Places'
  <2>1. \/ Listed(p) = {} /\ Ends(p)
        \/ \E m \in Nat :
               Moved(p, "next", st[p].load, m, Listed(p), st[p].seen, st[p].strict)
    BY <1>10, ListMoves DEF Bounds
  <2>2. LoadsKept /\ WritersKept /\ OrderKept /\ LeaseKept
    BY <1>10, <2>1 DEF ListAfterAndReleaseDedup, Ends, Clears, At, Moved, bucketVars,
       LoadsKept, WritersKept, OrderKept, LeaseKept, LeaseSteps
  <2>3. EventKept /\ SettledKept
    BY <1>10, <2>1 DEF ListAfterAndReleaseDedup, Ends, Clears, At, Moved, bucketVars,
       historyVars, EventKept, AccountSteps, Places, ReaderSteps, SettledKept, Settled
  <2>4. Places'
    BY <1>10, <2>1 DEF ListAfterAndReleaseDedup, Ends, Clears, At, Moved, bucketVars,
       historyVars, Places, ReaderSteps
  <2>5. QED
    BY <1>10, <2>2, <2>3, <2>4 DEF Framed
<1>11. ASSUME NEW p \in Pollers, HandleAccount(p) PROVE Framed /\ Places'
  <2>1. Loads(p, "setaccount")
    BY <1>11, PollerMoves
  <2>2. OutboxKept /\ LoadsKept /\ WritersKept /\ OrderKept /\ LeaseKept /\ GroupKept
    BY <1>11, <2>1 DEF HandleAccount, Loads, At, Moved, dbVars, bucketVars, historyVars,
       OutboxKept, LoadsKept, WritersKept, OrderKept, LeaseKept, LeaseSteps, GroupKept
  <2>3. PollsKept /\ SettledKept
    BY <1>11, <2>1 DEF HandleAccount, Loads, At, Moved, dbVars, bucketVars, historyVars,
       PollsKept, Covered, Places, SettledKept, Settled, Handling, AccountSteps
  <2>4. Places'
    BY <1>11, <2>1 DEF HandleAccount, Loads, At, Moved, dbVars, bucketVars, historyVars,
       Places, ReaderSteps
  <2>5. QED
    BY <1>11, <2>2, <2>3, <2>4 DEF Framed
<1>12. ASSUME NEW p \in Pollers, SetAccount(p) PROVE Framed /\ Places'
  <2>1. \/ Handles(p, st[p].seen)
        \/ Moved(p, "capture", st[p].load, st[p].last, st[p].batch,
                 st[p].seen \cup {"platform"}, FALSE)
    BY <1>12, PollerMoves
  <2>2. OutboxKept /\ LoadsKept /\ WritersKept /\ OrderKept /\ LeaseKept /\ GroupKept
    BY <1>12, <2>1 DEF SetAccount, Handles, At, Moved, dbVars, bucketVars, historyVars,
       OutboxKept, LoadsKept, WritersKept, OrderKept, LeaseKept, LeaseSteps, GroupKept
  <2>3. EventKept /\ PollsKept /\ SettledKept
    BY <1>12, <2>1 DEF SetAccount, Handles, At, Moved, dbVars, bucketVars, historyVars,
       EventKept, AccountSteps, Places, ReaderSteps, PollsKept, Covered, Places,
       SettledKept, Settled, Handling, AccountSteps
  <2>4. Places'
    BY <1>12, <2>1 DEF SetAccount, Handles, At, Moved, dbVars, bucketVars, historyVars,
       Places, ReaderSteps
  <2>5. QED
    BY <1>12, <2>2, <2>3, <2>4 DEF Framed
<1>13. ASSUME NEW p \in Pollers, SkipGroup(p) PROVE Framed /\ Places'
  <2>1. Handles(p, st[p].seen)
    BY <1>13, PollerMoves
  <2>2. OutboxKept /\ LoadsKept /\ WritersKept /\ OrderKept /\ LeaseKept /\ GroupKept
    BY <1>13, <2>1 DEF SkipGroup, Handles, At, Moved, dbVars, bucketVars, historyVars,
       OutboxKept, LoadsKept, WritersKept, OrderKept, LeaseKept, LeaseSteps, GroupKept
  <2>3. EventKept /\ PollsKept /\ SettledKept
    BY <1>13, <2>1 DEF SkipGroup, Handles, At, Moved, dbVars, bucketVars, historyVars,
       EventKept, AccountSteps, Places, ReaderSteps, PollsKept, Covered, Places,
       SettledKept, Settled, Handling, AccountSteps
  <2>4. Places'
    BY <1>13, <2>1 DEF SkipGroup, Handles, At, Moved, dbVars, bucketVars, historyVars,
       Places, ReaderSteps
  <2>5. QED
    BY <1>13, <2>2, <2>3, <2>4 DEF Framed
<1>14. ASSUME NEW p \in Pollers, AdvanceWatermark(p) PROVE Framed /\ Places'
  <2>1. Goes(p, "cleanup")
    BY <1>14, PollerMoves
  <2>2. LoadsKept /\ WritersKept /\ OrderKept /\ LeaseKept /\ GroupKept
    BY <1>14, <2>1 DEF AdvanceWatermark, Goes, At, Moved, dbVars, bucketVars, historyVars,
       LoadsKept, WritersKept, OrderKept, LeaseKept, LeaseSteps, GroupKept
  <2>3. EventKept /\ PollsKept /\ SettledKept
    BY <1>14, <2>1 DEF AdvanceWatermark, Goes, At, Moved, dbVars, bucketVars, historyVars,
       EventKept, AccountSteps, Places, ReaderSteps, PollsKept, Covered, Places,
       SettledKept, Settled, Handling, AccountSteps
  <2>4. Places'
    BY <1>14, <2>1 DEF AdvanceWatermark, Goes, At, Moved, dbVars, bucketVars, historyVars,
       Places, ReaderSteps
  <2>5. QED
    BY <1>14, <2>2, <2>3, <2>4 DEF Framed
<1>15. ASSUME NEW p \in Pollers, Cleanup(p) PROVE Framed /\ Places'
  <2>1. Ends(p)
    BY <1>15, PollerMoves
  <2>2. LoadsKept /\ WritersKept /\ OrderKept /\ LeaseKept /\ GroupKept
    BY <1>15, <2>1 DEF Cleanup, Ends, Clears, At, Moved, bucketVars, historyVars, LoadsKept,
       WritersKept, OrderKept, LeaseKept, LeaseSteps, GroupKept
  <2>3. EventKept /\ PollsKept /\ SettledKept
    BY <1>15, <2>1 DEF Cleanup, Ends, Clears, At, Moved, bucketVars, historyVars, EventKept,
       AccountSteps, Places, ReaderSteps, PollsKept, Covered, Places, SettledKept,
       Settled, Handling, AccountSteps
  <2>4. Places'
    BY <1>15, <2>1 DEF Cleanup, Ends, Clears, At, Moved, bucketVars, historyVars, Places,
       ReaderSteps
  <2>5. QED
    BY <1>15, <2>2, <2>3, <2>4 DEF Framed
<1>16. ASSUME NEW a \in Workers, AcquireLease(a) PROVE Framed /\ Places'
  <2>1. IF lease = None THEN Goes(a, "authority") ELSE Ends(a)
    BY <1>16, LifecycleMoves DEF Workers
  <2>2. OutboxKept /\ LoadsKept /\ WritersKept /\ OrderKept /\ GroupKept
    BY <1>16, <2>1 DEF AcquireLease, WantsLease, Goes, Ends, Clears, At, Moved, dbVars,
       bucketVars, historyVars, OutboxKept, LoadsKept, WritersKept, OrderKept, GroupKept
  <2>3. EventKept /\ PollsKept /\ SettledKept
    BY <1>16, <2>1 DEF AcquireLease, WantsLease, Goes, Ends, Clears, At, Moved, dbVars,
       bucketVars, historyVars, EventKept, AccountSteps, Places, ReaderSteps, PollsKept,
       Covered, Places, SettledKept, Settled, Handling, AccountSteps
  <2>4. Places'
    BY <1>16, <2>1 DEF AcquireLease, WantsLease, Goes, Ends, Clears, At, Moved, dbVars,
       bucketVars, historyVars, Places, ReaderSteps
  <2>5. QED
    BY <1>16, <2>2, <2>3, <2>4 DEF Framed
<1>17. ASSUME NEW a \in Workers, ReadAuthority(a) PROVE Framed /\ Places'
  <2>1. Goes(a, IF active THEN "reopen" ELSE "retire")
    BY <1>17, LifecycleMoves DEF Workers
  <2>2. OutboxKept /\ LoadsKept /\ WritersKept /\ OrderKept /\ LeaseKept /\ GroupKept
    BY <1>17, <2>1 DEF ReadAuthority, Goes, At, Moved, dbVars, bucketVars, historyVars,
       OutboxKept, LoadsKept, WritersKept, OrderKept, LeaseKept, LeaseSteps, GroupKept
  <2>3. EventKept /\ SettledKept
    BY <1>17, <2>1 DEF ReadAuthority, Goes, At, Moved, dbVars, bucketVars, historyVars,
       EventKept, AccountSteps, Places, ReaderSteps, SettledKept, Settled
  <2>4. Places'
    BY <1>17, <2>1 DEF ReadAuthority, Goes, At, Moved, dbVars, bucketVars, historyVars,
       Places, ReaderSteps
  <2>5. QED
    BY <1>17, <2>2, <2>3, <2>4 DEF Framed
<1>18. ASSUME NEW a \in Workers, ReopenBucket(a) PROVE Framed /\ Places'
  <2>1. Moved(a, "release", st[a].load, st[a].last, st[a].batch, st[a].seen, TRUE)
    BY <1>18, LifecycleMoves DEF Workers
  <2>2. OutboxKept /\ LoadsKept /\ WritersKept /\ OrderKept
    BY <1>18, <2>1 DEF ReopenBucket, At, Moved, dbVars, historyVars, OutboxKept, LoadsKept,
       WritersKept, OrderKept
  <2>2a. LeaseKept /\ GroupKept
    BY <1>18, <2>1 DEF ReopenBucket, At, Moved, dbVars, historyVars, LeaseKept, LeaseSteps,
       GroupKept
  <2>3. EventKept /\ PollsKept /\ SettledKept
    BY <1>18, <2>1 DEF ReopenBucket, At, Moved, dbVars, historyVars, EventKept,
       AccountSteps, Places, ReaderSteps, PollsKept, Covered, Places, SettledKept,
       Settled, Handling, AccountSteps
  <2>4. Places'
    BY <1>18, <2>1 DEF ReopenBucket, At, Moved, dbVars, historyVars, Places, ReaderSteps
  <2>5. QED
    BY <1>18, <2>2, <2>2a, <2>3, <2>4 DEF Framed
<1>19. ASSUME NEW a \in Workers, RetireBucket(a) PROVE Framed /\ Places'
  <2>1. Moved(a, "release", st[a].load, st[a].last, st[a].batch, st[a].seen, FALSE)
    BY <1>19, LifecycleMoves DEF Workers
  <2>2. OutboxKept /\ LoadsKept /\ WritersKept /\ OrderKept /\ LeaseKept
    BY <1>19, <2>1 DEF RetireBucket, At, Moved, dbVars, OutboxKept, LoadsKept,
       WritersKept, OrderKept, LeaseKept, LeaseSteps
  <2>3. EventKept /\ SettledKept
    BY <1>19, <2>1 DEF RetireBucket, At, Moved, dbVars, historyVars, EventKept,
       AccountSteps, Places, ReaderSteps, SettledKept, Settled
  <2>4. Places'
    BY <1>19, <2>1 DEF RetireBucket, At, Moved, dbVars, historyVars, Places, ReaderSteps
  <2>5. QED
    BY <1>19, <2>2, <2>3, <2>4 DEF Framed
<1>20. ASSUME NEW a \in Workers, ReleaseLease(a) PROVE Framed /\ Places'
  <2>1. \/ Ends(a) \/ (Goes(a, "lock") /\ st[a].strict)
        \/ (a \in Pollers /\ Handles(a, st[a].seen \cup LifecycleSeen))
    BY <1>20, LifecycleMoves DEF Workers
  <2>2. OutboxKept /\ LoadsKept /\ WritersKept /\ OrderKept /\ GroupKept
    BY <1>20, <2>1 DEF ReleaseLease, Goes, Ends, Clears, Handles, At, Moved, dbVars,
       bucketVars, historyVars, OutboxKept, LoadsKept, WritersKept, OrderKept, GroupKept
  <2>3. EventKept /\ PollsKept /\ SettledKept
    BY <1>20, <2>1 DEF ReleaseLease, Goes, Ends, Clears, Handles, At, Moved, dbVars,
       bucketVars, historyVars, EventKept, AccountSteps, Places, ReaderSteps, PollsKept,
       Covered, Places, SettledKept, Settled, Handling, AccountSteps
  <2>4. Places'
    BY <1>20, <2>1 DEF ReleaseLease, Goes, Ends, Clears, Handles, At, Moved, dbVars,
       bucketVars, historyVars, Places, ReaderSteps
  <2>5. QED
    BY <1>20, <2>2, <2>3, <2>4 DEF Framed
<1>21. ASSUME NEW a \in Actors \ Writers, CaptureToken(a) PROVE Framed /\ Places'
  <2>1. \/ Ends(a) \/ (Handles(a, st[a].seen) /\ a \in Pollers)
        \/ Goes(a, IF a \in Readers THEN "load" ELSE "lock")
    BY <1>21, RebuildMoves
  <2>2. OutboxKept /\ LoadsKept /\ WritersKept /\ OrderKept /\ LeaseKept /\ GroupKept
    BY <1>21, <2>1 DEF CaptureToken, Goes, Ends, Clears, Handles, At, Moved, dbVars,
       historyVars, OutboxKept, LoadsKept, WritersKept, OrderKept, LeaseKept,
       LeaseSteps, GroupKept
  <2>3. EventKept /\ PollsKept /\ SettledKept
    BY <1>21, <2>1 DEF CaptureToken, Goes, Ends, Clears, Handles, At, Moved, dbVars,
       historyVars, EventKept, AccountSteps, Places, ReaderSteps, PollsKept, Covered,
       Places, SettledKept, Settled, Handling, AccountSteps
  <2>4. Places'
    BY <1>21, <2>1 DEF CaptureToken, Goes, Ends, Clears, Handles, At, Moved, dbVars,
       historyVars, Places, ReaderSteps
  <2>5. QED
    BY <1>21, <2>2, <2>3, <2>4 DEF Framed
<1>22. ASSUME NEW a \in Actors \ Writers, TryLockBucket(a) PROVE Framed /\ Places'
  <2>1. \/ Ends(a) \/ (lock = None /\ Goes(a, "load"))
        \/ (Handles(a, st[a].seen) /\ a \in Pollers /\ ~st[a].strict)
    BY <1>22, RebuildMoves
  <2>2. OutboxKept /\ LoadsKept /\ WritersKept /\ OrderKept /\ LeaseKept /\ GroupKept
    BY <1>22, <2>1 DEF TryLockBucket, Goes, Ends, Clears, Handles, At, Moved, dbVars,
       bucketVars, historyVars, OutboxKept, LoadsKept, WritersKept, OrderKept,
       LeaseKept, LeaseSteps, GroupKept
  <2>3. EventKept /\ PollsKept /\ SettledKept
    BY <1>22, <2>1 DEF TryLockBucket, Goes, Ends, Clears, Handles, At, Moved, dbVars,
       bucketVars, historyVars, EventKept, AccountSteps, Places, ReaderSteps, PollsKept,
       Covered, Places, SettledKept, Settled, Handling, AccountSteps
  <2>4. Places'
    BY <1>22, <2>1 DEF TryLockBucket, Goes, Ends, Clears, Handles, At, Moved, dbVars,
       bucketVars, historyVars, Places, ReaderSteps
  <2>5. QED
    BY <1>22, <2>2, <2>3, <2>4 DEF Framed
<1>23. ASSUME NEW a \in Actors \ Writers, LoadAccounts(a) PROVE Framed /\ Places'
  <2>1. Loads(a, "allocate")
    BY <1>23, RebuildMoves
  <2>2. OutboxKept /\ LoadsKept /\ WritersKept /\ OrderKept /\ LeaseKept /\ GroupKept
    BY <1>23, <2>1 DEF LoadAccounts, Loads, At, Moved, dbVars, bucketVars, historyVars,
       OutboxKept, LoadsKept, WritersKept, OrderKept, LeaseKept, LeaseSteps, GroupKept
  <2>3. EventKept /\ PollsKept /\ SettledKept
    BY <1>23, <2>1 DEF LoadAccounts, Loads, At, Moved, dbVars, bucketVars, historyVars,
       EventKept, AccountSteps, Places, ReaderSteps, PollsKept, Covered, Places,
       SettledKept, Settled, Handling, AccountSteps
  <2>4. Places'
    BY <1>23, <2>1 DEF LoadAccounts, Loads, At, Moved, dbVars, bucketVars, historyVars,
       Places, ReaderSteps
  <2>5. QED
    BY <1>23, <2>2, <2>3, <2>4 DEF Framed
<1>24. ASSUME NEW a \in Actors \ Writers, AllocateVersion(a) PROVE Framed /\ Places'
  <2>1. Ends(a) \/ (a \notin Readers /\ Goes(a, "unlock")) \/ Goes(a, "write")
    BY <1>24, RebuildMoves
  <2>2. OutboxKept /\ LoadsKept /\ WritersKept /\ LeaseKept /\ GroupKept
    BY <1>24, <2>1 DEF AllocateVersion, Goes, Ends, Clears, At, Moved, dbVars, historyVars,
       OutboxKept, LoadsKept, WritersKept, LeaseKept, LeaseSteps, GroupKept
  <2>3. EventKept /\ PollsKept /\ SettledKept
    BY <1>24, <2>1 DEF AllocateVersion, Goes, Ends, Clears, At, Moved, dbVars, historyVars,
       EventKept, AccountSteps, Places, ReaderSteps, PollsKept, Covered, Places,
       SettledKept, Settled, Handling, AccountSteps
  <2>4. order' \subseteq Actors \X Actors
    <3>1. InFlight \subseteq Actors /\ a \in Actors /\ order \subseteq Actors \X Actors
      BY DEF InFlight, Places
    <3>2. order' = order \/ order' = order \cup ((InFlight \cup {a}) \X {a})
      BY <1>24 DEF AllocateVersion
    <3>3. QED
      BY <3>1, <3>2
  <2>5. Places'
    BY <1>24, <2>1, <2>4 DEF AllocateVersion, Goes, Ends, Clears, At, Moved, dbVars,
       historyVars, Places, ReaderSteps
  <2>6. QED
    BY <1>24, <2>2, <2>3, <2>5 DEF Framed
<1>25. ASSUME NEW a \in Actors \ Writers, WriteAccounts(a) PROVE Framed /\ Places'
  <2>1. Goes(a, "activate")
    BY <1>25, RebuildMoves
  <2>2. OutboxKept /\ LoadsKept /\ WritersKept /\ OrderKept /\ LeaseKept /\ GroupKept
    BY <1>25, <2>1 DEF WriteAccounts, Goes, At, Moved, dbVars, bucketVars, historyVars,
       OutboxKept, LoadsKept, WritersKept, OrderKept, LeaseKept, LeaseSteps, GroupKept
  <2>3. EventKept /\ PollsKept /\ SettledKept
    BY <1>25, <2>1 DEF WriteAccounts, Goes, At, Moved, dbVars, bucketVars, historyVars,
       EventKept, AccountSteps, Places, ReaderSteps, PollsKept, Covered, Places,
       SettledKept, Settled, Handling, AccountSteps
  <2>4. Places'
    BY <1>25, <2>1 DEF WriteAccounts, Goes, At, Moved, dbVars, bucketVars, historyVars,
       Places, ReaderSteps
  <2>5. QED
    BY <1>25, <2>2, <2>3, <2>4 DEF Framed
<1>26. ASSUME NEW a \in Actors \ Writers, ActivateSnapshot(a) PROVE Framed /\ Places'
  <2>1. Ends(a) \/ (a \notin Readers /\ Goes(a, "unlock"))
    BY <1>26, RebuildMoves
  <2>2. OutboxKept /\ LoadsKept /\ WritersKept /\ LeaseKept /\ GroupKept
    BY <1>26, <2>1 DEF ActivateSnapshot, Goes, Ends, Clears, At, Moved, dbVars, historyVars,
       OutboxKept, LoadsKept, WritersKept, LeaseKept, LeaseSteps, GroupKept
  <2>3. EventKept /\ PollsKept /\ SettledKept
    BY <1>26, <2>1 DEF ActivateSnapshot, Goes, Ends, Clears, At, Moved, dbVars, historyVars,
       EventKept, AccountSteps, Places, ReaderSteps, PollsKept, Covered, Places,
       SettledKept, Settled, Handling, AccountSteps, Fenced
  <2>4. Places'
    BY <1>26, <2>1 DEF ActivateSnapshot, Goes, Ends, Clears, At, Moved, dbVars, historyVars,
       Places, ReaderSteps, Without
  <2>5. QED
    BY <1>26, <2>2, <2>3, <2>4 DEF Framed
<1>27. ASSUME NEW a \in Actors \ Writers, UnlockBucket(a) PROVE Framed /\ Places'
  <2>1. \/ Ends(a) \/ Clears(a, "idle")
        \/ (a \in Pollers /\ Handles(a, st[a].seen \cup LifecycleSeen) /\ st[a].strict)
        \/ (a \in Pollers /\ Handles(a, st[a].seen) /\ ~st[a].strict)
    BY <1>27, RebuildMoves
  <2>2. OutboxKept /\ LoadsKept /\ WritersKept /\ OrderKept /\ LeaseKept /\ GroupKept
    BY <1>27, <2>1 DEF UnlockBucket, Ends, Clears, Handles, At, Moved, dbVars, bucketVars,
       historyVars, OutboxKept, LoadsKept, WritersKept, OrderKept, LeaseKept,
       LeaseSteps, GroupKept
  <2>3. EventKept /\ PollsKept /\ SettledKept
    BY <1>27, <2>1 DEF UnlockBucket, Ends, Clears, Handles, At, Moved, dbVars, bucketVars,
       historyVars, EventKept, AccountSteps, Places, ReaderSteps, PollsKept, Covered,
       Places, SettledKept, Settled, Handling, AccountSteps
  <2>4. Places'
    BY <1>27, <2>1 DEF UnlockBucket, Ends, Clears, Handles, At, Moved, dbVars, bucketVars,
       historyVars, Places, ReaderSteps
  <2>5. QED
    BY <1>27, <2>2, <2>3, <2>4 DEF Framed
<1>28. ASSUME NEW a \in Actors \ Writers, Fail(a) PROVE Framed /\ Places'
  <2>1. Ends(a)
    BY <1>28, RebuildMoves
  <2>2. OutboxKept /\ LoadsKept /\ WritersKept /\ GroupKept
    BY <1>28, <2>1 DEF Fail, Ends, Clears, Moved, dbVars, OutboxKept, LoadsKept,
       WritersKept, GroupKept
  <2>3. EventKept /\ PollsKept /\ SettledKept
    BY <1>28, <2>1 DEF Fail, Ends, Clears, Moved, dbVars, EventKept, AccountSteps, Places,
       ReaderSteps, PollsKept, Covered, Places, SettledKept, Settled, Handling,
       AccountSteps
  <2>4. Places'
    BY <1>28, <2>1 DEF Fail, Ends, Clears, Moved, dbVars, Places, ReaderSteps, Without
  <2>5. QED
    BY <1>28, <2>2, <2>3, <2>4 DEF Framed
<1>29. ASSUME NEW f \in Rebuilders, ListBuckets(f) PROVE Framed /\ Places'
  <2>1. Goes(f, "groups")
    BY <1>29, FullMoves
  <2>2. OutboxKept /\ LoadsKept /\ WritersKept /\ OrderKept /\ LeaseKept /\ GroupKept
    BY <1>29, <2>1 DEF ListBuckets, Goes, At, Moved, dbVars, bucketVars, historyVars,
       OutboxKept, LoadsKept, WritersKept, OrderKept, LeaseKept, LeaseSteps, GroupKept
  <2>3. EventKept /\ PollsKept /\ SettledKept
    BY <1>29, <2>1 DEF ListBuckets, Goes, At, Moved, dbVars, bucketVars, historyVars,
       EventKept, AccountSteps, Places, ReaderSteps, PollsKept, Covered, Places,
       SettledKept, Settled, Handling, AccountSteps
  <2>4. Places'
    BY <1>29, <2>1 DEF ListBuckets, Goes, At, Moved, dbVars, bucketVars, historyVars,
       Places, ReaderSteps
  <2>5. QED
    BY <1>29, <2>2, <2>3, <2>4 DEF Framed
<1>30. ASSUME NEW f \in Rebuilders, ListActiveGroups(f) PROVE Framed /\ Places'
  <2>1. Ends(f) \/ Clears(f, IF active THEN "recapture" ELSE "lease")
    BY <1>30, FullMoves
  <2>2. OutboxKept /\ LoadsKept /\ WritersKept /\ OrderKept /\ LeaseKept /\ GroupKept
    BY <1>30, <2>1 DEF ListActiveGroups, Ends, Clears, At, Moved, dbVars, bucketVars,
       historyVars, OutboxKept, LoadsKept, WritersKept, OrderKept, LeaseKept,
       LeaseSteps, GroupKept
  <2>3. EventKept /\ PollsKept /\ SettledKept
    BY <1>30, <2>1 DEF ListActiveGroups, Ends, Clears, At, Moved, dbVars, bucketVars,
       historyVars, EventKept, AccountSteps, Places, ReaderSteps, PollsKept, Covered,
       Places, SettledKept, Settled, Handling, AccountSteps
  <2>4. Places'
    BY <1>30, <2>1 DEF ListActiveGroups, Ends, Clears, At, Moved, dbVars, bucketVars,
       historyVars, Places, ReaderSteps
  <2>5. QED
    BY <1>30, <2>2, <2>3, <2>4 DEF Framed
<1>31. ASSUME NEW f \in Rebuilders, CaptureCanonical(f) PROVE Framed /\ Places'
  <2>1. Goes(f, "lease") \/ Goes(f, "lock")
    BY <1>31, FullMoves
  <2>2. OutboxKept /\ LoadsKept /\ WritersKept /\ OrderKept /\ LeaseKept /\ GroupKept
    BY <1>31, <2>1 DEF CaptureCanonical, Goes, At, Moved, dbVars, historyVars, OutboxKept,
       LoadsKept, WritersKept, OrderKept, LeaseKept, LeaseSteps, GroupKept
  <2>3. EventKept /\ PollsKept /\ SettledKept
    BY <1>31, <2>1 DEF CaptureCanonical, Goes, At, Moved, dbVars, historyVars, EventKept,
       AccountSteps, Places, ReaderSteps, PollsKept, Covered, Places, SettledKept,
       Settled, Handling, AccountSteps
  <2>4. Places'
    BY <1>31, <2>1 DEF CaptureCanonical, Goes, At, Moved, dbVars, historyVars, Places,
       ReaderSteps
  <2>5. QED
    BY <1>31, <2>2, <2>3, <2>4 DEF Framed
<1>32. ASSUME NEW r \in Readers, CacheMiss(r) PROVE Framed /\ Places'
  <2>1. Goes(r, "capture")
    BY <1>32, FullMoves
  <2>2. OutboxKept /\ LoadsKept /\ WritersKept /\ OrderKept /\ LeaseKept /\ GroupKept
    BY <1>32, <2>1 DEF CacheMiss, Goes, At, Moved, dbVars, bucketVars, historyVars,
       OutboxKept, LoadsKept, WritersKept, OrderKept, LeaseKept, LeaseSteps, GroupKept
  <2>3. EventKept /\ PollsKept /\ SettledKept
    BY <1>32, <2>1 DEF CacheMiss, Goes, At, Moved, dbVars, bucketVars, historyVars,
       EventKept, AccountSteps, Places, ReaderSteps, PollsKept, Covered, Places,
       SettledKept, Settled, Handling, AccountSteps
  <2>4. Places'
    BY <1>32, <2>1 DEF CacheMiss, Goes, At, Moved, dbVars, bucketVars, historyVars, Places,
       ReaderSteps
  <2>5. QED
    BY <1>32, <2>2, <2>3, <2>4 DEF Framed
<1>33. CASE LockExpires
  <2>1. OutboxKept /\ LoadsKept /\ WritersKept /\ OrderKept /\ LeaseKept /\ GroupKept
    BY <1>33 DEF LockExpires, dbVars, bucketVars, historyVars, OutboxKept, LoadsKept,
       WritersKept, OrderKept, LeaseKept, LeaseSteps, GroupKept
  <2>2. EventKept /\ PollsKept /\ SettledKept
    BY <1>33 DEF LockExpires, dbVars, bucketVars, historyVars, EventKept, AccountSteps,
       Places, ReaderSteps, PollsKept, Covered, Places, SettledKept, Settled, Handling,
       AccountSteps
  <2>3. Places'
    BY <1>33 DEF LockExpires, dbVars, bucketVars, historyVars, Places, ReaderSteps
  <2>4. QED
    BY <1>33, <2>1, <2>2, <2>3 DEF Framed
<1>34. CASE LeaseExpires
  <2>1. OutboxKept /\ LoadsKept /\ WritersKept /\ OrderKept /\ GroupKept
    BY <1>34 DEF LeaseExpires, dbVars, bucketVars, historyVars, OutboxKept, LoadsKept,
       WritersKept, OrderKept, GroupKept
  <2>2. EventKept /\ PollsKept /\ SettledKept
    BY <1>34 DEF LeaseExpires, dbVars, bucketVars, historyVars, EventKept, AccountSteps,
       Places, ReaderSteps, PollsKept, Covered, Places, SettledKept, Settled, Handling,
       AccountSteps
  <2>3. Places'
    BY <1>34 DEF LeaseExpires, dbVars, bucketVars, historyVars, Places, ReaderSteps
  <2>4. QED
    BY <1>34, <2>1, <2>2, <2>3 DEF Framed
<1>35. CASE UNCHANGED vars
  <2>1. OutboxKept /\ LoadsKept /\ WritersKept /\ OrderKept /\ LeaseKept
         /\ GroupKept /\ EventKept /\ PollsKept /\ SettledKept
    BY <1>35 DEF vars, OutboxKept, LoadsKept, WritersKept, OrderKept, LeaseKept, LeaseSteps,
       GroupKept, EventKept, AccountSteps, Places, ReaderSteps, PollsKept, Covered,
       Places, SettledKept, Settled
  <2>2. Places'
    BY <1>35 DEF vars, Places
  <2>3. QED
    BY <2>1, <2>2 DEF Framed
<1>36. QED
  BY <1>1, <1>2, <1>3, <1>4, <1>5, <1>5a, <1>6, <1>7, <1>8, <1>9, <1>10, <1>11, <1>12,
       <1>13,
     <1>14, <1>15, <1>16, <1>17, <1>18, <1>19, <1>20, <1>21, <1>22, <1>23, <1>24, <1>25,
     <1>26, <1>27, <1>28, <1>29, <1>30, <1>31, <1>32, <1>33, <1>34, <1>35, RolesApart
     DEF Next, WriterStep, PollerStep, RebuilderStep, Lifecycle, Rebuild

-----------------------------------------------------------------------------
(* Each part of the invariant, from the steps that can disturb it.         *)

Base == Domains /\ Places /\ Bounds /\ Handling

LEMMA LeaseHeldStep ==
    ASSUME Base, LeaseHeld, [Next]_vars
    PROVE  LeaseHeld'
<1> USE RolesApart
<1>1. Domains /\ Places /\ Framed
  BY Frame DEF Base
<1>2. CASE LeaseKept
  BY <1>2 DEF LeaseKept, LeaseHeld
<1>3. ASSUME NEW a \in Workers, AcquireLease(a)
      PROVE  LeaseHeld'
  <2>1. IF lease = None THEN Goes(a, "authority") ELSE Ends(a)
    BY <1>1, <1>3, LifecycleMoves DEF Workers
  <2>2. QED
    BY <1>3, <2>1 DEF AcquireLease, Goes, Ends, Clears, Moved, LeaseHeld, LeaseSteps
<1>4. ASSUME NEW a \in Workers, ReleaseLease(a)
      PROVE  LeaseHeld'
  <2>1. st'[a].pc \notin LeaseSteps /\ \A b \in Actors \ {a} : st'[b] = st[b]
    BY <1>1, <1>4, LifecycleMoves DEF Workers, Goes, Ends, Clears, Handles, Moved,
       LeaseSteps
  <2>2. QED
    BY <1>4, <2>1 DEF ReleaseLease, LeaseHeld
<1>5. ASSUME NEW a \in Actors \ Writers, Fail(a)
      PROVE  LeaseHeld'
  <2>1. Ends(a)
    BY <1>1, <1>5, RebuildMoves
  <2>2. QED
    BY <1>5, <2>1 DEF Fail, Ends, Clears, Moved, LeaseHeld, LeaseSteps
<1>6. CASE LeaseExpires
  BY <1>6 DEF LeaseExpires, LeaseHeld, LeaseSteps
<1>7. QED
  BY <1>1, <1>2, <1>3, <1>4, <1>5, <1>6 DEF Framed

LEMMA HandlingStep ==
    ASSUME Base, [Next]_vars
    PROVE  Handling'
<1> USE RolesApart
<1>1. Domains /\ Places /\ Framed
  BY Frame DEF Base
<1>2. CASE EventKept
  BY <1>2 DEF EventKept, Base, Handling, Event
<1>3. ASSUME NEW p \in Pollers, HandleAccount(p)
      PROVE  Handling'
  <2>1. Loads(p, "setaccount")
    BY <1>1, <1>3, PollerMoves
  <2>2. QED
    BY <1>3, <2>1 DEF HandleAccount, Loads, Moved, Base, Handling, Event
<1>4. QED
  BY <1>1, <1>2, <1>3 DEF Framed

LEMMA OrderedStep ==
    ASSUME Base, Ordered, [Next]_vars
    PROVE  Ordered'
<1> USE RolesApart
<1>1. Domains /\ Places /\ Framed
  BY Frame DEF Base
<1>2. CASE OrderKept
  BY <1>2 DEF OrderKept, Ordered, InFlight
<1>3. ASSUME NEW a \in Actors \ Writers, AllocateVersion(a)
      PROVE  Ordered'
  <2>1. \/ (Fenced(a) /\ (Ends(a) \/ (a \notin Readers /\ Goes(a, "unlock"))))
        \/ (~Fenced(a) /\ Goes(a, "write"))
    BY <1>1, <1>3, RebuildMoves
  <2>2. a \notin InFlight
    BY <1>3 DEF AllocateVersion, At, Ordered
  <2>3. CASE Fenced(a)
    <3>1. order' = order /\ \A b \in Actors \ {a} : st'[b] = st[b]
      BY <1>3, <2>1, <2>3 DEF AllocateVersion, Goes, Ends, Clears, Moved
    <3>2. InFlight' = InFlight
      BY <3>1 DEF InFlight
    <3>3. \A b \in InFlight : b \in Actors \ {a}
      BY <2>2 DEF InFlight
    <3>4. QED
      BY <3>1, <3>2, <3>3 DEF Ordered
  <2>4. CASE ~Fenced(a)
    <3>1. order' = order \cup ((InFlight \cup {a}) \X {a}) /\ Goes(a, "write")
      BY <1>3, <2>1, <2>4 DEF AllocateVersion
    <3>2. InFlight' = InFlight \cup {a}
      BY <3>1 DEF InFlight
    <3>3. \A x \in order' : x[1] \in InFlight' /\ x[2] \in InFlight'
      BY <3>1, <3>2 DEF Ordered
    <3>4. \A b \in InFlight' : st'[b].pc \in {"write", "activate"}
      BY <3>1, <3>2 DEF Ordered, Goes, Moved, InFlight
    <3>5. \A b, c \in InFlight' : b = c \/ (<<b, c>> \in order' <=> <<c, b>> \notin order')
      <4>1. \A b \in InFlight : <<b, a>> \in order'
        BY <3>1
      <4>2. \A b \in InFlight : <<a, b>> \notin order /\ a # b
        BY <2>2 DEF Ordered
      <4>3. \A b \in InFlight : <<a, b>> \notin order'
        BY <3>1, <4>2
      <4>4. \A b, c \in InFlight : <<b, c>> \in order' <=> <<b, c>> \in order
        BY <2>2, <3>1
      <4>5. QED
        BY <3>2, <4>1, <4>3, <4>4 DEF Ordered
    <3>6. QED
      BY <3>3, <3>4, <3>5 DEF Ordered
  <2>5. QED
    BY <2>3, <2>4
<1>4. ASSUME NEW S \in SUBSET Actors, NEW a \in S, order' = Without(S),
             \A b \in Actors \ {a} : st'[b] = st[b]
      PROVE  Ordered'
  <2>1. InFlight' = InFlight \ S
    BY <1>4 DEF InFlight, Without
  <2>2. order' \subseteq order /\ \A x \in order' : x[1] \notin S /\ x[2] \notin S
    BY <1>4 DEF Without
  <2>3. \A x \in order : x[1] \notin S /\ x[2] \notin S => x \in order'
    BY <1>4 DEF Without
  <2>4. \A x \in order' : x[1] \in InFlight' /\ x[2] \in InFlight'
    BY <2>1, <2>2 DEF Ordered
  <2>5. \A b \in InFlight' : st'[b].pc \in {"write", "activate"}
    BY <1>4, <2>1 DEF Ordered, InFlight
  <2>6. \A b, c \in InFlight' : b = c \/ (<<b, c>> \in order' <=> <<c, b>> \notin order')
    BY <2>1, <2>2, <2>3 DEF Ordered
  <2>7. QED
    BY <2>4, <2>5, <2>6 DEF Ordered
<1>5. ASSUME NEW a \in Actors \ Writers, ActivateSnapshot(a)
      PROVE  Ordered'
  <2>1. \A b \in Actors \ {a} : st'[b] = st[b]
    BY <1>1, <1>5, RebuildMoves DEF Goes, Ends, Clears, Moved
  <2>2. CASE ~Fenced(a) /\ a \in InFlight
    <3> DEFINE S == {b \in Actors : <<b, a>> \in order}
    <3>1. a \in S /\ S \in SUBSET Actors /\ order' = Without(S)
      BY <1>5, <2>2 DEF ActivateSnapshot, InFlight
    <3> HIDE DEF S
    <3>2. QED
      BY <1>4, <2>1, <3>1
  <2>3. CASE ~(~Fenced(a) /\ a \in InFlight)
    <3>1. order' = Without({a})
      BY <1>5, <2>3 DEF ActivateSnapshot
    <3>2. QED
      BY <1>4, <2>1, <3>1
  <2>4. QED
    BY <2>2, <2>3
<1>6. ASSUME NEW a \in Actors \ Writers, Fail(a)
      PROVE  Ordered'
  <2>1. \A b \in Actors \ {a} : st'[b] = st[b]
    BY <1>1, <1>6, RebuildMoves DEF Ends, Clears, Moved
  <2>2. order' = Without({a})
    BY <1>6 DEF Fail
  <2>3. QED
    BY <1>4, <2>1, <2>2
<1>7. QED
  BY <1>1, <1>2, <1>3, <1>5, <1>6 DEF Framed

LEMMA BoundsStep ==
    ASSUME Base, [Next]_vars
    PROVE  Bounds'
<1> USE RolesApart
<1> DEFINE Ids == /\ \A r \in rows : 0 < r.id /\ r.id < nextId
                  /\ UniqueIds
                  /\ 0 < nextId /\ watermark < nextId /\ \A a \in Actors : st[a].last < nextId
<1>1. Domains /\ Places /\ Bounds /\ Framed
  BY Frame DEF Base
<1>2. /\ Ids /\ nextId \in Nat /\ watermark \in Nat /\ content \in Nat
      /\ \A a \in Actors : st[a].last \in Nat /\ st[a].load \in Nat /\ st[a].load <= content
      /\ \A r \in rows : r.id \in Nat
  BY <1>1 DEF Bounds, Domains, Local, AnyRow, UniqueIds
<1>3. /\ content' \in Nat /\ content <= content'
      /\ \A a \in Actors : st'[a].load <= content'
      /\ snap' \in 0 .. content' \cup {NoSnap} /\ meta' \in 0 .. content'
  BY <1>1, <1>2 DEF Framed, LoadsKept, Bounds
<1>4. ASSUME \A r \in rows' : \E s \in rows : r.id = s.id,
             UniqueIds', nextId' = nextId, watermark' < nextId,
             \A a \in Actors : st'[a].last < nextId
      PROVE  Ids'
  BY <1>2, <1>4
<1>5. ASSUME OutboxKept
      PROVE  Ids'
  BY <1>2, <1>5 DEF OutboxKept, UniqueIds
<1>6. ASSUME NEW w \in Writers, EnqueueChange(w) \/ EnqueueInTx(w)
      PROVE  Ids'
  <2>1. /\ UniqueIds' /\ nextId' \in {nextId, nextId + 1}
        /\ \A r \in rows' : 0 < r.id /\ r.id < nextId'
    BY <1>1, <1>2, <1>6, WriterRows DEF Inserted
  <2>2. watermark' = watermark
    BY <1>6 DEF EnqueueChange, EnqueueInTx
  <2>3. \A a \in Actors : \/ st'[a].last \in {0, st[a].last}
                          \/ st'[a].last = nextId /\ nextId' = nextId + 1
    BY <1>1, <1>6, WriterMoves DEF Merges, Inserts, Goes, Ends, Clears, Moved
  <2>4. \A a \in Actors : st'[a].last < nextId'
    BY <1>2, <2>1, <2>3
  <2>5. QED
    BY <1>2, <2>1, <2>2, <2>4
<1>7. ASSUME NEW w \in Writers, CommitTx(w) \/ CommitInsert(w)
      PROVE  Ids'
  <2>1. UniqueIds' /\ \A r \in rows' : \E s \in rows : r.id = s.id
    BY <1>1, <1>7, PublishRows DEF CommitTx, CommitInsert, Kept
  <2>2. Clears(w, "sync") \/ Ends(w)
    BY <1>1, <1>7, WriterMoves
  <2>3. \A a \in Actors : st'[a].last < nextId
    BY <1>2, <2>2 DEF Ends, Clears, Moved
  <2>4. nextId' = nextId /\ watermark' = watermark
    BY <1>7 DEF CommitTx, CommitInsert
  <2>5. QED
    BY <1>2, <1>4, <2>1, <2>3, <2>4
<1>9. ASSUME NEW w \in Writers, WriterFails(w)
      PROVE  Ids'
  <2>1. rows' \subseteq rows /\ nextId' = nextId /\ watermark' = watermark
    BY <1>9 DEF WriterFails
  <2>2. Clears(w, "sync") \/ Ends(w)
    BY <1>1, <1>9, WriterMoves
  <2>3. QED
    BY <1>2, <2>1, <2>2 DEF Ends, Clears, Moved, UniqueIds
<1>10. ASSUME NEW p \in Pollers, ReadWatermark(p)
       PROVE  Ids'
  <2>1. Moved(p, "list", st[p].load, watermark, st[p].batch, st[p].seen, st[p].strict)
    BY <1>1, <1>10, PollerMoves
  <2>2. QED
    BY <1>2, <1>10, <2>1 DEF ReadWatermark, Moved, dbVars, UniqueIds
<1>11. ASSUME NEW p \in Pollers, ListAfterAndReleaseDedup(p)
       PROVE  Ids'
  <2>1. UniqueIds' /\ \A r \in rows' : \E s \in rows : r.id = s.id
    BY <1>1, <1>11, ListRows DEF Kept
  <2>2. \A a \in Actors : st'[a].last < nextId
    BY <1>1, <1>2, <1>11, ListMoves DEF Ends, Clears, Moved
  <2>3. QED
    BY <1>2, <1>4, <1>11, <2>1, <2>2 DEF ListAfterAndReleaseDedup
<1>12. ASSUME NEW p \in Pollers, AdvanceWatermark(p)
       PROVE  Ids'
  <2>1. Goes(p, "cleanup")
    BY <1>1, <1>12, PollerMoves
  <2>2. QED
    BY <1>2, <1>12, <2>1 DEF AdvanceWatermark, Goes, Moved, dbVars, UniqueIds
<1>13. ASSUME NEW p \in Pollers, Cleanup(p)
       PROVE  Ids'
  <2>1. rows' \subseteq rows /\ nextId' = nextId /\ watermark' = watermark
    BY <1>13 DEF Cleanup
  <2>2. Ends(p)
    BY <1>1, <1>13, PollerMoves
  <2>3. QED
    BY <1>2, <2>1, <2>2 DEF Ends, Clears, Moved, UniqueIds
<1>14. Ids'
  BY <1>1, <1>5, <1>6, <1>7, <1>9, <1>10, <1>11, <1>12, <1>13 DEF Framed
<1>15. QED
  BY <1>3, <1>14 DEF Bounds, UniqueIds

LEMMA GroupRowsStep ==
    ASSUME Base, GroupRows, [Next]_vars
    PROVE  GroupRows'
<1> USE RolesApart
<1>1. Domains /\ Places /\ Bounds /\ Framed
  BY Frame DEF Base
<1>2. /\ nextId \in Nat /\ watermark \in Nat /\ watermark < nextId
      /\ \A a \in Actors : st[a].last \in Nat /\ st[a].last < nextId
      /\ \A r \in rows : r.id \in Nat /\ 0 < r.id /\ r.id < nextId
  BY <1>1 DEF Bounds, Domains, Local, AnyRow
<1>3. ASSUME \A r \in rows' : \E s \in rows : Kept(r, s), watermark' = watermark,
             passed' = passed,
             \A a \in Actors : st'[a].last = 0 \/ (st'[a].last = st[a].last /\
                 (st[a].pc = "announced" => st'[a].pc = "announced"))
      PROVE  GroupRows'
  BY <1>2, <1>3 DEF GroupRows, Kept
<1>4. \A r \in rows : Kept(r, r)
  BY DEF Kept
<1>5. CASE OutboxKept
  <2>1. ASSUME NEW r \in rows, r.kind = "group", NEW w \in Writers, r.id = st'[w].last
        PROVE  st'[w].pc = "announced"
    BY <1>2, <1>5, <2>1 DEF OutboxKept, GroupRows
  <2>2. ASSUME NEW r \in rows, r.kind = "group", r.dedup, r.id \notin passed,
               NEW p \in Pollers
        PROVE  r.id > st'[p].last
    BY <1>2, <1>5, <2>2 DEF OutboxKept, GroupRows
  <2>3. QED
    BY <1>5, <2>1, <2>2 DEF OutboxKept, GroupRows
<1>6. ASSUME NEW w \in Writers, EnqueueChange(w) \/ EnqueueInTx(w)
      PROVE  GroupRows'
  <2>1. watermark' = watermark /\ passed' = passed
    BY <1>6 DEF EnqueueChange, EnqueueInTx, historyVars
  <2>2. /\ \A a \in Actors \ {w} : st'[a] = st[a]
        /\ \/ st'[w].last = 0
           \/ st'[w].last = st[w].last /\ st[w].pc # "announced"
           \/ st'[w].last = nextId /\ st'[w].pc = "announced" /\ At(w, "announce")
           \/ st'[w].last = nextId /\ ~At(w, "announce")
    BY <1>1, <1>6, WriterMoves DEF Merges, Inserts, Goes, Ends, Clears, Moved,
       EnqueueChange, EnqueueInTx, At
  <2>3. \A r \in rows' : r.kind = "group" => r \in rows \/ (r.id = nextId /\ At(w, "announce"))
    BY <1>1, <1>6, WriterRows DEF Inserted, EnqueueChange, EnqueueInTx, At
  <2>4. QED
    BY <1>2, <2>1, <2>2, <2>3 DEF GroupRows
<1>7. ASSUME NEW w \in Writers, CommitTx(w) \/ CommitInsert(w)
      PROVE  GroupRows'
  <2>1. \A r \in rows' : \E s \in rows : Kept(r, s)
    BY <1>1, <1>7, PublishRows DEF CommitTx, CommitInsert
  <2>2. Clears(w, "sync") \/ Ends(w)
    BY <1>1, <1>7, WriterMoves
  <2>3. watermark' = watermark /\ passed' = passed
    BY <1>7 DEF CommitTx, CommitInsert, historyVars
  <2>4. QED
    BY <1>3, <2>1, <2>2, <2>3 DEF Ends, Clears, Moved
<1>9. ASSUME NEW w \in Writers, WriterFails(w)
      PROVE  GroupRows'
  <2>1. rows' \subseteq rows /\ watermark' = watermark /\ passed' = passed
    BY <1>9 DEF WriterFails
  <2>2. Clears(w, "sync") \/ Ends(w)
    BY <1>1, <1>9, WriterMoves
  <2>3. QED
    BY <1>3, <1>4, <2>1, <2>2 DEF Ends, Clears, Moved
<1>10. ASSUME NEW p \in Pollers, ReadWatermark(p)
       PROVE  GroupRows'
  <2>1. Moved(p, "list", st[p].load, watermark, st[p].batch, st[p].seen, st[p].strict)
    BY <1>1, <1>10, PollerMoves
  <2>2. QED
    BY <1>2, <1>10, <2>1 DEF ReadWatermark, Moved, dbVars, historyVars, GroupRows
<1>11. ASSUME NEW p \in Pollers, ListAfterAndReleaseDedup(p)
       PROVE  GroupRows'
  <2>1. \A r \in rows' : \E s \in rows : Kept(r, s) /\ (r.dedup => s \notin Listed(p))
    BY <1>1, <1>11, ListRows
  <2>2. watermark' = watermark
    BY <1>11 DEF ListAfterAndReleaseDedup
  <2>3. \A a \in Actors \ {p} : st'[a] = st[a]
    BY <1>1, <1>11, ListMoves DEF Bounds, Ends, Clears, Moved
  <2>4. ASSUME NEW r \in rows', r.kind = "group", r.dedup, r.id \notin passed'
        PROVE  r.id > watermark /\ \A q \in Pollers : r.id > st'[q].last
    <3>1. PICK s \in rows : Kept(r, s) /\ s \notin Listed(p)
      BY <2>1, <2>4
    <3>2. passed \subseteq passed'
      BY <1>1, <1>11, ListMoves DEF Bounds
    <3>3. /\ s.kind = "group" /\ s.dedup /\ s.id = r.id /\ s.id \notin passed
          /\ s.id > watermark /\ \A q \in Pollers : s.id > st[q].last
      BY <2>4, <3>1, <3>2 DEF Kept, GroupRows
    <3>4. ~s.visible
      BY <3>1, <3>3 DEF Listed
    <3>5. s.id > st'[p].last
      <4>1. CASE Ends(p)
        BY <1>2, <4>1 DEF Ends, Clears, Moved
      <4>2. ASSUME NEW m \in Nat, NEW g \in Listed(p), g.id = m, st'[p].last = m,
                   passed' = passed \cup Overtaken(m)
            PROVE  s.id > st'[p].last
        <5>1. s.id # m
          BY <1>1, <3>4, <4>2 DEF Listed, Bounds
        <5>2. ~(s.id < m)
          BY <2>4, <3>3, <3>4, <4>2 DEF Overtaken
        <5>3. QED
          BY <1>2, <4>2, <5>1, <5>2
      <4>3. QED
        BY <1>1, <1>11, <4>1, <4>2, ListMoves DEF Bounds, Moved
    <3>6. QED
      BY <2>3, <3>3, <3>5
  <2>5. QED
    BY <2>1, <2>2, <2>3, <2>4 DEF GroupRows, Kept
<1>12. ASSUME NEW p \in Pollers, AdvanceWatermark(p)
       PROVE  GroupRows'
  <2>1. Goes(p, "cleanup")
    BY <1>1, <1>12, PollerMoves
  <2>2. QED
    BY <1>12, <2>1 DEF AdvanceWatermark, Goes, Moved, dbVars, historyVars, GroupRows
<1>13. ASSUME NEW p \in Pollers, Cleanup(p)
       PROVE  GroupRows'
  <2>1. rows' \subseteq rows /\ watermark' = watermark /\ passed' = passed
    BY <1>13 DEF Cleanup, historyVars
  <2>2. Ends(p)
    BY <1>1, <1>13, PollerMoves
  <2>3. QED
    BY <1>3, <1>4, <2>1, <2>2 DEF Ends, Clears, Moved
<1>14. QED
  BY <1>1, <1>5, <1>6, <1>7, <1>9, <1>10, <1>11, <1>12, <1>13 DEF Framed

\* A set of writers grows by at least the writer that joins it.
LEMMA Joined ==
    ASSUME NEW S, NEW T, S \subseteq T, T \subseteq Writers
    PROVE  /\ Cardinality(S) \in Nat /\ Cardinality(T) \in Nat
           /\ Cardinality(S) <= Cardinality(T)
           /\ \A w \in T : w \notin S => Cardinality(S) + 1 <= Cardinality(T)
<1>1. IsFiniteSet(T) /\ IsFiniteSet(S)
  BY SchedulerAssumption, FS_Subset
<1>2. Cardinality(S) \in Nat /\ Cardinality(T) \in Nat
  BY <1>1, FS_CardinalityType
<1>3. Cardinality(S) <= Cardinality(T) /\ (Cardinality(S) = Cardinality(T) => S = T)
  BY <1>1, FS_Subset
<1>4. QED
  BY <1>2, <1>3

LEMMA CountsStep ==
    ASSUME Base, Counts, [Next]_vars
    PROVE  Counts'
<1> USE RolesApart
<1>1. Domains /\ Bounds /\ Framed
  BY Frame DEF Base
<1>2. content \in Nat /\ nextId \in Nat
  BY <1>1 DEF Domains
<1>3. ASSUME NEW w \in Writers, Changed \subseteq Changed', Enqueued \subseteq Enqueued',
             content' = content \/ (content' = content + 1 /\ w \in Changed' \ Changed),
             nextId' = nextId \/ (nextId' = nextId + 1 /\ w \in Enqueued' \ Enqueued)
      PROVE  Counts'
  <2>1. Changed' \subseteq Writers /\ Enqueued' \subseteq Writers
    BY DEF Changed, Enqueued
  <2>2. /\ Cardinality(Changed) \in Nat /\ Cardinality(Changed') \in Nat
        /\ Cardinality(Changed) <= Cardinality(Changed')
        /\ w \in Changed' \ Changed => Cardinality(Changed) + 1 <= Cardinality(Changed')
    BY <1>3, <2>1, Joined
  <2>3. /\ Cardinality(Enqueued) \in Nat /\ Cardinality(Enqueued') \in Nat
        /\ Cardinality(Enqueued) <= Cardinality(Enqueued')
        /\ w \in Enqueued' \ Enqueued => Cardinality(Enqueued) + 1 <= Cardinality(Enqueued')
    BY <1>3, <2>1, Joined
  <2>4. QED
    BY <1>2, <1>3, <2>2, <2>3 DEF Counts
<1>4. CASE WritersKept
  <2>1. Changed' = Changed /\ Enqueued' = Enqueued
    BY <1>4 DEF WritersKept, Changed, Enqueued
  <2>2. QED
    BY <1>4, <2>1 DEF WritersKept, Counts
<1>5. ASSUME NEW w \in Writers, ChangeAccount(w)
      PROVE  Counts'
  <2>1. Goes(w, "enqueue")
    BY <1>1, <1>5, WriterMoves
  <2>2. /\ Changed \subseteq Changed' /\ Enqueued \subseteq Enqueued'
        /\ content' = content \/ (content' = content + 1 /\ w \in Changed' \ Changed)
        /\ nextId' = nextId \/ (nextId' = nextId + 1 /\ w \in Enqueued' \ Enqueued)
    BY <1>5, <2>1 DEF ChangeAccount, Goes, At, Moved, Changed, Enqueued
  <2>3. QED
    BY <1>3, <2>2
<1>6. ASSUME NEW w \in Writers, ChangeGroup(w)
      PROVE  Counts'
  <2>1. Goes(w, "announce")
    BY <1>1, <1>6, WriterMoves
  <2>2. /\ Changed \subseteq Changed' /\ Enqueued \subseteq Enqueued'
        /\ content' = content \/ (content' = content + 1 /\ w \in Changed' \ Changed)
        /\ nextId' = nextId \/ (nextId' = nextId + 1 /\ w \in Enqueued' \ Enqueued)
    BY <1>6, <2>1 DEF ChangeGroup, Goes, At, Moved, Changed, Enqueued
  <2>3. QED
    BY <1>3, <2>2
<1>7. ASSUME NEW w \in Writers, EnqueueChange(w)
      PROVE  Counts'
  <2>1. \/ At(w, "enqueue") /\ (Merges(w, "sync") \/ Inserts(w, "inserted"))
        \/ At(w, "announce") /\ (Ends(w) \/ Inserts(w, "announced"))
    BY <1>1, <1>7, WriterMoves
  <2>1a. nextId' \in {nextId, nextId + 1}
    BY <1>1, <1>7, WriterRows DEF Inserted
  <2>2. /\ Changed \subseteq Changed' /\ Enqueued \subseteq Enqueued'
        /\ content' = content \/ (content' = content + 1 /\ w \in Changed' \ Changed)
        /\ nextId' = nextId \/ (nextId' = nextId + 1 /\ w \in Enqueued' \ Enqueued)
    BY <1>7, <2>1, <2>1a DEF EnqueueChange, Merges, Inserts, Goes, Ends, Clears, At,
       Moved, Changed, Enqueued
  <2>3. QED
    BY <1>3, <2>2
<1>8. ASSUME NEW w \in Writers, EnqueueInTx(w)
      PROVE  Counts'
  <2>1. Merges(w, "commit") \/ Inserts(w, "commit")
    BY <1>1, <1>8, WriterMoves
  <2>1a. nextId' \in {nextId, nextId + 1}
    BY <1>1, <1>8, WriterRows DEF Inserted
  <2>2. /\ Changed \subseteq Changed' /\ Enqueued \subseteq Enqueued'
        /\ content' = content \/ (content' = content + 1 /\ w \in Changed' \ Changed)
        /\ nextId' = nextId \/ (nextId' = nextId + 1 /\ w \in Enqueued' \ Enqueued)
    BY <1>8, <2>1, <2>1a DEF EnqueueInTx, Merges, Inserts, Goes, At, Moved, Changed,
       Enqueued
  <2>3. QED
    BY <1>3, <2>2
<1>9. ASSUME NEW w \in Writers, CommitTx(w)
      PROVE  Counts'
  <2>1. Clears(w, "sync")
    BY <1>1, <1>9, WriterMoves
  <2>2. /\ Changed \subseteq Changed' /\ Enqueued \subseteq Enqueued'
        /\ content' = content \/ (content' = content + 1 /\ w \in Changed' \ Changed)
        /\ nextId' = nextId \/ (nextId' = nextId + 1 /\ w \in Enqueued' \ Enqueued)
    BY <1>9, <2>1 DEF CommitTx, Clears, At, Moved, Changed, Enqueued
  <2>3. QED
    BY <1>3, <2>2
<1>9a. ASSUME NEW w \in Writers, CommitInsert(w)
      PROVE  Counts'
  <2>1. (At(w, "inserted") \/ At(w, "announced")) /\ (Clears(w, "sync") \/ Ends(w))
    BY <1>1, <1>9a, WriterMoves
  <2>2. /\ Changed \subseteq Changed' /\ Enqueued \subseteq Enqueued'
        /\ content' = content \/ (content' = content + 1 /\ w \in Changed' \ Changed)
        /\ nextId' = nextId \/ (nextId' = nextId + 1 /\ w \in Enqueued' \ Enqueued)
    BY <1>9a, <2>1 DEF CommitInsert, Ends, Clears, At, Moved, Changed, Enqueued
  <2>3. QED
    BY <1>3, <2>2
<1>10. ASSUME NEW w \in Writers, WriterFails(w)
      PROVE  Counts'
  <2>1. Clears(w, "sync") \/ Ends(w)
    BY <1>1, <1>10, WriterMoves
  <2>2. /\ Changed \subseteq Changed' /\ Enqueued \subseteq Enqueued'
        /\ content' = content \/ (content' = content + 1 /\ w \in Changed' \ Changed)
        /\ nextId' = nextId \/ (nextId' = nextId + 1 /\ w \in Enqueued' \ Enqueued)
    BY <1>10, <2>1 DEF WriterFails, Ends, Clears, At, Moved, Changed, Enqueued
  <2>3. QED
    BY <1>3, <2>2
<1>11. ASSUME NEW w \in Writers, SyncRead(w)
      PROVE  Counts'
  <2>1. Loads(w, "syncset")
    BY <1>1, <1>11, WriterMoves
  <2>2. /\ Changed \subseteq Changed' /\ Enqueued \subseteq Enqueued'
        /\ content' = content \/ (content' = content + 1 /\ w \in Changed' \ Changed)
        /\ nextId' = nextId \/ (nextId' = nextId + 1 /\ w \in Enqueued' \ Enqueued)
    BY <1>11, <2>1 DEF SyncRead, Loads, At, Moved, dbVars, Changed, Enqueued
  <2>3. QED
    BY <1>3, <2>2
<1>12. ASSUME NEW w \in Writers, SyncSet(w)
      PROVE  Counts'
  <2>1. Ends(w)
    BY <1>1, <1>12, WriterMoves
  <2>2. /\ Changed \subseteq Changed' /\ Enqueued \subseteq Enqueued'
        /\ content' = content \/ (content' = content + 1 /\ w \in Changed' \ Changed)
        /\ nextId' = nextId \/ (nextId' = nextId + 1 /\ w \in Enqueued' \ Enqueued)
    BY <1>12, <2>1 DEF SyncSet, Ends, Clears, At, Moved, dbVars, Changed, Enqueued
  <2>3. QED
    BY <1>3, <2>2
<1>13. QED
  BY <1>1, <1>4, <1>5, <1>6, <1>7, <1>8, <1>9, <1>9a, <1>10, <1>11, <1>12 DEF Framed

\* A step after which no group change above n is announced started with none, or
\* with the bucket closed.
LEMMA QuietBefore ==
    ASSUME Base, GroupRows, Fencing, [Next]_vars,
           NEW n \in Nat, n < nextId,
           \A r \in rows : r.kind = "group" /\ r.dedup /\ r.id \notin passed => n < r.id,
           \A a \in Workers : ~RetireBucket(a),
           ~active', ~lost', \A r \in rows' : r.kind = "group" => r.id <= n,
           \A w \in Writers : st'[w].pc # "announce"
    PROVE  ~active /\ (Quiet(n) \/ Settled)
<1> USE RolesApart
<1>1. Domains /\ Places /\ Bounds /\ Framed
  BY Frame DEF Base
<1>2. /\ nextId \in Nat /\ \A r \in rows : r.id \in Nat
      /\ \A a \in Actors : st[a].last \in Nat
  BY <1>1 DEF Domains, Local, AnyRow
<1>3. ~active /\ ~lost /\ \A w \in Writers : st[w].pc # "announce"
  <2>1. CASE GroupKept
    BY <2>1 DEF GroupKept
  <2>2. ASSUME NEW w \in Writers, ChangeGroup(w)
        PROVE  FALSE
    <3>1. Goes(w, "announce")
      BY <1>1, <2>2, WriterMoves
    <3>2. QED
      BY <3>1 DEF Goes, Moved
  <2>3. ASSUME NEW w \in Writers, EnqueueChange(w)
        PROVE  ~active /\ ~lost /\ \A v \in Writers : st[v].pc # "announce"
    <3>1. CASE At(w, "announce")
      <4>1. Inserted("group")
        BY <1>1, <2>3, <3>1, WriterRows DEF At
      <4>2. CASE \E r \in rows' : r.id = nextId /\ r.kind = "group"
        BY <1>2, <4>2
      <4>3. CASE rows' = rows /\ DedupRow("group") # {}
        <5>1. PICK r \in rows : r.kind = "group" /\ r.dedup
          BY <4>3 DEF DedupRow
        <5>2. lost' = (lost \/ \E q \in DedupRow("group") : q.id \in passed)
          BY <2>3, <3>1 DEF EnqueueChange, At
        <5>3. r.id \notin passed
          BY <5>1, <5>2 DEF DedupRow
        <5>4. QED
          BY <1>2, <4>3, <5>1, <5>3
      <4>4. QED
        BY <4>1, <4>2, <4>3 DEF Inserted
    <3>2. CASE ~At(w, "announce")
      <4>1. active' = active /\ lost' = lost
        BY <2>3, <3>2 DEF EnqueueChange
      <4>2. \A v \in Writers \ {w} : st'[v] = st[v]
        BY <1>1, <2>3, WriterMoves DEF Merges, Inserts, Goes, Ends, Clears, Moved
      <4>3. QED
        BY <3>2, <4>1, <4>2 DEF At
    <3>3. QED
      BY <3>1, <3>2
  <2>4. ASSUME NEW w \in Writers, WriterFails(w)
        PROVE  ~active /\ ~lost /\ \A v \in Writers : st[v].pc # "announce"
    <3>1. active' = active /\ lost' = lost /\ st[w].pc # "announce"
      BY <2>4 DEF WriterFails, At
    <3>2. \A v \in Writers \ {w} : st'[v] = st[v]
      BY <1>1, <2>4, WriterMoves DEF Ends, Clears, Moved
    <3>3. QED
      BY <3>1, <3>2
  <2>5. ASSUME NEW p \in Pollers, ListAfterAndReleaseDedup(p)
        PROVE  ~active /\ ~lost /\ \A v \in Writers : st[v].pc # "announce"
    <3>1. active' = active
      BY <2>5 DEF ListAfterAndReleaseDedup
    <3>2. ~lost
      BY <1>1, <2>5, ListMoves DEF Bounds
    <3>3. \A v \in Writers : st'[v] = st[v]
      BY <1>1, <2>5, ListMoves DEF Bounds, Ends, Clears, Moved
    <3>4. QED
      BY <3>1, <3>2, <3>3
  <2>6. QED
    BY <1>1, <2>1, <2>2, <2>3, <2>4, <2>5 DEF Framed
<1>4. ASSUME \A r \in rows : r.kind = "group" => \E s \in rows' : s.kind = "group" /\ s.id = r.id
      PROVE  Quiet(n)
  BY <1>3, <1>4 DEF Quiet
<1>5. ASSUME rows' = rows
      PROVE  Quiet(n)
  BY <1>4, <1>5
<1>6. ASSUME NEW w \in Writers, EnqueueChange(w) \/ EnqueueInTx(w)
      PROVE  Quiet(n)
  <2>1. rows \subseteq rows'
    BY <1>1, <1>6, WriterRows DEF Inserted
  <2>2. QED
    BY <1>4, <2>1
<1>7. ASSUME NEW w \in Writers, CommitTx(w) \/ CommitInsert(w)
      PROVE  Quiet(n)
  <2>1. \A s \in rows : \E r \in rows' : Kept(r, s)
    BY <1>1, <1>7, PublishRows DEF CommitTx, CommitInsert
  <2>2. QED
    BY <1>4, <2>1 DEF Kept
<1>8. ASSUME NEW w \in Writers, WriterFails(w)
      PROVE  Quiet(n)
  <2>1. st[w].pc # "announced"
    BY <1>8 DEF WriterFails, At
  <2>2. \A r \in rows : r.kind = "group" => r \in rows'
    BY <1>8, <2>1 DEF WriterFails, GroupRows
  <2>3. QED
    BY <1>4, <2>2
<1>9. ASSUME NEW p \in Pollers, ListAfterAndReleaseDedup(p)
      PROVE  Quiet(n)
  <2>1. \A s \in rows : \E r \in rows' : Kept(r, s)
    BY <1>1, <1>9, ListRows
  <2>2. QED
    BY <1>4, <2>1 DEF Kept
<1>10. ASSUME NEW p \in Pollers, Cleanup(p)
       PROVE  Quiet(n) \/ Settled
  <2>1. \A r \in rows : r.id > st[p].last => r \in rows'
    BY <1>10 DEF Cleanup
  <2>2. CASE n <= st[p].last
    <3>1. Quiet(st[p].last)
      BY <1>2, <1>3, <2>1, <2>2 DEF Quiet
    <3>2. st[p].pc = "cleanup" /\ Covered(p)
      BY <1>1, <1>10 DEF Cleanup, At, Places, Covered
    <3>3. QED
      BY <3>1, <3>2 DEF Fencing
  <2>3. CASE st[p].last < n
    <3>1. QED
      BY <1>2, <1>3, <2>1, <2>3 DEF Quiet
  <2>4. QED
    BY <1>2, <2>2, <2>3
<1>11. ASSUME NEW p \in Pollers, ReadWatermark(p) \/ AdvanceWatermark(p)
       PROVE  rows' = rows
  BY <1>11 DEF ReadWatermark, AdvanceWatermark, dbVars
<1>12. Quiet(n) \/ Settled
  BY <1>1, <1>5, <1>6, <1>7, <1>8, <1>9, <1>10, <1>11 DEF Framed, OutboxKept
<1>13. QED
  BY <1>3, <1>12

LEMMA FencingStep ==
    ASSUME Base, LeaseHeld, GroupRows, Fencing, [Next]_vars
    PROVE  Fencing'
<1> USE RolesApart
<1>1. Domains /\ Places /\ Bounds /\ Framed
  BY Frame DEF Base
<1>2. /\ watermark \in Nat /\ watermark < nextId /\ nextId \in Nat
      /\ \A p \in Pollers : st[p].last \in Nat /\ st[p].last < nextId
      /\ \A r \in rows : r.id \in Nat
  BY <1>1 DEF Bounds, Domains, Local, AnyRow
<1>2a. ASSUME NEW a \in Workers, RetireBucket(a)
       PROVE  Settled'
  <2>1. Moved(a, "release", st[a].load, st[a].last, st[a].batch, st[a].seen, FALSE)
    BY <1>1, <1>2a, LifecycleMoves DEF Workers
  <2>2. retired' /\ snap' = NoSnap /\ lease = a
    BY <1>2a DEF RetireBucket, At, LeaseHeld, LeaseSteps
  <2>3. \A b \in Actors : st'[b].pc # "reopen"
    BY <2>1, <2>2 DEF Moved, LeaseHeld, LeaseSteps
  <2>4. QED
    BY <2>2, <2>3 DEF Settled
<1>3. ASSUME NEW n \in {watermark} \cup {st[p].last : p \in Pollers},
             \A a \in Workers : ~RetireBucket(a), ~active', ~lost', \A r \in rows' : r.kind = "group" => r.id <= n,
             \A w \in Writers : st'[w].pc # "announce"
      PROVE  ~active /\ (Quiet(n) \/ Settled)
  <2>1. /\ n \in Nat /\ n < nextId
        /\ \A r \in rows : r.kind = "group" /\ r.dedup /\ r.id \notin passed => n < r.id
    BY <1>2, <1>3 DEF GroupRows
  <2>2. QED
    BY <1>3, <2>1, QuietBefore
<1>4. ASSUME NEW n \in {watermark} \cup {st[p].last : p \in Pollers}, Quiet(n) => Settled,
             ~active', ~lost', \A r \in rows' : r.kind = "group" => r.id <= n,
             \A w \in Writers : st'[w].pc # "announce"
      PROVE  Settled'
  <2>1. CASE \A a \in Workers : ~RetireBucket(a)
    <3>1. ~active /\ Settled
      BY <1>3, <1>4, <2>1
    <3>2. QED
      BY <1>1, <3>1 DEF Framed, SettledKept
  <2>2. QED
    BY <1>2a, <2>1
<1>5. Quiet(watermark)' => Settled'
  <2>1. SUFFICES ASSUME ~active', ~lost',
                        \A r \in rows' : r.kind = "group" => r.id <= watermark',
                        \A w \in Writers : st'[w].pc # "announce"
                 PROVE  Settled'
    BY DEF Quiet
  <2>2. CASE watermark' = watermark
    BY <1>4, <2>1, <2>2 DEF Fencing
  <2>3. ASSUME NEW p \in Pollers, AdvanceWatermark(p)
        PROVE  Settled'
    <3>1. watermark' = st[p].last /\ st[p].pc = "next" /\ st[p].batch = {}
      BY <2>3 DEF AdvanceWatermark, At
    <3>2. Quiet(st[p].last) => Settled
      BY <3>1 DEF Fencing, Covered
    <3>3. QED
      BY <1>4, <2>1, <3>1, <3>2
  <2>4. watermark' = watermark \/ \E p \in Pollers : AdvanceWatermark(p)
    <3>1. ASSUME NEW w \in Writers,
                 EnqueueChange(w) \/ CommitInsert(w) \/ EnqueueInTx(w) \/ CommitTx(w)
                 \/ WriterFails(w)
          PROVE  watermark' = watermark
      BY <3>1 DEF EnqueueChange, CommitInsert, EnqueueInTx, CommitTx, WriterFails
    <3>2. ASSUME NEW p \in Pollers,
                 ReadWatermark(p) \/ ListAfterAndReleaseDedup(p) \/ Cleanup(p)
          PROVE  watermark' = watermark
      BY <3>2 DEF ReadWatermark, ListAfterAndReleaseDedup, Cleanup
    <3>3. QED
      BY <1>1, <3>1, <3>2 DEF Framed, OutboxKept
  <2>5. QED
    BY <2>2, <2>3, <2>4
<1>6. ASSUME NEW p \in Pollers, st'[p].pc # "idle", Covered(p)',
             ~active', ~lost', \A r \in rows' : r.kind = "group" => r.id <= st'[p].last,
             \A w \in Writers : st'[w].pc # "announce"
      PROVE  Settled'
  <2>1. ASSUME st[p].pc # "idle", Covered(p), st'[p].last = st[p].last
        PROVE  Settled'
    BY <1>4, <1>6, <2>1 DEF Fencing
  <2>2. CASE PollsKept
    BY <1>6, <2>1, <2>2 DEF PollsKept
  <2>3. ASSUME NEW q \in Pollers, ReadWatermark(q)
        PROVE  Settled'
    <3>1. Moved(q, "list", st[q].load, watermark, st[q].batch, st[q].seen, st[q].strict)
      BY <1>1, <2>3, PollerMoves
    <3>2. CASE q = p
      BY <1>4, <1>6, <3>1, <3>2 DEF Moved, Fencing
    <3>3. CASE q # p
      BY <1>6, <2>1, <3>1, <3>3 DEF Moved, Covered
    <3>4. QED
      BY <3>2, <3>3
  <2>4. ASSUME NEW q \in Pollers, ListAfterAndReleaseDedup(q)
        PROVE  Settled'
    <3>1. \/ Listed(q) = {} /\ Ends(q)
          \/ \E m \in Nat :
                 /\ \E r \in Listed(q) : r.id = m
                 /\ Moved(q, "next", st[q].load, m, Listed(q), st[q].seen, st[q].strict)
                 /\ lost' = (lost \/ Overtaken(m) # {})
      BY <1>1, <2>4, ListMoves DEF Bounds
    <3>2. CASE q = p
      <4>1. PICK m \in Nat :
                   /\ \E r \in Listed(p) : r.id = m
                   /\ Moved(p, "next", st[p].load, m, Listed(p), st[p].seen, st[p].strict)
                   /\ lost' = (lost \/ Overtaken(m) # {})
        BY <1>6, <3>1, <3>2 DEF Ends, Clears, Moved
      <4>2. st[p].pc = "list" /\ st[p].batch = {} /\ st[p].seen = {} /\ ~st[p].strict
        BY <1>1, <2>4, <3>2 DEF ListAfterAndReleaseDedup, At, Places
      <4>3. \A e \in Listed(p) : e.kind # "group"
        BY <1>6, <4>1, <4>2 DEF Covered, Moved
      <4>4. ASSUME NEW s \in rows, s.kind = "group", s.id > st[p].last
            PROVE  FALSE
        <5>1. ~s.visible
          BY <4>3, <4>4 DEF Listed
        <5>2. s.id # m
          BY <1>1, <4>1, <5>1 DEF Listed, Bounds
        <5>3. ~(s.id < m)
          BY <1>6, <4>1, <4>4, <5>1 DEF Overtaken
        <5>4. PICK r \in rows' : r.kind = "group" /\ r.id = s.id
          BY <1>1, <2>4, <4>4, ListRows DEF Kept
        <5>5. r.id <= m
          BY <1>6, <4>1, <5>4 DEF Moved
        <5>6. QED
          BY <1>2, <4>1, <5>2, <5>3, <5>4, <5>5
      <4>5. \A r \in rows' : r.kind = "group" => r.id <= st[p].last
        <5>1. \A r \in rows' : \E s \in rows : r.kind = s.kind /\ r.id = s.id
          BY <1>1, <2>4, ListRows DEF Kept
        <5>2. QED
          BY <1>2, <4>4, <5>1
      <4>6. Quiet(st[p].last) => Settled
        BY <4>2 DEF Fencing, Covered
      <4>7. QED
        BY <1>4, <1>6, <4>5, <4>6
    <3>3. CASE q # p
      <4>1. st'[p] = st[p]
        BY <3>1, <3>3 DEF Ends, Clears, Moved
      <4>2. QED
        BY <1>6, <2>1, <4>1 DEF Covered
    <3>4. QED
      BY <3>2, <3>3
  <2>5. ASSUME NEW a \in Workers, ReadAuthority(a)
        PROVE  Settled'
    <3>1. ~active /\ Goes(a, "retire")
      BY <1>1, <1>6, <2>5, LifecycleMoves DEF Workers, ReadAuthority, dbVars
    <3>2. st[p].pc # "idle" /\ Covered(p) /\ st'[p].last = st[p].last
      BY <1>6, <2>5, <3>1 DEF ReadAuthority, At, Goes, Moved, Covered
    <3>3. QED
      BY <2>1, <3>2
  <2>7. QED
    BY <1>1, <1>2a, <2>2, <2>3, <2>4, <2>5 DEF Framed
<1>7. \A p \in Pollers :
          st'[p].pc # "idle" /\ Covered(p)' /\ Quiet(st[p].last)' => Settled'
  BY <1>6 DEF Quiet
<1>8. QED
  BY <1>5, <1>7 DEF Fencing

-----------------------------------------------------------------------------
(* The theorems.                                                           *)

IndInv == Base /\ LeaseHeld /\ Ordered /\ Counts /\ GroupRows /\ Fencing

LEMMA InitHolds == Init => IndInv
<1> SUFFICES ASSUME Init PROVE IndInv
  OBVIOUS
<1> USE RolesApart
<1>1. Domains
  BY DEF Init, Domains, Local, AllSteps, Blank
<1>2. Places /\ LeaseHeld /\ Handling /\ GroupRows
  BY DEF Init, Places, ReaderSteps, LeaseHeld, LeaseSteps, Handling, AccountSteps,
         GroupRows, Blank
<1>3. Bounds
  BY DEF Init, Bounds, Blank
<1>4. Ordered
  BY DEF Init, Ordered, InFlight
<1>5. Counts
  <2>1. Changed \subseteq Writers /\ Enqueued \subseteq Writers
    BY DEF Changed, Enqueued
  <2>2. Cardinality(Changed) \in Nat /\ Cardinality(Enqueued) \in Nat
    BY <2>1, Joined
  <2>3. QED
    BY <2>2 DEF Init, Counts
<1>6. Fencing
  BY DEF Init, Fencing, Quiet, Settled, Blank
<1>7. QED
  BY <1>1, <1>2, <1>3, <1>4, <1>5, <1>6 DEF IndInv, Base

LEMMA StepHolds == IndInv /\ [Next]_vars => IndInv'
<1> SUFFICES ASSUME IndInv, [Next]_vars PROVE IndInv'
  OBVIOUS
<1>1. Base /\ LeaseHeld /\ Ordered /\ Counts /\ GroupRows /\ Fencing
  BY DEF IndInv
<1>2. Domains' /\ Places'
  BY <1>1, DomainsStep, Frame DEF Base
<1>3. Bounds' /\ Handling'
  BY <1>1, BoundsStep, HandlingStep
<1>4. LeaseHeld' /\ Ordered' /\ Counts' /\ GroupRows' /\ Fencing'
  BY <1>1, LeaseHeldStep, OrderedStep, CountsStep, GroupRowsStep, FencingStep
<1>5. QED
  BY <1>2, <1>3, <1>4 DEF IndInv, Base

\* The inductive invariant bounds content and ids by the number of writers.
LEMMA IndInvTypes == IndInv => TypeOK
<1> SUFFICES ASSUME IndInv PROVE TypeOK
  OBVIOUS
<1>1. Domains /\ Places /\ Bounds /\ Counts /\ Ordered
  BY DEF IndInv, Base
<1> DEFINE N == Cardinality(Writers)
<1>2. N \in Nat /\ content \in 0 .. N /\ nextId \in 1 .. N + 1
  <2>1. Changed \subseteq Writers /\ Enqueued \subseteq Writers
    BY DEF Changed, Enqueued
  <2>2. /\ N \in Nat /\ Cardinality(Changed) \in Nat /\ Cardinality(Changed) <= N
        /\ Cardinality(Enqueued) \in Nat /\ Cardinality(Enqueued) <= N
    BY <2>1, Joined
  <2>3. content \in Nat /\ nextId \in Nat /\ 0 < nextId
    BY <1>1 DEF Domains, Bounds
  <2> HIDE DEF N
  <2>4. QED
    BY <1>1, <2>2, <2>3 DEF Counts
<1> HIDE DEF N
<1>3. rows \subseteq Row
  <2>1. \A r \in rows : r \in AnyRow /\ r.id \in 1 .. N
    BY <1>1, <1>2 DEF Domains, Bounds, AnyRow
  <2>2. QED
    BY <2>1 DEF AnyRow, Row, N
<1>4. \A p \in Pollers : st[p].last < nextId
  BY <1>1, RolesApart DEF Bounds
<1>5. QED
  BY <1>1, <1>2, <1>3, <1>4 DEF TypeOK, Domains, Places, Bounds, Ordered, Workers, N

LEMMA InvHolds == Spec => []IndInv
  BY InitHolds, StepHolds, PTL DEF Spec

\* Every key, row and local variable keeps its domain, whatever the number of
\* instances, requests and writers: a writer changes the database once and enqueues
\* at most one row, ids stay unique, and the versions in flight stay ordered.
THEOREM TypeCorrect == Spec => []TypeOK
  BY InvHolds, IndInvTypes, PTL

\* A deleted or disabled group is served only while its change is announced or was
\* lost, because its enqueue failed or a poll passed its id before the insert
\* committed: neither a plan read before the retirement, nor a token captured before
\* it, nor a watermark stored late brings its accounts back.
THEOREM RetiredGroupIsNotServedThm == Spec => []RetiredGroupIsNotServed
<1>1. IndInv => RetiredGroupIsNotServed
  <2> SUFFICES ASSUME IndInv, ~active, ~GroupAnnounced, ~lost
               PROVE  snap = NoSnap
    BY DEF RetiredGroupIsNotServed
  <2>1. Domains /\ Fencing
    BY DEF IndInv, Base
  <2>2. \A r \in rows : r.kind = "group" => r.id <= watermark
    BY <2>1 DEF Domains, AnyRow, GroupAnnounced
  <2>3. \A w \in Writers : st[w].pc # "announce"
    BY DEF GroupAnnounced, At
  <2>4. QED
    BY <2>1, <2>2, <2>3 DEF Fencing, Quiet, Settled
<1>2. QED
  BY <1>1, InvHolds, PTL
=============================================================================
