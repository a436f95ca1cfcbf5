-------------------------- MODULE BatchImageProofs --------------------------
(***************************************************************************)
(* Proofs about BatchImage, for any number of workers and callers, any     *)
(* hold, any number of retries and faults.                                 *)
(***************************************************************************)
EXTENDS BatchImage, TLAPS

-----------------------------------------------------------------------------
(* Type correctness. *)

\* A transition of the row keeps the types, whatever steps it leads to.
LEMMA TransitionType ==
    ASSUME TypeOK, NEW a \in Actors, NEW s \in Statuses, NEW ok \in Steps, NEW no \in Steps,
           NEW err \in Steps, NEW late \in Steps, Transition(a, s, ok, no, err, late)
    PROVE  TypeOK'
<1> USE DEF TypeOK, Transition, Goto, Fault, job, money, queue, rest
<1>1. fresh' \in BOOLEAN
  BY Zenon
<1>2. pc' \in [Actors -> Steps]
  OBVIOUS
<1>3. faults' \in Nat
  BY BatchAssumption
<1>4. status' \in Statuses /\ retries' \in 0 .. MaxRetries
  OBVIOUS
<1>5. QED
  BY <1>1, <1>2, <1>3, <1>4

\* So does a release of the hold.
LEMMA ReleaseType ==
    ASSUME TypeOK, NEW a \in Actors, NEW ok \in Steps, NEW err \in Steps,
           ReleaseHold(a, ok, err)
    PROVE  TypeOK'
<1> USE DEF TypeOK, ReleaseHold, ReleaseTx, Releases, Goto, Fault, job, money, queue, rest
<1>1. pc' \in [Actors -> Steps]
  OBVIOUS
<1>2. faults' \in Nat
  BY BatchAssumption
<1>3. claims' \subseteq {"hold", "capture", "release"}
  OBVIOUS
<1>4. taken' \in Int /\ frozen' \in Int
  BY HoldAssumption
<1>5. QED
  BY <1>1, <1>2, <1>3, <1>4

\* Every step keeps the types.
LEMMA TypeStep == TypeOK /\ [Next]_vars => TypeOK'
<1> SUFFICES ASSUME TypeOK, [Next]_vars PROVE TypeOK'
  OBVIOUS
<1>1. CASE CreateJob
  BY <1>1, BatchAssumption DEF TypeOK, job, money, queue, rest, At, Goto, Fault,
     Actors, Requests, Steps, CreateJob, Statuses, Unsubmitted
<1>2. CASE ReserveHold
  <2> USE DEF TypeOK, Goto, Fault, job, money, queue, rest
  <2>1. ReserveTx \/ UNCHANGED money
    BY <1>2 DEF ReserveHold
  <2>2. claims' \subseteq {"hold", "capture", "release"}
    BY <2>1 DEF ReserveTx
  <2>3. taken' \in Int /\ frozen' \in Int
    BY <2>1, HoldAssumption DEF ReserveTx
  <2>4. QED
    BY <1>2, <2>2, <2>3, BatchAssumption DEF ReserveHold, Actors, Requests, Steps
<1>3. CASE CreateItems
  BY <1>3, BatchAssumption DEF TypeOK, job, money, queue, rest, At, Goto, Fault,
     Actors, Requests, Steps, CreateItems
<1>4. CASE StartUpload
  <2>1. "submit" \in Actors /\ {"uploading"} \subseteq Statuses
        /\ {"relMark", "relOnly", "upstream"} \subseteq Steps
    BY DEF Actors, Requests, Statuses, Unsubmitted, Terminal, Steps
  <2>2. Transition("submit", "uploading", "upstream", "relOnly", "relMark", "relMark")
    BY <1>4 DEF StartUpload
  <2>3. QED
    BY <2>1, <2>2, TransitionType
<1>5. CASE ProviderSubmit
  BY <1>5, BatchAssumption DEF TypeOK, job, money, queue, rest, At, Goto, Fault,
     Actors, Requests, Steps, ProviderSubmit
<1>6. CASE SaveProviderJob
  <2>1. "submit" \in Actors /\ {"submitted"} \subseteq Statuses
        /\ {"abort", "enqueue"} \subseteq Steps
    BY DEF Actors, Requests, Statuses, Unsubmitted, Terminal, Steps
  <2>2. Transition("submit", "submitted", "enqueue", "abort", "abort", "abort")
    BY <1>6 DEF SaveProviderJob
  <2>3. QED
    BY <2>1, <2>2, TransitionType
<1>7. CASE AbortOrphan
  BY <1>7, BatchAssumption DEF TypeOK, job, money, queue, rest, At, Goto, Fault,
     Actors, Requests, Steps, AbortOrphan, Submitted
<1>8. CASE ReleaseFailedSubmit
  BY <1>8, ReleaseType DEF ReleaseFailedSubmit, Actors, Requests, Steps
<1>9. CASE RecordSubmitFailure
  <2> USE <1>9 DEF TypeOK, Goto, Fault, job, money, queue, rest, RecordSubmitFailure
  <2>1. pc' \in [Actors -> Steps]
    BY DEF Actors, Requests, Steps
  <2>2. fresh' \in BOOLEAN
    BY Zenon
  <2>3. status' \in Statuses
    BY DEF Statuses, Terminal
  <2>4. QED
    BY <2>1, <2>2, <2>3, BatchAssumption
<1>10. CASE FailStale
  BY <1>10, BatchAssumption DEF TypeOK, job, money, queue, rest, At, Goto, Fault,
     Actors, Requests, Steps, FailStale, Statuses, Terminal
<1>11. CASE RecoverRelease
  BY <1>11, ReleaseType DEF RecoverRelease, Actors, Requests, Steps
<1>12. CASE RecoverStaleActive
  BY <1>12, BatchAssumption DEF TypeOK, job, money, queue, rest, At, Goto, Fault,
     Actors, Requests, Steps, RecoverStaleActive, Beats
<1>13. CASE LockExpires
  BY <1>13, BatchAssumption DEF TypeOK, job, money, queue, rest, At, Goto, Fault,
     Actors, Requests, Steps, LockExpires
<1>14. CASE Age
  <2> USE <1>14 DEF TypeOK, Goto, Fault, job, money, queue, rest, Age
  <2>1. fresh' \in BOOLEAN
    BY Zenon
  <2>2. QED
    BY <2>1, BatchAssumption
<1>15. CASE UpstreamRuns
  BY <1>15, BatchAssumption DEF TypeOK, job, money, queue, rest, At, Goto, Fault,
     Actors, Requests, Steps, UpstreamRuns
<1>16. CASE MoveDueDelayed
  BY <1>16, BatchAssumption DEF TypeOK, job, money, queue, rest, At, Goto, Fault,
     Actors, Requests, Steps, MoveDueDelayed
<1>17. CASE DeleteOutput
  BY <1>17, BatchAssumption DEF TypeOK, job, money, queue, rest, At, Goto, Fault,
     Actors, Requests, Steps, DeleteOutput, Statuses, Terminal
<1>18. ASSUME NEW a \in Requests, EnqueueJob(a) PROVE TypeOK'
  <2> USE DEF TypeOK, Goto, Fault, job, money, queue, rest
  <2>1. Enqueue \/ UNCHANGED <<ready, queued>>
    BY <1>18 DEF EnqueueJob
  <2>2. ready' \in Nat
    BY <2>1 DEF Enqueue
  <2>3. queued' \subseteq {"delayed", "active", "inflight"}
    BY <2>1 DEF Enqueue
  <2>4. QED
    BY <1>18, <2>2, <2>3, BatchAssumption DEF EnqueueJob, Actors, Steps
<1>19. ASSUME NEW c \in Callers, Resubmit(c) PROVE TypeOK'
  BY <1>19, BatchAssumption DEF TypeOK, job, money, queue, rest, At, Goto, Fault,
     Actors, Requests, Steps, Resubmit
<1>20. ASSUME NEW c \in Callers, Cancel(c) PROVE TypeOK'
  BY <1>20, BatchAssumption DEF TypeOK, job, money, queue, rest, At, Goto, Fault,
     Actors, Requests, Steps, Cancel, TooEarly
<1>21. ASSUME NEW c \in Callers, CancelUnsubmitted(c) PROVE TypeOK'
  <2>1. c \in Actors /\ {"cancelled"} \subseteq Statuses
        /\ {"gaveUp", "idle", "release"} \subseteq Steps
    BY DEF Actors, Requests, Statuses, Unsubmitted, Terminal, Steps
  <2>2. Transition(c, "cancelled", "release", "idle", "idle", "gaveUp")
    BY <1>21 DEF CancelUnsubmitted
  <2>3. QED
    BY <2>1, <2>2, TransitionType
<1>22. ASSUME NEW c \in Callers, CancelUpstream(c) PROVE TypeOK'
  BY <1>22, BatchAssumption DEF TypeOK, job, money, queue, rest, At, Goto, Fault,
     Actors, Requests, Steps, CancelUpstream
<1>23. ASSUME NEW c \in Callers, CancelRelease(c) PROVE TypeOK'
  BY <1>23, ReleaseType DEF CancelRelease, Actors, Requests, Steps
<1>24. ASSUME NEW w \in Workers, Reserve(w) PROVE TypeOK'
  BY <1>24, BatchAssumption DEF TypeOK, job, money, queue, rest, At, Goto, Fault,
     Actors, Requests, Steps, Reserve
<1>25. ASSUME NEW w \in Workers, AcquireLock(w) PROVE TypeOK'
  BY <1>25, BatchAssumption DEF TypeOK, job, money, queue, rest, At, Goto, Fault,
     Actors, Requests, Steps, AcquireLock
<1>26. ASSUME NEW w \in Workers, Route(w) PROVE TypeOK'
  BY <1>26, BatchAssumption DEF TypeOK, job, money, queue, rest, At, Goto, Fault,
     Actors, Requests, Steps, Route, Reads
<1>27. ASSUME NEW w \in Workers, Process(w) PROVE TypeOK'
  BY <1>27, BatchAssumption DEF TypeOK, job, money, queue, rest, At, Goto, Fault,
     Actors, Requests, Steps, Process, Reads
<1>28. ASSUME NEW w \in Workers, Poll(w) PROVE TypeOK'
  BY <1>28, BatchAssumption DEF TypeOK, job, money, queue, rest, At, Goto, Fault,
     Actors, Requests, Steps, Poll
<1>29. ASSUME NEW w \in Workers, ApplyAnswer(w) PROVE TypeOK'
  <2>1. w \in Actors /\ {"cancelled", "failed", "indexing", "running", "settling"} \subseteq Statuses
        /\ {"index", "release", "requeue"} \subseteq Steps
    BY DEF Actors, Requests, Statuses, Unsubmitted, Terminal, Steps
  <2>2. CASE Transition(w, "running", "requeue", "requeue", "requeue", "requeue")
    BY <2>1, <2>2, TransitionType
  <2>3. CASE Transition(w, "indexing", "index", "requeue", "requeue", "requeue")
    BY <2>1, <2>3, TransitionType
  <2>4. CASE Transition(w, "failed", "release", "requeue", "requeue", "requeue")
    BY <2>1, <2>4, TransitionType
  <2>5. CASE Transition(w, "cancelled", "release", "requeue", "requeue", "requeue")
    BY <2>1, <2>5, TransitionType
  <2>6. CASE Transition(w, "settling", "requeue", "requeue", "requeue", "requeue")
    BY <2>1, <2>6, TransitionType
  <2>7. QED
    BY <1>29, <2>2, <2>3, <2>4, <2>5, <2>6 DEF ApplyAnswer
<1>30. ASSUME NEW w \in Workers, Index(w) PROVE TypeOK'
  BY <1>30, BatchAssumption DEF TypeOK, job, money, queue, rest, At, Goto, Fault,
     Actors, Requests, Steps, Index, Unknown, TooMuch
<1>31. ASSUME NEW w \in Workers, ReleaseTerminal(w) PROVE TypeOK'
  BY <1>31, ReleaseType DEF ReleaseTerminal, Actors, Requests, Steps
<1>32. ASSUME NEW w \in Workers, Settle(w) PROVE TypeOK'
  BY <1>32, BatchAssumption DEF TypeOK, job, money, queue, rest, At, Goto, Fault,
     Actors, Requests, Steps, Settle, Reads
<1>33. ASSUME NEW w \in Workers, CaptureHold(w) PROVE TypeOK'
  <2> USE DEF TypeOK, Goto, Fault, job, money, queue, rest
  <2>1. CaptureTx \/ UNCHANGED money
    BY <1>33 DEF CaptureHold
  <2>2. claims' \subseteq {"hold", "capture", "release"}
    BY <2>1 DEF CaptureTx
  <2>3. taken' \in Int /\ frozen' \in Int
    BY <2>1, HoldAssumption DEF CaptureTx, Unknown, TooMuch
  <2>4. QED
    BY <1>33, <2>2, <2>3, BatchAssumption DEF CaptureHold, Actors, Requests, Steps
<1>34. ASSUME NEW w \in Workers, MarkSettled(w) PROVE TypeOK'
  BY <1>34, BatchAssumption DEF TypeOK, job, money, queue, rest, At, Goto, Fault,
     Actors, Requests, Steps, MarkSettled, Statuses, Terminal
<1>35. ASSUME NEW w \in Workers, RecordSettlementFailure(w) PROVE TypeOK'
  BY <1>35, BatchAssumption DEF TypeOK, job, money, queue, rest, At, Goto, Fault,
     Actors, Requests, Steps, RecordSettlementFailure
<1>36. ASSUME NEW w \in Workers, ExhaustedRelease(w) PROVE TypeOK'
  BY <1>36, ReleaseType DEF ExhaustedRelease, Actors, Requests, Steps
<1>37. ASSUME NEW w \in Workers, ExhaustedFail(w) PROVE TypeOK'
  <2>1. w \in Actors /\ {"failed"} \subseteq Statuses
        /\ {"recheck", "requeue"} \subseteq Steps
    BY DEF Actors, Requests, Statuses, Unsubmitted, Terminal, Steps
  <2>2. Transition(w, "failed", "recheck", "requeue", "requeue", "requeue")
    BY <1>37 DEF ExhaustedFail
  <2>3. QED
    BY <2>1, <2>2, TransitionType
<1>38. ASSUME NEW w \in Workers, Recheck(w) PROVE TypeOK'
  BY <1>38, BatchAssumption DEF TypeOK, job, money, queue, rest, At, Goto, Fault,
     Actors, Requests, Steps, Recheck, Reads
<1>39. ASSUME NEW w \in Workers, Requeue(w) PROVE TypeOK'
  BY <1>39, BatchAssumption DEF TypeOK, job, money, queue, rest, At, Goto, Fault,
     Actors, Requests, Steps, Requeue
<1>40. ASSUME NEW w \in Workers, Ack(w) PROVE TypeOK'
  BY <1>40, BatchAssumption DEF TypeOK, job, money, queue, rest, At, Goto, Fault,
     Actors, Requests, Steps, Ack
<1>41. ASSUME NEW w \in Workers, Unlock(w) PROVE TypeOK'
  BY <1>41, BatchAssumption DEF TypeOK, job, money, queue, rest, At, Goto, Fault,
     Actors, Requests, Steps, Unlock
<1>42. ASSUME NEW w \in Workers, Stall(w) PROVE TypeOK'
  BY <1>42, BatchAssumption DEF TypeOK, job, money, queue, rest, At, Goto, Fault,
     Actors, Requests, Steps, Stall, Beats
<1>43. ASSUME NEW w \in Workers, CrashWorker(w) PROVE TypeOK'
  BY <1>43, BatchAssumption DEF TypeOK, job, money, queue, rest, At, Goto, Fault,
     Actors, Requests, Steps, CrashWorker
<1>44. ASSUME NEW r \in Requests, CrashRequest(r) PROVE TypeOK'
  BY <1>44, BatchAssumption DEF TypeOK, job, money, queue, rest, At, Goto, Fault,
     Actors, Requests, Steps, CrashRequest, Owes, Owing, Submitted
<1>45. CASE UNCHANGED vars
  BY <1>45 DEF vars, TypeOK, job, money, queue, rest
<1>46. QED
  BY <1>1, <1>2, <1>3, <1>4, <1>5, <1>6, <1>7, <1>8, <1>9, <1>10, <1>11,
     <1>12, <1>13, <1>14, <1>15, <1>16, <1>17, <1>18, <1>19, <1>20, <1>21,
     <1>22, <1>23, <1>24, <1>25, <1>26, <1>27, <1>28, <1>29, <1>30, <1>31,
     <1>32, <1>33, <1>34, <1>35, <1>36, <1>37, <1>38, <1>39, <1>40, <1>41,
     <1>42, <1>43, <1>44, <1>45 DEF Next, Foreground, Background, Submit,
     Recover, Answer, Call, Work, Requests

LEMMA TypeInit == Init => TypeOK
<1> SUFFICES ASSUME Init PROVE TypeOK
  OBVIOUS
<1>1. fresh \in BOOLEAN /\ overrun \in BOOLEAN
  BY Zenon DEF Init
<1>2. pc \in [Actors -> Steps]
  BY DEF Init, Steps
<1>3. QED
  BY <1>1, <1>2, HoldAssumption, BatchAssumption DEF Init, TypeOK, Statuses, Unknown, TooMuch

\* Every variable of the job, the money, the queue and the actors has its type.
THEOREM TypeCorrect == Spec => []TypeOK
  BY TypeInit, TypeStep, PTL DEF Spec

-----------------------------------------------------------------------------
(* The steps that touch the money, the queue and the cost. *)

MoneyMoves ==
    \/ ReserveHold \/ ReleaseFailedSubmit \/ RecoverRelease
    \/ \E c \in Callers : CancelRelease(c)
    \/ \E w \in Workers : ReleaseTerminal(w) \/ CaptureHold(w) \/ ExhaustedRelease(w)

QueueMoves ==
    \/ MoveDueDelayed \/ RecoverStaleActive \/ \E a \in Requests : EnqueueJob(a)
    \/ \E w \in Workers : Reserve(w) \/ Requeue(w) \/ Ack(w)

Indexed == \E w \in Workers : Index(w)

Framed ==
    /\ MoneyMoves \/ (UNCHANGED money /\ (At("submit", "recFail")' => At("submit", "recFail")))
    /\ QueueMoves \/ UNCHANGED <<ready, queued>>
    /\ Indexed \/ UNCHANGED cost

\* Only a money move touches the money, or leads Submit to recFail; only a queue move
\* touches the queue; only an indexing sets the cost.
LEMMA Frame == ASSUME TypeOK, [Next]_vars PROVE Framed
<1> USE BatchAssumption
    DEF MoneyMoves, QueueMoves, Indexed, Framed, job, money, queue, rest, At, Goto, TypeOK
<1>1. CASE Submit \/ Recover
  BY <1>1 DEF Submit, Recover, CreateJob, ReserveHold, CreateItems, StartUpload, ProviderSubmit,
              SaveProviderJob, AbortOrphan, EnqueueJob, ReleaseFailedSubmit, RecordSubmitFailure,
              FailStale, RecoverRelease, Transition, ReleaseHold, Requests, Actors
<1>2. ASSUME NEW c \in Callers, Call(c) \/ Answer(c) PROVE Framed
  BY <1>2 DEF Call, Answer, Resubmit, Cancel, CancelUnsubmitted, CancelUpstream, CancelRelease,
              EnqueueJob, Transition, ReleaseHold, Requests, Actors
<1>3. ASSUME NEW w \in Workers, Work(w) \/ Stall(w) \/ CrashWorker(w) PROVE Framed
  BY <1>3 DEF Work, Reserve, AcquireLock, Route, Process, Poll, ApplyAnswer, Index,
              ReleaseTerminal, Settle, CaptureHold, MarkSettled, RecordSettlementFailure,
              ExhaustedRelease, ExhaustedFail, Recheck, Requeue, Ack, Unlock, Stall,
              CrashWorker, Reads, Transition, ReleaseHold, Requests, Actors
<1>4. CASE \/ Background \/ MoveDueDelayed \/ DeleteOutput \/ UNCHANGED vars
           \/ \E r \in Requests : CrashRequest(r)
  BY <1>4 DEF Background, RecoverStaleActive, LockExpires, Age, UpstreamRuns, MoveDueDelayed,
              DeleteOutput, CrashRequest, vars, Requests, Actors
<1>5. QED
  <2> HIDE DEF MoneyMoves, QueueMoves, Indexed, Framed, TypeOK
  <2> QED BY <1>1, <1>2, <1>3, <1>4 DEF Next, Foreground

-----------------------------------------------------------------------------
(* Who may do what to the row.  Submit works on a row that is unsubmitted,  *)
(* unless it was failed or cancelled under it; a worker polls only a        *)
(* submitted row and settles only one that reached settling.                *)

Dead        == {"failed", "cancelled"}
Charged     == {"completed", "output_deleted"}
AtProvider  == {"submitted", "running", "indexing"}
InSubmit    == {"items", "upload", "upstream", "save"}
Before      == InSubmit \cup {"reserve", "relMark", "relOnly", "relFailed", "recFail", "recLost"}
PollSteps   == {"poll", "toRunning", "toIndexing", "toFailed", "toCancelled", "index",
                "toSettling"}
SettleSteps == {"settle", "capture", "mark", "record", "exRelease", "exRecord", "exFail",
                "recheck"}

RowInv ==
    /\ At("submit", "idle") <=> status = "none"
    /\ pc["submit"] \in Before => status \in Unsubmitted \cup Dead
    /\ \A a \in Actors : At(a, "release") => status \in Dead
    /\ \A w \in Workers : pc[w] \in PollSteps => status \notin Unsubmitted \cup {"none"}
    /\ \A w \in Workers : pc[w] \in SettleSteps =>
           status \in {"settling"} \cup Terminal /\ pc["submit"] \notin Before \cup {"idle"}

\* Every step keeps RowInv.
LEMMA RowStep ==
    ASSUME TypeOK, RowInv, [Next]_vars
    PROVE  RowInv'
<1> USE BatchAssumption DEF RowInv, TypeOK, At, Goto, Fault, job, money, queue, rest,
        Actors, Requests, Dead, Charged, InSubmit, Before, PollSteps, SettleSteps,
        Unsubmitted, Terminal
<1>1. CASE CreateJob
  BY <1>1 DEF CreateJob
<1>2. CASE ReserveHold
  BY <1>2 DEF ReserveHold, ReserveTx
<1>3. CASE CreateItems
  BY <1>3 DEF CreateItems
<1>4. CASE StartUpload
  BY <1>4 DEF StartUpload, Transition, CanTransition
<1>5. CASE ProviderSubmit
  BY <1>5 DEF ProviderSubmit
<1>6. CASE SaveProviderJob
  BY <1>6 DEF SaveProviderJob, Transition, CanTransition
<1>7. CASE AbortOrphan
  BY <1>7 DEF AbortOrphan, Submitted
<1>8. CASE ReleaseFailedSubmit
  BY <1>8 DEF ReleaseFailedSubmit, ReleaseHold, ReleaseTx, Releases
<1>9. CASE RecordSubmitFailure
  BY <1>9 DEF RecordSubmitFailure
<1>10. CASE FailStale
  BY <1>10 DEF FailStale
<1>11. CASE RecoverRelease
  BY <1>11 DEF RecoverRelease, ReleaseHold, ReleaseTx, Releases
<1>12. CASE RecoverStaleActive
  BY <1>12 DEF RecoverStaleActive, Beats
<1>13. CASE LockExpires
  BY <1>13 DEF LockExpires
<1>14. CASE Age
  BY <1>14 DEF Age, TooEarly
<1>15. CASE UpstreamRuns
  BY <1>15 DEF UpstreamRuns
<1>16. CASE MoveDueDelayed
  BY <1>16 DEF MoveDueDelayed
<1>17. CASE DeleteOutput
  BY <1>17 DEF DeleteOutput
<1>18. ASSUME NEW a \in Requests, EnqueueJob(a) PROVE RowInv'
  BY <1>18 DEF EnqueueJob, Enqueue
<1>19. ASSUME NEW c \in Callers, Resubmit(c) PROVE RowInv'
  BY <1>19 DEF Resubmit
<1>20. ASSUME NEW c \in Callers, Cancel(c) PROVE RowInv'
  BY <1>20 DEF Cancel, TooEarly
<1>21. ASSUME NEW c \in Callers, CancelUnsubmitted(c) PROVE RowInv'
  BY <1>21 DEF CancelUnsubmitted, Transition, CanTransition
<1>22. ASSUME NEW c \in Callers, CancelUpstream(c) PROVE RowInv'
  BY <1>22 DEF CancelUpstream
<1>23. ASSUME NEW c \in Callers, CancelRelease(c) PROVE RowInv'
  BY <1>23 DEF CancelRelease, ReleaseHold, ReleaseTx, Releases
<1>24. ASSUME NEW w \in Workers, Reserve(w) PROVE RowInv'
  BY <1>24 DEF Reserve
<1>25. ASSUME NEW w \in Workers, AcquireLock(w) PROVE RowInv'
  BY <1>25 DEF AcquireLock
<1>26. ASSUME NEW w \in Workers, Route(w) PROVE RowInv'
  BY <1>26 DEF Route, Reads
<1>27. ASSUME NEW w \in Workers, Process(w) PROVE RowInv'
  BY <1>27 DEF Process, Reads
<1>28. ASSUME NEW w \in Workers, Poll(w) PROVE RowInv'
  BY <1>28 DEF Poll
<1>29. ASSUME NEW w \in Workers, ApplyAnswer(w) PROVE RowInv'
  BY <1>29 DEF ApplyAnswer, Transition, CanTransition
<1>30. ASSUME NEW w \in Workers, Index(w) PROVE RowInv'
  BY <1>30 DEF Index, TooMuch
<1>31. ASSUME NEW w \in Workers, ReleaseTerminal(w) PROVE RowInv'
  BY <1>31 DEF ReleaseTerminal, ReleaseHold, ReleaseTx, Releases
<1>32. ASSUME NEW w \in Workers, Settle(w) PROVE RowInv'
  BY <1>32 DEF Settle, Reads
<1>33. ASSUME NEW w \in Workers, CaptureHold(w) PROVE RowInv'
  BY <1>33 DEF CaptureHold, CaptureTx, CanCapture
<1>34. ASSUME NEW w \in Workers, MarkSettled(w) PROVE RowInv'
  BY <1>34 DEF MarkSettled
<1>35. ASSUME NEW w \in Workers, RecordSettlementFailure(w) PROVE RowInv'
  BY <1>35 DEF RecordSettlementFailure
<1>36. ASSUME NEW w \in Workers, ExhaustedRelease(w) PROVE RowInv'
  BY <1>36 DEF ExhaustedRelease, ReleaseHold, ReleaseTx, Releases
<1>37. ASSUME NEW w \in Workers, ExhaustedFail(w) PROVE RowInv'
  BY <1>37 DEF ExhaustedFail, Transition, CanTransition
<1>38. ASSUME NEW w \in Workers, Recheck(w) PROVE RowInv'
  BY <1>38 DEF Recheck, Reads
<1>39. ASSUME NEW w \in Workers, Requeue(w) PROVE RowInv'
  BY <1>39 DEF Requeue
<1>40. ASSUME NEW w \in Workers, Ack(w) PROVE RowInv'
  BY <1>40 DEF Ack
<1>41. ASSUME NEW w \in Workers, Unlock(w) PROVE RowInv'
  BY <1>41 DEF Unlock
<1>42. ASSUME NEW w \in Workers, Stall(w) PROVE RowInv'
  BY <1>42 DEF Stall, Beats
<1>43. ASSUME NEW w \in Workers, CrashWorker(w) PROVE RowInv'
  BY <1>43 DEF CrashWorker
<1>44. ASSUME NEW r \in Requests, CrashRequest(r) PROVE RowInv'
  BY <1>44 DEF CrashRequest, Owes, Owing, Submitted
<1>45. CASE UNCHANGED vars
  BY <1>45 DEF vars, job, money, queue, rest
<1>46. QED
  BY <1>1, <1>2, <1>3, <1>4, <1>5, <1>6, <1>7, <1>8, <1>9, <1>10, <1>11,
     <1>12, <1>13, <1>14, <1>15, <1>16, <1>17, <1>18, <1>19, <1>20, <1>21,
     <1>22, <1>23, <1>24, <1>25, <1>26, <1>27, <1>28, <1>29, <1>30, <1>31,
     <1>32, <1>33, <1>34, <1>35, <1>36, <1>37, <1>38, <1>39, <1>40, <1>41,
     <1>42, <1>43, <1>44, <1>45 DEF Next, Foreground, Background, Submit,
     Recover, Answer, Call, Work, Requests

-----------------------------------------------------------------------------
(* A submitted batch is held: from the reservation to the provider's answer *)
(* nobody but Submit touches the money.                                     *)

HeldInv ==
    /\ pc["submit"] \in {"idle", "reserve"} =>
           claims \subseteq {"release"} /\ frozen = OtherFrozen /\ taken = 0
    /\ pc["submit"] \in InSubmit /\ status \in Unsubmitted => frozen = OtherFrozen + Hold
    /\ status \in AtProvider => frozen = OtherFrozen + Hold
    /\ \/ pc["submit"] \in InSubmit \/ status \in AtProvider \cup {"settling"} \cup Charged
       \/ \E w \in Workers : pc[w] \in SettleSteps
       => "hold" \in claims

\* Every step keeps HeldInv.
LEMMA HeldStep ==
    ASSUME TypeOK, RowInv, HeldInv, [Next]_vars
    PROVE  HeldInv'
<1> USE HoldAssumption, BatchAssumption DEF RowInv, HeldInv, TypeOK, At, Goto, Fault,
        job, money, queue, rest, Actors, Requests, Dead, Charged, AtProvider, InSubmit,
        Before, SettleSteps, Unsubmitted, Terminal
<1>1. CASE CreateJob
  BY <1>1 DEF CreateJob
<1>2. CASE ReserveHold
  BY <1>2 DEF ReserveHold, ReserveTx
<1>3. CASE CreateItems
  BY <1>3 DEF CreateItems
<1>4. CASE StartUpload
  BY <1>4 DEF StartUpload, Transition, CanTransition
<1>5. CASE ProviderSubmit
  BY <1>5 DEF ProviderSubmit
<1>6. CASE SaveProviderJob
  BY <1>6 DEF SaveProviderJob, Transition, CanTransition
<1>7. CASE AbortOrphan
  BY <1>7 DEF AbortOrphan, Submitted
<1>8. CASE ReleaseFailedSubmit
  BY <1>8 DEF ReleaseFailedSubmit, ReleaseHold, ReleaseTx, Releases
<1>9. CASE RecordSubmitFailure
  BY <1>9 DEF RecordSubmitFailure
<1>10. CASE FailStale
  BY <1>10 DEF FailStale
<1>11. CASE RecoverRelease
  BY <1>11 DEF RecoverRelease, ReleaseHold, ReleaseTx, Releases
<1>12. CASE RecoverStaleActive
  BY <1>12 DEF RecoverStaleActive, Beats
<1>13. CASE LockExpires
  BY <1>13 DEF LockExpires
<1>14. CASE Age
  BY <1>14 DEF Age, TooEarly
<1>15. CASE UpstreamRuns
  BY <1>15 DEF UpstreamRuns
<1>16. CASE MoveDueDelayed
  BY <1>16 DEF MoveDueDelayed
<1>17. CASE DeleteOutput
  BY <1>17 DEF DeleteOutput
<1>18. ASSUME NEW a \in Requests, EnqueueJob(a) PROVE HeldInv'
  BY <1>18 DEF EnqueueJob, Enqueue
<1>19. ASSUME NEW c \in Callers, Resubmit(c) PROVE HeldInv'
  BY <1>19 DEF Resubmit
<1>20. ASSUME NEW c \in Callers, Cancel(c) PROVE HeldInv'
  BY <1>20 DEF Cancel, TooEarly
<1>21. ASSUME NEW c \in Callers, CancelUnsubmitted(c) PROVE HeldInv'
  BY <1>21 DEF CancelUnsubmitted, Transition, CanTransition
<1>22. ASSUME NEW c \in Callers, CancelUpstream(c) PROVE HeldInv'
  BY <1>22 DEF CancelUpstream
<1>23. ASSUME NEW c \in Callers, CancelRelease(c) PROVE HeldInv'
  BY <1>23 DEF CancelRelease, ReleaseHold, ReleaseTx, Releases
<1>24. ASSUME NEW w \in Workers, Reserve(w) PROVE HeldInv'
  BY <1>24 DEF Reserve
<1>25. ASSUME NEW w \in Workers, AcquireLock(w) PROVE HeldInv'
  BY <1>25 DEF AcquireLock
<1>26. ASSUME NEW w \in Workers, Route(w) PROVE HeldInv'
  BY <1>26 DEF Route, Reads
<1>27. ASSUME NEW w \in Workers, Process(w) PROVE HeldInv'
  BY <1>27 DEF Process, Reads
<1>28. ASSUME NEW w \in Workers, Poll(w) PROVE HeldInv'
  BY <1>28 DEF Poll
<1>29. ASSUME NEW w \in Workers, ApplyAnswer(w) PROVE HeldInv'
  BY <1>29 DEF ApplyAnswer, Transition, CanTransition
<1>30. ASSUME NEW w \in Workers, Index(w) PROVE HeldInv'
  BY <1>30 DEF Index, TooMuch
<1>31. ASSUME NEW w \in Workers, ReleaseTerminal(w) PROVE HeldInv'
  BY <1>31 DEF ReleaseTerminal, ReleaseHold, ReleaseTx, Releases
<1>32. ASSUME NEW w \in Workers, Settle(w) PROVE HeldInv'
  BY <1>32 DEF Settle, Reads
<1>33. ASSUME NEW w \in Workers, CaptureHold(w) PROVE HeldInv'
  BY <1>33 DEF CaptureHold, CaptureTx, CanCapture
<1>34. ASSUME NEW w \in Workers, MarkSettled(w) PROVE HeldInv'
  BY <1>34 DEF MarkSettled
<1>35. ASSUME NEW w \in Workers, RecordSettlementFailure(w) PROVE HeldInv'
  BY <1>35 DEF RecordSettlementFailure
<1>36. ASSUME NEW w \in Workers, ExhaustedRelease(w) PROVE HeldInv'
  BY <1>36 DEF ExhaustedRelease, ReleaseHold, ReleaseTx, Releases
<1>37. ASSUME NEW w \in Workers, ExhaustedFail(w) PROVE HeldInv'
  BY <1>37 DEF ExhaustedFail, Transition, CanTransition
<1>38. ASSUME NEW w \in Workers, Recheck(w) PROVE HeldInv'
  BY <1>38 DEF Recheck, Reads
<1>39. ASSUME NEW w \in Workers, Requeue(w) PROVE HeldInv'
  BY <1>39 DEF Requeue
<1>40. ASSUME NEW w \in Workers, Ack(w) PROVE HeldInv'
  BY <1>40 DEF Ack
<1>41. ASSUME NEW w \in Workers, Unlock(w) PROVE HeldInv'
  BY <1>41 DEF Unlock
<1>42. ASSUME NEW w \in Workers, Stall(w) PROVE HeldInv'
  BY <1>42 DEF Stall, Beats
<1>43. ASSUME NEW w \in Workers, CrashWorker(w) PROVE HeldInv'
  BY <1>43 DEF CrashWorker
<1>44. ASSUME NEW r \in Requests, CrashRequest(r) PROVE HeldInv'
  BY <1>44 DEF CrashRequest, Owes, Owing, Submitted
<1>45. CASE UNCHANGED vars
  BY <1>45 DEF vars, job, money, queue, rest
<1>46. QED
  BY <1>1, <1>2, <1>3, <1>4, <1>5, <1>6, <1>7, <1>8, <1>9, <1>10, <1>11,
     <1>12, <1>13, <1>14, <1>15, <1>16, <1>17, <1>18, <1>19, <1>20, <1>21,
     <1>22, <1>23, <1>24, <1>25, <1>26, <1>27, <1>28, <1>29, <1>30, <1>31,
     <1>32, <1>33, <1>34, <1>35, <1>36, <1>37, <1>38, <1>39, <1>40, <1>41,
     <1>42, <1>43, <1>44, <1>45 DEF Next, Foreground, Background, Submit,
     Recover, Answer, Call, Work, Requests

-----------------------------------------------------------------------------
(* Nothing is captured before the output's cost is known, and no batch is   *)
(* completed before its capture.                                            *)

CostInv ==
    /\ \A w \in Workers : pc[w] \in {"toSettling", "settle", "capture"} => cost # Unknown
    /\ status \in Charged \cup {"settling"} => cost # Unknown
    /\ "capture" \in claims => cost # Unknown
    /\ \A w \in Workers : At(w, "mark") => "capture" \in claims
    /\ status \in Charged => "capture" \in claims

\* Every step keeps CostInv.
LEMMA CostStep ==
    ASSUME TypeOK, RowInv, CostInv, [Next]_vars
    PROVE  CostInv'
<1> USE HoldAssumption, BatchAssumption DEF RowInv, CostInv, TypeOK, At, Goto, Fault,
        job, money, queue, rest, Actors, Requests, Unknown, Dead, Charged,
        SettleSteps, Before, Unsubmitted, Terminal
<1>1. CASE CreateJob
  BY <1>1 DEF CreateJob
<1>2. CASE ReserveHold
  BY <1>2 DEF ReserveHold, ReserveTx
<1>3. CASE CreateItems
  BY <1>3 DEF CreateItems
<1>4. CASE StartUpload
  BY <1>4 DEF StartUpload, Transition, CanTransition
<1>5. CASE ProviderSubmit
  BY <1>5 DEF ProviderSubmit
<1>6. CASE SaveProviderJob
  BY <1>6 DEF SaveProviderJob, Transition, CanTransition
<1>7. CASE AbortOrphan
  BY <1>7 DEF AbortOrphan, Submitted
<1>8. CASE ReleaseFailedSubmit
  BY <1>8 DEF ReleaseFailedSubmit, ReleaseHold, ReleaseTx, Releases
<1>9. CASE RecordSubmitFailure
  BY <1>9 DEF RecordSubmitFailure
<1>10. CASE FailStale
  BY <1>10 DEF FailStale
<1>11. CASE RecoverRelease
  BY <1>11 DEF RecoverRelease, ReleaseHold, ReleaseTx, Releases
<1>12. CASE RecoverStaleActive
  BY <1>12 DEF RecoverStaleActive, Beats
<1>13. CASE LockExpires
  BY <1>13 DEF LockExpires
<1>14. CASE Age
  BY <1>14 DEF Age, TooEarly
<1>15. CASE UpstreamRuns
  BY <1>15 DEF UpstreamRuns
<1>16. CASE MoveDueDelayed
  BY <1>16 DEF MoveDueDelayed
<1>17. CASE DeleteOutput
  BY <1>17 DEF DeleteOutput
<1>18. ASSUME NEW a \in Requests, EnqueueJob(a) PROVE CostInv'
  BY <1>18 DEF EnqueueJob, Enqueue
<1>19. ASSUME NEW c \in Callers, Resubmit(c) PROVE CostInv'
  BY <1>19 DEF Resubmit
<1>20. ASSUME NEW c \in Callers, Cancel(c) PROVE CostInv'
  BY <1>20 DEF Cancel, TooEarly
<1>21. ASSUME NEW c \in Callers, CancelUnsubmitted(c) PROVE CostInv'
  BY <1>21 DEF CancelUnsubmitted, Transition, CanTransition
<1>22. ASSUME NEW c \in Callers, CancelUpstream(c) PROVE CostInv'
  BY <1>22 DEF CancelUpstream
<1>23. ASSUME NEW c \in Callers, CancelRelease(c) PROVE CostInv'
  BY <1>23 DEF CancelRelease, ReleaseHold, ReleaseTx, Releases
<1>24. ASSUME NEW w \in Workers, Reserve(w) PROVE CostInv'
  BY <1>24 DEF Reserve
<1>25. ASSUME NEW w \in Workers, AcquireLock(w) PROVE CostInv'
  BY <1>25 DEF AcquireLock
<1>26. ASSUME NEW w \in Workers, Route(w) PROVE CostInv'
  BY <1>26 DEF Route, Reads
<1>27. ASSUME NEW w \in Workers, Process(w) PROVE CostInv'
  BY <1>27 DEF Process, Reads
<1>28. ASSUME NEW w \in Workers, Poll(w) PROVE CostInv'
  BY <1>28 DEF Poll
<1>29. ASSUME NEW w \in Workers, ApplyAnswer(w) PROVE CostInv'
  BY <1>29 DEF ApplyAnswer, Transition, CanTransition
<1>30. ASSUME NEW w \in Workers, Index(w) PROVE CostInv'
  BY <1>30 DEF Index, TooMuch
<1>31. ASSUME NEW w \in Workers, ReleaseTerminal(w) PROVE CostInv'
  BY <1>31 DEF ReleaseTerminal, ReleaseHold, ReleaseTx, Releases
<1>32. ASSUME NEW w \in Workers, Settle(w) PROVE CostInv'
  BY <1>32 DEF Settle, Reads
<1>33. ASSUME NEW w \in Workers, CaptureHold(w) PROVE CostInv'
  BY <1>33 DEF CaptureHold, CaptureTx, CanCapture
<1>34. ASSUME NEW w \in Workers, MarkSettled(w) PROVE CostInv'
  BY <1>34 DEF MarkSettled
<1>35. ASSUME NEW w \in Workers, RecordSettlementFailure(w) PROVE CostInv'
  BY <1>35 DEF RecordSettlementFailure
<1>36. ASSUME NEW w \in Workers, ExhaustedRelease(w) PROVE CostInv'
  BY <1>36 DEF ExhaustedRelease, ReleaseHold, ReleaseTx, Releases
<1>37. ASSUME NEW w \in Workers, ExhaustedFail(w) PROVE CostInv'
  BY <1>37 DEF ExhaustedFail, Transition, CanTransition
<1>38. ASSUME NEW w \in Workers, Recheck(w) PROVE CostInv'
  BY <1>38 DEF Recheck, Reads
<1>39. ASSUME NEW w \in Workers, Requeue(w) PROVE CostInv'
  BY <1>39 DEF Requeue
<1>40. ASSUME NEW w \in Workers, Ack(w) PROVE CostInv'
  BY <1>40 DEF Ack
<1>41. ASSUME NEW w \in Workers, Unlock(w) PROVE CostInv'
  BY <1>41 DEF Unlock
<1>42. ASSUME NEW w \in Workers, Stall(w) PROVE CostInv'
  BY <1>42 DEF Stall, Beats
<1>43. ASSUME NEW w \in Workers, CrashWorker(w) PROVE CostInv'
  BY <1>43 DEF CrashWorker
<1>44. ASSUME NEW r \in Requests, CrashRequest(r) PROVE CostInv'
  BY <1>44 DEF CrashRequest, Owes, Owing, Submitted
<1>45. CASE UNCHANGED vars
  BY <1>45 DEF vars, job, money, queue, rest
<1>46. QED
  BY <1>1, <1>2, <1>3, <1>4, <1>5, <1>6, <1>7, <1>8, <1>9, <1>10, <1>11,
     <1>12, <1>13, <1>14, <1>15, <1>16, <1>17, <1>18, <1>19, <1>20, <1>21,
     <1>22, <1>23, <1>24, <1>25, <1>26, <1>27, <1>28, <1>29, <1>30, <1>31,
     <1>32, <1>33, <1>34, <1>35, <1>36, <1>37, <1>38, <1>39, <1>40, <1>41,
     <1>42, <1>43, <1>44, <1>45 DEF Next, Foreground, Background, Submit,
     Recover, Answer, Call, Work, Requests

-----------------------------------------------------------------------------
(* The job lock. *)

LockedSteps == {"route", "process", "release", "ack"} \cup PollSteps \cup SettleSteps

\* As long as no living worker lost its lock, one worker at a time has the job.
Exclusive == ~overrun => \A w \in Workers : pc[w] \in LockedSteps => lock = w

\* Every step keeps the lock exclusive.
LEMMA LockStep ==
    ASSUME TypeOK, Exclusive, [Next]_vars
    PROVE  Exclusive'
<1> USE BatchAssumption DEF Exclusive, LockedSteps, PollSteps, SettleSteps, TypeOK,
        At, Goto, Fault, job, money, queue, rest, Actors, Requests
<1>1. CASE CreateJob
  BY <1>1 DEF CreateJob
<1>2. CASE ReserveHold
  BY <1>2 DEF ReserveHold, ReserveTx
<1>3. CASE CreateItems
  BY <1>3 DEF CreateItems
<1>4. CASE StartUpload
  BY <1>4 DEF StartUpload, Transition, CanTransition
<1>5. CASE ProviderSubmit
  BY <1>5 DEF ProviderSubmit
<1>6. CASE SaveProviderJob
  BY <1>6 DEF SaveProviderJob, Transition, CanTransition
<1>7. CASE AbortOrphan
  BY <1>7 DEF AbortOrphan, Submitted
<1>8. CASE ReleaseFailedSubmit
  BY <1>8 DEF ReleaseFailedSubmit, ReleaseHold, ReleaseTx, Releases
<1>9. CASE RecordSubmitFailure
  BY <1>9 DEF RecordSubmitFailure
<1>10. CASE FailStale
  BY <1>10 DEF FailStale
<1>11. CASE RecoverRelease
  BY <1>11 DEF RecoverRelease, ReleaseHold, ReleaseTx, Releases
<1>12. CASE RecoverStaleActive
  BY <1>12 DEF RecoverStaleActive, Beats
<1>13. CASE LockExpires
  BY <1>13 DEF LockExpires
<1>14. CASE Age
  BY <1>14 DEF Age, TooEarly
<1>15. CASE UpstreamRuns
  BY <1>15 DEF UpstreamRuns
<1>16. CASE MoveDueDelayed
  BY <1>16 DEF MoveDueDelayed
<1>17. CASE DeleteOutput
  BY <1>17 DEF DeleteOutput
<1>18. ASSUME NEW a \in Requests, EnqueueJob(a) PROVE Exclusive'
  BY <1>18 DEF EnqueueJob, Enqueue
<1>19. ASSUME NEW c \in Callers, Resubmit(c) PROVE Exclusive'
  BY <1>19 DEF Resubmit
<1>20. ASSUME NEW c \in Callers, Cancel(c) PROVE Exclusive'
  BY <1>20 DEF Cancel, TooEarly
<1>21. ASSUME NEW c \in Callers, CancelUnsubmitted(c) PROVE Exclusive'
  BY <1>21 DEF CancelUnsubmitted, Transition, CanTransition
<1>22. ASSUME NEW c \in Callers, CancelUpstream(c) PROVE Exclusive'
  BY <1>22 DEF CancelUpstream
<1>23. ASSUME NEW c \in Callers, CancelRelease(c) PROVE Exclusive'
  BY <1>23 DEF CancelRelease, ReleaseHold, ReleaseTx, Releases
<1>24. ASSUME NEW w \in Workers, Reserve(w) PROVE Exclusive'
  BY <1>24 DEF Reserve
<1>25. ASSUME NEW w \in Workers, AcquireLock(w) PROVE Exclusive'
  BY <1>25 DEF AcquireLock
<1>26. ASSUME NEW w \in Workers, Route(w) PROVE Exclusive'
  BY <1>26 DEF Route, Reads
<1>27. ASSUME NEW w \in Workers, Process(w) PROVE Exclusive'
  BY <1>27 DEF Process, Reads
<1>28. ASSUME NEW w \in Workers, Poll(w) PROVE Exclusive'
  BY <1>28 DEF Poll
<1>29. ASSUME NEW w \in Workers, ApplyAnswer(w) PROVE Exclusive'
  BY <1>29 DEF ApplyAnswer, Transition, CanTransition
<1>30. ASSUME NEW w \in Workers, Index(w) PROVE Exclusive'
  BY <1>30 DEF Index, TooMuch
<1>31. ASSUME NEW w \in Workers, ReleaseTerminal(w) PROVE Exclusive'
  BY <1>31 DEF ReleaseTerminal, ReleaseHold, ReleaseTx, Releases
<1>32. ASSUME NEW w \in Workers, Settle(w) PROVE Exclusive'
  BY <1>32 DEF Settle, Reads
<1>33. ASSUME NEW w \in Workers, CaptureHold(w) PROVE Exclusive'
  BY <1>33 DEF CaptureHold, CaptureTx, CanCapture
<1>34. ASSUME NEW w \in Workers, MarkSettled(w) PROVE Exclusive'
  BY <1>34 DEF MarkSettled
<1>35. ASSUME NEW w \in Workers, RecordSettlementFailure(w) PROVE Exclusive'
  BY <1>35 DEF RecordSettlementFailure
<1>36. ASSUME NEW w \in Workers, ExhaustedRelease(w) PROVE Exclusive'
  BY <1>36 DEF ExhaustedRelease, ReleaseHold, ReleaseTx, Releases
<1>37. ASSUME NEW w \in Workers, ExhaustedFail(w) PROVE Exclusive'
  BY <1>37 DEF ExhaustedFail, Transition, CanTransition
<1>38. ASSUME NEW w \in Workers, Recheck(w) PROVE Exclusive'
  BY <1>38 DEF Recheck, Reads
<1>39. ASSUME NEW w \in Workers, Requeue(w) PROVE Exclusive'
  BY <1>39 DEF Requeue
<1>40. ASSUME NEW w \in Workers, Ack(w) PROVE Exclusive'
  BY <1>40 DEF Ack
<1>41. ASSUME NEW w \in Workers, Unlock(w) PROVE Exclusive'
  BY <1>41 DEF Unlock
<1>42. ASSUME NEW w \in Workers, Stall(w) PROVE Exclusive'
  BY <1>42 DEF Stall, Beats
<1>43. ASSUME NEW w \in Workers, CrashWorker(w) PROVE Exclusive'
  BY <1>43 DEF CrashWorker
<1>44. ASSUME NEW r \in Requests, CrashRequest(r) PROVE Exclusive'
  BY <1>44 DEF CrashRequest, Owes, Owing, Submitted
<1>45. CASE UNCHANGED vars
  BY <1>45 DEF vars, job, money, queue, rest
<1>46. QED
  BY <1>1, <1>2, <1>3, <1>4, <1>5, <1>6, <1>7, <1>8, <1>9, <1>10, <1>11,
     <1>12, <1>13, <1>14, <1>15, <1>16, <1>17, <1>18, <1>19, <1>20, <1>21,
     <1>22, <1>23, <1>24, <1>25, <1>26, <1>27, <1>28, <1>29, <1>30, <1>31,
     <1>32, <1>33, <1>34, <1>35, <1>36, <1>37, <1>38, <1>39, <1>40, <1>41,
     <1>42, <1>43, <1>44, <1>45 DEF Next, Foreground, Background, Submit,
     Recover, Answer, Call, Work, Requests

-----------------------------------------------------------------------------
(* The way out of the hold.  Captures and releases compare it only with what *)
(* all of the user's batches have frozen, so what keeps a second way out     *)
(* shut is the row, the job lock and the claims, not the balance.            *)

\* Only a settlement whose retries are used up reaches the exhausted exit.
Exhausting ==
    \A w \in Workers : pc[w] \in {"exRelease", "exRecord", "exFail"} => retries = MaxRetries

\* Every step keeps Exhausting.
LEMMA ExhaustingStep ==
    ASSUME TypeOK, Exhausting, [Next]_vars
    PROVE  Exhausting'
<1> USE BatchAssumption DEF Exhausting, TypeOK, At, Goto, Fault, job, money, queue, rest,
        Actors, Requests
<1>1. CASE CreateJob
  BY <1>1 DEF CreateJob
<1>2. CASE ReserveHold
  BY <1>2 DEF ReserveHold, ReserveTx
<1>3. CASE CreateItems
  BY <1>3 DEF CreateItems
<1>4. CASE StartUpload
  BY <1>4 DEF StartUpload, Transition, CanTransition
<1>5. CASE ProviderSubmit
  BY <1>5 DEF ProviderSubmit
<1>6. CASE SaveProviderJob
  BY <1>6 DEF SaveProviderJob, Transition, CanTransition
<1>7. CASE AbortOrphan
  BY <1>7 DEF AbortOrphan, Submitted
<1>8. CASE ReleaseFailedSubmit
  BY <1>8 DEF ReleaseFailedSubmit, ReleaseHold, ReleaseTx, Releases
<1>9. CASE RecordSubmitFailure
  BY <1>9 DEF RecordSubmitFailure
<1>10. CASE FailStale
  BY <1>10 DEF FailStale
<1>11. CASE RecoverRelease
  BY <1>11 DEF RecoverRelease, ReleaseHold, ReleaseTx, Releases
<1>12. CASE RecoverStaleActive
  BY <1>12 DEF RecoverStaleActive, Beats
<1>13. CASE LockExpires
  BY <1>13 DEF LockExpires
<1>14. CASE Age
  BY <1>14 DEF Age, TooEarly
<1>15. CASE UpstreamRuns
  BY <1>15 DEF UpstreamRuns
<1>16. CASE MoveDueDelayed
  BY <1>16 DEF MoveDueDelayed
<1>17. CASE DeleteOutput
  BY <1>17 DEF DeleteOutput
<1>18. ASSUME NEW a \in Requests, EnqueueJob(a) PROVE Exhausting'
  BY <1>18 DEF EnqueueJob, Enqueue
<1>19. ASSUME NEW c \in Callers, Resubmit(c) PROVE Exhausting'
  BY <1>19 DEF Resubmit
<1>20. ASSUME NEW c \in Callers, Cancel(c) PROVE Exhausting'
  BY <1>20 DEF Cancel, TooEarly
<1>21. ASSUME NEW c \in Callers, CancelUnsubmitted(c) PROVE Exhausting'
  BY <1>21 DEF CancelUnsubmitted, Transition, CanTransition
<1>22. ASSUME NEW c \in Callers, CancelUpstream(c) PROVE Exhausting'
  BY <1>22 DEF CancelUpstream
<1>23. ASSUME NEW c \in Callers, CancelRelease(c) PROVE Exhausting'
  BY <1>23 DEF CancelRelease, ReleaseHold, ReleaseTx, Releases
<1>24. ASSUME NEW w \in Workers, Reserve(w) PROVE Exhausting'
  BY <1>24 DEF Reserve
<1>25. ASSUME NEW w \in Workers, AcquireLock(w) PROVE Exhausting'
  BY <1>25 DEF AcquireLock
<1>26. ASSUME NEW w \in Workers, Route(w) PROVE Exhausting'
  BY <1>26 DEF Route, Reads
<1>27. ASSUME NEW w \in Workers, Process(w) PROVE Exhausting'
  BY <1>27 DEF Process, Reads
<1>28. ASSUME NEW w \in Workers, Poll(w) PROVE Exhausting'
  BY <1>28 DEF Poll
<1>29. ASSUME NEW w \in Workers, ApplyAnswer(w) PROVE Exhausting'
  BY <1>29 DEF ApplyAnswer, Transition, CanTransition
<1>30. ASSUME NEW w \in Workers, Index(w) PROVE Exhausting'
  BY <1>30 DEF Index, TooMuch
<1>31. ASSUME NEW w \in Workers, ReleaseTerminal(w) PROVE Exhausting'
  BY <1>31 DEF ReleaseTerminal, ReleaseHold, ReleaseTx, Releases
<1>32. ASSUME NEW w \in Workers, Settle(w) PROVE Exhausting'
  BY <1>32 DEF Settle, Reads
<1>33. ASSUME NEW w \in Workers, CaptureHold(w) PROVE Exhausting'
  BY <1>33 DEF CaptureHold, CaptureTx, CanCapture
<1>34. ASSUME NEW w \in Workers, MarkSettled(w) PROVE Exhausting'
  BY <1>34 DEF MarkSettled
<1>35. ASSUME NEW w \in Workers, RecordSettlementFailure(w) PROVE Exhausting'
  BY <1>35 DEF RecordSettlementFailure
<1>36. ASSUME NEW w \in Workers, ExhaustedRelease(w) PROVE Exhausting'
  BY <1>36 DEF ExhaustedRelease, ReleaseHold, ReleaseTx, Releases
<1>37. ASSUME NEW w \in Workers, ExhaustedFail(w) PROVE Exhausting'
  BY <1>37 DEF ExhaustedFail, Transition, CanTransition
<1>38. ASSUME NEW w \in Workers, Recheck(w) PROVE Exhausting'
  BY <1>38 DEF Recheck, Reads
<1>39. ASSUME NEW w \in Workers, Requeue(w) PROVE Exhausting'
  BY <1>39 DEF Requeue
<1>40. ASSUME NEW w \in Workers, Ack(w) PROVE Exhausting'
  BY <1>40 DEF Ack
<1>41. ASSUME NEW w \in Workers, Unlock(w) PROVE Exhausting'
  BY <1>41 DEF Unlock
<1>42. ASSUME NEW w \in Workers, Stall(w) PROVE Exhausting'
  BY <1>42 DEF Stall, Beats
<1>43. ASSUME NEW w \in Workers, CrashWorker(w) PROVE Exhausting'
  BY <1>43 DEF CrashWorker
<1>44. ASSUME NEW r \in Requests, CrashRequest(r) PROVE Exhausting'
  BY <1>44 DEF CrashRequest, Owes, Owing, Submitted
<1>45. CASE UNCHANGED vars
  BY <1>45 DEF vars, job, money, queue, rest
<1>46. QED
  BY <1>1, <1>2, <1>3, <1>4, <1>5, <1>6, <1>7, <1>8, <1>9, <1>10, <1>11,
     <1>12, <1>13, <1>14, <1>15, <1>16, <1>17, <1>18, <1>19, <1>20, <1>21,
     <1>22, <1>23, <1>24, <1>25, <1>26, <1>27, <1>28, <1>29, <1>30, <1>31,
     <1>32, <1>33, <1>34, <1>35, <1>36, <1>37, <1>38, <1>39, <1>40, <1>41,
     <1>42, <1>43, <1>44, <1>45 DEF Next, Foreground, Background, Submit,
     Recover, Answer, Call, Work, Requests

\* While no living worker lost its lock, the worker that polls the job and the one
\* that settles it are one, and a settlement that was given up is not completed.
OneWorker ==
    ~overrun =>
        /\ \A w \in Workers :
               /\ At(w, "process") \/ pc[w] \in PollSteps => status # "settling"
               /\ pc[w] \in PollSteps => status \notin Charged
               /\ pc[w] \in SettleSteps \ {"recheck"} => status = "settling"
               /\ pc[w] \in {"capture", "mark"} => retries < MaxRetries
        /\ status \in Charged => retries < MaxRetries

\* Every step keeps OneWorker.
LEMMA OneWorkerStep ==
    ASSUME TypeOK, RowInv, Exclusive, OneWorker, [Next]_vars
    PROVE  OneWorker'
<1> USE HoldAssumption, BatchAssumption DEF RowInv, Exclusive, LockedSteps, OneWorker,
        TypeOK, At, Goto, Fault, job, money, queue, rest, Actors, Requests, PollSteps,
        SettleSteps, Before, InSubmit, Dead, Charged, AtProvider, Unsubmitted, Terminal
<1>1. CASE CreateJob
  BY <1>1 DEF CreateJob
<1>2. CASE ReserveHold
  BY <1>2 DEF ReserveHold, ReserveTx
<1>3. CASE CreateItems
  BY <1>3 DEF CreateItems
<1>4. CASE StartUpload
  BY <1>4 DEF StartUpload, Transition, CanTransition
<1>5. CASE ProviderSubmit
  BY <1>5 DEF ProviderSubmit
<1>6. CASE SaveProviderJob
  BY <1>6 DEF SaveProviderJob, Transition, CanTransition
<1>7. CASE AbortOrphan
  BY <1>7 DEF AbortOrphan, Submitted
<1>8. CASE ReleaseFailedSubmit
  BY <1>8 DEF ReleaseFailedSubmit, ReleaseHold, ReleaseTx, Releases
<1>9. CASE RecordSubmitFailure
  BY <1>9 DEF RecordSubmitFailure
<1>10. CASE FailStale
  BY <1>10 DEF FailStale
<1>11. CASE RecoverRelease
  BY <1>11 DEF RecoverRelease, ReleaseHold, ReleaseTx, Releases
<1>12. CASE RecoverStaleActive
  BY <1>12 DEF RecoverStaleActive, Beats
<1>13. CASE LockExpires
  BY <1>13 DEF LockExpires
<1>14. CASE Age
  BY <1>14 DEF Age, TooEarly
<1>15. CASE UpstreamRuns
  BY <1>15 DEF UpstreamRuns
<1>16. CASE MoveDueDelayed
  BY <1>16 DEF MoveDueDelayed
<1>17. CASE DeleteOutput
  BY <1>17 DEF DeleteOutput
<1>18. ASSUME NEW a \in Requests, EnqueueJob(a) PROVE OneWorker'
  BY <1>18 DEF EnqueueJob, Enqueue
<1>19. ASSUME NEW c \in Callers, Resubmit(c) PROVE OneWorker'
  BY <1>19 DEF Resubmit
<1>20. ASSUME NEW c \in Callers, Cancel(c) PROVE OneWorker'
  BY <1>20 DEF Cancel, TooEarly
<1>21. ASSUME NEW c \in Callers, CancelUnsubmitted(c) PROVE OneWorker'
  BY <1>21 DEF CancelUnsubmitted, Transition, CanTransition
<1>22. ASSUME NEW c \in Callers, CancelUpstream(c) PROVE OneWorker'
  BY <1>22 DEF CancelUpstream
<1>23. ASSUME NEW c \in Callers, CancelRelease(c) PROVE OneWorker'
  BY <1>23 DEF CancelRelease, ReleaseHold, ReleaseTx, Releases
<1>24. ASSUME NEW w \in Workers, Reserve(w) PROVE OneWorker'
  BY <1>24 DEF Reserve
<1>25. ASSUME NEW w \in Workers, AcquireLock(w) PROVE OneWorker'
  BY <1>25 DEF AcquireLock
<1>26. ASSUME NEW w \in Workers, Route(w) PROVE OneWorker'
  BY <1>26 DEF Route, Reads
<1>27. ASSUME NEW w \in Workers, Process(w) PROVE OneWorker'
  BY <1>27 DEF Process, Reads
<1>28. ASSUME NEW w \in Workers, Poll(w) PROVE OneWorker'
  BY <1>28 DEF Poll
<1>29. ASSUME NEW w \in Workers, ApplyAnswer(w) PROVE OneWorker'
  BY <1>29 DEF ApplyAnswer, Transition, CanTransition
<1>30. ASSUME NEW w \in Workers, Index(w) PROVE OneWorker'
  BY <1>30 DEF Index, TooMuch
<1>31. ASSUME NEW w \in Workers, ReleaseTerminal(w) PROVE OneWorker'
  BY <1>31 DEF ReleaseTerminal, ReleaseHold, ReleaseTx, Releases
<1>32. ASSUME NEW w \in Workers, Settle(w) PROVE OneWorker'
  BY <1>32 DEF Settle, Reads
<1>33. ASSUME NEW w \in Workers, CaptureHold(w) PROVE OneWorker'
  BY <1>33 DEF CaptureHold, CaptureTx, CanCapture
<1>34. ASSUME NEW w \in Workers, MarkSettled(w) PROVE OneWorker'
  BY <1>34 DEF MarkSettled
<1>35. ASSUME NEW w \in Workers, RecordSettlementFailure(w) PROVE OneWorker'
  BY <1>35 DEF RecordSettlementFailure
<1>36. ASSUME NEW w \in Workers, ExhaustedRelease(w) PROVE OneWorker'
  BY <1>36 DEF ExhaustedRelease, ReleaseHold, ReleaseTx, Releases
<1>37. ASSUME NEW w \in Workers, ExhaustedFail(w) PROVE OneWorker'
  BY <1>37 DEF ExhaustedFail, Transition, CanTransition
<1>38. ASSUME NEW w \in Workers, Recheck(w) PROVE OneWorker'
  BY <1>38 DEF Recheck, Reads
<1>39. ASSUME NEW w \in Workers, Requeue(w) PROVE OneWorker'
  BY <1>39 DEF Requeue
<1>40. ASSUME NEW w \in Workers, Ack(w) PROVE OneWorker'
  BY <1>40 DEF Ack
<1>41. ASSUME NEW w \in Workers, Unlock(w) PROVE OneWorker'
  BY <1>41 DEF Unlock
<1>42. ASSUME NEW w \in Workers, Stall(w) PROVE OneWorker'
  BY <1>42 DEF Stall, Beats
<1>43. ASSUME NEW w \in Workers, CrashWorker(w) PROVE OneWorker'
  BY <1>43 DEF CrashWorker
<1>44. ASSUME NEW r \in Requests, CrashRequest(r) PROVE OneWorker'
  BY <1>44 DEF CrashRequest, Owes, Owing, Submitted
<1>45. CASE UNCHANGED vars
  BY <1>45 DEF vars, job, money, queue, rest
<1>46. QED
  BY <1>1, <1>2, <1>3, <1>4, <1>5, <1>6, <1>7, <1>8, <1>9, <1>10, <1>11,
     <1>12, <1>13, <1>14, <1>15, <1>16, <1>17, <1>18, <1>19, <1>20, <1>21,
     <1>22, <1>23, <1>24, <1>25, <1>26, <1>27, <1>28, <1>29, <1>30, <1>31,
     <1>32, <1>33, <1>34, <1>35, <1>36, <1>37, <1>38, <1>39, <1>40, <1>41,
     <1>42, <1>43, <1>44, <1>45 DEF Next, Foreground, Background, Submit,
     Recover, Answer, Call, Work, Requests

\* Nobody has used up the retries, and no two workers ended the job between them.
Calm == retries < MaxRetries /\ (overrun => status \notin Dead)

\* Only the batch that settles, or has settled, is captured, and what was neither
\* captured nor released is frozen.
OneWayOut ==
    /\ "capture" \in claims =>
           status \in Charged \cup {"settling"} /\ pc["submit"] \notin Before \cup {"idle"}
    /\ status = "settling" /\ "capture" \notin claims => frozen = OtherFrozen + Hold

CalmInv == Calm => OneWayOut

\* Every step keeps CalmInv: what follows a step that is not calm is not calm either.
LEMMA CalmStep ==
    ASSUME TypeOK, RowInv, HeldInv, CostInv, Exhausting, OneWorker, CalmInv, [Next]_vars
    PROVE  CalmInv'
<1> USE HoldAssumption, BatchAssumption DEF RowInv, HeldInv, CostInv, Exhausting,
        OneWorker, CalmInv, Calm, OneWayOut, TypeOK, At, Goto, Fault, job, money, queue,
        rest, Actors, Requests, PollSteps, SettleSteps, Before, InSubmit, Dead, Charged,
        AtProvider, Unsubmitted, Terminal
<1>1. CASE CreateJob
  BY <1>1 DEF CreateJob
<1>2. CASE ReserveHold
  BY <1>2 DEF ReserveHold, ReserveTx
<1>3. CASE CreateItems
  BY <1>3 DEF CreateItems
<1>4. CASE StartUpload
  BY <1>4 DEF StartUpload, Transition, CanTransition
<1>5. CASE ProviderSubmit
  BY <1>5 DEF ProviderSubmit
<1>6. CASE SaveProviderJob
  BY <1>6 DEF SaveProviderJob, Transition, CanTransition
<1>7. CASE AbortOrphan
  BY <1>7 DEF AbortOrphan, Submitted
<1>8. CASE ReleaseFailedSubmit
  BY <1>8 DEF ReleaseFailedSubmit, ReleaseHold, ReleaseTx, Releases
<1>9. CASE RecordSubmitFailure
  BY <1>9 DEF RecordSubmitFailure
<1>10. CASE FailStale
  BY <1>10 DEF FailStale
<1>11. CASE RecoverRelease
  BY <1>11 DEF RecoverRelease, ReleaseHold, ReleaseTx, Releases
<1>12. CASE RecoverStaleActive
  BY <1>12 DEF RecoverStaleActive, Beats
<1>13. CASE LockExpires
  BY <1>13 DEF LockExpires
<1>14. CASE Age
  BY <1>14 DEF Age, TooEarly
<1>15. CASE UpstreamRuns
  BY <1>15 DEF UpstreamRuns
<1>16. CASE MoveDueDelayed
  BY <1>16 DEF MoveDueDelayed
<1>17. CASE DeleteOutput
  BY <1>17 DEF DeleteOutput
<1>18. ASSUME NEW a \in Requests, EnqueueJob(a) PROVE CalmInv'
  BY <1>18 DEF EnqueueJob, Enqueue
<1>19. ASSUME NEW c \in Callers, Resubmit(c) PROVE CalmInv'
  BY <1>19 DEF Resubmit
<1>20. ASSUME NEW c \in Callers, Cancel(c) PROVE CalmInv'
  BY <1>20 DEF Cancel, TooEarly
<1>21. ASSUME NEW c \in Callers, CancelUnsubmitted(c) PROVE CalmInv'
  BY <1>21 DEF CancelUnsubmitted, Transition, CanTransition
<1>22. ASSUME NEW c \in Callers, CancelUpstream(c) PROVE CalmInv'
  BY <1>22 DEF CancelUpstream
<1>23. ASSUME NEW c \in Callers, CancelRelease(c) PROVE CalmInv'
  BY <1>23 DEF CancelRelease, ReleaseHold, ReleaseTx, Releases
<1>24. ASSUME NEW w \in Workers, Reserve(w) PROVE CalmInv'
  BY <1>24 DEF Reserve
<1>25. ASSUME NEW w \in Workers, AcquireLock(w) PROVE CalmInv'
  BY <1>25 DEF AcquireLock
<1>26. ASSUME NEW w \in Workers, Route(w) PROVE CalmInv'
  BY <1>26 DEF Route, Reads
<1>27. ASSUME NEW w \in Workers, Process(w) PROVE CalmInv'
  BY <1>27 DEF Process, Reads
<1>28. ASSUME NEW w \in Workers, Poll(w) PROVE CalmInv'
  BY <1>28 DEF Poll
<1>29. ASSUME NEW w \in Workers, ApplyAnswer(w) PROVE CalmInv'
  BY <1>29 DEF ApplyAnswer, Transition, CanTransition
<1>30. ASSUME NEW w \in Workers, Index(w) PROVE CalmInv'
  BY <1>30 DEF Index, TooMuch
<1>31. ASSUME NEW w \in Workers, ReleaseTerminal(w) PROVE CalmInv'
  BY <1>31 DEF ReleaseTerminal, ReleaseHold, ReleaseTx, Releases
<1>32. ASSUME NEW w \in Workers, Settle(w) PROVE CalmInv'
  BY <1>32 DEF Settle, Reads
<1>33. ASSUME NEW w \in Workers, CaptureHold(w) PROVE CalmInv'
  BY <1>33 DEF CaptureHold, CaptureTx, CanCapture
<1>34. ASSUME NEW w \in Workers, MarkSettled(w) PROVE CalmInv'
  BY <1>34 DEF MarkSettled
<1>35. ASSUME NEW w \in Workers, RecordSettlementFailure(w) PROVE CalmInv'
  BY <1>35 DEF RecordSettlementFailure
<1>36. ASSUME NEW w \in Workers, ExhaustedRelease(w) PROVE CalmInv'
  BY <1>36 DEF ExhaustedRelease, ReleaseHold, ReleaseTx, Releases
<1>37. ASSUME NEW w \in Workers, ExhaustedFail(w) PROVE CalmInv'
  BY <1>37 DEF ExhaustedFail, Transition, CanTransition
<1>38. ASSUME NEW w \in Workers, Recheck(w) PROVE CalmInv'
  BY <1>38 DEF Recheck, Reads
<1>39. ASSUME NEW w \in Workers, Requeue(w) PROVE CalmInv'
  BY <1>39 DEF Requeue
<1>40. ASSUME NEW w \in Workers, Ack(w) PROVE CalmInv'
  BY <1>40 DEF Ack
<1>41. ASSUME NEW w \in Workers, Unlock(w) PROVE CalmInv'
  BY <1>41 DEF Unlock
<1>42. ASSUME NEW w \in Workers, Stall(w) PROVE CalmInv'
  BY <1>42 DEF Stall, Beats
<1>43. ASSUME NEW w \in Workers, CrashWorker(w) PROVE CalmInv'
  BY <1>43 DEF CrashWorker
<1>44. ASSUME NEW r \in Requests, CrashRequest(r) PROVE CalmInv'
  BY <1>44 DEF CrashRequest, Owes, Owing, Submitted
<1>45. CASE UNCHANGED vars
  BY <1>45 DEF vars, job, money, queue, rest
<1>46. QED
  BY <1>1, <1>2, <1>3, <1>4, <1>5, <1>6, <1>7, <1>8, <1>9, <1>10, <1>11,
     <1>12, <1>13, <1>14, <1>15, <1>16, <1>17, <1>18, <1>19, <1>20, <1>21,
     <1>22, <1>23, <1>24, <1>25, <1>26, <1>27, <1>28, <1>29, <1>30, <1>31,
     <1>32, <1>33, <1>34, <1>35, <1>36, <1>37, <1>38, <1>39, <1>40, <1>41,
     <1>42, <1>43, <1>44, <1>45 DEF Next, Foreground, Background, Submit,
     Recover, Answer, Call, Work, Requests

\* A step that ends calm began calm.
LEMMA CalmBefore ==
    ASSUME TypeOK, RowInv, [Next]_vars, Calm'
    PROVE  Calm
<1> USE BatchAssumption DEF RowInv, Calm, TypeOK, At, Goto, Fault, job, money, queue, rest,
        Actors, Requests, Before, InSubmit, Dead, Charged, Unsubmitted, Terminal
<1>1. CASE CreateJob
  BY <1>1 DEF CreateJob
<1>2. CASE ReserveHold
  BY <1>2 DEF ReserveHold, ReserveTx
<1>3. CASE CreateItems
  BY <1>3 DEF CreateItems
<1>4. CASE StartUpload
  BY <1>4 DEF StartUpload, Transition, CanTransition
<1>5. CASE ProviderSubmit
  BY <1>5 DEF ProviderSubmit
<1>6. CASE SaveProviderJob
  BY <1>6 DEF SaveProviderJob, Transition, CanTransition
<1>7. CASE AbortOrphan
  BY <1>7 DEF AbortOrphan, Submitted
<1>8. CASE ReleaseFailedSubmit
  BY <1>8 DEF ReleaseFailedSubmit, ReleaseHold, ReleaseTx, Releases
<1>9. CASE RecordSubmitFailure
  BY <1>9 DEF RecordSubmitFailure
<1>10. CASE FailStale
  BY <1>10 DEF FailStale
<1>11. CASE RecoverRelease
  BY <1>11 DEF RecoverRelease, ReleaseHold, ReleaseTx, Releases
<1>12. CASE RecoverStaleActive
  BY <1>12 DEF RecoverStaleActive, Beats
<1>13. CASE LockExpires
  BY <1>13 DEF LockExpires
<1>14. CASE Age
  BY <1>14 DEF Age, TooEarly
<1>15. CASE UpstreamRuns
  BY <1>15 DEF UpstreamRuns
<1>16. CASE MoveDueDelayed
  BY <1>16 DEF MoveDueDelayed
<1>17. CASE DeleteOutput
  BY <1>17 DEF DeleteOutput
<1>18. ASSUME NEW a \in Requests, EnqueueJob(a) PROVE Calm
  BY <1>18 DEF EnqueueJob, Enqueue
<1>19. ASSUME NEW c \in Callers, Resubmit(c) PROVE Calm
  BY <1>19 DEF Resubmit
<1>20. ASSUME NEW c \in Callers, Cancel(c) PROVE Calm
  BY <1>20 DEF Cancel, TooEarly
<1>21. ASSUME NEW c \in Callers, CancelUnsubmitted(c) PROVE Calm
  BY <1>21 DEF CancelUnsubmitted, Transition, CanTransition
<1>22. ASSUME NEW c \in Callers, CancelUpstream(c) PROVE Calm
  BY <1>22 DEF CancelUpstream
<1>23. ASSUME NEW c \in Callers, CancelRelease(c) PROVE Calm
  BY <1>23 DEF CancelRelease, ReleaseHold, ReleaseTx, Releases
<1>24. ASSUME NEW w \in Workers, Reserve(w) PROVE Calm
  BY <1>24 DEF Reserve
<1>25. ASSUME NEW w \in Workers, AcquireLock(w) PROVE Calm
  BY <1>25 DEF AcquireLock
<1>26. ASSUME NEW w \in Workers, Route(w) PROVE Calm
  BY <1>26 DEF Route, Reads
<1>27. ASSUME NEW w \in Workers, Process(w) PROVE Calm
  BY <1>27 DEF Process, Reads
<1>28. ASSUME NEW w \in Workers, Poll(w) PROVE Calm
  BY <1>28 DEF Poll
<1>29. ASSUME NEW w \in Workers, ApplyAnswer(w) PROVE Calm
  BY <1>29 DEF ApplyAnswer, Transition, CanTransition
<1>30. ASSUME NEW w \in Workers, Index(w) PROVE Calm
  BY <1>30 DEF Index, TooMuch
<1>31. ASSUME NEW w \in Workers, ReleaseTerminal(w) PROVE Calm
  BY <1>31 DEF ReleaseTerminal, ReleaseHold, ReleaseTx, Releases
<1>32. ASSUME NEW w \in Workers, Settle(w) PROVE Calm
  BY <1>32 DEF Settle, Reads
<1>33. ASSUME NEW w \in Workers, CaptureHold(w) PROVE Calm
  BY <1>33 DEF CaptureHold, CaptureTx, CanCapture
<1>34. ASSUME NEW w \in Workers, MarkSettled(w) PROVE Calm
  BY <1>34 DEF MarkSettled
<1>35. ASSUME NEW w \in Workers, RecordSettlementFailure(w) PROVE Calm
  BY <1>35 DEF RecordSettlementFailure
<1>36. ASSUME NEW w \in Workers, ExhaustedRelease(w) PROVE Calm
  BY <1>36 DEF ExhaustedRelease, ReleaseHold, ReleaseTx, Releases
<1>37. ASSUME NEW w \in Workers, ExhaustedFail(w) PROVE Calm
  BY <1>37 DEF ExhaustedFail, Transition, CanTransition
<1>38. ASSUME NEW w \in Workers, Recheck(w) PROVE Calm
  BY <1>38 DEF Recheck, Reads
<1>39. ASSUME NEW w \in Workers, Requeue(w) PROVE Calm
  BY <1>39 DEF Requeue
<1>40. ASSUME NEW w \in Workers, Ack(w) PROVE Calm
  BY <1>40 DEF Ack
<1>41. ASSUME NEW w \in Workers, Unlock(w) PROVE Calm
  BY <1>41 DEF Unlock
<1>42. ASSUME NEW w \in Workers, Stall(w) PROVE Calm
  BY <1>42 DEF Stall, Beats
<1>43. ASSUME NEW w \in Workers, CrashWorker(w) PROVE Calm
  BY <1>43 DEF CrashWorker
<1>44. ASSUME NEW r \in Requests, CrashRequest(r) PROVE Calm
  BY <1>44 DEF CrashRequest, Owes, Owing, Submitted
<1>45. CASE UNCHANGED vars
  BY <1>45 DEF vars, job, money, queue, rest
<1>46. QED
  BY <1>1, <1>2, <1>3, <1>4, <1>5, <1>6, <1>7, <1>8, <1>9, <1>10, <1>11,
     <1>12, <1>13, <1>14, <1>15, <1>16, <1>17, <1>18, <1>19, <1>20, <1>21,
     <1>22, <1>23, <1>24, <1>25, <1>26, <1>27, <1>28, <1>29, <1>30, <1>31,
     <1>32, <1>33, <1>34, <1>35, <1>36, <1>37, <1>38, <1>39, <1>40, <1>41,
     <1>42, <1>43, <1>44, <1>45 DEF Next, Foreground, Background, Submit,
     Recover, Answer, Call, Work, Requests

Both == {"capture", "release"} \subseteq claims

\* The hold is frozen, or it left the frozen balance once.
Balanced ==
    \/ /\ frozen = OtherFrozen + Hold /\ taken = Hold
       /\ "hold" \in claims /\ "capture" \notin claims
    \/ frozen = OtherFrozen /\ taken = (IF "capture" \in claims THEN cost ELSE 0)

\* A hold that was not both captured and released left once, and so did every hold
\* as long as all is calm.
MoneyInv ==
    /\ "hold" \notin claims =>
           frozen = OtherFrozen /\ taken = 0 /\ "capture" \notin claims
    /\ {"capture", "release"} \cap claims = {} /\ "hold" \in claims =>
           frozen = OtherFrozen + Hold
    /\ "capture" \in claims => cost <= Hold
    /\ ~Both \/ Calm => Balanced

\* Every step keeps MoneyInv.
LEMMA MoneyStep ==
    ASSUME TypeOK, RowInv, HeldInv, CostInv, Exhausting, OneWorker, CalmInv, MoneyInv,
           [Next]_vars
    PROVE  MoneyInv'
<1> USE HoldAssumption, BatchAssumption DEF RowInv, HeldInv, CostInv, Exhausting,
        OneWorker, CalmInv, Calm, OneWayOut, MoneyInv, Both, Balanced, Unknown, TypeOK,
        At, Goto, Fault, job, money, queue, rest, Actors, Requests, PollSteps,
        SettleSteps, Before, InSubmit, Dead, Charged, AtProvider, Unsubmitted, Terminal
<1>1. CASE ReserveHold
  BY <1>1 DEF ReserveHold, ReserveTx
<1>2. CASE ReleaseFailedSubmit
  BY <1>2 DEF ReleaseFailedSubmit, ReleaseHold, ReleaseTx, Releases
<1>3. CASE RecoverRelease
  BY <1>3 DEF RecoverRelease, ReleaseHold, ReleaseTx, Releases
<1>4. ASSUME NEW c \in Callers, CancelRelease(c) PROVE MoneyInv'
  BY <1>4 DEF CancelRelease, ReleaseHold, ReleaseTx, Releases
<1>5. ASSUME NEW w \in Workers, ReleaseTerminal(w) PROVE MoneyInv'
  BY <1>5 DEF ReleaseTerminal, ReleaseHold, ReleaseTx, Releases
<1>6. ASSUME NEW w \in Workers, CaptureHold(w) PROVE MoneyInv'
  <2>1. /\ At(w, "capture") /\ UNCHANGED <<status, retries, cost, overrun>>
        /\ UNCHANGED money \/ (CanCapture /\ CaptureTx)
    BY <1>6 DEF CaptureHold
  <2>2. CASE UNCHANGED money
    BY <2>1, <2>2
  <2>3. CASE CanCapture /\ CaptureTx /\ "capture" \in claims
    BY <2>1, <2>3 DEF CaptureTx
  <2>4. CASE CanCapture /\ CaptureTx /\ "capture" \notin claims
    <3>1. cost \in Int /\ cost <= Hold /\ cost' = cost
      BY <2>1, <2>4 DEF CanCapture, TooMuch
    <3>2. /\ claims' = claims \cup {"capture"} /\ frozen' = frozen - Hold
          /\ taken' = taken - (Hold - cost)
      BY <2>4 DEF CaptureTx
    <3>3. "hold" \in claims
      BY <2>1
    <3>4. ~Both' \/ Calm' => frozen = OtherFrozen + Hold /\ taken = Hold
      BY <2>1, <2>4, <3>2, <3>3
    <3>5. QED
      BY <3>1, <3>2, <3>3, <3>4
  <2>5. QED
    BY <2>1, <2>2, <2>3, <2>4
<1>7. ASSUME NEW w \in Workers, ExhaustedRelease(w) PROVE MoneyInv'
  BY <1>7 DEF ExhaustedRelease, ReleaseHold, ReleaseTx, Releases
<1>8. ASSUME NEW w \in Workers, Index(w) PROVE MoneyInv'
  BY <1>8 DEF Index
<1>9. CASE UNCHANGED <<money, cost>>
  BY <1>9, CalmBefore DEF money
<1>10. QED
  BY <1>1, <1>2, <1>3, <1>4, <1>5, <1>6, <1>7, <1>8, <1>9, Frame DEF Framed, Indexed,
     MoneyMoves

-----------------------------------------------------------------------------
(* A frozen hold is in hand, when nobody acts on the job before its hold is *)
(* reserved.                                                                *)

\* Until the hold is reserved nobody but Submit knows the job.
Undisturbed ==
    pc["submit"] \in {"idle", "reserve"} =>
        /\ claims = {} /\ ready = 0 /\ queued = {} /\ status \in {"none", "created"}
        /\ fresh = TRUE /\ \A a \in Actors \ {"submit"} : At(a, "idle")

\* Nothing stays frozen after a release, a capture, or a reservation that failed.
Unfrozen ==
    /\ frozen <= OtherFrozen + Hold
    /\ "hold" \notin claims \/ "release" \in claims \/ "capture" \in claims => ~Frozen
    /\ At("submit", "recFail") => ~Frozen

Waiting == ready > 0 \/ "delayed" \in queued \/ "active" \in queued

\* The inflight key never outlives the job's place in the queue.
Inflight == "inflight" \in queued => Waiting

\* Every step keeps Undisturbed.
LEMMA UndisturbedStep ==
    ASSUME "early" \notin FaultKinds, TypeOK, RowInv, Undisturbed, [Next]_vars
    PROVE  Undisturbed'
<1> USE BatchAssumption DEF RowInv, Undisturbed, Owing, TypeOK, At, Goto, Fault, job,
        money, queue, rest, Actors, Requests, PollSteps, SettleSteps, Before,
        InSubmit, Dead, Charged, AtProvider, Unsubmitted, Terminal
<1>1. CASE CreateJob
  BY <1>1 DEF CreateJob
<1>2. CASE ReserveHold
  BY <1>2 DEF ReserveHold, ReserveTx
<1>3. CASE CreateItems
  BY <1>3 DEF CreateItems
<1>4. CASE StartUpload
  BY <1>4 DEF StartUpload, Transition, CanTransition
<1>5. CASE ProviderSubmit
  BY <1>5 DEF ProviderSubmit
<1>6. CASE SaveProviderJob
  BY <1>6 DEF SaveProviderJob, Transition, CanTransition
<1>7. CASE AbortOrphan
  BY <1>7 DEF AbortOrphan, Submitted
<1>8. CASE ReleaseFailedSubmit
  BY <1>8 DEF ReleaseFailedSubmit, ReleaseHold, ReleaseTx, Releases
<1>9. CASE RecordSubmitFailure
  BY <1>9 DEF RecordSubmitFailure
<1>10. CASE FailStale
  BY <1>10 DEF FailStale
<1>11. CASE RecoverRelease
  BY <1>11 DEF RecoverRelease, ReleaseHold, ReleaseTx, Releases
<1>12. CASE RecoverStaleActive
  BY <1>12 DEF RecoverStaleActive, Beats
<1>13. CASE LockExpires
  BY <1>13 DEF LockExpires
<1>14. CASE Age
  BY <1>14 DEF Age, TooEarly
<1>15. CASE UpstreamRuns
  BY <1>15 DEF UpstreamRuns
<1>16. CASE MoveDueDelayed
  BY <1>16 DEF MoveDueDelayed
<1>17. CASE DeleteOutput
  BY <1>17 DEF DeleteOutput
<1>18. ASSUME NEW a \in Requests, EnqueueJob(a) PROVE Undisturbed'
  BY <1>18 DEF EnqueueJob, Enqueue
<1>19. ASSUME NEW c \in Callers, Resubmit(c) PROVE Undisturbed'
  BY <1>19 DEF Resubmit
<1>20. ASSUME NEW c \in Callers, Cancel(c) PROVE Undisturbed'
  BY <1>20 DEF Cancel, TooEarly
<1>21. ASSUME NEW c \in Callers, CancelUnsubmitted(c) PROVE Undisturbed'
  BY <1>21 DEF CancelUnsubmitted, Transition, CanTransition
<1>22. ASSUME NEW c \in Callers, CancelUpstream(c) PROVE Undisturbed'
  BY <1>22 DEF CancelUpstream
<1>23. ASSUME NEW c \in Callers, CancelRelease(c) PROVE Undisturbed'
  BY <1>23 DEF CancelRelease, ReleaseHold, ReleaseTx, Releases
<1>24. ASSUME NEW w \in Workers, Reserve(w) PROVE Undisturbed'
  BY <1>24 DEF Reserve
<1>25. ASSUME NEW w \in Workers, AcquireLock(w) PROVE Undisturbed'
  BY <1>25 DEF AcquireLock
<1>26. ASSUME NEW w \in Workers, Route(w) PROVE Undisturbed'
  BY <1>26 DEF Route, Reads
<1>27. ASSUME NEW w \in Workers, Process(w) PROVE Undisturbed'
  BY <1>27 DEF Process, Reads
<1>28. ASSUME NEW w \in Workers, Poll(w) PROVE Undisturbed'
  BY <1>28 DEF Poll
<1>29. ASSUME NEW w \in Workers, ApplyAnswer(w) PROVE Undisturbed'
  BY <1>29 DEF ApplyAnswer, Transition, CanTransition
<1>30. ASSUME NEW w \in Workers, Index(w) PROVE Undisturbed'
  BY <1>30 DEF Index, TooMuch
<1>31. ASSUME NEW w \in Workers, ReleaseTerminal(w) PROVE Undisturbed'
  BY <1>31 DEF ReleaseTerminal, ReleaseHold, ReleaseTx, Releases
<1>32. ASSUME NEW w \in Workers, Settle(w) PROVE Undisturbed'
  BY <1>32 DEF Settle, Reads
<1>33. ASSUME NEW w \in Workers, CaptureHold(w) PROVE Undisturbed'
  BY <1>33 DEF CaptureHold, CaptureTx, CanCapture
<1>34. ASSUME NEW w \in Workers, MarkSettled(w) PROVE Undisturbed'
  BY <1>34 DEF MarkSettled
<1>35. ASSUME NEW w \in Workers, RecordSettlementFailure(w) PROVE Undisturbed'
  BY <1>35 DEF RecordSettlementFailure
<1>36. ASSUME NEW w \in Workers, ExhaustedRelease(w) PROVE Undisturbed'
  BY <1>36 DEF ExhaustedRelease, ReleaseHold, ReleaseTx, Releases
<1>37. ASSUME NEW w \in Workers, ExhaustedFail(w) PROVE Undisturbed'
  BY <1>37 DEF ExhaustedFail, Transition, CanTransition
<1>38. ASSUME NEW w \in Workers, Recheck(w) PROVE Undisturbed'
  BY <1>38 DEF Recheck, Reads
<1>39. ASSUME NEW w \in Workers, Requeue(w) PROVE Undisturbed'
  BY <1>39 DEF Requeue
<1>40. ASSUME NEW w \in Workers, Ack(w) PROVE Undisturbed'
  BY <1>40 DEF Ack
<1>41. ASSUME NEW w \in Workers, Unlock(w) PROVE Undisturbed'
  BY <1>41 DEF Unlock
<1>42. ASSUME NEW w \in Workers, Stall(w) PROVE Undisturbed'
  BY <1>42 DEF Stall, Beats
<1>43. ASSUME NEW w \in Workers, CrashWorker(w) PROVE Undisturbed'
  BY <1>43 DEF CrashWorker
<1>44. ASSUME NEW r \in Requests, CrashRequest(r) PROVE Undisturbed'
  BY <1>44 DEF CrashRequest, Owes, Owing, Submitted
<1>45. CASE UNCHANGED vars
  BY <1>45 DEF vars, job, money, queue, rest
<1>46. QED
  BY <1>1, <1>2, <1>3, <1>4, <1>5, <1>6, <1>7, <1>8, <1>9, <1>10, <1>11,
     <1>12, <1>13, <1>14, <1>15, <1>16, <1>17, <1>18, <1>19, <1>20, <1>21,
     <1>22, <1>23, <1>24, <1>25, <1>26, <1>27, <1>28, <1>29, <1>30, <1>31,
     <1>32, <1>33, <1>34, <1>35, <1>36, <1>37, <1>38, <1>39, <1>40, <1>41,
     <1>42, <1>43, <1>44, <1>45 DEF Next, Foreground, Background, Submit,
     Recover, Answer, Call, Work, Requests

\* Every step keeps Unfrozen.
LEMMA UnfrozenStep ==
    ASSUME TypeOK, Undisturbed, HeldInv, CostInv, Unfrozen, [Next]_vars
    PROVE  Unfrozen'
<1> USE HoldAssumption, BatchAssumption DEF Undisturbed, HeldInv, CostInv, Unfrozen,
        Frozen, Unknown, TypeOK, At, Goto, Fault, job, money, queue, rest, Actors,
        Requests
<1>1. CASE ReserveHold
  BY <1>1 DEF ReserveHold, ReserveTx
<1>2. CASE ReleaseFailedSubmit
  BY <1>2 DEF ReleaseFailedSubmit, ReleaseHold, ReleaseTx, Releases
<1>3. CASE RecoverRelease
  BY <1>3 DEF RecoverRelease, ReleaseHold, ReleaseTx, Releases
<1>4. ASSUME NEW c \in Callers, CancelRelease(c) PROVE Unfrozen'
  BY <1>4 DEF CancelRelease, ReleaseHold, ReleaseTx, Releases
<1>5. ASSUME NEW w \in Workers, ReleaseTerminal(w) PROVE Unfrozen'
  BY <1>5 DEF ReleaseTerminal, ReleaseHold, ReleaseTx, Releases
<1>6. ASSUME NEW w \in Workers, CaptureHold(w) PROVE Unfrozen'
  BY <1>6 DEF CaptureHold, CaptureTx, CanCapture
<1>7. ASSUME NEW w \in Workers, ExhaustedRelease(w) PROVE Unfrozen'
  BY <1>7 DEF ExhaustedRelease, ReleaseHold, ReleaseTx, Releases
<1>8. CASE UNCHANGED money /\ (At("submit", "recFail")' => At("submit", "recFail"))
  BY <1>8 DEF money
<1>9. QED
  BY <1>1, <1>2, <1>3, <1>4, <1>5, <1>6, <1>7, <1>8, Frame DEF Framed, Indexed,
     MoneyMoves

\* Every step keeps Inflight.
LEMMA InflightStep ==
    ASSUME TypeOK, Inflight, [Next]_vars
    PROVE  Inflight'
<1> USE BatchAssumption DEF Inflight, Waiting, TypeOK, At, Goto, Fault, job, money,
        queue, rest, Actors, Requests
<1>1. CASE MoveDueDelayed
  BY <1>1 DEF MoveDueDelayed
<1>2. CASE RecoverStaleActive
  BY <1>2 DEF RecoverStaleActive, Beats
<1>3. ASSUME NEW a \in Requests, EnqueueJob(a) PROVE Inflight'
  BY <1>3 DEF EnqueueJob, Enqueue
<1>4. ASSUME NEW w \in Workers, Reserve(w) PROVE Inflight'
  BY <1>4 DEF Reserve
<1>5. ASSUME NEW w \in Workers, Requeue(w) PROVE Inflight'
  BY <1>5 DEF Requeue
<1>6. ASSUME NEW w \in Workers, Ack(w) PROVE Inflight'
  BY <1>6 DEF Ack
<1>7. CASE UNCHANGED <<ready, queued>>
  BY <1>7 DEF money
<1>8. QED
  BY <1>1, <1>2, <1>3, <1>4, <1>5, <1>6, <1>7, Frame DEF Framed, Indexed, QueueMoves

\* What the worker that has the lock may rely on: the job it acks has no hold left.
WorkerSees ==
    ~overrun => \A w \in Workers :
        /\ At(w, "process") => status # "settling"
        /\ At(w, "ack") => ~Frozen
        /\ pc[w] \in SettleSteps \ {"recheck", "exFail"} => status = "settling"
        /\ At(w, "exFail") => status = "settling" /\ ~Frozen
        /\ At(w, "recheck") => status = "settling" \/ ~Frozen

\* Every step keeps WorkerSees.
LEMMA WorkerSeesStep ==
    ASSUME TypeOK, RowInv, CostInv, Exclusive, Undisturbed, Unfrozen, WorkerSees, [Next]_vars
    PROVE  WorkerSees'
<1> USE HoldAssumption, BatchAssumption DEF RowInv, CostInv, Exclusive, LockedSteps,
        Undisturbed, Unfrozen, Frozen, WorkerSees, TypeOK, At, Goto, Fault, job,
        money, queue, rest, Actors, Requests, PollSteps, SettleSteps, Before,
        InSubmit, Dead, Charged, AtProvider, Unsubmitted, Terminal
<1>1. CASE CreateJob
  BY <1>1 DEF CreateJob
<1>2. CASE ReserveHold
  BY <1>2 DEF ReserveHold, ReserveTx
<1>3. CASE CreateItems
  BY <1>3 DEF CreateItems
<1>4. CASE StartUpload
  BY <1>4 DEF StartUpload, Transition, CanTransition
<1>5. CASE ProviderSubmit
  BY <1>5 DEF ProviderSubmit
<1>6. CASE SaveProviderJob
  BY <1>6 DEF SaveProviderJob, Transition, CanTransition
<1>7. CASE AbortOrphan
  BY <1>7 DEF AbortOrphan, Submitted
<1>8. CASE ReleaseFailedSubmit
  BY <1>8 DEF ReleaseFailedSubmit, ReleaseHold, ReleaseTx, Releases
<1>9. CASE RecordSubmitFailure
  BY <1>9 DEF RecordSubmitFailure
<1>10. CASE FailStale
  BY <1>10 DEF FailStale
<1>11. CASE RecoverRelease
  BY <1>11 DEF RecoverRelease, ReleaseHold, ReleaseTx, Releases
<1>12. CASE RecoverStaleActive
  BY <1>12 DEF RecoverStaleActive, Beats
<1>13. CASE LockExpires
  BY <1>13 DEF LockExpires
<1>14. CASE Age
  BY <1>14 DEF Age, TooEarly
<1>15. CASE UpstreamRuns
  BY <1>15 DEF UpstreamRuns
<1>16. CASE MoveDueDelayed
  BY <1>16 DEF MoveDueDelayed
<1>17. CASE DeleteOutput
  BY <1>17 DEF DeleteOutput
<1>18. ASSUME NEW a \in Requests, EnqueueJob(a) PROVE WorkerSees'
  BY <1>18 DEF EnqueueJob, Enqueue
<1>19. ASSUME NEW c \in Callers, Resubmit(c) PROVE WorkerSees'
  BY <1>19 DEF Resubmit
<1>20. ASSUME NEW c \in Callers, Cancel(c) PROVE WorkerSees'
  BY <1>20 DEF Cancel, TooEarly
<1>21. ASSUME NEW c \in Callers, CancelUnsubmitted(c) PROVE WorkerSees'
  BY <1>21 DEF CancelUnsubmitted, Transition, CanTransition
<1>22. ASSUME NEW c \in Callers, CancelUpstream(c) PROVE WorkerSees'
  BY <1>22 DEF CancelUpstream
<1>23. ASSUME NEW c \in Callers, CancelRelease(c) PROVE WorkerSees'
  BY <1>23 DEF CancelRelease, ReleaseHold, ReleaseTx, Releases
<1>24. ASSUME NEW w \in Workers, Reserve(w) PROVE WorkerSees'
  BY <1>24 DEF Reserve
<1>25. ASSUME NEW w \in Workers, AcquireLock(w) PROVE WorkerSees'
  BY <1>25 DEF AcquireLock
<1>26. ASSUME NEW w \in Workers, Route(w) PROVE WorkerSees'
  BY <1>26 DEF Route, Reads
<1>27. ASSUME NEW w \in Workers, Process(w) PROVE WorkerSees'
  BY <1>27 DEF Process, Reads
<1>28. ASSUME NEW w \in Workers, Poll(w) PROVE WorkerSees'
  BY <1>28 DEF Poll
<1>29. ASSUME NEW w \in Workers, ApplyAnswer(w) PROVE WorkerSees'
  BY <1>29 DEF ApplyAnswer, Transition, CanTransition
<1>30. ASSUME NEW w \in Workers, Index(w) PROVE WorkerSees'
  BY <1>30 DEF Index, TooMuch
<1>31. ASSUME NEW w \in Workers, ReleaseTerminal(w) PROVE WorkerSees'
  BY <1>31 DEF ReleaseTerminal, ReleaseHold, ReleaseTx, Releases
<1>32. ASSUME NEW w \in Workers, Settle(w) PROVE WorkerSees'
  BY <1>32 DEF Settle, Reads
<1>33. ASSUME NEW w \in Workers, CaptureHold(w) PROVE WorkerSees'
  BY <1>33 DEF CaptureHold, CaptureTx, CanCapture
<1>34. ASSUME NEW w \in Workers, MarkSettled(w) PROVE WorkerSees'
  BY <1>34 DEF MarkSettled
<1>35. ASSUME NEW w \in Workers, RecordSettlementFailure(w) PROVE WorkerSees'
  BY <1>35 DEF RecordSettlementFailure
<1>36. ASSUME NEW w \in Workers, ExhaustedRelease(w) PROVE WorkerSees'
  BY <1>36 DEF ExhaustedRelease, ReleaseHold, ReleaseTx, Releases
<1>37. ASSUME NEW w \in Workers, ExhaustedFail(w) PROVE WorkerSees'
  BY <1>37 DEF ExhaustedFail, Transition, CanTransition
<1>38. ASSUME NEW w \in Workers, Recheck(w) PROVE WorkerSees'
  BY <1>38 DEF Recheck, Reads
<1>39. ASSUME NEW w \in Workers, Requeue(w) PROVE WorkerSees'
  BY <1>39 DEF Requeue
<1>40. ASSUME NEW w \in Workers, Ack(w) PROVE WorkerSees'
  BY <1>40 DEF Ack
<1>41. ASSUME NEW w \in Workers, Unlock(w) PROVE WorkerSees'
  BY <1>41 DEF Unlock
<1>42. ASSUME NEW w \in Workers, Stall(w) PROVE WorkerSees'
  BY <1>42 DEF Stall, Beats
<1>43. ASSUME NEW w \in Workers, CrashWorker(w) PROVE WorkerSees'
  BY <1>43 DEF CrashWorker
<1>44. ASSUME NEW r \in Requests, CrashRequest(r) PROVE WorkerSees'
  BY <1>44 DEF CrashRequest, Owes, Owing, Submitted
<1>45. CASE UNCHANGED vars
  BY <1>45 DEF vars, job, money, queue, rest
<1>46. QED
  BY <1>1, <1>2, <1>3, <1>4, <1>5, <1>6, <1>7, <1>8, <1>9, <1>10, <1>11,
     <1>12, <1>13, <1>14, <1>15, <1>16, <1>17, <1>18, <1>19, <1>20, <1>21,
     <1>22, <1>23, <1>24, <1>25, <1>26, <1>27, <1>28, <1>29, <1>30, <1>31,
     <1>32, <1>33, <1>34, <1>35, <1>36, <1>37, <1>38, <1>39, <1>40, <1>41,
     <1>42, <1>43, <1>44, <1>45 DEF Next, Foreground, Background, Submit,
     Recover, Answer, Call, Work, Requests

\* A frozen hold is found by the recovery scan, is in the queue, or is owed by a request;
\* and the job a worker has in hand is still in the queue.
InHand ==
    Frozen /\ ~overrun =>
        /\ \/ status \in Unsubmitted \/ Waiting
           \/ At("submit", "abort") /\ Submitted
           \/ \E r \in Requests : pc[r] \in Owing \cup {"gaveUp"}
        /\ \A w \in Workers : pc[w] \notin {"idle", "unlock"} => Waiting

\* Every step keeps InHand.
LEMMA InHandStep ==
    ASSUME TypeOK, RowInv, Undisturbed, Unfrozen, Inflight, WorkerSees, InHand, [Next]_vars
    PROVE  InHand'
<1> USE HoldAssumption, BatchAssumption DEF RowInv, Undisturbed, Unfrozen, Frozen,
        Inflight, Waiting, Owing, Submitted, WorkerSees, InHand, TypeOK, At, Goto, Fault, job,
        money, queue, rest, Actors, Requests, PollSteps, SettleSteps, Before,
        InSubmit, Dead, Charged, AtProvider, Unsubmitted, Terminal
<1>1. CASE CreateJob
  BY <1>1 DEF CreateJob
<1>2. CASE ReserveHold
  BY <1>2 DEF ReserveHold, ReserveTx
<1>3. CASE CreateItems
  BY <1>3 DEF CreateItems
<1>4. CASE StartUpload
  BY <1>4 DEF StartUpload, Transition, CanTransition
<1>5. CASE ProviderSubmit
  BY <1>5 DEF ProviderSubmit
<1>6. CASE SaveProviderJob
  BY <1>6 DEF SaveProviderJob, Transition, CanTransition
<1>7. CASE AbortOrphan
  BY <1>7 DEF AbortOrphan, Submitted
<1>8. CASE ReleaseFailedSubmit
  BY <1>8 DEF ReleaseFailedSubmit, ReleaseHold, ReleaseTx, Releases
<1>9. CASE RecordSubmitFailure
  BY <1>9 DEF RecordSubmitFailure
<1>10. CASE FailStale
  BY <1>10 DEF FailStale
<1>11. CASE RecoverRelease
  BY <1>11 DEF RecoverRelease, ReleaseHold, ReleaseTx, Releases
<1>12. CASE RecoverStaleActive
  BY <1>12 DEF RecoverStaleActive, Beats
<1>13. CASE LockExpires
  BY <1>13 DEF LockExpires
<1>14. CASE Age
  BY <1>14 DEF Age, TooEarly
<1>15. CASE UpstreamRuns
  BY <1>15 DEF UpstreamRuns
<1>16. CASE MoveDueDelayed
  BY <1>16 DEF MoveDueDelayed
<1>17. CASE DeleteOutput
  BY <1>17 DEF DeleteOutput
<1>18. ASSUME NEW a \in Requests, EnqueueJob(a) PROVE InHand'
  BY <1>18 DEF EnqueueJob, Enqueue
<1>19. ASSUME NEW c \in Callers, Resubmit(c) PROVE InHand'
  BY <1>19 DEF Resubmit
<1>20. ASSUME NEW c \in Callers, Cancel(c) PROVE InHand'
  BY <1>20 DEF Cancel, TooEarly
<1>21. ASSUME NEW c \in Callers, CancelUnsubmitted(c) PROVE InHand'
  BY <1>21 DEF CancelUnsubmitted, Transition, CanTransition
<1>22. ASSUME NEW c \in Callers, CancelUpstream(c) PROVE InHand'
  BY <1>22 DEF CancelUpstream
<1>23. ASSUME NEW c \in Callers, CancelRelease(c) PROVE InHand'
  BY <1>23 DEF CancelRelease, ReleaseHold, ReleaseTx, Releases
<1>24. ASSUME NEW w \in Workers, Reserve(w) PROVE InHand'
  BY <1>24 DEF Reserve
<1>25. ASSUME NEW w \in Workers, AcquireLock(w) PROVE InHand'
  BY <1>25 DEF AcquireLock
<1>26. ASSUME NEW w \in Workers, Route(w) PROVE InHand'
  BY <1>26 DEF Route, Reads
<1>27. ASSUME NEW w \in Workers, Process(w) PROVE InHand'
  BY <1>27 DEF Process, Reads
<1>28. ASSUME NEW w \in Workers, Poll(w) PROVE InHand'
  BY <1>28 DEF Poll
<1>29. ASSUME NEW w \in Workers, ApplyAnswer(w) PROVE InHand'
  BY <1>29 DEF ApplyAnswer, Transition, CanTransition
<1>30. ASSUME NEW w \in Workers, Index(w) PROVE InHand'
  BY <1>30 DEF Index, TooMuch
<1>31. ASSUME NEW w \in Workers, ReleaseTerminal(w) PROVE InHand'
  BY <1>31 DEF ReleaseTerminal, ReleaseHold, ReleaseTx, Releases
<1>32. ASSUME NEW w \in Workers, Settle(w) PROVE InHand'
  BY <1>32 DEF Settle, Reads
<1>33. ASSUME NEW w \in Workers, CaptureHold(w) PROVE InHand'
  BY <1>33 DEF CaptureHold, CaptureTx, CanCapture
<1>34. ASSUME NEW w \in Workers, MarkSettled(w) PROVE InHand'
  BY <1>34 DEF MarkSettled
<1>35. ASSUME NEW w \in Workers, RecordSettlementFailure(w) PROVE InHand'
  BY <1>35 DEF RecordSettlementFailure
<1>36. ASSUME NEW w \in Workers, ExhaustedRelease(w) PROVE InHand'
  BY <1>36 DEF ExhaustedRelease, ReleaseHold, ReleaseTx, Releases
<1>37. ASSUME NEW w \in Workers, ExhaustedFail(w) PROVE InHand'
  BY <1>37 DEF ExhaustedFail, Transition, CanTransition
<1>38. ASSUME NEW w \in Workers, Recheck(w) PROVE InHand'
  BY <1>38 DEF Recheck, Reads
<1>39. ASSUME NEW w \in Workers, Requeue(w) PROVE InHand'
  BY <1>39 DEF Requeue
<1>40. ASSUME NEW w \in Workers, Ack(w) PROVE InHand'
  BY <1>40 DEF Ack
<1>41. ASSUME NEW w \in Workers, Unlock(w) PROVE InHand'
  BY <1>41 DEF Unlock
<1>42. ASSUME NEW w \in Workers, Stall(w) PROVE InHand'
  BY <1>42 DEF Stall, Beats
<1>43. ASSUME NEW w \in Workers, CrashWorker(w) PROVE InHand'
  BY <1>43 DEF CrashWorker
<1>44. ASSUME NEW r \in Requests, CrashRequest(r) PROVE InHand'
  BY <1>44 DEF CrashRequest, Owes, Owing, Submitted
<1>45. CASE UNCHANGED vars
  BY <1>45 DEF vars, job, money, queue, rest
<1>46. QED
  BY <1>1, <1>2, <1>3, <1>4, <1>5, <1>6, <1>7, <1>8, <1>9, <1>10, <1>11,
     <1>12, <1>13, <1>14, <1>15, <1>16, <1>17, <1>18, <1>19, <1>20, <1>21,
     <1>22, <1>23, <1>24, <1>25, <1>26, <1>27, <1>28, <1>29, <1>30, <1>31,
     <1>32, <1>33, <1>34, <1>35, <1>36, <1>37, <1>38, <1>39, <1>40, <1>41,
     <1>42, <1>43, <1>44, <1>45 DEF Next, Foreground, Background, Submit,
     Recover, Answer, Call, Work, Requests

-----------------------------------------------------------------------------
(* The theorems. *)

\* What holds of every batch, whatever goes wrong.
BaseInv == TypeOK /\ RowInv /\ HeldInv /\ CostInv /\ Exclusive

LEMMA BaseInvariant == Spec => []BaseInv
<1>1. ASSUME Init PROVE RowInv /\ HeldInv /\ CostInv /\ Exclusive
  BY <1>1, BatchAssumption
  DEF Init, RowInv, HeldInv, CostInv, Exclusive, At, Actors, Requests, Charged, Before,
      InSubmit, PollSteps, SettleSteps, LockedSteps, AtProvider, Unsubmitted
<1>2. ASSUME BaseInv, [Next]_vars PROVE BaseInv'
  BY <1>2, TypeStep, RowStep, HeldStep, CostStep, LockStep DEF BaseInv
<1>3. Init => BaseInv
  BY <1>1, TypeInit DEF BaseInv
<1>4. QED
  BY <1>2, <1>3, PTL DEF Spec

\* While the provider works on a submitted batch its hold is frozen, whatever cancels,
\* scans and faults race with the submission (the status checks of Cancel, of
\* FailStaleUnsubmittedBatchImageJob and of UpdateBatchImageJobProviderSubmit).
THEOREM SubmittedIsHeldThm == Spec => []SubmittedIsHeld
<1>1. BaseInv => SubmittedIsHeld
  BY HoldAssumption DEF BaseInv, HeldInv, AtProvider, Submitted, SubmittedIsHeld
<1>2. QED
  BY <1>1, BaseInvariant, PTL

\* What bounds the ways out of the hold.
WayInv == Exhausting /\ OneWorker /\ CalmInv /\ MoneyInv

LEMMA WayInvariant == Spec => [](BaseInv /\ WayInv)
<1>1. Init => WayInv
  BY BatchAssumption
  DEF Init, WayInv, Exhausting, OneWorker, CalmInv, OneWayOut, MoneyInv, Balanced, At,
      Actors, Charged, PollSteps, SettleSteps
<1>2. BaseInv /\ WayInv /\ [Next]_vars => WayInv'
  BY ExhaustingStep, OneWorkerStep, CalmStep, MoneyStep DEF BaseInv, WayInv
<1>3. QED
  BY <1>1, <1>2, BaseInvariant, PTL DEF Spec

\* The hold leaves the frozen balance once, whatever the user's other batches have
\* frozen, unless it was both captured and released by the exhausted exit or by two
\* workers at once (capture and release of usage_billing_repo.go under retries, races,
\* crashes and answers lost after the commit).
THEOREM HoldLeavesOnceThm == Spec => []HoldLeavesOnce
<1>1. BaseInv /\ WayInv => HoldLeavesOnce
  BY HoldAssumption, BatchAssumption
  DEF BaseInv, WayInv, MoneyInv, Both, Calm, Balanced, CostInv, HoldLeavesOnce,
      OthersUntouched, TypeOK, Unknown, TooMuch
<1>2. QED
  BY <1>1, WayInvariant, PTL

\* A completed batch has cost exactly its output, unless a second worker exhausted the
\* retries while the first was completing it (MarkBatchImageJobSettled comes after the
\* capture, and nothing is released from then on).
THEOREM CompletedIsChargedThm == Spec => []CompletedIsCharged
<1>1. BaseInv /\ WayInv => CompletedIsCharged
  BY HoldAssumption, BatchAssumption
  DEF BaseInv, WayInv, OneWorker, MoneyInv, Both, Calm, Balanced, CostInv, Charged, Dead,
      CompletedIsCharged, TypeOK, Unknown, TooMuch
<1>2. QED
  BY <1>1, WayInvariant, PTL

HandInv == Undisturbed /\ Unfrozen /\ Inflight /\ WorkerSees /\ InHand

\* A hold that is frozen will be looked at again: the recovery scan, the queue or a
\* request has it, unless a request gave up or a living worker lost its lock, if
\* nobody acts on the job between its insertion and its reservation.
THEOREM FrozenIsInHandThm == "early" \notin FaultKinds => (Spec => []FrozenIsInHand)
<1> SUFFICES ASSUME "early" \notin FaultKinds PROVE Spec => []FrozenIsInHand
  OBVIOUS
<1>1. Init => HandInv
  BY HoldAssumption
  DEF Init, HandInv, Undisturbed, Unfrozen, Inflight, WorkerSees, InHand, Frozen, At, Actors,
      SettleSteps
<1>2. BaseInv /\ HandInv /\ [Next]_vars => HandInv'
  BY UndisturbedStep, UnfrozenStep, InflightStep, WorkerSeesStep, InHandStep
  DEF BaseInv, HandInv
<1>3. HandInv => FrozenIsInHand
  BY DEF HandInv, InHand, Waiting, FrozenIsInHand, At, Requests
<1>4. QED
  BY <1>1, <1>2, <1>3, BaseInvariant, PTL DEF Spec
=============================================================================
