---------------------------- MODULE JobSystemProofs ----------------------------
(***************************************************************************)
(* Proofs about JobSystem, for every set of jobs, workers and addresses,   *)
(* every batch size and queue capacity, and every choice of failures.      *)
(***************************************************************************)
EXTENDS JobSystem, FiniteSetTheorems, TLAPS

-----------------------------------------------------------------------------
(* Facts about the helpers.                                                *)

\* The rows an INSERT may add come from the batch, are new, and leave every
\* normalized form of the batch present (results_repo.go, BulkInsert).
LEMMA NewRowsFacts ==
    ASSUME NEW S, NEW old, NEW R \in NewRows(S, old)
    PROVE  /\ R \subseteq S
           /\ \A e \in R : Norm[e] \notin Forms(old)
           /\ \A a, b \in R : Norm[a] = Norm[b] => a = b
           /\ Forms(S) \subseteq Forms(old \cup R)
BY DEF NewRows

\* More rows, more forms.
LEMMA FormsMonotone ==
    ASSUME NEW A, NEW B, A \subseteq B
    PROVE  Forms(A) \subseteq Forms(B)
BY DEF Forms

\* Submit's slice end is past its start and within the list.
LEMMA BatchEndFacts ==
    ASSUME NEW i \in Nat, NEW len \in Nat, i < len
    PROVE  /\ BatchEnd(i, len) \in Nat
           /\ i + 1 <= BatchEnd(i, len)
           /\ BatchEnd(i, len) <= len
BY BatchSizeAssumption DEF BatchEnd

\* Sets of positions are finite, and a set of n of the first n positions is all
\* of them.
LEMMA Positions ==
    ASSUME NEW n \in Nat, NEW S, S \subseteq 1..n
    PROVE  /\ IsFiniteSet(S)
           /\ Cardinality(S) \in Nat
           /\ Cardinality(S) <= n
           /\ Cardinality(S) >= n => S = 1..n
<1>1. IsFiniteSet(1..n) /\ Cardinality(1..n) = n
  BY FS_Interval
<1>2. IsFiniteSet(S) /\ Cardinality(S) <= n /\ (Cardinality(S) = n => S = 1..n)
  BY <1>1, FS_Subset
<1>3. Cardinality(S) \in Nat
  BY <1>2, FS_CardinalityType
<1> QED
  BY <1>2, <1>3

\* How many positions a slice emails[lo:hi] has.
LEMMA IntervalSize ==
    ASSUME NEW a \in Nat, NEW b \in Nat, a <= b
    PROVE  IsFiniteSet(a..b) /\ Cardinality(a..b) = b - a + 1
BY FS_Interval

\* Counting two disjoint sets of positions.
LEMMA DisjointUnion ==
    ASSUME NEW S, NEW T, IsFiniteSet(S), IsFiniteSet(T), S \cap T = {}
    PROVE  Cardinality(S \cup T) = Cardinality(S) + Cardinality(T)
<1>1. Cardinality(S \cup T) = Cardinality(S) + Cardinality(T) - Cardinality(S \cap T)
  BY FS_Union
<1>2. Cardinality(S \cap T) = 0
  BY FS_EmptySet
<1>3. Cardinality(S) \in Nat /\ Cardinality(T) \in Nat
  BY FS_CardinalityType
<1> QED
  BY <1>1, <1>2, <1>3

\* A larger set of positions has at least as many.
LEMMA PositionsMonotone ==
    ASSUME NEW n \in Nat, NEW S, NEW T, S \subseteq T, T \subseteq 1..n
    PROVE  Cardinality(S) <= Cardinality(T)
<1>1. IsFiniteSet(T)
  BY Positions
<1> QED
  BY <1>1, FS_Subset

\* The addresses of a task are addresses of its job's upload.
LEMMA BatchUploaded ==
    ASSUME JobInv, NEW t \in Task, TaskSound(t)
    PROVE  Batch(t) \subseteq Uploaded(t.job) /\ Batch(t) \subseteq Emails
<1>1. /\ t.job \in Jobs /\ t.lo \in Nat \ {0} /\ t.hi \in Nat
      /\ t.hi <= next[t.job] /\ next[t.job] <= Total(t.job)
      /\ next[t.job] \in Nat
      /\ upload[t.job] \in Seq(Emails)
  BY DEF JobInv, TypeOK, TasksSound, TaskSound, Task
<1>2. ASSUME NEW p \in t.lo..t.hi
      PROVE  p \in 1..Total(t.job) /\ upload[t.job][p] \in Emails
  BY <1>1 DEF Total
<1> QED
  BY <1>2 DEF Batch, Uploaded

-----------------------------------------------------------------------------
\* Type correctness of the initial state.
LEMMA TypeInit == Init => TypeOK
<1> SUFFICES ASSUME Init PROVE TypeOK
  OBVIOUS
<1>1. fresh \in [Jobs -> BOOLEAN] /\ up \in BOOLEAN /\ ctxDone \in BOOLEAN
  BY Zenon DEF Init
<1>2. /\ status \in [Jobs -> Statuses] /\ pc \in [Jobs -> RequestStates]
      /\ tracker \in [Jobs -> TrackerStates] /\ phase \in [Workers -> Phases]
  BY DEF Init, Statuses, RequestStates, TrackerStates, Phases
<1> QED
  BY <1>1, <1>2 DEF Init, TypeOK

\* The empty tables and the idle pool satisfy the invariant.
LEMMA InitInv == Init => JobInv
<1> SUFFICES ASSUME Init PROVE JobInv
  OBVIOUS
<1>1. TypeOK
  BY TypeInit
<1>2. UntouchedJobs
  BY DEF Init, UntouchedJobs
<1>3. TasksSound
  BY DEF Init, TasksSound, Total, Busy
<1>4. InFlightOnce
  BY DEF Init, InFlightOnce, Working
<1>5. RowsSound
  BY DEF Init, RowsSound
<1>6. CountSound
  <2> SUFFICES ASSUME NEW j \in Jobs
               PROVE  /\ processed[j] <= Cardinality(Settled(j))
                      /\ tracker[j] # "completing" /\ status[j] # "completed"
    BY DEF CountSound
  <2>1. Settled(j) = {}
    BY DEF Settled, Init
  <2> QED
    BY <2>1, FS_EmptySet DEF Init
<1> QED
  BY <1>1, <1>2, <1>3, <1>4, <1>5, <1>6 DEF JobInv

-----------------------------------------------------------------------------
(* Steps that only move statuses, requests and trackers.                   *)

\* RowsSound speaks of the rows, the uploads and the sources only.
LEMMA RowsFrame ==
    ASSUME RowsSound, UNCHANGED <<rows, upload, source>>
    PROVE  RowsSound'
BY DEF RowsSound, Uploaded, Total

\* A step that leaves the uploads, the rows, the counters and the pool alone
\* keeps everything the invariant says of them; what is left to show is about
\* the status, the request and the tracker.
LEMMA StatusStep ==
    ASSUME JobInv,
           UNCHANGED <<processed, rows, upload, source, next, queue, hand, phase>>,
           TypeOK',
           \A j \in Jobs : pc'[j] \in {"none", "accepted"} =>
               pc[j] = pc'[j] /\ status'[j] = "absent" /\ tracker'[j] = "none",
           \A j \in Jobs : tracker'[j] = "completing" => processed[j] >= Total(j),
           \A j \in Jobs : status'[j] = "completed" => processed[j] >= Total(j)
    PROVE  JobInv'
<1>1. UntouchedJobs'
  BY DEF JobInv, UntouchedJobs
<1>2. TasksSound'
  BY DEF JobInv, TasksSound, TaskSound, Total, Busy, Persisted, Forms
<1>3. InFlightOnce'
  BY DEF JobInv, InFlightOnce, Overlap, Working
<1>4. RowsSound'
  BY RowsFrame DEF JobInv
<1>5. CountSound'
  <2>1. \A j \in Jobs : Settled(j)' = Settled(j)
    BY DEF Settled, Persisted, Forms, Queued, Held, Working
  <2> QED
    BY <2>1 DEF JobInv, CountSound, Total
<1> QED
  BY <1>1, <1>2, <1>3, <1>4, <1>5 DEF JobInv

\* Manager.Create inserts the row with nothing queued for it.
LEMMA CreateInv ==
    ASSUME JobInv, NEW j \in Jobs, Create(j)
    PROVE  JobInv'
<1>1. TypeOK'
  BY DEF JobInv, TypeOK, Create, UpdateStatus, Statuses, RequestStates, poolVars, procVars
<1>2. UNCHANGED <<processed, rows, upload, source, next, queue, hand, phase>>
  BY DEF Create, UpdateStatus, poolVars
<1> QED
  BY <1>1, <1>2, StatusStep DEF JobInv, TypeOK, UntouchedJobs, CountSound, Create, UpdateStatus

\* Submit moves on only while the job is not finished.
LEMMA SubmitBeginInv ==
    ASSUME JobInv, NEW j \in Jobs, SubmitBegin(j)
    PROVE  JobInv'
<1>1. TypeOK'
  BY DEF JobInv, TypeOK, SubmitBegin, dbVars, reqVars, poolVars, procVars, RequestStates
<1>2. UNCHANGED <<processed, rows, upload, source, next, queue, hand, phase>>
  BY DEF SubmitBegin, dbVars, reqVars, poolVars, procVars
<1> QED
  BY <1>1, <1>2, StatusStep DEF JobInv, TypeOK, UntouchedJobs, CountSound, SubmitBegin, dbVars, reqVars, poolVars, procVars

\* Submit's UPDATE to running.
LEMMA SubmitStartInv ==
    ASSUME JobInv, NEW j \in Jobs, SubmitStart(j)
    PROVE  JobInv'
<1>1. TypeOK'
  BY DEF JobInv, TypeOK, SubmitStart, UpdateStatus, dbVars, reqVars, poolVars, procVars, RequestStates, Statuses
<1>2. UNCHANGED <<processed, rows, upload, source, next, queue, hand, phase>>
  BY DEF SubmitStart, UpdateStatus, dbVars, reqVars, poolVars, procVars
<1> QED
  BY <1>1, <1>2, StatusStep DEF JobInv, TypeOK, UntouchedJobs, CountSound, SubmitStart, UpdateStatus, dbVars, reqVars, poolVars, procVars

\* The tracker is spawned; it completes at once only an empty job.
LEMMA SubmitDoneInv ==
    ASSUME JobInv, NEW j \in Jobs, SubmitDone(j)
    PROVE  JobInv'
<1>1. TypeOK'
  BY DEF JobInv, TypeOK, SubmitDone, RequestStates, TrackerStates,
         dbVars, reqVars, poolVars, procVars
<1>2. UNCHANGED <<processed, rows, upload, source, next, queue, hand, phase>>
  BY DEF SubmitDone, dbVars, poolVars
<1>3. tracker'[j] = "completing" => processed[j] >= Total(j)
  BY DEF JobInv, TypeOK, SubmitDone, Total
<1> QED
  BY <1>1, <1>2, <1>3, StatusStep
  DEF JobInv, TypeOK, UntouchedJobs, CountSound, SubmitDone, dbVars

\* A request that gives up leaves the row and the queued batches as they are.
LEMMA RequestFailsInv ==
    ASSUME JobInv, NEW j \in Jobs, RequestFails(j)
    PROVE  JobInv'
<1>1. TypeOK'
  BY DEF JobInv, TypeOK, RequestFails, dbVars, reqVars, poolVars, procVars, RequestStates
<1>2. UNCHANGED <<processed, rows, upload, source, next, queue, hand, phase>>
  BY DEF RequestFails, dbVars, reqVars, poolVars, procVars
<1> QED
  BY <1>1, <1>2, StatusStep DEF JobInv, TypeOK, UntouchedJobs, CountSound, RequestFails, dbVars, reqVars, poolVars, procVars

\* A statement that took effect before its request failed.
LEMMA RequestAnswerLostInv ==
    ASSUME JobInv, NEW j \in Jobs, RequestAnswerLost(j)
    PROVE  JobInv'
<1>1. TypeOK'
  BY DEF JobInv, TypeOK, RequestAnswerLost, UpdateStatus, dbVars, reqVars, poolVars, procVars, RequestStates, Statuses
<1>2. UNCHANGED <<processed, rows, upload, source, next, queue, hand, phase>>
  BY DEF RequestAnswerLost, UpdateStatus, dbVars, reqVars, poolVars, procVars
<1> QED
  BY <1>1, <1>2, StatusStep DEF JobInv, TypeOK, UntouchedJobs, CountSound, RequestAnswerLost, UpdateStatus, dbVars, reqVars, poolVars, procVars

\* The tracker decides to complete only when every address was counted.
LEMMA TrackerPollInv ==
    ASSUME JobInv, NEW j \in Jobs, TrackerPoll(j)
    PROVE  JobInv'
<1>1. TypeOK'
  BY DEF JobInv, TypeOK, TrackerPoll, dbVars, reqVars, poolVars, procVars, TrackerStates
<1>2. UNCHANGED <<processed, rows, upload, source, next, queue, hand, phase>>
  BY DEF TrackerPoll, dbVars, reqVars, poolVars, procVars
<1> QED
  BY <1>1, <1>2, StatusStep DEF JobInv, TypeOK, UntouchedJobs, CountSound, TrackerPoll, dbVars, reqVars, poolVars, procVars

\* The decision still holds when it is written: the counter never goes down.
LEMMA TrackerCompleteInv ==
    ASSUME JobInv, NEW j \in Jobs, TrackerComplete(j)
    PROVE  JobInv'
<1>1. TypeOK'
  BY DEF JobInv, TypeOK, TrackerComplete, UpdateStatus, dbVars, reqVars, poolVars, procVars, TrackerStates, Statuses
<1>2. UNCHANGED <<processed, rows, upload, source, next, queue, hand, phase>>
  BY DEF TrackerComplete, UpdateStatus, dbVars, reqVars, poolVars, procVars
<1> QED
  BY <1>1, <1>2, StatusStep DEF JobInv, TypeOK, UntouchedJobs, CountSound, TrackerComplete, UpdateStatus, dbVars, reqVars, poolVars, procVars

\* A tracker that dies writes nothing.
LEMMA TrackerErrorInv ==
    ASSUME JobInv, NEW j \in Jobs, TrackerError(j)
    PROVE  JobInv'
<1>1. TypeOK'
  BY DEF JobInv, TypeOK, TrackerError, dbVars, reqVars, poolVars, procVars, TrackerStates
<1>2. UNCHANGED <<processed, rows, upload, source, next, queue, hand, phase>>
  BY DEF TrackerError, dbVars, reqVars, poolVars, procVars
<1> QED
  BY <1>1, <1>2, StatusStep DEF JobInv, TypeOK, UntouchedJobs, CountSound, TrackerError, dbVars, reqVars, poolVars, procVars

\* The 24-hour deadline writes only the status.
LEMMA TrackerDeadlineInv ==
    ASSUME JobInv, NEW j \in Jobs, TrackerDeadline(j)
    PROVE  JobInv'
<1>1. TypeOK'
  BY DEF JobInv, TypeOK, TrackerDeadline, UpdateStatus, dbVars, reqVars, poolVars, procVars, TrackerStates, Statuses
<1>2. UNCHANGED <<processed, rows, upload, source, next, queue, hand, phase>>
  BY DEF TrackerDeadline, UpdateStatus, dbVars, reqVars, poolVars, procVars
<1> QED
  BY <1>1, <1>2, StatusStep DEF JobInv, TypeOK, UntouchedJobs, CountSound, TrackerDeadline, UpdateStatus, dbVars, reqVars, poolVars, procVars

\* Cancel writes only the status.
LEMMA CancelInv ==
    ASSUME JobInv, NEW j \in Jobs, Cancel(j)
    PROVE  JobInv'
<1>1. TypeOK'
  BY DEF JobInv, TypeOK, Cancel, UpdateStatus, Cancellable, dbVars, reqVars, poolVars, procVars, Statuses
<1>2. UNCHANGED <<processed, rows, upload, source, next, queue, hand, phase>>
  BY DEF Cancel, UpdateStatus, Cancellable, dbVars, reqVars, poolVars, procVars
<1> QED
  BY <1>1, <1>2, StatusStep DEF JobInv, TypeOK, UntouchedJobs, CountSound, Cancel, UpdateStatus, Cancellable, dbVars, reqVars, poolVars, procVars

\* CancelAllRunning writes only statuses.
LEMMA CancelAllRunningInv ==
    ASSUME JobInv, CancelAllRunning
    PROVE  JobInv'
<1>1. TypeOK'
  BY DEF JobInv, TypeOK, CancelAllRunning, Cancellable, dbVars, reqVars, poolVars, procVars, Statuses
<1>2. UNCHANGED <<processed, rows, upload, source, next, queue, hand, phase>>
  BY DEF CancelAllRunning, Cancellable, dbVars, reqVars, poolVars, procVars
<1> QED
  BY <1>1, <1>2, StatusStep DEF JobInv, TypeOK, UntouchedJobs, CountSound, CancelAllRunning, Cancellable, dbVars, reqVars, poolVars, procVars

\* ForceFail writes only the status.
LEMMA ForceFailInv ==
    ASSUME JobInv, NEW j \in Jobs, ForceFail(j)
    PROVE  JobInv'
<1>1. TypeOK'
  BY DEF JobInv, TypeOK, ForceFail, UpdateStatus, Cancellable, dbVars, reqVars, poolVars, procVars, Statuses
<1>2. UNCHANGED <<processed, rows, upload, source, next, queue, hand, phase>>
  BY DEF ForceFail, UpdateStatus, Cancellable, dbVars, reqVars, poolVars, procVars
<1> QED
  BY <1>1, <1>2, StatusStep DEF JobInv, TypeOK, UntouchedJobs, CountSound, ForceFail, UpdateStatus, Cancellable, dbVars, reqVars, poolVars, procVars

\* Time alone changes no row.
LEMMA AgeInv ==
    ASSUME JobInv, NEW j \in Jobs, Age(j)
    PROVE  JobInv'
<1>1. TypeOK'
  BY DEF JobInv, TypeOK, Age, dbVars, reqVars, poolVars, procVars
<1>2. UNCHANGED <<processed, rows, upload, source, next, queue, hand, phase>>
  BY DEF Age, dbVars, reqVars, poolVars, procVars
<1> QED
  BY <1>1, <1>2, StatusStep DEF JobInv, TypeOK, UntouchedJobs, CountSound, Age, dbVars, reqVars, poolVars, procVars

\* The signal changes no row and no queue.
LEMMA SigtermInv ==
    ASSUME JobInv, Sigterm
    PROVE  JobInv'
<1>1. TypeOK'
  BY DEF JobInv, TypeOK, Sigterm, dbVars, reqVars, poolVars, procVars
<1>2. UNCHANGED <<processed, rows, upload, source, next, queue, hand, phase>>
  BY DEF Sigterm, dbVars, reqVars, poolVars, procVars
<1> QED
  BY <1>1, <1>2, StatusStep DEF JobInv, TypeOK, UntouchedJobs, CountSound, Sigterm, dbVars, reqVars, poolVars, procVars

\* The recovery at boot writes only statuses.
LEMMA BootInv ==
    ASSUME JobInv, Boot
    PROVE  JobInv'
<1>1. TypeOK'
  BY DEF JobInv, TypeOK, Boot, MarkStaleAsFailed, Stale, dbVars, reqVars, poolVars, procVars, Statuses
<1>2. UNCHANGED <<processed, rows, upload, source, next, queue, hand, phase>>
  BY DEF Boot, MarkStaleAsFailed, Stale, dbVars, reqVars, poolVars, procVars
<1> QED
  BY <1>1, <1>2, StatusStep DEF JobInv, TypeOK, UntouchedJobs, CountSound, Boot, MarkStaleAsFailed, Stale, dbVars, reqVars, poolVars, procVars

\* So does the recovery of another process.
LEMMA PeerBootInv ==
    ASSUME JobInv, PeerBoot
    PROVE  JobInv'
<1>1. TypeOK'
  BY DEF JobInv, TypeOK, PeerBoot, MarkStaleAsFailed, Stale, dbVars, reqVars, poolVars, procVars, Statuses
<1>2. UNCHANGED <<processed, rows, upload, source, next, queue, hand, phase>>
  BY DEF PeerBoot, MarkStaleAsFailed, Stale, dbVars, reqVars, poolVars, procVars
<1> QED
  BY <1>1, <1>2, StatusStep DEF JobInv, TypeOK, UntouchedJobs, CountSound, PeerBoot, MarkStaleAsFailed, Stale, dbVars, reqVars, poolVars, procVars

-----------------------------------------------------------------------------
(* The request is accepted: the list of addresses is fixed.                *)

\* What the importer hands over is a list of addresses.
LEMMA UploadsAreLists ==
    ASSUME NEW list \in Uploads
    PROVE  list \in Seq(Emails)
<1> PICK n \in 0..MaxUpload : list \in [1..n -> Emails]
  BY DEF Uploads
<1> QED
  BY MaxUploadAssumption

\* What ImportHandlers.CSV and Requeue have in common.
LEMMA AcceptStep ==
    ASSUME JobInv, NEW j \in Jobs, pc[j] = "none",
           NEW list \in Seq(Emails), NEW src \in Jobs \cup {NoJob},
           src # NoJob => {list[p] : p \in 1..Len(list)} = rows[src],
           pc' = [pc EXCEPT ![j] = "accepted"],
           upload' = [upload EXCEPT ![j] = list],
           source' = [source EXCEPT ![j] = src],
           UNCHANGED <<status, processed, fresh, rows, next, tracker,
                       queue, hand, phase, up, ctxDone>>
    PROVE  JobInv'
<1>1. TypeOK'
  BY DEF JobInv, TypeOK, RequestStates
<1>2. upload[j] = << >> /\ next[j] = 0
  BY DEF JobInv, UntouchedJobs
<1>3. \A k \in Jobs : k # j => upload'[k] = upload[k] /\ source'[k] = source[k]
  BY DEF JobInv, TypeOK
<1>4. upload'[j] = list /\ source'[j] = src /\ pc'[j] = "accepted"
  BY DEF JobInv, TypeOK
<1>5. UntouchedJobs'
  BY <1>3, <1>4 DEF JobInv, UntouchedJobs, TypeOK
<1>6. \A w \in Workers : Working(w) => hand[w].job # j
  <2> SUFFICES ASSUME NEW w \in Workers, Working(w), hand[w].job = j PROVE FALSE
    OBVIOUS
  <2>1. hand[w] \in Task /\ TaskSound(hand[w])
    BY DEF JobInv, TasksSound, Working, Busy
  <2> QED
    BY <1>2, <2>1 DEF TaskSound, Task
<1>7. \A k \in Jobs : k # j => \A p : Persisted(k, p)' = Persisted(k, p)
  BY <1>3 DEF Persisted, Forms
<1>8. TasksSound'
  <2>1. \A k \in Jobs : next'[k] <= Total(k)'
    BY <1>2, <1>3, <1>4 DEF JobInv, TasksSound, Total, TypeOK
  <2>2. \A i \in 1..Len(queue') : TaskSound(queue[i])'
    BY DEF JobInv, TasksSound, TaskSound
  <2>3. ASSUME NEW w \in Workers
        PROVE  Busy(w)' => hand'[w] \in Task /\ TaskSound(hand[w])'
    BY DEF JobInv, TasksSound, TaskSound, Busy
  <2>4. ASSUME NEW w \in Workers, phase'[w] = "progress",
               NEW p \in hand[w].lo..hand[w].hi
        PROVE  Persisted(hand[w].job, p)'
    <3>1. Working(w)
      BY <2>4 DEF Working
    <3>2. hand[w].job \in Jobs /\ hand[w].job # j /\ Persisted(hand[w].job, p)
      BY <1>6, <2>4, <3>1 DEF JobInv, TasksSound, Task, Working, Busy
    <3> QED
      BY <1>7, <3>2 DEF Persisted, Forms
  <2> QED
    BY <2>1, <2>2, <2>3, <2>4 DEF TasksSound
<1>9. InFlightOnce'
  BY DEF JobInv, InFlightOnce, Overlap, Working
<1>10. RowsSound'
  <2>1. rows[j] = {}
    BY <1>2 DEF JobInv, RowsSound, Uploaded, Total
  <2>2. Uploaded(j)' = {list[p] : p \in 1..Len(list)}
    BY <1>4 DEF Uploaded, Total
  <2>3. \A k \in Jobs : k # j => Uploaded(k)' = Uploaded(k)
    BY <1>3 DEF Uploaded, Total
  <2> QED
    BY <1>3, <1>4, <2>1, <2>2, <2>3 DEF JobInv, RowsSound
<1>11. CountSound'
  <2>1. ASSUME NEW k \in Jobs, k # j PROVE Settled(k)' = Settled(k)
    BY <1>7, <2>1 DEF Settled, Queued, Held, Working
  <2>2. Settled(j)' = {} /\ Settled(j) = {}
    BY <1>2 DEF Settled
  <2>3. tracker[j] = "none" /\ status[j] = "absent"
    BY DEF JobInv, UntouchedJobs
  <2>4. \A k \in Jobs : k # j => Total(k)' = Total(k)
    BY <1>3 DEF Total
  <2> QED
    BY <2>1, <2>2, <2>3, <2>4 DEF JobInv, CountSound
<1> QED
  BY <1>1, <1>5, <1>8, <1>9, <1>10, <1>11 DEF JobInv

\* An import fills in the upload of a job that left no trace yet.
LEMMA ImportAcceptInv ==
    ASSUME JobInv, NEW j \in Jobs, NEW list \in Uploads, ImportAccept(j, list)
    PROVE  JobInv'
<1>1. source' = [source EXCEPT ![j] = NoJob]
  BY DEF ImportAccept, JobInv, UntouchedJobs, TypeOK
<1> QED
  BY <1>1, UploadsAreLists, AcceptStep DEF ImportAccept, dbVars, poolVars, procVars

\* A requeue does the same with addresses that have a row in the source job.
LEMMA RequeueAcceptInv ==
    ASSUME JobInv, NEW j \in Jobs, NEW src \in Jobs, NEW list \in Uploads,
           RequeueAccept(j, src, list)
    PROVE  JobInv'
BY UploadsAreLists, AcceptStep DEF RequeueAccept, dbVars, poolVars, procVars

-----------------------------------------------------------------------------
(* Submit hands a batch to the pool.                                       *)

\* A new slice starts where the last one ended, so it overlaps none in flight.
LEMMA SubmitBatchInv ==
    ASSUME JobInv, NEW j \in Jobs, SubmitBatch(j)
    PROVE  JobInv'
<1> DEFINE end == BatchEnd(next[j], Total(j))
           task == [job |-> j, lo |-> next[j] + 1, hi |-> end]
<1>1. /\ next[j] \in Nat /\ Total(j) \in Nat /\ next[j] < Total(j)
      /\ queue \in Seq(Task) /\ pc[j] = "submitting"
      /\ queue' = Append(queue, task)
      /\ next' = [next EXCEPT ![j] = end]
      /\ UNCHANGED <<status, processed, fresh, rows, upload, source, pc, tracker,
                     hand, phase, up, ctxDone>>
  BY DEF JobInv, TypeOK, SubmitBatch, Slice, Total, dbVars, procVars
<1>2. end \in Nat /\ next[j] + 1 <= end /\ end <= Total(j)
  BY <1>1, BatchEndFacts
<1> HIDE DEF end
<1>3. task \in Task
  BY <1>1, <1>2 DEF Task
<1>4. /\ Len(queue') = Len(queue) + 1 /\ Len(queue) \in Nat
      /\ \A i \in 1..Len(queue) : queue'[i] = queue[i]
      /\ queue'[Len(queue) + 1] = task
      /\ queue' \in Seq(Task)
  BY <1>1, <1>3
<1> HIDE DEF task
<1>5. task.job = j /\ task.lo = next[j] + 1 /\ task.hi = end
  BY DEF task
<1>6. TypeOK'
  BY <1>1, <1>2, <1>4 DEF JobInv, TypeOK
<1>7. /\ \A k \in Jobs : k # j => next'[k] = next[k]
      /\ next'[j] = end
      /\ \A k \in Jobs : next[k] \in Nat /\ next'[k] \in Nat /\ next[k] <= next'[k]
  BY <1>1, <1>2 DEF JobInv, TypeOK
<1>8. UntouchedJobs'
  BY <1>1, <1>7 DEF JobInv, UntouchedJobs
<1>9. \A t \in Task : TaskSound(t) => TaskSound(t)'
  BY <1>7 DEF TaskSound, Task
<1>10. \A i \in 1..Len(queue) : queue[i] \in Task /\ TaskSound(queue[i])
  BY <1>1 DEF JobInv, TasksSound
<1>11. \A w \in Workers : Busy(w) => hand[w] \in Task /\ TaskSound(hand[w])
  BY DEF JobInv, TasksSound
<1>12. TasksSound'
  <2>1. \A k \in Jobs : next'[k] <= Total(k)'
    BY <1>1, <1>2, <1>7 DEF JobInv, TasksSound, Total
  <2>2. \A i \in 1..Len(queue') : TaskSound(queue[i])'
    <3> SUFFICES ASSUME NEW i \in 1..Len(queue')
                 PROVE  queue'[i].lo <= queue'[i].hi
                        /\ queue'[i].hi <= next'[queue'[i].job]
      BY DEF TaskSound
    <3>1. CASE i \in 1..Len(queue)
      BY <1>4, <1>9, <1>10, <3>1 DEF TaskSound
    <3>2. CASE i = Len(queue) + 1
      BY <1>2, <1>4, <1>5, <1>7, <3>2
    <3> QED
      BY <1>4, <3>1, <3>2
  <2>3. ASSUME NEW w \in Workers
        PROVE  phase'[w] = "progress" =>
                   \A p \in hand'[w].lo..hand'[w].hi : Persisted(hand[w].job, p)'
    BY <1>1 DEF JobInv, TasksSound, Persisted, Forms
  <2>4. ASSUME NEW w \in Workers, Busy(w)'
        PROVE  hand'[w] \in Task /\ TaskSound(hand[w])'
    <3>1. Busy(w) /\ hand'[w] = hand[w]
      BY <1>1, <2>4 DEF Busy
    <3> QED
      BY <1>9, <1>11, <3>1 DEF TaskSound
  <2> QED
    BY <2>1, <2>2, <2>3, <2>4 DEF TasksSound
<1>13. \A t \in Task : TaskSound(t) => ~Overlap(t, task) /\ ~Overlap(task, t)
  BY <1>1, <1>5 DEF TaskSound, Overlap, Task
<1>14. InFlightOnce'
  <2>1. ASSUME NEW a \in 1..Len(queue'), NEW b \in 1..Len(queue'), a # b
        PROVE  ~Overlap(queue[a], queue[b])'
    <3>1. CASE a \in 1..Len(queue) /\ b \in 1..Len(queue)
      BY <1>4, <2>1, <3>1 DEF JobInv, InFlightOnce, Overlap
    <3>2. CASE a = Len(queue) + 1 /\ b \in 1..Len(queue)
      BY <1>4, <1>10, <1>13, <3>2 DEF Overlap
    <3>3. CASE b = Len(queue) + 1 /\ a \in 1..Len(queue)
      BY <1>4, <1>10, <1>13, <3>3 DEF Overlap
    <3> QED
      BY <1>4, <2>1, <3>1, <3>2, <3>3
  <2>2. ASSUME NEW a \in 1..Len(queue'), NEW w \in Workers, Working(w)'
        PROVE  ~Overlap(queue[a], hand[w])'
    <3>1. Working(w) /\ hand'[w] = hand[w]
      BY <1>1, <2>2 DEF Working
    <3>2. CASE a \in 1..Len(queue)
      BY <1>4, <3>1, <3>2 DEF JobInv, InFlightOnce, Overlap
    <3>3. CASE a = Len(queue) + 1
      BY <1>4, <1>11, <1>13, <3>1, <3>3 DEF Overlap, Working, Busy
    <3> QED
      BY <1>4, <3>2, <3>3
  <2>3. \A v, w \in Workers :
            v # w /\ Working(v)' /\ Working(w)' => ~Overlap(hand[v], hand[w])'
    BY <1>1 DEF JobInv, InFlightOnce, Overlap, Working
  <2> QED
    BY <2>1, <2>2, <2>3 DEF InFlightOnce
<1>15. RowsSound'
  BY <1>1, RowsFrame DEF JobInv
<1>16. CountSound'
  <2> SUFFICES ASSUME NEW k \in Jobs PROVE Settled(k)' = Settled(k)
    BY <1>1 DEF JobInv, CountSound, Total
  <2>1. ASSUME NEW p PROVE p \in Settled(k)' => p \in Settled(k)
    <3> SUFFICES ASSUME p \in Settled(k)' PROVE p \in Settled(k)
      OBVIOUS
    <3>1. /\ p \in 1..next'[k] /\ Persisted(k, p) /\ p \notin Held(k)'
          /\ \A i \in 1..Len(queue') :
                ~(queue'[i].job = k /\ queue'[i].lo <= p /\ p <= queue'[i].hi)
      BY <1>1 DEF Settled, Persisted, Forms, Queued
    <3>2. p \in 1..next[k]
      BY <1>4, <1>5, <1>7, <3>1
    <3>3. p \notin Queued(k)
      BY <1>4, <3>1 DEF Queued
    <3>4. p \notin Held(k)
      BY <1>1, <3>1 DEF Held, Working
    <3> QED
      BY <3>1, <3>2, <3>3, <3>4 DEF Settled
  <2>2. ASSUME NEW p PROVE p \in Settled(k) => p \in Settled(k)'
    <3> SUFFICES ASSUME p \in Settled(k) PROVE p \in Settled(k)'
      OBVIOUS
    <3>1. /\ p \in 1..next[k] /\ Persisted(k, p) /\ p \notin Held(k)
          /\ \A i \in 1..Len(queue) :
                ~(queue[i].job = k /\ queue[i].lo <= p /\ p <= queue[i].hi)
      BY DEF Settled, Queued
    <3>2. p \in 1..next'[k]
      BY <1>7, <3>1
    <3>3. p \notin Queued(k)'
      BY <1>1, <1>4, <1>5, <3>1 DEF Queued
    <3>4. p \notin Held(k)'
      BY <1>1, <3>1 DEF Held, Working
    <3> QED
      BY <1>1, <3>1, <3>2, <3>3, <3>4 DEF Settled, Persisted, Forms
  <2> QED
    BY <2>1, <2>2
<1> QED
  BY <1>6, <1>8, <1>12, <1>14, <1>15, <1>16 DEF JobInv

-----------------------------------------------------------------------------
(* The workers, and the crash of the process.                              *)

\* Rows only accumulate, so what was persisted stays persisted.
LEMMA PersistedStays ==
    ASSUME NEW j \in Jobs, NEW p, rows[j] \subseteq rows'[j],
           upload' = upload, Persisted(j, p)
    PROVE  Persisted(j, p)'
BY DEF Persisted, Forms

\* A step after which no more is in flight than before, no row is gone and
\* nothing was counted keeps the counter sound: settled positions stay settled.
LEMMA LessInFlight ==
    ASSUME JobInv,
           UNCHANGED <<processed, upload, source, next>>,
           TypeOK', UntouchedJobs', RowsSound',
           queue' = queue \/ queue' = << >>,
           \A w \in Workers : /\ Busy(w)' => Busy(w) /\ hand'[w] = hand[w]
                              /\ Working(w)' => Working(w),
           \A w \in Workers : phase'[w] = "progress" =>
               \A p \in hand'[w].lo..hand'[w].hi : Persisted(hand[w].job, p)',
           \A j \in Jobs : rows[j] \subseteq rows'[j],
           \A j \in Jobs : tracker'[j] = "completing" => tracker[j] = "completing",
           \A j \in Jobs : status'[j] = "completed" => status[j] = "completed"
    PROVE  JobInv'
<1>1. queue \in Seq(Task) /\ Len(queue) \in Nat
  BY DEF JobInv, TypeOK
<1>2. \A i \in 1..Len(queue') : i \in 1..Len(queue) /\ queue'[i] = queue[i]
  BY <1>1
<1>3. TasksSound'
  <2>1. \A j \in Jobs : next'[j] <= Total(j)'
    BY DEF JobInv, TasksSound, Total
  <2>2. \A i \in 1..Len(queue') : TaskSound(queue[i])'
    BY <1>2 DEF JobInv, TasksSound, TaskSound
  <2>3. \A w \in Workers : Busy(w)' => hand'[w] \in Task /\ TaskSound(hand[w])'
    BY DEF JobInv, TasksSound, TaskSound
  <2> QED
    BY <2>1, <2>2, <2>3 DEF TasksSound
<1>4. InFlightOnce'
  <2> USE DEF Busy, Working
  <2>1. \A a, b \in 1..Len(queue') : a # b => ~Overlap(queue[a], queue[b])'
    BY <1>2 DEF JobInv, InFlightOnce, Overlap
  <2>2. \A a \in 1..Len(queue'), w \in Workers :
            Working(w)' => ~Overlap(queue[a], hand[w])'
    BY <1>2 DEF JobInv, InFlightOnce, Overlap
  <2>3. \A v, w \in Workers :
            v # w /\ Working(v)' /\ Working(w)' => ~Overlap(hand[v], hand[w])'
    BY DEF JobInv, InFlightOnce, Overlap
  <2> QED
    BY <2>1, <2>2, <2>3 DEF InFlightOnce
<1>5. CountSound'
  <2> SUFFICES ASSUME NEW j \in Jobs
               PROVE  processed[j] <= Cardinality(Settled(j)')
    BY DEF JobInv, CountSound, Total
  <2>1. ASSUME NEW p \in Settled(j) PROVE p \in Settled(j)'
    <3>1. p \in 1..next'[j] /\ Persisted(j, p)'
      BY PersistedStays DEF Settled
    <3>2. p \notin Queued(j)'
      BY <1>2 DEF Settled, Queued
    <3>3. p \notin Held(j)'
      <4>1. \A w \in Workers : Working(w)' => Working(w) /\ hand'[w] = hand[w]
        BY DEF Working, Busy
      <4>2. p \in 1..next[j] /\ p \notin Held(j)
        BY DEF Settled
      <4> QED
        BY <4>1, <4>2 DEF Held
    <3> QED
      BY <3>1, <3>2, <3>3 DEF Settled
  <2>2. next[j] \in Nat /\ processed[j] \in Nat
    BY DEF JobInv, TypeOK
  <2>3. Settled(j) \subseteq 1..next[j] /\ Settled(j)' \subseteq 1..next[j]
    BY DEF Settled
  <2>4. /\ Cardinality(Settled(j)) \in Nat /\ Cardinality(Settled(j)') \in Nat
        /\ Cardinality(Settled(j)) <= Cardinality(Settled(j)')
    BY <2>1, <2>2, <2>3, Positions, PositionsMonotone
  <2> QED
    BY <2>2, <2>4 DEF JobInv, CountSound
<1> QED
  BY <1>3, <1>4, <1>5 DEF JobInv

\* A worker that exits was holding nothing.
LEMMA WorkerExitInv ==
    ASSUME JobInv, NEW w \in Workers, WorkerExit(w)
    PROVE  JobInv'
<1>1. TypeOK' /\ UntouchedJobs' /\ RowsSound'
  BY RowsFrame DEF JobInv, TypeOK, UntouchedJobs, WorkerExit, Phases,
                   dbVars, reqVars, procVars
<1>2. \A v \in Workers :
          /\ Busy(v)' => Busy(v) /\ hand'[v] = hand[v]
          /\ Working(v)' => Working(v)
          /\ phase'[v] = "progress" => phase[v] = "progress" /\ hand'[v] = hand[v]
  BY DEF WorkerExit, Busy, Working, JobInv, TypeOK
<1>3. \A v \in Workers : phase'[v] = "progress" =>
          \A p \in hand'[v].lo..hand'[v].hi : Persisted(hand[v].job, p)'
  BY <1>2 DEF JobInv, TasksSound, Persisted, Forms, WorkerExit, dbVars, reqVars
<1> QED
  BY <1>1, <1>2, <1>3, LessInFlight DEF WorkerExit, dbVars, reqVars

\* Validation writes nothing.
LEMMA ValidateInv ==
    ASSUME JobInv, NEW w \in Workers, Validate(w)
    PROVE  JobInv'
<1>1. TypeOK' /\ UntouchedJobs' /\ RowsSound'
  BY RowsFrame DEF JobInv, TypeOK, UntouchedJobs, Validate, Phases,
                   dbVars, reqVars, procVars
<1>2. \A v \in Workers :
          /\ Busy(v)' => Busy(v) /\ hand'[v] = hand[v]
          /\ Working(v)' => Working(v)
          /\ phase'[v] = "progress" => phase[v] = "progress" /\ hand'[v] = hand[v]
  BY DEF Validate, Busy, Working, JobInv, TypeOK
<1>3. \A v \in Workers : phase'[v] = "progress" =>
          \A p \in hand'[v].lo..hand'[v].hi : Persisted(hand[v].job, p)'
  BY <1>2 DEF JobInv, TasksSound, Persisted, Forms, Validate, dbVars, reqVars
<1> QED
  BY <1>1, <1>2, <1>3, LessInFlight DEF Validate, dbVars, reqVars

\* A batch abandoned before its rows were written was never counted.
LEMMA ValidateAbortInv ==
    ASSUME JobInv, NEW w \in Workers, ValidateAbort(w)
    PROVE  JobInv'
<1>1. TypeOK' /\ UntouchedJobs' /\ RowsSound'
  BY RowsFrame DEF JobInv, TypeOK, UntouchedJobs, ValidateAbort, Finish, Phases,
                   dbVars, reqVars, procVars
<1>2. \A v \in Workers :
          /\ Busy(v)' => Busy(v) /\ hand'[v] = hand[v]
          /\ Working(v)' => Working(v)
          /\ phase'[v] = "progress" => phase[v] = "progress" /\ hand'[v] = hand[v]
  BY DEF ValidateAbort, Finish, Busy, Working, JobInv, TypeOK
<1>3. \A v \in Workers : phase'[v] = "progress" =>
          \A p \in hand'[v].lo..hand'[v].hi : Persisted(hand[v].job, p)'
  BY <1>2 DEF JobInv, TasksSound, Persisted, Forms, ValidateAbort, dbVars, reqVars
<1> QED
  BY <1>1, <1>2, <1>3, LessInFlight DEF ValidateAbort, dbVars, reqVars

\* markJobFailed drops the batch and writes only the status.
LEMMA MarkJobFailedInv ==
    ASSUME JobInv, NEW w \in Workers, MarkJobFailed(w)
    PROVE  JobInv'
<1> DEFINE j == hand[w].job
<1>1. hand[w] \in Task /\ TaskSound(hand[w])
  BY DEF JobInv, TasksSound, MarkJobFailed, Busy
<1>2. j \in Jobs /\ pc[j] \notin {"none", "accepted"}
  BY <1>1 DEF JobInv, UntouchedJobs, TaskSound, Task
<1> HIDE DEF j
<1>3. /\ UNCHANGED <<processed, rows, upload, source, next, pc, tracker, queue,
                     up, ctxDone>>
      /\ Finish(w)
      /\ UpdateStatus(j, "failed") \/ UNCHANGED <<status, fresh>>
  BY DEF j, MarkJobFailed, UpdateStatus, dbVars, reqVars, procVars
<1>4. TypeOK' /\ UntouchedJobs' /\ RowsSound'
  BY <1>2, <1>3, RowsFrame
  DEF JobInv, TypeOK, UntouchedJobs, UpdateStatus, Finish, Statuses, Phases
<1>5. \A v \in Workers :
          /\ Busy(v)' => Busy(v) /\ hand'[v] = hand[v]
          /\ Working(v)' => Working(v)
          /\ phase'[v] = "progress" => phase[v] = "progress" /\ hand'[v] = hand[v]
  BY <1>3 DEF Finish, Busy, Working, JobInv, TypeOK
<1>6. \A v \in Workers : phase'[v] = "progress" =>
          \A p \in hand'[v].lo..hand'[v].hi : Persisted(hand[v].job, p)'
  BY <1>3, <1>5 DEF JobInv, TasksSound, Persisted, Forms
<1>7. \A k \in Jobs : status'[k] = "completed" => status[k] = "completed"
  BY <1>2, <1>3 DEF UpdateStatus, JobInv, TypeOK
<1> QED
  BY <1>3, <1>4, <1>5, <1>6, <1>7, LessInFlight

\* What a committed BulkInsert does: rows of the batch are added, one per form,
\* and afterwards every address of the batch is persisted.
LEMMA BulkInsertFacts ==
    ASSUME JobInv, NEW t \in Task, TaskSound(t), BulkInsert(t),
           UNCHANGED <<upload, source>>
    PROVE  /\ rows' \in [Jobs -> SUBSET Emails]
           /\ \A j \in Jobs : rows[j] \subseteq rows'[j]
           /\ RowsSound'
           /\ \A p \in t.lo..t.hi : Persisted(t.job, p)'
<1>1. PICK R \in NewRows(Batch(t), rows[t.job]) :
          rows' = [rows EXCEPT ![t.job] = @ \cup R]
  BY DEF BulkInsert
<1>2. /\ t.job \in Jobs /\ rows \in [Jobs -> SUBSET Emails]
      /\ rows'[t.job] = rows[t.job] \cup R
      /\ \A k \in Jobs : k # t.job => rows'[k] = rows[k]
  BY <1>1 DEF JobInv, TypeOK, Task
<1>3. /\ R \subseteq Batch(t)
      /\ \A e \in R : Norm[e] \notin Forms(rows[t.job])
      /\ \A a, b \in R : Norm[a] = Norm[b] => a = b
      /\ Forms(Batch(t)) \subseteq Forms(rows[t.job] \cup R)
  BY <1>1, NewRowsFacts
<1>4. Batch(t) \subseteq Uploaded(t.job) /\ Batch(t) \subseteq Emails
  BY BatchUploaded
<1>5. rows' \in [Jobs -> SUBSET Emails]
  BY <1>1, <1>2, <1>3, <1>4
<1>6. \A j \in Jobs : rows[j] \subseteq rows'[j]
  BY <1>2
<1>7. RowsSound'
  <2> SUFFICES ASSUME NEW j \in Jobs
               PROVE  /\ rows'[j] \subseteq Uploaded(j)
                      /\ \A a, b \in rows'[j] : Norm[a] = Norm[b] => a = b
                      /\ source[j] # NoJob => Uploaded(j) \subseteq rows'[source[j]]
    <3>1. \A k \in Jobs : Uploaded(k)' = Uploaded(k)
      BY DEF Uploaded, Total
    <3> QED
      BY <3>1 DEF RowsSound
  <2>1. rows'[j] \subseteq Uploaded(j)
    BY <1>2, <1>3, <1>4 DEF JobInv, RowsSound
  <2>2. ASSUME NEW a \in rows'[j], NEW b \in rows'[j], Norm[a] = Norm[b]
        PROVE  a = b
    <3>1. CASE j # t.job
      BY <1>2, <2>2, <3>1 DEF JobInv, RowsSound
    <3>2. CASE j = t.job
      <4>1. \A e \in rows[t.job] : Norm[e] \in Forms(rows[t.job])
        BY DEF Forms
      <4> QED
        BY <1>2, <1>3, <2>2, <3>2, <4>1 DEF JobInv, RowsSound
    <3> QED
      BY <3>1, <3>2
  <2>3. ASSUME source[j] # NoJob PROVE Uploaded(j) \subseteq rows'[source[j]]
    <3>1. source[j] \in Jobs
      BY <2>3 DEF JobInv, TypeOK
    <3>2. Uploaded(j) \subseteq rows[source[j]]
      BY <2>3 DEF JobInv, RowsSound
    <3> QED
      BY <1>6, <3>1, <3>2
  <2> QED
    BY <2>1, <2>2, <2>3
<1>8. ASSUME NEW p \in t.lo..t.hi PROVE Persisted(t.job, p)'
  <2>1. upload[t.job][p] \in Batch(t)
    BY DEF Batch
  <2>2. Norm[upload[t.job][p]] \in Forms(Batch(t))
    BY <2>1 DEF Forms
  <2>3. Norm[upload[t.job][p]] \in Forms(rows'[t.job])
    BY <1>2, <1>3, <2>2
  <2> QED
    BY <2>3 DEF Persisted, Forms
<1> QED
  BY <1>5, <1>6, <1>7, <1>8

\* The transaction of BulkInsert commits; the worker goes on to the counter, or,
\* when it did not hear of it, to markJobFailed.
LEMMA InsertCommitted ==
    ASSUME JobInv, NEW w \in Workers, phase[w] = "insert", BulkInsert(hand[w]),
           NEW ph \in {"progress", "markfail"},
           phase' = [phase EXCEPT ![w] = ph],
           UNCHANGED <<upload, source, pc, next, tracker, queue, hand, up, ctxDone>>
    PROVE  JobInv'
<1>1. hand[w] \in Task /\ TaskSound(hand[w])
  BY DEF JobInv, TasksSound, Busy
<1>2. UNCHANGED <<status, processed, fresh>>
  BY DEF BulkInsert
<1>3. /\ rows' \in [Jobs -> SUBSET Emails]
      /\ \A j \in Jobs : rows[j] \subseteq rows'[j]
      /\ RowsSound'
      /\ \A p \in hand[w].lo..hand[w].hi : Persisted(hand[w].job, p)'
  BY <1>1, BulkInsertFacts
<1>4. TypeOK' /\ UntouchedJobs'
  BY <1>2, <1>3 DEF JobInv, TypeOK, UntouchedJobs, Phases
<1>5. \A v \in Workers : /\ Busy(v)' => Busy(v) /\ hand'[v] = hand[v]
                         /\ Working(v)' => Working(v)
  BY DEF Busy, Working, JobInv, TypeOK
<1>6. ASSUME NEW v \in Workers, phase'[v] = "progress",
             NEW p \in hand'[v].lo..hand'[v].hi
      PROVE  Persisted(hand[v].job, p)'
  <2>1. CASE v = w
    BY <1>3, <1>6, <2>1
  <2>2. CASE v # w
    <3>1. phase[v] = "progress"
      BY <1>6, <2>2 DEF JobInv, TypeOK
    <3>2. hand[v].job \in Jobs /\ Persisted(hand[v].job, p)
      BY <1>6, <3>1 DEF JobInv, TasksSound, Busy, Task
    <3> QED
      BY <1>3, <3>2, PersistedStays DEF Persisted, Forms
  <2> QED
    BY <2>1, <2>2
<1> QED
  BY <1>2, <1>3, <1>4, <1>5, <1>6, LessInFlight

\* After BulkInsert every address of the batch is persisted.
LEMMA InsertInv ==
    ASSUME JobInv, NEW w \in Workers, Insert(w)
    PROVE  JobInv'
BY InsertCommitted DEF Insert, reqVars, procVars

\* A write that failed without effect only moves the worker to markJobFailed.
LEMMA WriteFailed ==
    ASSUME JobInv, NEW w \in Workers, phase[w] \in {"insert", "progress"},
           phase' = [phase EXCEPT ![w] = "markfail"],
           UNCHANGED <<dbVars, reqVars, tracker, queue, hand, procVars>>
    PROVE  JobInv'
<1>1. TypeOK' /\ UntouchedJobs' /\ RowsSound'
  BY RowsFrame DEF JobInv, TypeOK, UntouchedJobs, Phases, dbVars, reqVars, procVars
<1>2. \A v \in Workers :
          /\ Busy(v)' => Busy(v) /\ hand'[v] = hand[v]
          /\ Working(v)' => Working(v)
          /\ phase'[v] = "progress" => phase[v] = "progress" /\ hand'[v] = hand[v]
  BY DEF Busy, Working, JobInv, TypeOK
<1>3. \A v \in Workers : phase'[v] = "progress" =>
          \A p \in hand'[v].lo..hand'[v].hi : Persisted(hand[v].job, p)'
  BY <1>2 DEF JobInv, TasksSound, Persisted, Forms, dbVars, reqVars
<1> QED
  BY <1>1, <1>2, <1>3, LessInFlight DEF dbVars, reqVars

\* A failed BulkInsert leaves the batch uncounted, whether or not it committed.
LEMMA InsertErrorInv ==
    ASSUME JobInv, NEW w \in Workers, InsertError(w)
    PROVE  JobInv'
BY InsertCommitted, WriteFailed DEF InsertError, reqVars, procVars

\* IncrementProgress takes effect.  The positions of the batch were held by this
\* worker and by nobody else, so they were not settled before and are now: the
\* counter and the number of settled positions grow by the same amount.
LEMMA ProgressCommitted ==
    ASSUME JobInv, NEW w \in Workers, phase[w] = "progress",
           IncrementProgress(hand[w].job, hand[w].hi - hand[w].lo + 1),
           NEW ph \in {"idle", "markfail"}, phase' = [phase EXCEPT ![w] = ph],
           hand' = hand \/ (ph = "idle" /\ hand' = [hand EXCEPT ![w] = NoTask]),
           UNCHANGED <<upload, source, pc, next, tracker, queue, up, ctxDone>>
    PROVE  JobInv'
<1> DEFINE t == hand[w]
           n == t.hi - t.lo + 1
<1>1. t \in Task /\ TaskSound(t) /\ \A p \in t.lo..t.hi : Persisted(t.job, p)
  BY DEF JobInv, TasksSound, Busy
<1>2. /\ t.job \in Jobs /\ t.lo \in Nat /\ t.hi \in Nat /\ 1 <= t.lo
      /\ t.lo <= t.hi /\ t.hi <= next[t.job] /\ n \in Nat
  BY <1>1 DEF Task, TaskSound
<1>3. /\ UNCHANGED <<status, rows>> /\ fresh' = [fresh EXCEPT ![t.job] = TRUE]
      /\ processed' = [processed EXCEPT ![t.job] = @ + n]
  BY DEF IncrementProgress
<1> HIDE DEF t, n
<1>4. TypeOK' /\ UntouchedJobs' /\ RowsSound'
  <2>1. RowsSound'
    BY <1>3, RowsFrame DEF JobInv
  <2>2. TypeOK'
    <3>1. processed' \in [Jobs -> Nat] /\ fresh' \in [Jobs -> BOOLEAN]
      BY <1>2, <1>3 DEF JobInv, TypeOK
    <3>2. hand' \in [Workers -> Task \cup {NoTask}] /\ phase' \in [Workers -> Phases]
      BY DEF JobInv, TypeOK, Phases
    <3> QED
      BY <1>3, <3>1, <3>2 DEF JobInv, TypeOK
  <2> QED
    BY <1>3, <2>1, <2>2 DEF JobInv, UntouchedJobs
<1>5. \A v \in Workers :
          /\ Busy(v)' => Busy(v) /\ hand'[v] = hand[v]
          /\ Working(v)' => Working(v) /\ v # w /\ hand'[v] = hand[v]
          /\ phase'[v] = "progress" => phase[v] = "progress" /\ hand'[v] = hand[v]
  BY DEF Busy, Working, JobInv, TypeOK
<1>6. TasksSound'
  <2>1. \A v \in Workers : phase'[v] = "progress" =>
            \A p \in hand'[v].lo..hand'[v].hi : Persisted(hand[v].job, p)'
    BY <1>3, <1>5 DEF JobInv, TasksSound, Persisted, Forms
  <2>2. \A v \in Workers : Busy(v)' => hand'[v] \in Task /\ TaskSound(hand[v])'
    BY <1>5 DEF JobInv, TasksSound, TaskSound
  <2> QED
    BY <2>1, <2>2 DEF JobInv, TasksSound, TaskSound, Total
<1>7. InFlightOnce'
  BY <1>5 DEF JobInv, InFlightOnce, Overlap
<1>8. CountSound'
  <2> SUFFICES ASSUME NEW j \in Jobs
               PROVE  /\ processed'[j] <= Cardinality(Settled(j)')
                      /\ processed[j] <= processed'[j]
    BY <1>2, <1>3, <1>4 DEF JobInv, CountSound, Total, TypeOK
  <2>1. /\ next[j] \in Nat /\ processed[j] \in Nat
        /\ Settled(j) \subseteq 1..next[j] /\ Settled(j)' \subseteq 1..next[j]
    BY DEF JobInv, TypeOK, Settled
  <2>2. ASSUME NEW p \in Settled(j) PROVE p \in Settled(j)'
    <3>1. p \in 1..next[j] /\ Persisted(j, p) /\ p \notin Queued(j) /\ p \notin Held(j)
      BY DEF Settled
    <3>2. p \notin Queued(j)' /\ p \notin Held(j)'
      BY <1>5, <3>1 DEF Queued, Held
    <3> QED
      BY <1>3, <3>1, <3>2 DEF Settled, Persisted, Forms
  <2>3. /\ Cardinality(Settled(j)) \in Nat /\ Cardinality(Settled(j)') \in Nat
        /\ processed[j] <= Cardinality(Settled(j))
    BY <2>1, Positions DEF JobInv, CountSound
  <2>4. CASE j # t.job
    <3>1. processed'[j] = processed[j]
      BY <1>2, <1>3, <2>4 DEF JobInv, TypeOK
    <3> QED
      BY <2>1, <2>2, <2>3, <3>1, PositionsMonotone
  <2>5. CASE j = t.job
    <3>1. processed'[j] = processed[j] + n
      BY <1>2, <1>3, <2>5 DEF JobInv, TypeOK
    <3>2. ASSUME NEW p \in t.lo..t.hi PROVE p \in Settled(j)' /\ p \notin Settled(j)
      <4>1. p \in 1..next[j] /\ Persisted(j, p)
        BY <1>1, <1>2, <2>1, <2>5
      <4>2. p \in Held(j)
        BY <1>2, <2>5, <4>1 DEF Held, Working, t
      <4>3. p \notin Queued(j)'
        <5> SUFFICES ASSUME NEW i \in 1..Len(queue), queue[i].job = j,
                            queue[i].lo <= p, p <= queue[i].hi
                     PROVE  FALSE
          BY DEF Queued
        <5>1. ~Overlap(queue[i], t)
          BY DEF JobInv, InFlightOnce, Working, t
        <5>2. queue[i] \in Task
          BY DEF JobInv, TypeOK
        <5>3. queue[i].lo \in Nat /\ queue[i].hi \in Nat
          BY <5>2 DEF Task
        <5> QED
          BY <1>2, <2>5, <5>1, <5>3 DEF Overlap
      <4>4. p \notin Held(j)'
        <5> SUFFICES ASSUME NEW v \in Workers, Working(v)', hand'[v].job = j,
                            hand'[v].lo <= p, p <= hand'[v].hi
                     PROVE  FALSE
          BY DEF Held
        <5>1. v # w /\ Working(v) /\ hand'[v] = hand[v]
          BY <1>5
        <5>2. ~Overlap(hand[v], t)
          BY <5>1 DEF JobInv, InFlightOnce, Working, t
        <5>3. hand[v].lo \in Nat /\ hand[v].hi \in Nat
          BY <5>1 DEF JobInv, TasksSound, Busy, Working, Task
        <5> QED
          BY <1>2, <2>5, <5>1, <5>2, <5>3 DEF Overlap
      <4> QED
        BY <1>3, <4>1, <4>2, <4>3, <4>4 DEF Settled, Persisted, Forms
    <3> DEFINE B == t.lo..t.hi
    <3>3. IsFiniteSet(B) /\ Cardinality(B) = n
      BY <1>2, IntervalSize DEF n
    <3>4. IsFiniteSet(Settled(j))
      BY <2>1, Positions
    <3>5. Settled(j) \cap B = {} /\ Settled(j) \cup B \subseteq Settled(j)'
      BY <2>2, <3>2
    <3> HIDE DEF B
    <3>6. Cardinality(Settled(j) \cup B) = Cardinality(Settled(j)) + n
      BY <3>3, <3>4, <3>5, DisjointUnion
    <3>7. Cardinality(Settled(j) \cup B) <= Cardinality(Settled(j)')
      BY <2>1, <3>5, PositionsMonotone
    <3> QED
      BY <1>2, <2>1, <2>3, <3>1, <3>6, <3>7
  <2> QED
    BY <2>4, <2>5
<1> QED
  BY <1>4, <1>6, <1>7, <1>8 DEF JobInv

\* IncrementProgress counts a batch whose rows are there, and for the only time.
LEMMA ProgressInv ==
    ASSUME JobInv, NEW w \in Workers, Progress(w)
    PROVE  JobInv'
BY ProgressCommitted DEF Progress, Finish, reqVars, procVars

\* The same when the answer is lost; if it had no effect nothing is counted.
LEMMA ProgressErrorInv ==
    ASSUME JobInv, NEW w \in Workers, ProgressError(w)
    PROVE  JobInv'
BY ProgressCommitted, WriteFailed DEF ProgressError, reqVars, procVars

\* A worker receives the oldest task: it leaves the channel and enters its hands.
LEMMA WorkerTakeInv ==
    ASSUME JobInv, NEW w \in Workers, WorkerTake(w)
    PROVE  JobInv'
<1> DEFINE t == Head(queue)
<1>1. /\ queue \in Seq(Task) /\ queue # << >> /\ phase[w] = "idle"
      /\ queue' = Tail(queue)
      /\ hand' = [hand EXCEPT ![w] = t] /\ phase' = [phase EXCEPT ![w] = "validate"]
      /\ UNCHANGED <<status, processed, fresh, rows, upload, source, pc, next,
                     tracker, up, ctxDone>>
  BY DEF JobInv, TypeOK, WorkerTake, dbVars, reqVars, procVars
<1>2. /\ Len(queue) \in Nat /\ 1 \in 1..Len(queue) /\ t = queue[1] /\ t \in Task
      /\ Tail(queue) \in Seq(Task)
      /\ \A i \in 1..Len(queue') :
            i + 1 \in 1..Len(queue) /\ i + 1 # 1 /\ queue'[i] = queue[i + 1]
      /\ \A a, b \in 1..Len(queue') : a # b => a + 1 # b + 1
  BY <1>1
<1> HIDE DEF t
<1>3. TypeOK' /\ UntouchedJobs'
  BY <1>1, <1>2 DEF JobInv, TypeOK, UntouchedJobs, Phases
<1>4. /\ hand'[w] = t /\ phase'[w] = "validate"
      /\ \A v \in Workers : v # w => hand'[v] = hand[v] /\ phase'[v] = phase[v]
  BY <1>1 DEF JobInv, TypeOK
<1>5. TasksSound'
  <2>1. \A i \in 1..Len(queue') : TaskSound(queue[i])'
    BY <1>1, <1>2 DEF JobInv, TasksSound, TaskSound
  <2>2. \A v \in Workers : Busy(v)' => hand'[v] \in Task /\ TaskSound(hand[v])'
    BY <1>1, <1>2, <1>4 DEF JobInv, TasksSound, TaskSound, Busy
  <2>3. \A v \in Workers : phase'[v] = "progress" =>
            \A p \in hand'[v].lo..hand'[v].hi : Persisted(hand[v].job, p)'
    BY <1>1, <1>4 DEF JobInv, TasksSound, Persisted, Forms
  <2> QED
    BY <1>1, <2>1, <2>2, <2>3 DEF JobInv, TasksSound, Total
<1>6. InFlightOnce'
  <2>1. \A a, b \in 1..Len(queue') : a # b => ~Overlap(queue[a], queue[b])'
    BY <1>2 DEF JobInv, InFlightOnce, Overlap
  <2>2. ASSUME NEW a \in 1..Len(queue'), NEW v \in Workers, Working(v)'
        PROVE  ~Overlap(queue[a], hand[v])'
    <3>1. CASE v = w
      BY <1>2, <1>4, <3>1 DEF JobInv, InFlightOnce, Overlap
    <3>2. CASE v # w
      BY <1>2, <1>4, <2>2, <3>2 DEF JobInv, InFlightOnce, Overlap, Working
    <3> QED
      BY <3>1, <3>2
  <2>3. ASSUME NEW u \in Workers, NEW v \in Workers, u # v, Working(u)', Working(v)'
        PROVE  ~Overlap(hand[u], hand[v])'
    <3>1. CASE u = w
      BY <1>2, <1>4, <2>3, <3>1 DEF JobInv, InFlightOnce, Overlap, Working
    <3>2. CASE v = w
      BY <1>2, <1>4, <2>3, <3>2 DEF JobInv, InFlightOnce, Overlap, Working
    <3>3. CASE u # w /\ v # w
      BY <1>4, <2>3, <3>3 DEF JobInv, InFlightOnce, Overlap, Working
    <3> QED
      BY <3>1, <3>2, <3>3
  <2> QED
    BY <2>1, <2>2, <2>3 DEF InFlightOnce
<1>7. CountSound'
  <2> SUFFICES ASSUME NEW j \in Jobs
               PROVE  processed[j] <= Cardinality(Settled(j)')
    BY <1>1 DEF JobInv, CountSound, Total
  <2>1. /\ next[j] \in Nat /\ processed[j] \in Nat
        /\ Settled(j) \subseteq 1..next[j] /\ Settled(j)' \subseteq 1..next[j]
    BY <1>1 DEF JobInv, TypeOK, Settled
  <2>2. ASSUME NEW p \in Settled(j) PROVE p \in Settled(j)'
    <3>1. p \in 1..next[j] /\ Persisted(j, p) /\ p \notin Queued(j) /\ p \notin Held(j)
      BY DEF Settled
    <3>2. p \notin Queued(j)'
      BY <1>1, <1>2, <3>1 DEF Queued
    <3>3. p \notin Held(j)'
      BY <1>1, <1>2, <1>4, <3>1 DEF Queued, Held, Working
    <3> QED
      BY <1>1, <3>1, <3>2, <3>3 DEF Settled, Persisted, Forms
  <2>3. /\ Cardinality(Settled(j)) \in Nat /\ Cardinality(Settled(j)') \in Nat
        /\ Cardinality(Settled(j)) <= Cardinality(Settled(j)')
    BY <2>1, <2>2, Positions, PositionsMonotone
  <2> QED
    BY <2>1, <2>3 DEF JobInv, CountSound
<1>8. RowsSound'
  BY <1>1, RowsFrame DEF JobInv
<1> QED
  BY <1>3, <1>5, <1>6, <1>7, <1>8 DEF JobInv

\* The process dies with its queue, its workers and its trackers.
LEMMA CrashInv ==
    ASSUME JobInv, Crash
    PROVE  JobInv'
<1>1. /\ UNCHANGED <<status, processed, fresh, rows, upload, source, next>>
      /\ queue' = << >>
      /\ \A w \in Workers : phase'[w] = "idle"
      /\ \A j \in Jobs : tracker'[j] = "completing" => tracker[j] = "completing"
  BY DEF Crash, dbVars
<1>2. TypeOK'
  <2>1. up' \in BOOLEAN /\ ctxDone' \in BOOLEAN
    BY Zenon DEF Crash
  <2>2. /\ hand' \in [Workers -> Task \cup {NoTask}] /\ phase' \in [Workers -> Phases]
        /\ tracker' \in [Jobs -> TrackerStates] /\ pc' \in [Jobs -> RequestStates]
    BY DEF JobInv, TypeOK, Crash, RequestStates, TrackerStates, Phases
  <2> QED
    BY <1>1, <2>1, <2>2 DEF JobInv, TypeOK, Crash
<1>3. UntouchedJobs'
  BY <1>1 DEF JobInv, UntouchedJobs, Crash
<1>4. RowsSound'
  BY <1>1, RowsFrame DEF JobInv
<1>5. \A w \in Workers : ~Busy(w)' /\ ~Working(w)' /\ phase'[w] # "progress"
  BY <1>1 DEF Busy, Working
<1> QED
  BY <1>1, <1>2, <1>3, <1>4, <1>5, LessInFlight

-----------------------------------------------------------------------------
(* The invariant and what follows from it.                                 *)

\* Every step keeps the invariant: one case per action.
LEMMA StepInv == JobInv /\ [Next]_vars => JobInv'
<1> SUFFICES ASSUME JobInv, [Next]_vars PROVE JobInv'
  OBVIOUS
<1>1. ASSUME NEW j \in Jobs, RequestStep(j) PROVE JobInv'
  BY <1>1, CreateInv, SubmitBeginInv, SubmitStartInv, SubmitBatchInv, SubmitDoneInv
  DEF RequestStep
<1>2. ASSUME NEW w \in Workers, WorkerStep(w) PROVE JobInv'
  BY <1>2, WorkerTakeInv, WorkerExitInv, ValidateInv, ValidateAbortInv, InsertInv,
     InsertErrorInv, ProgressInv, ProgressErrorInv, MarkJobFailedInv
  DEF WorkerStep
<1>3. ASSUME NEW j \in Jobs, TrackerStep(j) PROVE JobInv'
  BY <1>3, TrackerPollInv, TrackerCompleteInv DEF TrackerStep
<1>4. CASE UNCHANGED vars
  <2>1. UNCHANGED <<processed, rows, upload, source, next, queue, hand, phase>>
    BY <1>4 DEF vars, dbVars, reqVars, poolVars
  <2>2. TypeOK'
    BY <1>4 DEF JobInv, TypeOK, vars, dbVars, reqVars, poolVars, procVars
  <2> QED
    BY <1>4, <2>1, <2>2, StatusStep
    DEF JobInv, UntouchedJobs, CountSound, vars, dbVars, reqVars
<1>5. CASE Next
  BY <1>1, <1>2, <1>3, <1>5, ImportAcceptInv, RequeueAcceptInv, RequestFailsInv,
     RequestAnswerLostInv, TrackerErrorInv, TrackerDeadlineInv, CancelInv,
     ForceFailInv, AgeInv, CancelAllRunningInv, SigtermInv, CrashInv, BootInv,
     PeerBootInv
  DEF Next
<1> QED
  BY <1>4, <1>5

\* The inductive invariant holds throughout, whatever fails.
THEOREM JobInvariant == Spec => []JobInv
BY InitInv, StepInv, PTL DEF Spec

\* Type correctness of the whole state.
THEOREM TypeCorrect == Spec => []TypeOK
<1>1. JobInv => TypeOK
  BY DEF JobInv
<1> QED
  BY <1>1, JobInvariant, PTL

\* Every address of a job is in at most one queue slot or one worker's hands.
THEOREM HandedOverOnce == Spec => []InFlightOnce
<1>1. JobInv => InFlightOnce
  BY DEF JobInv
<1> QED
  BY <1>1, JobInvariant, PTL

\* A counter that counts settled positions only counts persisted addresses.
LEMMA CountedIsStored ==
    ASSUME JobInv
    PROVE  ProgressNeverOverstates
<1> SUFFICES ASSUME NEW j \in Jobs
             PROVE  processed[j] <= Cardinality({p \in 1..Total(j) : Persisted(j, p)})
  BY DEF ProgressNeverOverstates
<1> DEFINE P == {p \in 1..Total(j) : Persisted(j, p)}
<1>1. /\ next[j] \in Nat /\ Total(j) \in Nat /\ next[j] <= Total(j)
      /\ processed[j] \in Nat /\ processed[j] <= Cardinality(Settled(j))
  BY DEF JobInv, TypeOK, TasksSound, CountSound, Total
<1>2. P \subseteq 1..Total(j) /\ Settled(j) \subseteq P /\ Settled(j) \subseteq 1..Total(j)
  BY <1>1 DEF Settled
<1> HIDE DEF P
<1>3. /\ Cardinality(Settled(j)) \in Nat /\ Cardinality(P) \in Nat
      /\ Cardinality(Settled(j)) <= Cardinality(P)
  BY <1>1, <1>2, Positions, PositionsMonotone
<1> QED
  BY <1>1, <1>3 DEF P

\* jobs.processed never exceeds the number of persisted addresses.
THEOREM ProgressHonest == Spec => []ProgressNeverOverstates
BY CountedIsStored, JobInvariant, PTL

\* When the counter has reached the total, every address is persisted.
LEMMA AllCountedAllPersisted ==
    ASSUME JobInv, NEW j \in Jobs, processed[j] >= Total(j)
    PROVE  \A p \in 1..Total(j) : Persisted(j, p)
<1>1. /\ next[j] \in Nat /\ Total(j) \in Nat /\ next[j] <= Total(j)
      /\ processed[j] \in Nat /\ processed[j] <= Cardinality(Settled(j))
  BY DEF JobInv, TypeOK, TasksSound, CountSound, Total
<1>2. Settled(j) \subseteq 1..Total(j)
  BY <1>1 DEF Settled
<1>3. Cardinality(Settled(j)) \in Nat /\ Cardinality(Settled(j)) >= Total(j)
  BY <1>1, <1>2, Positions
<1>4. Settled(j) = 1..Total(j)
  BY <1>1, <1>2, <1>3, Positions
<1> QED
  BY <1>4 DEF Settled

\* A completed job has a result for every uploaded address and for no other.
THEOREM CompletedIsComplete == Spec => []CompletedMeansPersisted
<1>1. JobInv => CompletedMeansPersisted
  <2> SUFFICES ASSUME JobInv, NEW j \in Jobs, status[j] = "completed"
               PROVE  Forms(rows[j]) = Forms(Uploaded(j))
    BY DEF CompletedMeansPersisted
  <2>1. \A p \in 1..Total(j) : Persisted(j, p)
    BY AllCountedAllPersisted DEF JobInv, CountSound
  <2>2. Forms(Uploaded(j)) \subseteq Forms(rows[j])
    BY <2>1 DEF Persisted, Uploaded, Forms
  <2>3. Forms(rows[j]) \subseteq Forms(Uploaded(j))
    BY FormsMonotone DEF JobInv, RowsSound
  <2> QED
    BY <2>2, <2>3
<1> QED
  BY <1>1, JobInvariant, PTL

\* A requeued job only ever holds rows of its source, and once completed it holds
\* exactly the addresses it was given.
THEOREM RequeueIsExact == Spec => []RequeueCopies
<1>1. JobInv => RequeueCopies
  <2> SUFFICES ASSUME JobInv, NEW j \in Jobs, source[j] # NoJob
               PROVE  /\ rows[j] \subseteq rows[source[j]]
                      /\ status[j] = "completed" => rows[j] = Uploaded(j)
    BY DEF RequeueCopies
  <2>1. /\ rows[j] \subseteq Uploaded(j) /\ Uploaded(j) \subseteq rows[source[j]]
        /\ source[j] \in Jobs
        /\ \A a, b \in rows[source[j]] : Norm[a] = Norm[b] => a = b
    BY DEF JobInv, RowsSound, TypeOK
  <2>2. ASSUME status[j] = "completed", NEW e \in Uploaded(j) PROVE e \in rows[j]
    <3>1. PICK p \in 1..Total(j) : e = upload[j][p]
      BY DEF Uploaded
    <3>2. Norm[e] \in Forms(rows[j])
      BY <2>2, <3>1, AllCountedAllPersisted DEF JobInv, CountSound, Persisted
    <3>3. PICK r \in rows[j] : Norm[e] = Norm[r]
      BY <3>2 DEF Forms
    <3> QED
      BY <2>1, <3>3
  <2> QED
    BY <2>1, <2>2
<1> QED
  BY <1>1, JobInvariant, PTL

-----------------------------------------------------------------------------
(* Steps of a finished job.                                                *)

\* No step takes a job out of a final status, unless its Submit is under way.
LEMMA FinishedStays ==
    ASSUME JobInv, [Next]_vars
    PROVE  \A j \in Jobs : Terminal(j) /\ pc[j] # "starting" => Terminal(j)'
<1> SUFFICES ASSUME NEW j \in Jobs, status[j] \in TerminalStatuses,
                    pc[j] # "starting", status'[j] # status[j]
             PROVE  status'[j] \in TerminalStatuses
  BY DEF Terminal
<1>1. /\ status \in [Jobs -> Statuses] /\ pc[j] # "accepted"
      /\ status[j] \notin Cancellable \cup {"absent"}
  BY DEF JobInv, TypeOK, UntouchedJobs, TerminalStatuses, Cancellable
<1>2. ASSUME NEW k \in Jobs, UpdateStatus(k, "failed") \/ UpdateStatus(k, "completed")
                             \/ UpdateStatus(k, "cancelled")
      PROVE  status'[j] \in TerminalStatuses
  BY <1>1, <1>2 DEF UpdateStatus, TerminalStatuses
<1>3. ASSUME NEW k \in Jobs, RequestStep(k) \/ RequestAnswerLost(k)
      PROVE  FALSE
  BY <1>1, <1>3 DEF RequestStep, RequestAnswerLost, UpdateStatus, Create,
                    SubmitBegin, SubmitStart, SubmitBatch, SubmitDone, dbVars
<1>4. ASSUME NEW w \in Workers, WorkerStep(w)
      PROVE  status'[j] \in TerminalStatuses
  <2>1. CASE MarkJobFailed(w)
    <3>1. hand[w].job \in Jobs
      BY <2>1 DEF JobInv, TasksSound, MarkJobFailed, Busy, Task
    <3> QED
      BY <1>2, <2>1, <3>1 DEF MarkJobFailed, dbVars
  <2>2. CASE ~MarkJobFailed(w)
    BY <1>4, <2>2 DEF WorkerStep, WorkerTake, WorkerExit, Validate, ValidateAbort,
                      Insert, InsertError, Progress, ProgressError, BulkInsert,
                      IncrementProgress, dbVars
  <2> QED
    BY <2>1, <2>2
<1>5. ASSUME MarkStaleAsFailed PROVE status'[j] \in TerminalStatuses
  BY <1>5 DEF MarkStaleAsFailed, TerminalStatuses
<1>6. CASE CancelAllRunning
  BY <1>6 DEF CancelAllRunning, TerminalStatuses
<1>7. ASSUME NEW k \in Jobs,
             \/ TrackerStep(k) \/ TrackerError(k) \/ TrackerDeadline(k)
             \/ Cancel(k) \/ ForceFail(k)
      PROVE  status'[j] \in TerminalStatuses
  BY <1>2, <1>7 DEF TrackerStep, TrackerPoll, TrackerComplete, TrackerError,
                    TrackerDeadline, Cancel, ForceFail, dbVars
<1>8. ASSUME NEW k \in Jobs,
             \/ \E list \in Uploads : ImportAccept(k, list)
             \/ \E src \in Jobs, list \in Uploads : RequeueAccept(k, src, list)
             \/ RequestFails(k) \/ Age(k)
      PROVE  FALSE
  BY <1>8 DEF ImportAccept, RequeueAccept, RequestFails, Age, dbVars
<1>9. CASE Boot \/ PeerBoot
  BY <1>5, <1>9 DEF Boot, PeerBoot, dbVars
<1>10. CASE Sigterm \/ Crash \/ UNCHANGED vars
  BY <1>10 DEF Sigterm, Crash, vars, dbVars
<1> QED
  BY <1>3, <1>4, <1>6, <1>7, <1>8, <1>9, <1>10 DEF Next

\* A finished job stays finished, except for a Submit already under way.
THEOREM FinishedIsFinal == Spec => TerminalStays
BY FinishedStays, JobInvariant, PTL DEF Spec, TerminalStays

\* Submit cuts no batch before its UPDATE has set the job running.
Unstarted ==
    \A j \in Jobs :
        pc[j] \in {"none", "accepted", "created", "starting"} => next[j] = 0

\* A finished job whose Submit has not got past its UPDATE, and never will.
NeverRun(j) ==
    Terminal(j) /\ pc[j] \in {"created", "aborted"} /\ next[j] = 0

\* What a step may do to the position of a request: next moves in SubmitBatch only,
\* and a request that has not begun to submit at the end of a step had not before.  The
\* Submit of a finished job is turned away.
LEMMA RequestMoves ==
    ASSUME JobInv, [Next]_vars, NEW j \in Jobs
    PROVE  /\ next'[j] # next[j] => pc[j] = "submitting" /\ pc'[j] = "submitting"
           /\ pc'[j] \in {"none", "accepted", "created", "starting"} =>
                  pc[j] \in {"none", "accepted", "created", "starting"}
           /\ pc[j] = "created" /\ Terminal(j) => pc'[j] \in {"created", "aborted"}
           /\ pc[j] = "aborted" => pc'[j] = "aborted"
<1>1. pc \in [Jobs -> RequestStates] /\ next \in [Jobs -> Nat]
  BY DEF JobInv, TypeOK
<1>2. ASSUME NEW k \in Jobs, RequestStep(k)
      PROVE  /\ next'[j] # next[j] => pc[j] = "submitting" /\ pc'[j] = "submitting"
             /\ pc'[j] \in {"none", "accepted", "created", "starting"} =>
                    pc[j] \in {"none", "accepted", "created", "starting"}
             /\ pc[j] = "created" /\ Terminal(j) => pc'[j] \in {"created", "aborted"}
             /\ pc[j] = "aborted" => pc'[j] = "aborted"
  BY <1>1, <1>2 DEF RequestStep, Create, SubmitBegin, SubmitStart, SubmitBatch,
                    SubmitDone
<1>3. ASSUME NEW k \in Jobs,
             \/ \E list \in Uploads : ImportAccept(k, list)
             \/ \E src \in Jobs, list \in Uploads : RequeueAccept(k, src, list)
             \/ RequestFails(k) \/ RequestAnswerLost(k)
      PROVE  /\ next'[j] = next[j]
             /\ pc'[j] # pc[j] => \/ pc'[j] = "accepted" /\ pc[j] = "none"
                                  \/ pc'[j] = "aborted"
  BY <1>1, <1>3 DEF ImportAccept, RequeueAccept, RequestFails, RequestAnswerLost
<1>4. CASE Crash
  BY <1>1, <1>4 DEF Crash
<1>5. CASE UNCHANGED reqVars
  BY <1>5 DEF reqVars
<1>6. ASSUME \/ \E k \in Jobs : \/ TrackerStep(k) \/ TrackerError(k) \/ TrackerDeadline(k)
                                \/ Cancel(k) \/ ForceFail(k) \/ Age(k)
             \/ CancelAllRunning \/ Sigterm \/ Boot \/ PeerBoot
      PROVE  UNCHANGED reqVars
  BY <1>6 DEF TrackerStep, TrackerPoll, TrackerComplete, TrackerError, TrackerDeadline,
              Cancel, ForceFail, Age, CancelAllRunning, Sigterm, Boot, PeerBoot
<1>7. ASSUME NEW w \in Workers, WorkerStep(w) PROVE UNCHANGED reqVars
  BY <1>7 DEF WorkerStep, WorkerTake, WorkerExit, Validate, ValidateAbort, Insert,
              InsertError, Progress, ProgressError, MarkJobFailed
<1>8. UNCHANGED vars => UNCHANGED reqVars
  BY DEF vars
<1> QED
  BY <1>2, <1>3, <1>4, <1>5, <1>6, <1>7, <1>8 DEF Next

\* Once a job is finished before its Submit began, it is never run.
LEMMA NeverRunStays ==
    ASSUME JobInv, [Next]_vars, NEW j \in Jobs, NeverRun(j)
    PROVE  NeverRun(j)'
BY FinishedStays, RequestMoves DEF NeverRun

\* A job of which no batch was cut has counted nothing.
LEMMA NothingCounted ==
    ASSUME JobInv, NEW j \in Jobs, next[j] = 0
    PROVE  processed[j] = 0
<1>1. Settled(j) = {}
  BY DEF Settled
<1>2. processed[j] <= 0 /\ processed[j] \in Nat
  BY <1>1, FS_EmptySet DEF JobInv, CountSound, TypeOK
<1> QED
  BY <1>2

\* A job cancelled or failed between Create and Submit is never run, through any
\* sequence of crashes, boots, answers lost and administrators' calls that follows:
\* the CHECK on finished_at turns its Submit away, and it counts no address.
THEOREM CancelledEarlyIsNeverRun == Spec => CancelBeforeStartHolds
<1> SUFFICES ASSUME NEW CONSTANT j \in Jobs
             PROVE  Spec => []((pc[j] = "created" /\ Terminal(j))
                                  => [](Terminal(j) /\ processed[j] = 0))
  BY DEF CancelBeforeStartHolds
<1>1. Init => Unstarted
  BY DEF Init, Unstarted
<1>2. JobInv /\ Unstarted /\ [Next]_vars => Unstarted'
  BY RequestMoves DEF Unstarted
<1>3. Unstarted /\ pc[j] = "created" /\ Terminal(j) => NeverRun(j)
  BY DEF Unstarted, NeverRun
<1>4. JobInv /\ NeverRun(j) /\ [Next]_vars => NeverRun(j)'
  BY NeverRunStays
<1>5. JobInv /\ NeverRun(j) => Terminal(j) /\ processed[j] = 0
  BY NothingCounted DEF NeverRun
<1> QED
  BY <1>1, <1>2, <1>3, <1>4, <1>5, JobInvariant, PTL DEF Spec

-----------------------------------------------------------------------------
(* A job as its client sees it.                                            *)

\* A job that was not started yet, or was never created, has no batch and no tracker; a
\* request that has come past Create has its row.
Traced(j) ==
    /\ (RequestPhase(j) # "over" \/ status[j] = "absent") =>
          next[j] = 0 /\ tracker[j] = "none"
    /\ pc[j] \in {"created", "starting", "submitting", "done"} => status[j] # "absent"

\* What a step may do to these: no row of table jobs is deleted, only Create brings a
\* request past it, and only the end of Submit starts a tracker.
LEMMA TraceMoves ==
    ASSUME JobInv, [Next]_vars, NEW j \in Jobs
    PROVE  /\ status'[j] = "absent" => status[j] = "absent"
           /\ tracker'[j] # "none" /\ tracker[j] = "none" => pc[j] = "submitting"
           /\ pc'[j] \in {"created", "starting", "submitting", "done"} =>
                 \/ pc[j] \in {"created", "starting", "submitting", "done"}
                 \/ status'[j] # "absent"
<1> DEFINE Past == {"created", "starting", "submitting", "done"}
<1> DEFINE Good == /\ status'[j] = "absent" => status[j] = "absent"
                   /\ tracker'[j] # "none" /\ tracker[j] = "none" => pc[j] = "submitting"
                   /\ pc'[j] \in Past => pc[j] \in Past \/ status'[j] # "absent"
<1>1. /\ status \in [Jobs -> Statuses] /\ pc \in [Jobs -> RequestStates]
      /\ tracker \in [Jobs -> TrackerStates]
  BY DEF JobInv, TypeOK
<1>2. ASSUME NEW k \in Jobs, NEW s \in Statuses \ {"absent"}, UpdateStatus(k, s)
      PROVE  status'[j] = "absent" => status[j] = "absent"
  BY <1>1, <1>2 DEF UpdateStatus
<1>3. {"pending", "running", "completed", "failed", "cancelled"} \subseteq Statuses \ {"absent"}
  BY DEF Statuses
<1>4. ASSUME NEW k \in Jobs, Create(k) PROVE Good
  BY <1>1, <1>4 DEF Create, UpdateStatus
<1>5. ASSUME NEW k \in Jobs, SubmitBegin(k) \/ SubmitStart(k) \/ SubmitBatch(k) \/ SubmitDone(k)
      PROVE  Good
  <2>1. status'[j] = "absent" => status[j] = "absent"
    BY <1>2, <1>3, <1>5 DEF SubmitBegin, SubmitStart, SubmitBatch, SubmitDone, dbVars
  <2>2. pc'[j] \in Past => pc[j] \in Past
    BY <1>1, <1>5 DEF SubmitBegin, SubmitStart, SubmitBatch, SubmitDone
  <2>3. tracker'[j] # "none" /\ tracker[j] = "none" => pc[j] = "submitting"
    BY <1>1, <1>5 DEF SubmitBegin, SubmitStart, SubmitBatch, SubmitDone
  <2> QED
    BY <2>1, <2>2, <2>3
<1>6. ASSUME NEW k \in Jobs,
             \/ \E list \in Uploads : ImportAccept(k, list)
             \/ \E src \in Jobs, list \in Uploads : RequeueAccept(k, src, list)
             \/ RequestFails(k) \/ RequestAnswerLost(k)
      PROVE  Good
  <2>1. status'[j] = "absent" => status[j] = "absent"
    BY <1>2, <1>3, <1>6 DEF ImportAccept, RequeueAccept, RequestFails, RequestAnswerLost, dbVars
  <2>2. tracker' = tracker /\ (pc'[j] \in Past => pc[j] \in Past)
    BY <1>1, <1>6 DEF ImportAccept, RequeueAccept, RequestFails, RequestAnswerLost
  <2> QED
    BY <2>1, <2>2
<1>7. ASSUME NEW k \in Jobs, \/ TrackerStep(k) \/ TrackerError(k) \/ TrackerDeadline(k)
                             \/ Cancel(k) \/ ForceFail(k) \/ Age(k)
      PROVE  Good
  <2>1. status'[j] = "absent" => status[j] = "absent"
    BY <1>2, <1>3, <1>7 DEF TrackerStep, TrackerPoll, TrackerComplete, TrackerError,
       TrackerDeadline, Cancel, ForceFail, Age, dbVars
  <2>2. pc' = pc
    BY <1>7 DEF TrackerStep, TrackerPoll, TrackerComplete, TrackerError, TrackerDeadline,
       Cancel, ForceFail, Age, reqVars
  <2>3. tracker'[j] # "none" => tracker[j] # "none"
    BY <1>1, <1>7 DEF TrackerStep, TrackerPoll, TrackerComplete, TrackerError,
       TrackerDeadline, Cancel, ForceFail, Age
  <2> QED
    BY <2>1, <2>2, <2>3
<1>8. ASSUME NEW w \in Workers, WorkerStep(w) PROVE Good
  <2>1. CASE MarkJobFailed(w)
    <3>1. hand[w].job \in Jobs
      BY <2>1 DEF JobInv, TasksSound, MarkJobFailed, Busy, Task
    <3> QED
      BY <1>2, <1>3, <2>1, <3>1 DEF MarkJobFailed, dbVars, reqVars
  <2>2. CASE ~MarkJobFailed(w)
    BY <1>8, <2>2 DEF WorkerStep, WorkerTake, WorkerExit, Validate, ValidateAbort, Insert,
       InsertError, Progress, ProgressError, BulkInsert, IncrementProgress, dbVars, reqVars
  <2> QED
    BY <2>1, <2>2
<1>9. CASE CancelAllRunning \/ PeerBoot \/ Boot \/ Sigterm \/ UNCHANGED vars
  <2>1. pc' = pc /\ tracker' = tracker
    BY <1>9 DEF CancelAllRunning, PeerBoot, Boot, Sigterm, reqVars, vars
  <2>2. status'[j] = "absent" => status[j] = "absent"
    BY <1>9 DEF CancelAllRunning, PeerBoot, Boot, Sigterm, MarkStaleAsFailed, dbVars, vars
  <2> QED
    BY <2>1, <2>2
<1>10. CASE Crash
  BY <1>1, <1>10 DEF Crash, dbVars
<1> QED
  BY <1>4, <1>5, <1>6, <1>7, <1>8, <1>9, <1>10 DEF Next, RequestStep

\* A job leaves its traces in order.
LEMMA TracedStays ==
    ASSUME JobInv, [Next]_vars, NEW j \in Jobs, Traced(j)
    PROVE  Traced(j)'
<1> DEFINE Early == {"none", "accepted", "created", "starting"}
<1>1. /\ pc[j] \in RequestStates /\ (RequestPhase(j) # "over" <=> pc[j] \in Early)
      /\ RequestPhase(j)' # "over" <=> pc'[j] \in Early
  BY DEF JobInv, TypeOK, RequestPhase
<1>2. ASSUME RequestPhase(j)' # "over" \/ status'[j] = "absent"
      PROVE  next'[j] = 0 /\ tracker'[j] = "none"
  <2>1. RequestPhase(j) # "over" \/ status[j] = "absent"
    BY <1>1, <1>2, RequestMoves, TraceMoves
  <2>2. next[j] = 0 /\ tracker[j] = "none" /\ pc[j] # "submitting"
    BY <1>1, <2>1 DEF Traced
  <2> QED
    BY <2>2, RequestMoves, TraceMoves
<1>3. ASSUME pc'[j] \in {"created", "starting", "submitting", "done"}
      PROVE  status'[j] # "absent"
  BY <1>3, TraceMoves DEF Traced
<1> QED
  BY <1>2, <1>3 DEF Traced

\* A step in which nothing a client sees of a job changes.
LEMMA ContractStutters ==
    ASSUME NEW j \in Jobs, RequestPhase(j)' = RequestPhase(j),
           upload'[j] = upload[j], status'[j] = status[j],
           processed'[j] = processed[j], rows'[j] = rows[j]
    PROVE  [Contract(j)!Next]_(Contract(j)!vars)
BY DEF Contract!vars

\* An UPDATE that ends a job: only one that is there, a completion only when all of it was
\* counted, a cancellation only before it ended.
LEMMA ContractEnds ==
    ASSUME NEW j \in Jobs, status[j] # "absent", RequestPhase(j)' = RequestPhase(j),
           upload'[j] = upload[j], processed'[j] = processed[j], rows'[j] = rows[j],
           status'[j] \in TerminalStatuses,
           status'[j] = "completed" =>
               RequestPhase(j) = "over" /\ processed[j] = Total(j),
           status'[j] = "cancelled" => ~Terminal(j)
    PROVE  [Contract(j)!Next]_(Contract(j)!vars)
<1>1. Contract(j)!End
  BY DEF Contract!End, Contract!Created, Contract!Final, Total, Terminal, TerminalStatuses
<1> QED
  BY <1>1 DEF Contract!Next

\* The same of the state after a step.
LEMMA CountedIsStoredNext == JobInv' => ProgressNeverOverstates'
BY CountedIsStored, PTL

\* A set has as many elements for the contract as it has here.
LEMMA ContractCounts ==
    ASSUME NEW j \in Jobs, NEW S
    PROVE  Contract(j)!Cardinality(S) = Cardinality(S)
BY DEF Contract!Cardinality, Cardinality

\* What an observer's step of one job j needs to know of it: a job that is tracked, or
\* of which a worker has a batch, was created and its request is over.
LEMMA UnderWay ==
    ASSUME JobInv, NEW j \in Jobs, Traced(j)
    PROVE  /\ tracker[j] # "none" => RequestPhase(j) = "over" /\ status[j] # "absent"
           /\ \A w \in Workers : Busy(w) /\ hand[w].job = j =>
                  RequestPhase(j) = "over" /\ status[j] # "absent"
           /\ processed[j] \in Nat /\ Total(j) \in Nat /\ processed[j] <= Total(j)
<1>1. /\ next[j] \in Nat /\ Total(j) \in Nat /\ next[j] <= Total(j)
      /\ processed[j] \in Nat /\ processed[j] <= Cardinality(Settled(j))
  BY DEF JobInv, TypeOK, TasksSound, CountSound, Total
<1>2. Settled(j) \subseteq 1..next[j]
  BY DEF Settled
<1>3. processed[j] <= Total(j)
  BY <1>1, <1>2, Positions
<1>4. ASSUME NEW w \in Workers, Busy(w), hand[w].job = j PROVE next[j] # 0
  BY <1>1, <1>4 DEF JobInv, TasksSound, TaskSound, Task
<1> QED
  BY <1>1, <1>3, <1>4 DEF Traced

\* The request: it asks, creates, begins, starts or gives up; the batches it queues are
\* nothing a client sees.
LEMMA RequestKeeps ==
    ASSUME JobInv, [Next]_vars, NEW j \in Jobs, Traced(j), NEW k \in Jobs,
           \/ \E list \in Uploads : ImportAccept(k, list)
           \/ \E src \in Jobs, list \in Uploads : RequeueAccept(k, src, list)
           \/ RequestStep(k) \/ RequestFails(k) \/ RequestAnswerLost(k)
    PROVE  [Contract(j)!Next]_(Contract(j)!vars)
<1>1. /\ pc \in [Jobs -> RequestStates] /\ status \in [Jobs -> Statuses]
      /\ upload \in [Jobs -> Seq(Emails)] /\ upload'[j] \in Seq(Emails)
  BY StepInv DEF JobInv, TypeOK
<1>2. /\ UNCHANGED <<processed, rows>>
      /\ k # j => pc'[j] = pc[j] /\ upload'[j] = upload[j] /\ status'[j] = status[j]
  BY <1>1 DEF ImportAccept, RequeueAccept, RequestStep, RequestFails, RequestAnswerLost,
     Create, SubmitBegin, SubmitStart, SubmitBatch, SubmitDone, UpdateStatus, dbVars
<1>3. CASE k # j
  BY <1>2, <1>3, ContractStutters DEF RequestPhase
<1>4. CASE k = j
  <2>1. CASE \/ \E list \in Uploads : ImportAccept(j, list)
             \/ \E src \in Jobs, list \in Uploads : RequeueAccept(j, src, list)
    <3>1. /\ RequestPhase(j) = "none" /\ RequestPhase(j)' = "open"
          /\ status' = status
      BY <1>1, <2>1 DEF ImportAccept, RequeueAccept, RequestPhase, dbVars
    <3>2. Contract(j)!Ask
      BY <1>1, <1>2, <3>1 DEF Contract!Ask
    <3> QED
      BY <3>2 DEF Contract!Next
  <2>2. CASE Create(j)
    <3>1. /\ RequestPhase(j) = "open" /\ RequestPhase(j)' = "open"
          /\ status[j] = "absent" /\ status'[j] = "pending" /\ upload' = upload
      BY <1>1, <2>2 DEF Create, UpdateStatus, RequestPhase, JobInv, UntouchedJobs
    <3>2. Contract(j)!Create
      BY <1>2, <3>1 DEF Contract!Create, Contract!Created
    <3> QED
      BY <3>2 DEF Contract!Next
  <2>3. CASE SubmitBegin(j) /\ ~Terminal(j)
    <3>1. /\ RequestPhase(j) = "open" /\ RequestPhase(j)' = "starting"
          /\ status' = status /\ upload' = upload
          /\ status[j] # "absent" /\ status[j] \notin TerminalStatuses
      BY <1>1, <2>3 DEF SubmitBegin, RequestPhase, Traced, Terminal, dbVars
    <3>2. Contract(j)!Begin
      BY <1>2, <3>1 DEF Contract!Begin, Contract!Created, Contract!Final, TerminalStatuses
    <3> QED
      BY <3>2 DEF Contract!Next
  <2>4. CASE SubmitStart(j) \/ (RequestAnswerLost(j) /\ pc[j] = "starting")
    <3>1. /\ RequestPhase(j) = "starting" /\ RequestPhase(j)' = "over"
          /\ status[j] # "absent" /\ status'[j] = "running" /\ upload' = upload
      BY <1>1, <2>4 DEF SubmitStart, RequestAnswerLost, UpdateStatus, RequestPhase, Traced
    <3>2. Contract(j)!Start
      BY <1>2, <3>1 DEF Contract!Start, Contract!Created
    <3> QED
      BY <3>2 DEF Contract!Next
  <2>5. CASE RequestAnswerLost(j) /\ pc[j] # "starting"
    <3>1. /\ RequestPhase(j) = "open" /\ RequestPhase(j)' = "over"
          /\ status[j] = "absent" /\ status'[j] = "pending" /\ upload' = upload
      BY <1>1, <2>5 DEF RequestAnswerLost, UpdateStatus, RequestPhase, JobInv, UntouchedJobs
    <3>2. Contract(j)!Create
      BY <1>2, <3>1 DEF Contract!Create, Contract!Created
    <3> QED
      BY <3>2 DEF Contract!Next
  <2>6. CASE SubmitBatch(j) \/ SubmitDone(j)
    <3>1. RequestPhase(j)' = RequestPhase(j) /\ status' = status /\ upload' = upload
      BY <1>1, <2>6 DEF SubmitBatch, SubmitDone, RequestPhase, dbVars
    <3> QED
      BY <1>2, <3>1, ContractStutters
  <2>7. CASE (SubmitBegin(j) /\ Terminal(j)) \/ RequestFails(j)
    <3>1. /\ RequestPhase(j)' = "over" /\ status' = status /\ upload' = upload
          /\ RequestPhase(j) \in {"open", "starting", "over"}
      BY <1>1, <2>7 DEF SubmitBegin, RequestFails, RequestPhase, dbVars
    <3>2. CASE RequestPhase(j) = "over"
      BY <1>2, <3>1, <3>2, ContractStutters
    <3>3. CASE RequestPhase(j) # "over"
      <4>1. Contract(j)!GiveUp
        BY <1>2, <3>1, <3>3 DEF Contract!GiveUp
      <4> QED
        BY <4>1 DEF Contract!Next
    <3> QED
      BY <3>2, <3>3
  <2> QED
    BY <1>4, <2>1, <2>2, <2>3, <2>4, <2>5, <2>6, <2>7 DEF RequestStep
<1> QED
  BY <1>3, <1>4

\* The tracker, the administrator and the clock: they end jobs or change nothing that a
\* client sees.  A tracker that completes has counted everything.
LEMMA TrackerKeeps ==
    ASSUME JobInv, NEW j \in Jobs, Traced(j), NEW k \in Jobs,
           \/ TrackerStep(k) \/ TrackerError(k) \/ TrackerDeadline(k)
           \/ Cancel(k) \/ ForceFail(k) \/ Age(k)
    PROVE  [Contract(j)!Next]_(Contract(j)!vars)
<1>1. status \in [Jobs -> Statuses]
  BY DEF JobInv, TypeOK
<1>2. /\ UNCHANGED <<processed, rows, reqVars>>
      /\ RequestPhase(j)' = RequestPhase(j) /\ upload' = upload
  BY DEF TrackerStep, TrackerPoll, TrackerComplete, TrackerError, TrackerDeadline, Cancel,
     ForceFail, Age, UpdateStatus, RequestPhase, dbVars, reqVars
<1>3. CASE status'[j] = status[j]
  BY <1>2, <1>3, ContractStutters
<1>4. CASE status'[j] # status[j]
  <2>1. \/ TrackerComplete(j) \/ TrackerDeadline(j) \/ Cancel(j) \/ ForceFail(j)
    BY <1>1, <1>4 DEF TrackerStep, TrackerPoll, TrackerComplete, TrackerError,
       TrackerDeadline, Cancel, ForceFail, Age, UpdateStatus, dbVars
  <2>2. CASE TrackerComplete(j)
    <3>1. /\ tracker[j] = "completing" /\ status'[j] = "completed"
      BY <1>1, <2>2 DEF TrackerComplete, UpdateStatus
    <3>2. processed[j] = Total(j)
      BY <3>1, UnderWay DEF JobInv, CountSound
    <3> QED
      BY <1>2, <3>1, <3>2, UnderWay, ContractEnds DEF TerminalStatuses
  <2>3. CASE TrackerDeadline(j)
    <3>1. tracker[j] = "polling" /\ status'[j] = "failed"
      BY <1>1, <1>4, <2>3 DEF TrackerDeadline, UpdateStatus, dbVars
    <3> QED
      BY <1>2, <3>1, UnderWay, ContractEnds DEF TerminalStatuses
  <2>4. CASE Cancel(j) \/ ForceFail(j)
    <3>1. /\ status[j] \in Cancellable /\ status'[j] \in {"cancelled", "failed"}
      BY <1>1, <2>4 DEF Cancel, ForceFail, UpdateStatus
    <3> QED
      BY <1>2, <3>1, ContractEnds DEF TerminalStatuses, Cancellable, Terminal
  <2> QED
    BY <2>1, <2>2, <2>3, <2>4
<1> QED
  BY <1>3, <1>4

\* The updates of many jobs at once, by CancelAllRunning and by the recovery of a boot.
LEMMA SweepKeeps ==
    ASSUME JobInv, NEW j \in Jobs, Traced(j), CancelAllRunning \/ Boot \/ PeerBoot
    PROVE  [Contract(j)!Next]_(Contract(j)!vars)
<1>1. /\ UNCHANGED <<processed, rows, reqVars>>
      /\ RequestPhase(j)' = RequestPhase(j) /\ upload' = upload
  BY DEF CancelAllRunning, Boot, PeerBoot, MarkStaleAsFailed, RequestPhase, dbVars, reqVars
<1>2. CASE status'[j] = status[j]
  BY <1>1, <1>2, ContractStutters
<1>3. CASE status'[j] # status[j]
  <2>1. status[j] \in Cancellable /\ status'[j] \in {"cancelled", "failed"}
    BY <1>3 DEF CancelAllRunning, Boot, PeerBoot, MarkStaleAsFailed, Stale, Cancellable, dbVars
  <2> QED
    BY <1>1, <2>1, ContractEnds DEF TerminalStatuses, Cancellable, Terminal
<1> QED
  BY <1>2, <1>3

\* The workers: rows are stored before they are counted, whatever fails between.
LEMMA WorkerKeeps ==
    ASSUME JobInv, [Next]_vars, NEW j \in Jobs, Traced(j), NEW w \in Workers, WorkerStep(w)
    PROVE  [Contract(j)!Next]_(Contract(j)!vars)
<1>1. /\ status \in [Jobs -> Statuses] /\ processed \in [Jobs -> Nat]
      /\ rows \in [Jobs -> SUBSET Emails] /\ JobInv'
  BY StepInv DEF JobInv, TypeOK
<1>2. /\ UNCHANGED reqVars
      /\ RequestPhase(j)' = RequestPhase(j) /\ upload' = upload
  BY DEF WorkerStep, WorkerTake, WorkerExit, Validate, ValidateAbort, Insert, InsertError,
     Progress, ProgressError, MarkJobFailed, RequestPhase, reqVars
<1>3. \/ BulkInsert(hand[w]) /\ Busy(w)
      \/ IncrementProgress(hand[w].job, hand[w].hi - hand[w].lo + 1) /\ Busy(w)
      \/ UpdateStatus(hand[w].job, "failed") /\ Busy(w)
      \/ UNCHANGED dbVars
  BY DEF WorkerStep, WorkerTake, WorkerExit, Validate, ValidateAbort, Insert, InsertError,
     Progress, ProgressError, MarkJobFailed, Busy
<1>4. Busy(w) => hand[w].job \in Jobs /\ hand[w].lo \in Nat /\ hand[w].hi \in Nat
                 /\ hand[w].lo <= hand[w].hi
  BY DEF JobInv, TasksSound, TaskSound, Task
<1>5. ASSUME Busy(w), hand[w].job = j
      PROVE  RequestPhase(j) = "over" /\ status[j] # "absent"
  BY <1>5, UnderWay
<1>6. CASE status'[j] = status[j] /\ processed'[j] = processed[j] /\ rows'[j] = rows[j]
  BY <1>2, <1>6, ContractStutters
<1>7. CASE BulkInsert(hand[w]) /\ Busy(w) /\ rows'[j] # rows[j]
  <2>1. /\ hand[w].job = j /\ rows[j] \subseteq rows'[j]
        /\ status' = status /\ processed' = processed
    BY <1>1, <1>4, <1>7 DEF BulkInsert
  <2>2. /\ rows'[j] \subseteq Uploaded(j)
        /\ \A a, b \in rows'[j] : Norm[a] = Norm[b] => a = b
    BY <1>1, <1>2 DEF JobInv, RowsSound, Uploaded, Total
  <2>3. Contract(j)!Store
    BY <1>2, <1>5, <1>7, <2>1, <2>2 DEF Contract!Store, Contract!Created, Contract!Listed, Uploaded, Total
  <2> QED
    BY <2>3 DEF Contract!Next
<1>8. CASE /\ IncrementProgress(hand[w].job, hand[w].hi - hand[w].lo + 1) /\ Busy(w)
           /\ processed'[j] # processed[j]
  <2>1. /\ hand[w].job = j /\ processed[j] < processed'[j]
        /\ status' = status /\ rows' = rows
    BY <1>1, <1>4, <1>8 DEF IncrementProgress
  <2>2. processed'[j] <= Cardinality({p \in 1..Total(j) : Persisted(j, p)})'
    BY <1>1, CountedIsStoredNext DEF ProgressNeverOverstates
  <2>3. {p \in 1..Total(j) : Persisted(j, p)}' = Contract(j)!Stored
    <3>1. Total(j)' = Total(j)
      BY <1>2 DEF Total
    <3>2. ASSUME NEW p PROVE Persisted(j, p)' <=> \E e \in rows[j] : Norm[e] = Norm[upload[j][p]]
      BY <1>2, <2>1 DEF Persisted, Forms
    <3>3. {p \in 1..Total(j) : Persisted(j, p)}' =
              {p \in 1..Total(j) : \E e \in rows[j] : Norm[e] = Norm[upload[j][p]]}
      BY <3>1, <3>2
    <3> QED
      BY <3>3 DEF Contract!Stored, Total
  <2>4. Contract(j)!Count
    <3>1. processed'[j] <= Cardinality(Contract(j)!Stored)
      BY <2>2, <2>3
    <3> QED
      BY <1>2, <1>5, <1>8, <2>1, <3>1, ContractCounts DEF Contract!Count, Contract!Created
  <2> QED
    BY <2>4 DEF Contract!Next
<1>9. CASE UpdateStatus(hand[w].job, "failed") /\ Busy(w) /\ status'[j] # status[j]
  <2>1. /\ hand[w].job = j /\ status'[j] = "failed"
        /\ processed' = processed /\ rows' = rows
    BY <1>1, <1>4, <1>9 DEF UpdateStatus
  <2> QED
    BY <1>2, <1>5, <1>9, <2>1, ContractEnds DEF TerminalStatuses
<1> QED
  BY <1>3, <1>6, <1>7, <1>8, <1>9 DEF BulkInsert, IncrementProgress, UpdateStatus, dbVars

\* Every step of the system is, for each job, a step of its contract or nothing to its client.
LEMMA StepKeeps ==
    ASSUME JobInv, [Next]_vars, NEW j \in Jobs, Traced(j)
    PROVE  [Contract(j)!Next]_(Contract(j)!vars)
<1>1. CASE Sigterm \/ UNCHANGED vars
  BY <1>1, ContractStutters DEF Sigterm, RequestPhase, vars, dbVars, reqVars
<1>2. CASE Crash
  <2>1. UNCHANGED <<status, processed, rows, upload>>
    BY <1>2 DEF Crash, dbVars
  <2>2. pc'[j] = pc[j] \/ (pc[j] \notin {"none", "done"} /\ pc'[j] = "aborted")
    BY <1>2 DEF Crash
  <2>3. CASE RequestPhase(j)' = RequestPhase(j)
    BY <2>1, <2>3, ContractStutters
  <2>4. CASE RequestPhase(j)' # RequestPhase(j)
    <3>1. RequestPhase(j) \in {"open", "starting"} /\ RequestPhase(j)' = "over"
      BY <2>2, <2>4 DEF RequestPhase
    <3>2. Contract(j)!GiveUp
      BY <2>1, <3>1 DEF Contract!GiveUp
    <3> QED
      BY <3>2 DEF Contract!Next
  <2> QED
    BY <2>3, <2>4
<1> QED
  BY <1>1, <1>2, RequestKeeps, TrackerKeeps, SweepKeeps, WorkerKeeps DEF Next

\* Each job, as its client sees it by polling, keeps to the contract, whatever other jobs,
\* administrators, crashes and boots do meanwhile: JobSystem implements JobContract.
THEOREM ContractKept == Spec => ImplementsContract
<1> DEFINE AllTraced == \A j \in Jobs : Traced(j)
<1>1. Init => AllTraced
  BY DEF Init, Traced
<1>2. Init => \A j \in Jobs : Contract(j)!Init
  BY DEF Init, Contract!Init, RequestPhase
<1>3. JobInv /\ AllTraced /\ [Next]_vars => AllTraced'
  BY TracedStays
<1>4. JobInv /\ AllTraced /\ [Next]_vars =>
          \A j \in Jobs : [Contract(j)!Next]_(Contract(j)!vars)
  BY StepKeeps
<1> HIDE DEF AllTraced
<1> QED
  BY <1>1, <1>2, <1>3, <1>4, JobInvariant, PTL DEF Spec, ImplementsContract
=============================================================================
