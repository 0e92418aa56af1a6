------------------------------- MODULE JobSystem -------------------------------
(***************************************************************************)
(* The asynchronous validation job of mailclear, from the upload to its    *)
(* final status.  Five kinds of process touch a job: the HTTP request that *)
(* creates and submits it (handlers/import.go, jobs/manager.go), the       *)
(* workers of the pool (workers/pool.go, jobs/handler.go), the completion  *)
(* tracker spawned by Submit, the administrator (cancel, force-fail), and  *)
(* the stale-job recovery that every process runs when it boots            *)
(* (app/app.go).  They share the jobs and emails tables; the queue, the    *)
(* workers and the trackers live in the memory of the API process and are  *)
(* lost when it dies.                                                      *)
(*                                                                         *)
(* One step is one SQL statement (or transaction) or one channel           *)
(* operation.  A call to the database may succeed, fail without effect, or *)
(* take effect and still report an error (the answer is lost).             *)
(***************************************************************************)
EXTENDS Integers, Sequences, FiniteSets

CONSTANTS
    Jobs,        \* identifiers the jobs table can hand out
    NoJob,       \* no job (a job that was uploaded has no source job)
    Workers,     \* goroutines of the pool
    Emails,      \* raw addresses, already distinct for importer.Dedup
    Norm,        \* Norm[e]: email_normalized, may collapse distinct addresses
    BatchSize,   \* cfg.Workers.BatchSize
    QueueCap,    \* cfg.Workers.JobQueueBuffer
    MaxUpload,   \* bound: most addresses in one upload
    Env          \* which failures and outside events the instance includes

EnvEvents == {"admin", "request_abort", "write_error", "tracker_error",
              "recovery_error", "deadline", "crash", "sigterm", "peer_boot",
              "idle_5min"}

ASSUME BatchSizeAssumption == BatchSize \in Nat \ {0}
ASSUME QueueCapAssumption == QueueCap \in Nat \ {0}
ASSUME MaxUploadAssumption == MaxUpload \in Nat
ASSUME NoJobAssumption == NoJob \notin Jobs
ASSUME NormAssumption == DOMAIN Norm = Emails
ASSUME EnvAssumption == Env \subseteq EnvEvents

VARIABLES
    \* table jobs (and emails): survive a crash
    status,      \* job_status, "absent" when there is no such row
    processed,   \* jobs.processed
    fresh,       \* jobs.updated_at is less than 5 minutes old
    rows,        \* email_original of the rows of table emails with this job_id
    \* the request that creates and submits the job
    upload,      \* the addresses collected from the CSV, or read by Requeue
    source,      \* metadata.requeued_from
    pc,          \* where the request is
    next,        \* addresses already handed to the pool
    \* the API process
    tracker,     \* the goroutine waitForCompletion
    queue,       \* Pool.queue
    hand,        \* the task each worker is running
    phase,       \* and how far it is
    up,          \* the process is running
    ctxDone      \* the signal context is cancelled

dbVars   == <<status, processed, fresh, rows>>
reqVars  == <<upload, source, pc, next>>
poolVars == <<queue, hand, phase>>
procVars == <<up, ctxDone>>
vars     == <<dbVars, reqVars, tracker, poolVars, procVars>>

Statuses == {"absent", "pending", "running", "paused",
             "completed", "failed", "cancelled"}
TerminalStatuses == {"completed", "failed", "cancelled"}
Cancellable == {"pending", "running", "paused"}
RequestStates == {"none", "accepted", "created", "starting", "submitting",
                  "done", "aborted"}
TrackerStates == {"none", "polling", "completing", "gone"}
Phases == {"idle", "validate", "insert", "progress", "markfail", "exited"}

\* workers.Task: a slice emails[lo:hi] of one job's addresses.
Task == [job : Jobs, lo : Nat \ {0}, hi : Nat \ {0}]
NoTask == [job |-> NoJob, lo |-> 1, hi |-> 0]

Terminal(j) == status[j] \in TerminalStatuses
Total(j) == Len(upload[j])
Uploaded(j) == {upload[j][p] : p \in 1..Total(j)}
Forms(S) == {Norm[e] : e \in S}

\* What importer.Dedup lets through: no address twice.
Uploads ==
    UNION {{s \in [1..n -> Emails] :
               \A a, b \in 1..n : s[a] = s[b] => a = b} : n \in 0..MaxUpload}

TypeOK ==
    /\ status \in [Jobs -> Statuses]
    /\ processed \in [Jobs -> Nat]
    /\ fresh \in [Jobs -> BOOLEAN]
    /\ rows \in [Jobs -> SUBSET Emails]
    /\ upload \in [Jobs -> Seq(Emails)]
    /\ source \in [Jobs -> Jobs \cup {NoJob}]
    /\ pc \in [Jobs -> RequestStates]
    /\ next \in [Jobs -> Nat]
    /\ tracker \in [Jobs -> TrackerStates]
    /\ queue \in Seq(Task)
    /\ hand \in [Workers -> Task \cup {NoTask}]
    /\ phase \in [Workers -> Phases]
    /\ up \in BOOLEAN
    /\ ctxDone \in BOOLEAN

Init ==
    /\ status = [j \in Jobs |-> "absent"]
    /\ processed = [j \in Jobs |-> 0]
    /\ fresh = [j \in Jobs |-> TRUE]
    /\ rows = [j \in Jobs |-> {}]
    /\ upload = [j \in Jobs |-> << >>]
    /\ source = [j \in Jobs |-> NoJob]
    /\ pc = [j \in Jobs |-> "none"]
    /\ next = [j \in Jobs |-> 0]
    /\ tracker = [j \in Jobs |-> "none"]
    /\ queue = << >>
    /\ hand = [w \in Workers |-> NoTask]
    /\ phase = [w \in Workers |-> "idle"]
    /\ up = TRUE
    /\ ctxDone = FALSE

(***************************************************************************)
(* The jobs table.  Every UPDATE fires the trigger that bumps updated_at.  *)
(***************************************************************************)
UpdateStatus(j, s) ==
    /\ status' = [status EXCEPT ![j] = s]
    /\ fresh' = [fresh EXCEPT ![j] = TRUE]
    /\ UNCHANGED <<processed, rows>>

\* Mutation: the counter's UPDATE also sets the status.
IncrementProgressRevives(j, n) ==
    /\ processed' = [processed EXCEPT ![j] = @ + n]
    /\ status' = [status EXCEPT ![j] = "running"]
    /\ fresh' = [fresh EXCEPT ![j] = TRUE]
    /\ UNCHANGED rows

IncrementProgress(j, n) ==
    /\ processed' = [processed EXCEPT ![j] = @ + n]
    /\ fresh' = [fresh EXCEPT ![j] = TRUE]
    /\ UNCHANGED <<status, rows>>

Stale(j) == status[j] \in {"pending", "running"} /\ ~fresh[j]

MarkStaleAsFailed ==
    /\ status' = [j \in Jobs |-> IF Stale(j) THEN "failed" ELSE status[j]]
    /\ fresh' = [j \in Jobs |-> fresh[j] \/ Stale(j)]
    /\ UNCHANGED <<processed, rows>>

\* The sets of rows that the INSERT of a batch S may add to the rows already
\* there: one per new normalized form (DISTINCT ON keeps an arbitrary one),
\* none for a form that is present (ON CONFLICT DO NOTHING).
NewRows(S, old) ==
    {R \in SUBSET S :
        /\ \A e \in R : Norm[e] \notin Forms(old)
        /\ \A a, b \in R : Norm[a] = Norm[b] => a = b
        /\ Forms(S) \subseteq Forms(old \cup R)}

Batch(t) == {upload[t.job][p] : p \in t.lo..t.hi}

BulkInsert(t) ==
    /\ \E R \in NewRows(Batch(t), rows[t.job]) :
           rows' = [rows EXCEPT ![t.job] = @ \cup R]
    /\ UNCHANGED <<status, processed, fresh>>

(***************************************************************************)
(* The request: POST /import or POST /jobs/{id}/requeue.                   *)
(***************************************************************************)
\* ImportHandlers.CSV up to the point where the job is created: the queue is
\* less than 90% full, and the file has been read.
QueueBusy == Len(queue) * 10 >= QueueCap * 9

ImportAccept(j, list) ==
    /\ up /\ pc[j] = "none"
    /\ ~QueueBusy
    /\ pc' = [pc EXCEPT ![j] = "accepted"]
    /\ upload' = [upload EXCEPT ![j] = list]
    /\ UNCHANGED <<dbVars, source, next, tracker, poolVars, procVars>>

\* Mutation: Requeue takes the list of the source's upload.
RequeueAcceptUpload(j, src, list) ==
    /\ up /\ pc[j] = "none"
    /\ rows[src] # {}
    /\ list = upload[src]
    /\ pc' = [pc EXCEPT ![j] = "accepted"]
    /\ upload' = [upload EXCEPT ![j] = list]
    /\ source' = [source EXCEPT ![j] = src]
    /\ UNCHANGED <<dbVars, next, tracker, poolVars, procVars>>

\* Manager.Requeue up to the point where the job is created: Get and
\* ListOriginalsByJob.  There is no backpressure test here, and the source
\* job may still be running.
RequeueAccept(j, src, list) ==
    /\ up /\ pc[j] = "none"
    /\ status[src] # "absent"
    /\ rows[src] # {}
    /\ {list[p] : p \in 1..Len(list)} = rows[src]
    /\ pc' = [pc EXCEPT ![j] = "accepted"]
    /\ upload' = [upload EXCEPT ![j] = list]
    /\ source' = [source EXCEPT ![j] = src]
    /\ UNCHANGED <<dbVars, next, tracker, poolVars, procVars>>

Create(j) ==
    /\ up /\ pc[j] = "accepted"
    /\ pc' = [pc EXCEPT ![j] = "created"]
    /\ UpdateStatus(j, "pending")
    /\ UNCHANGED <<upload, source, next, tracker, poolVars, procVars>>

\* Mutation: no CHECK on the table, Submit starts whatever it finds.
SubmitBeginUnchecked(j) ==
    /\ up /\ pc[j] = "created"
    /\ pc' = [pc EXCEPT ![j] = "starting"]
    /\ UNCHANGED <<dbVars, upload, source, next, tracker, poolVars, procVars>>

\* Submit sends UPDATE ... status = 'running', which also sets started_at to
\* the time the statement begins.  A job that was already cancelled or failed
\* has a finished_at in the past, so the CHECK jobs_finished_after_started
\* rejects the row and Submit returns the error.
SubmitBegin(j) ==
    /\ up /\ pc[j] = "created"
    /\ pc' = [pc EXCEPT ![j] = IF Terminal(j) THEN "aborted" ELSE "starting"]
    /\ UNCHANGED <<dbVars, upload, source, next, tracker, poolVars, procVars>>

SubmitStart(j) ==
    /\ up /\ pc[j] = "starting"
    /\ pc' = [pc EXCEPT ![j] = "submitting"]
    /\ UpdateStatus(j, "running")
    /\ UNCHANGED <<upload, source, next, tracker, poolVars, procVars>>

\* The smaller of the two: the last batch is cut at the end of the list.
BatchEnd(i, len) == IF i + BatchSize > len THEN len ELSE i + BatchSize

\* Mutation: the slice starts with the last address of the one before.
SliceOverlapping(j, i, end) == [job |-> j, lo |-> i, hi |-> end]

\* emails[i:end], from 0 in Go and from 1 here.
Slice(j, i, end) == [job |-> j, lo |-> i + 1, hi |-> end]

SubmitBatch(j) ==
    /\ up /\ pc[j] = "submitting"
    /\ next[j] < Total(j)
    /\ Len(queue) < QueueCap
    /\ LET end == BatchEnd(next[j], Total(j)) IN
           /\ queue' = Append(queue, Slice(j, next[j], end))
           /\ next' = [next EXCEPT ![j] = end]
    /\ UNCHANGED <<dbVars, upload, source, pc, tracker, hand, phase, procVars>>

\* Mutation: nobody watches the job.
SubmitDoneUnwatched(j) ==
    /\ up /\ pc[j] = "submitting"
    /\ next[j] >= Total(j)
    /\ pc' = [pc EXCEPT ![j] = "done"]
    /\ UNCHANGED <<dbVars, upload, source, next, tracker, poolVars, procVars>>

\* All batches are queued: go waitForCompletion(jobID, total).  With nothing to
\* process the tracker goes straight to its UPDATE.
SubmitDone(j) ==
    /\ up /\ pc[j] = "submitting"
    /\ next[j] >= Total(j)
    /\ pc' = [pc EXCEPT ![j] = "done"]
    /\ tracker' = [tracker EXCEPT ![j] =
                      IF Total(j) <= 0 THEN "completing" ELSE "polling"]
    /\ UNCHANGED <<dbVars, upload, source, next, poolVars, procVars>>

\* The client goes away (the request context is cancelled) or the statement
\* fails: the handler returns an error and nothing cleans up after it.
RequestFails(j) ==
    /\ "request_abort" \in Env
    /\ up /\ pc[j] \in {"accepted", "created", "starting", "submitting"}
    /\ pc' = [pc EXCEPT ![j] = "aborted"]
    /\ UNCHANGED <<dbVars, upload, source, next, tracker, poolVars, procVars>>

\* The INSERT or the UPDATE took effect but the handler got an error.
RequestAnswerLost(j) ==
    /\ "request_abort" \in Env
    /\ up
    /\ \/ pc[j] = "accepted" /\ UpdateStatus(j, "pending")
       \/ pc[j] = "starting" /\ UpdateStatus(j, "running")
    /\ pc' = [pc EXCEPT ![j] = "aborted"]
    /\ UNCHANGED <<upload, source, next, tracker, poolVars, procVars>>

(***************************************************************************)
(* The workers: Pool.run and the handler made by MakeTaskHandler.          *)
(***************************************************************************)
\* Pool.run's select: once the context is done the runtime still may pick a
\* task that is ready.
WorkerTake(w) ==
    /\ up /\ phase[w] = "idle"
    /\ queue # << >>
    /\ hand' = [hand EXCEPT ![w] = Head(queue)]
    /\ queue' = Tail(queue)
    /\ phase' = [phase EXCEPT ![w] = "validate"]
    /\ UNCHANGED <<dbVars, reqVars, tracker, procVars>>

WorkerExit(w) ==
    /\ up /\ ctxDone /\ phase[w] = "idle"
    /\ phase' = [phase EXCEPT ![w] = "exited"]
    /\ UNCHANGED <<dbVars, reqVars, tracker, queue, hand, procVars>>

Finish(w) ==
    /\ hand' = [hand EXCEPT ![w] = NoTask]
    /\ phase' = [phase EXCEPT ![w] = "idle"]

\* Pre-warm and validation of every address.  The only error is that an address
\* comes to its next stage with the context done: the batch is abandoned and the
\* job left as it is.  A cancellation that finds them all in their last stage, the
\* MX lookup, makes them risky and stops nothing.
Validate(w) ==
    /\ up /\ phase[w] = "validate"
    /\ phase' = [phase EXCEPT ![w] = "insert"]
    /\ UNCHANGED <<dbVars, reqVars, tracker, queue, hand, procVars>>

ValidateAbort(w) ==
    /\ up /\ phase[w] = "validate" /\ ctxDone
    /\ Finish(w)
    /\ UNCHANGED <<dbVars, reqVars, tracker, queue, procVars>>

Insert(w) ==
    /\ up /\ phase[w] = "insert" /\ ~ctxDone
    /\ BulkInsert(hand[w])
    /\ phase' = [phase EXCEPT ![w] = "progress"]
    /\ UNCHANGED <<reqVars, tracker, queue, hand, procVars>>

Progress(w) ==
    /\ up /\ phase[w] = "progress" /\ ~ctxDone
    /\ IncrementProgress(hand[w].job, hand[w].hi - hand[w].lo + 1)
    /\ Finish(w)
    /\ UNCHANGED <<reqVars, tracker, queue, procVars>>

WritesFail == "write_error" \in Env \/ ctxDone

\* Mutation: the error is logged and the batch counted all the same.
InsertErrorIgnored(w) ==
    /\ up /\ phase[w] = "insert" /\ WritesFail
    /\ BulkInsert(hand[w]) \/ UNCHANGED dbVars
    /\ phase' = [phase EXCEPT ![w] = "progress"]
    /\ UNCHANGED <<reqVars, tracker, queue, hand, procVars>>

\* BulkInsert or IncrementProgress returns an error, with or without effect:
\* the worker goes on to markJobFailed.
InsertError(w) ==
    /\ up /\ phase[w] = "insert" /\ WritesFail
    /\ BulkInsert(hand[w]) \/ UNCHANGED dbVars
    /\ phase' = [phase EXCEPT ![w] = "markfail"]
    /\ UNCHANGED <<reqVars, tracker, queue, hand, procVars>>

ProgressError(w) ==
    /\ up /\ phase[w] = "progress" /\ WritesFail
    /\ \/ IncrementProgress(hand[w].job, hand[w].hi - hand[w].lo + 1)
       \/ UNCHANGED dbVars
    /\ phase' = [phase EXCEPT ![w] = "markfail"]
    /\ UNCHANGED <<reqVars, tracker, queue, hand, procVars>>

\* markJobFailed uses its own context; if its UPDATE fails too the error is
\* only logged.  SetLastError writes metadata alone.
MarkJobFailed(w) ==
    /\ up /\ phase[w] = "markfail"
    /\ \/ UpdateStatus(hand[w].job, "failed")
       \/ "write_error" \in Env /\ UNCHANGED dbVars
    /\ Finish(w)
    /\ UNCHANGED <<reqVars, tracker, queue, procVars>>

(***************************************************************************)
(* The completion tracker: waitForCompletion.                              *)
(***************************************************************************)
\* One tick: the row is read, and the decision made from that snapshot.  A
\* tick that sees an unfinished job changes nothing.
TrackerPoll(j) ==
    /\ up /\ tracker[j] = "polling"
    /\ \/ /\ Terminal(j)
          /\ tracker' = [tracker EXCEPT ![j] = "gone"]
       \/ /\ ~Terminal(j)
          /\ processed[j] >= Total(j)
          /\ tracker' = [tracker EXCEPT ![j] = "completing"]
    /\ UNCHANGED <<dbVars, reqVars, poolVars, procVars>>

\* The UPDATE that follows, in a later statement and with no condition.
TrackerComplete(j) ==
    /\ up /\ tracker[j] = "completing"
    /\ tracker' = [tracker EXCEPT ![j] = "gone"]
    /\ UpdateStatus(j, "completed")
    /\ UNCHANGED <<reqVars, poolVars, procVars>>

\* Get returns an error, or the final UPDATE does: the goroutine returns.
TrackerError(j) ==
    /\ "tracker_error" \in Env
    /\ up /\ tracker[j] \in {"polling", "completing"}
    /\ tracker' = [tracker EXCEPT ![j] = "gone"]
    /\ UNCHANGED <<dbVars, reqVars, poolVars, procVars>>

\* After 24 hours the job is failed, before its status is looked at.
TrackerDeadline(j) ==
    /\ "deadline" \in Env
    /\ up /\ tracker[j] = "polling"
    /\ tracker' = [tracker EXCEPT ![j] = "gone"]
    /\ \/ UpdateStatus(j, "failed")
       \/ "tracker_error" \in Env /\ UNCHANGED dbVars
    /\ UNCHANGED <<reqVars, poolVars, procVars>>

(***************************************************************************)
(* The administrator.                                                      *)
(***************************************************************************)
Cancel(j) ==
    /\ "admin" \in Env /\ up
    /\ status[j] \in Cancellable
    /\ UpdateStatus(j, "cancelled")
    /\ UNCHANGED <<reqVars, tracker, poolVars, procVars>>

CancelAllRunning ==
    /\ "admin" \in Env /\ up
    /\ \E j \in Jobs : status[j] \in Cancellable
    /\ status' = [j \in Jobs |-> IF status[j] \in Cancellable
                                 THEN "cancelled" ELSE status[j]]
    /\ fresh' = [j \in Jobs |-> fresh[j] \/ status[j] \in Cancellable]
    /\ UNCHANGED <<processed, rows, reqVars, tracker, poolVars, procVars>>

ForceFail(j) ==
    /\ "admin" \in Env /\ up
    /\ status[j] \in Cancellable
    /\ UpdateStatus(j, "failed")
    /\ UNCHANGED <<reqVars, tracker, poolVars, procVars>>

(***************************************************************************)
(* Time and the life of the process.                                       *)
(***************************************************************************)
\* Five minutes pass without an update of the row.
Age(j) ==
    /\ "idle_5min" \in Env
    /\ status[j] # "absent" /\ fresh[j]
    /\ fresh' = [fresh EXCEPT ![j] = FALSE]
    /\ UNCHANGED <<status, processed, rows, reqVars, tracker, poolVars, procVars>>

\* SIGTERM cancels the context the pool was started with.  main stays in
\* ListenAndServe, so requests are still served until the process is killed.
Sigterm ==
    /\ "sigterm" \in Env /\ up /\ ~ctxDone
    /\ ctxDone' = TRUE
    /\ UNCHANGED <<dbVars, reqVars, tracker, poolVars, up>>

\* The process dies: everything in its memory is gone.
Crash ==
    /\ "crash" \in Env \/ ctxDone
    /\ up
    /\ up' = FALSE
    /\ ctxDone' = FALSE
    /\ queue' = << >>
    /\ hand' = [w \in Workers |-> NoTask]
    /\ phase' = [w \in Workers |-> "idle"]
    /\ tracker' = [j \in Jobs |-> IF tracker[j] = "none" THEN "none" ELSE "gone"]
    /\ pc' = [j \in Jobs |-> IF pc[j] \in {"none", "done"} THEN pc[j] ELSE "aborted"]
    /\ UNCHANGED <<dbVars, upload, source, next>>

\* app.New: the stale-job recovery runs first; its error is ignored.
Boot ==
    /\ ~up
    /\ up' = TRUE
    /\ \/ MarkStaleAsFailed
       \/ "recovery_error" \in Env /\ UNCHANGED dbVars
    /\ UNCHANGED <<reqVars, tracker, poolVars, ctxDone>>

\* cmd/worker runs the same app.New against the same database.
PeerBoot ==
    /\ "peer_boot" \in Env
    /\ MarkStaleAsFailed
    /\ UNCHANGED <<reqVars, tracker, poolVars, procVars>>

RequestStep(j) ==
    \/ Create(j) \/ SubmitBegin(j) \/ SubmitStart(j)
    \/ SubmitBatch(j) \/ SubmitDone(j)

WorkerStep(w) ==
    \/ WorkerTake(w) \/ WorkerExit(w) \/ Validate(w) \/ ValidateAbort(w)
    \/ Insert(w) \/ InsertError(w) \/ Progress(w) \/ ProgressError(w)
    \/ MarkJobFailed(w)

TrackerStep(j) == TrackerPoll(j) \/ TrackerComplete(j)

Next ==
    \/ \E j \in Jobs :
          \/ \E list \in Uploads : ImportAccept(j, list)
          \/ \E src \in Jobs, list \in Uploads : RequeueAccept(j, src, list)
          \/ RequestStep(j) \/ RequestFails(j) \/ RequestAnswerLost(j)
          \/ TrackerStep(j) \/ TrackerError(j) \/ TrackerDeadline(j)
          \/ Cancel(j) \/ ForceFail(j) \/ Age(j)
    \/ \E w \in Workers : WorkerStep(w)
    \/ CancelAllRunning \/ Sigterm \/ Crash \/ Boot \/ PeerBoot

Spec == Init /\ [][Next]_vars

\* Goroutines that can run do run; a sender blocked on the full channel is
\* served in turn, which only strong fairness expresses.  Nothing outside the
\* process (clients, administrator, failures) is assumed to happen.
Fairness ==
    /\ \A j \in Jobs : /\ WF_vars(RequestStep(j))
                       /\ SF_vars(SubmitBatch(j))
                       /\ WF_vars(TrackerStep(j))
                       /\ WF_vars(TrackerDeadline(j))
    /\ \A w \in Workers : WF_vars(WorkerStep(w))

FairSpec == Spec /\ Fairness

(***************************************************************************)
(* Safety properties.                                                      *)
(***************************************************************************)
\* The address at position p of job j has its row in table emails: its own,
\* or that of another address with the same normalized form.
Persisted(j, p) == Norm[upload[j][p]] \in Forms(rows[j])

\* A worker is still going to count this task in jobs.processed.
Working(w) == phase[w] \in {"validate", "insert", "progress"}

Overlap(s, t) == s.job = t.job /\ s.lo <= t.hi /\ t.lo <= s.hi

\* No address of a job is in two places at once: two queued batches, two busy
\* workers, or a queued batch and a busy worker never share one.  Submit's
\* slicing, the channel and Pool.run hand every batch over exactly once.
InFlightOnce ==
    /\ \A a, b \in 1..Len(queue) : a # b => ~Overlap(queue[a], queue[b])
    /\ \A a \in 1..Len(queue), w \in Workers :
          Working(w) => ~Overlap(queue[a], hand[w])
    /\ \A v, w \in Workers :
          v # w /\ Working(v) /\ Working(w) => ~Overlap(hand[v], hand[w])

\* jobs.processed never runs ahead of table emails: whatever fails, crashes or
\* is cancelled between BulkInsert and IncrementProgress, at least that many
\* uploaded addresses are persisted.  In particular the CHECK
\* jobs_processed_le_total never rejects an IncrementProgress.
ProgressNeverOverstates ==
    \A j \in Jobs :
        processed[j] <= Cardinality({p \in 1..Total(j) : Persisted(j, p)})

\* A job reported as completed has a result for every address of its upload,
\* and for nothing else, even though the tracker decides from a snapshot and
\* writes without a condition.
CompletedMeansPersisted ==
    \A j \in Jobs :
        status[j] = "completed" => Forms(rows[j]) = Forms(Uploaded(j))

\* A completed requeue holds exactly the addresses that ListOriginalsByJob
\* read, none collapsed into another, and each has its row in the source job.
RequeueCopies ==
    \A j \in Jobs :
        /\ source[j] # NoJob => rows[j] \subseteq rows[source[j]]
        /\ source[j] # NoJob /\ status[j] = "completed" => rows[j] = Uploaded(j)

\* A finished job is never brought back to life, neither by late workers, nor by
\* the tracker, nor by a boot: the only way out of a terminal status is the
\* UPDATE of a Submit that had already begun when the job was cancelled.
TerminalStays ==
    [][\A j \in Jobs : Terminal(j) /\ pc[j] # "starting" => Terminal(j)']_vars

\* A job cancelled or failed between Create and Submit is never run: the CHECK on
\* finished_at rejects Submit's UPDATE for good, and no address is processed.
CancelBeforeStartHolds ==
    \A j \in Jobs :
        [](pc[j] = "created" /\ Terminal(j) => [](Terminal(j) /\ processed[j] = 0))

\* Each job, seen from outside, keeps to JobContract.
RequestPhase(j) ==
    CASE pc[j] = "none" -> "none"
      [] pc[j] \in {"accepted", "created"} -> "open"
      [] pc[j] = "starting" -> "starting"
      [] OTHER -> "over"

Contract(j) ==
    INSTANCE JobContract WITH phase <- RequestPhase(j), list <- upload[j],
        status <- status[j], processed <- processed[j], rows <- rows[j]

ImplementsContract ==
    /\ \A j \in Jobs : Contract(j)!Init
    /\ [][\A j \in Jobs : [Contract(j)!Next]_(Contract(j)!vars)]_vars

(***************************************************************************)
(* Liveness.                                                               *)
(***************************************************************************)
\* Every job whose row was created ends: it is completed, failed or cancelled.
EveryJobTerminates ==
    \A j \in Jobs : (status[j] = "pending") ~> Terminal(j)

(***************************************************************************)
(* What comments in the code promise and the code does not do.             *)
(***************************************************************************)
\* manager.go:114: a job cancelled or marked elsewhere is left alone by the
\* completion tracker.
TrackerDoesNotInterfere ==
    [][\A j \in Jobs :
          Terminal(j) /\ Total(j) > 0 /\ TrackerStep(j)
              => status'[j] = status[j]]_vars

\* app.go:234: jobs whose batches were still queued when the process stopped are
\* marked failed by the stale-job recovery of the next boot.
BootClearsOrphans ==
    [][~up /\ up' => \A j \in Jobs :
            pc[j] = "done" /\ processed[j] < Total(j)
                => status'[j] \notin {"pending", "running"}]_vars

(***************************************************************************)
(* The inductive invariant behind the safety properties.                   *)
(***************************************************************************)
\* Positions of job j that are queued, or that a worker has not counted yet.
Queued(j) ==
    {p \in 1..next[j] : \E i \in 1..Len(queue) :
        queue[i].job = j /\ queue[i].lo <= p /\ p <= queue[i].hi}
Held(j) ==
    {p \in 1..next[j] : \E w \in Workers :
        Working(w) /\ hand[w].job = j /\ hand[w].lo <= p /\ p <= hand[w].hi}

\* Positions whose row is there and which no worker is going to count: the ones
\* jobs.processed may have counted.
Settled(j) ==
    {p \in 1..next[j] : Persisted(j, p) /\ p \notin Queued(j) /\ p \notin Held(j)}

Busy(w) == phase[w] \notin {"idle", "exited"}
TaskSound(t) == t.lo <= t.hi /\ t.hi <= next[t.job]

\* A job that was not created yet has left no trace.
UntouchedJobs ==
    \A j \in Jobs :
        /\ pc[j] = "none" => upload[j] = << >> /\ source[j] = NoJob
        /\ pc[j] \in {"none", "accepted"} =>
              next[j] = 0 /\ status[j] = "absent" /\ tracker[j] = "none"

TasksSound ==
    /\ \A j \in Jobs : next[j] <= Total(j)
    /\ \A i \in 1..Len(queue) : TaskSound(queue[i])
    /\ \A w \in Workers :
          /\ Busy(w) => hand[w] \in Task /\ TaskSound(hand[w])
          /\ phase[w] = "progress" =>
                \A p \in hand[w].lo..hand[w].hi : Persisted(hand[w].job, p)

RowsSound ==
    \A j \in Jobs :
        /\ rows[j] \subseteq Uploaded(j)
        /\ \A a, b \in rows[j] : Norm[a] = Norm[b] => a = b
        /\ source[j] # NoJob => Uploaded(j) \subseteq rows[source[j]]

CountSound ==
    \A j \in Jobs :
        /\ processed[j] <= Cardinality(Settled(j))
        /\ tracker[j] = "completing" => processed[j] >= Total(j)
        /\ status[j] = "completed" => processed[j] >= Total(j)

\* Together they say why the counter can be trusted: jobs.processed counts only
\* settled positions, each once, because no position is in flight twice and a
\* batch is counted only after its rows were committed.
JobInv ==
    /\ TypeOK
    /\ UntouchedJobs
    /\ TasksSound
    /\ InFlightOnce
    /\ RowsSound
    /\ CountSound
=============================================================================
