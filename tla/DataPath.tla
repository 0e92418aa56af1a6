------------------------------- MODULE DataPath -------------------------------
(***************************************************************************)
(* One upload from the file to the exported file: Importer reads it and    *)
(* creates the job, Manager.Submit cuts it into batches, workers store     *)
(* them concurrently in ResultStore, and a reader pages through the rows   *)
(* while, or after, that happens.                                          *)
(*                                                                         *)
(* JobSystem has the life of jobs (recovery, the administrator, lost       *)
(* answers of the statements on table jobs) with the data abstracted;      *)
(* here the data is kept and those are left out.                           *)
(***************************************************************************)
EXTENDS Importer, ResultStore

CONSTANTS
    BatchSize,     \* cfg.Workers.BatchSize
    Workers        \* number of workers of the pool

ASSUME BatchSizeAssumption == BatchSize \in Nat \ {0}
ASSUME WorkersAssumption == Workers \in Nat \ {0}
\* Batches are numbered; what the file can hold are the addresses of the job;
\* addresses that differ in case only have one key, for email_normalized is citext.
ASSUME AddressesAssumption ==
    /\ Txs = 1..Cardinality(Txs)
    /\ Emails = {Trimmed[c] : c \in Cells} \ {Blank}
    /\ \A a, b \in Emails : Lower[a] = Lower[b] => Norm[a] = Norm[b]

VARIABLES
    pc,            \* where the request is
    next,          \* addresses handed to the pool
    job            \* jobs.status

vars == <<importVars, storeVars, pc, next, job>>

RequestStates == {"reading", "creating", "created", "submitting", "answered", "refused"}

\* pc, job and the two parts have their types.
DataTypeOK ==
    /\ ImportTypeOK /\ StoreTypeOK
    /\ pc \in RequestStates
    /\ next \in 0..Len(collected)
    /\ job \in {"absent", "pending", "running", "completed", "failed"}

Init ==
    /\ ImportInit /\ StoreInit
    /\ pc = "reading" /\ next = 0 /\ job = "absent"

-----------------------------------------------------------------------------
(* ImportHandlers.CSV and Manager.Submit *)

ReadFile ==
    /\ pc = "reading" /\ ReadRow
    /\ UNCHANGED <<storeVars, pc, next, job>>

\* Mutation: Each does not look at the context.
FileReadAtEOF ==
    /\ pc = "reading" /\ line = Len(file.rows) /\ ~file.broken
    /\ pc' = "creating"
    /\ UNCHANGED <<importVars, storeVars, next, job>>

\* The error of a context that is done is not an error to the handler.
FileRead ==
    /\ pc = "reading" /\ EachReturns
    /\ pc' = "creating"
    /\ UNCHANGED <<importVars, storeVars, next, job>>

\* Mutations: the job gets the status of the answer; a context of its own.
CreateQueued ==
    /\ pc = "creating"
    /\ IF gone THEN pc' = "refused" /\ UNCHANGED job
               ELSE pc' = "created" /\ job' = "queued"
    /\ UNCHANGED <<importVars, storeVars, next>>

CreateDetached ==
    /\ pc = "creating"
    /\ pc' = "created" /\ job' = "pending"
    /\ UNCHANGED <<importVars, storeVars, next>>

\* Create, whose INSERT fails at once if the context is done.
Create ==
    /\ pc = "creating"
    /\ IF gone THEN pc' = "refused" /\ UNCHANGED job
               ELSE pc' = "created" /\ job' = "pending"
    /\ UNCHANGED <<importVars, storeVars, next>>

\* Submit's UPDATE.
StartJob ==
    /\ pc = "created"
    /\ IF gone THEN pc' = "refused" /\ UNCHANGED job
               ELSE pc' = "submitting" /\ job' = "running"
    /\ UNCHANGED <<importVars, storeVars, next>>

Slice(i, end) == SubSeq(collected, i + 1, end)

Handed == {t \in Txs : items[t] # << >>}

\* The queue has room for the batches of one job; with the context done the select
\* of Pool.Submit may still take that branch.
SubmitBatch ==
    /\ pc = "submitting" /\ next < Len(collected)
    /\ LET end == IF next + BatchSize > Len(collected) THEN Len(collected)
                  ELSE next + BatchSize
       IN  /\ items' = [items EXCEPT ![Cardinality(Handed) + 1] = Slice(next, end)]
           /\ next' = end
    /\ UNCHANGED <<importVars, txVars, reader, pc, job>>

SubmitFails ==
    /\ pc = "submitting" /\ next < Len(collected) /\ gone
    /\ pc' = "refused"
    /\ UNCHANGED <<importVars, storeVars, next, job>>

SubmitDone ==
    /\ pc = "submitting" /\ next = Len(collected)
    /\ pc' = "answered"
    /\ UNCHANGED <<importVars, storeVars, next, job>>

Leave ==
    /\ pc \notin {"answered", "refused"} /\ ClientLeaves
    /\ UNCHANGED <<storeVars, pc, next, job>>

-----------------------------------------------------------------------------
(* The workers and the tracker *)

\* Batches in the hands of a worker.
InHand == {t \in Txs : stage[t] \in {"open", "committed"}}

Work(t) ==
    /\ TxStep(t)
    /\ stage[t] = "idle" => Cardinality(InHand) < Workers
    /\ UNCHANGED <<importVars, pc, next, job>>

\* BulkInsert or IncrementProgress returns an error: markJobFailed.
WorkFails(t) ==
    /\ Rollback(t) \/ CommitUnheard(t) \/ CountFails(t)
    /\ stage[t] = "idle" => Cardinality(InHand) < Workers
    /\ job' = "failed"
    /\ UNCHANGED <<importVars, pc, next>>

\* jobs.processed: every counted batch with all its addresses, stored or skipped.
Processed == Cardinality(UNION {{t} \X DOMAIN items[t] : t \in {t \in Txs : stage[t] = "counted"}})

\* Mutation: a batch that a worker has taken is as good as counted.
CompleteEarly ==
    /\ pc = "answered" /\ job = "running"
    /\ \A t \in Handed : stage[t] # "idle"
    /\ job' = "completed"
    /\ UNCHANGED <<importVars, storeVars, pc, next>>

\* waitForCompletion
Complete ==
    /\ pc = "answered" /\ job = "running"
    /\ Processed >= Len(collected)
    /\ job' = "completed"
    /\ UNCHANGED <<importVars, storeVars, pc, next>>

Look(kind, filter) ==
    /\ job # "absent" /\ StartReader(kind, filter)
    /\ UNCHANGED <<importVars, pc, next, job>>

Follow == ReaderStep /\ UNCHANGED <<importVars, pc, next, job>>
LookFails == ExportFails /\ UNCHANGED <<importVars, pc, next, job>>

RequestStep ==
    ReadFile \/ FileRead \/ Create \/ StartJob \/ SubmitBatch \/ SubmitFails \/ SubmitDone

Next ==
    \/ RequestStep \/ Leave
    \/ \E t \in Txs : Work(t) \/ WorkFails(t)
    \/ Complete
    \/ \E kind \in {"export", "client"}, filter \in Filters \cup {AnyStatus} :
          Look(kind, filter)
    \/ Follow \/ LookFails

Spec == Init /\ [][Next]_vars

\* The request, the workers and the tracker are goroutines that run; a statement that
\* waits for a connection or for a transaction gets its turn when they end.  Nothing
\* makes the client leave or look.
Fairness ==
    /\ WF_vars(RequestStep) /\ WF_vars(Complete) /\ WF_vars(Follow)
    /\ \A t \in Txs : WF_vars(Work(t))

FairSpec == Spec /\ Fairness

-----------------------------------------------------------------------------
(* Properties *)

\* A job exists only for a file that was read to its end, and its addresses are the
\* file's: the first of each, ignoring case, in order.  A client that leaves makes
\* Each return early with part of the file, and the handler goes on; what stops it is
\* that Create fails under the same context.
JobHoldsTheFile ==
    job # "absent" => ~file.broken /\ IsContentOf(collected, file)

\* Once the job is completed, an export from then on has one row for every address of
\* the file's column, up to normalization, and no other.
ExportIsTheUpload ==
    [](job = "completed" /\ reader.state = "none" =>
        [](reader.state = "done" /\ reader.filter = AnyStatus =>
            {Norm[reader.out[i].email] : i \in DOMAIN reader.out}
                = {Norm[CellAt(file.rows[k], FileColumn(file))] :
                      k \in AddressRows(file, FileColumn(file))}))

\* The request ends, unless the file keeps failing and the client keeps waiting, for
\* then Each goes on trying; every batch handed over ends, although workers wait for
\* connections and for each other's rows; a job whose batches were all counted is
\* completed; and every reader comes to the end.
EverythingSettles ==
    /\ <>[](pc \in {"answered", "refused"} \/ (file.broken /\ ~gone))
    /\ <>[](\A t \in Handed : stage[t] \in {"counted", "uncounted", "lost", "failed"})
    /\ <>[](pc = "answered" => job \in {"completed", "failed"})
    /\ <>[](reader.state # "reading")
=============================================================================
