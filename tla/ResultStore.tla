------------------------------ MODULE ResultStore ------------------------------
(***************************************************************************)
(* Table emails, for one job: the transactions of BulkInsert               *)
(* (storage/results_repo.go) row by row, as PostgreSQL runs the INSERT of  *)
(* the staging table, and the readers that page through the rows by id     *)
(* while they are written: ExportCSV (jobs/exporter.go) and a client that  *)
(* follows next_cursor of GET /jobs/{id}/results (handlers/jobs.go).       *)
(*                                                                         *)
(* A row gets its id from the sequence before its place in the unique      *)
(* index is settled; a row whose key is held by a transaction still open   *)
(* waits for that transaction to end.  So ids are neither dense nor        *)
(* committed in their order.                                               *)
(***************************************************************************)
EXTENDS Integers, Sequences, FiniteSets

CONSTANTS
    Emails,      \* addresses of the job
    Norm,        \* Norm[e]: the rank of email_normalized in its order (citext)
    Verdict,     \* Verdict[e]: the status the row is stored with
    Txs,         \* one transaction per batch
    MaxConns,    \* connections of the pool
    PageSize,
    Filters,     \* values of ?status= of the instance
    Faults       \* which failures the instance includes

ASSUME NormAssumption == Norm \in [Emails -> Nat]
ASSUME VerdictAssumption == DOMAIN Verdict = Emails
ASSUME TxsAssumption == IsFiniteSet(Txs)
ASSUME PoolAssumption == MaxConns \in Nat \ {0} /\ PageSize \in Nat \ {0}
ASSUME FaultsAssumption == Faults \subseteq {"write_error", "read_error"}

VARIABLES
    items,       \* the records given to BulkInsert, << >> before the call
    stage,       \* where the transaction is
    todo,        \* rows the INSERT has not come to
    drawn,       \* the id drawn for the first of them, 0 before
    table,       \* the rows, those of open transactions included
    lastId,      \* the sequence emails_id_seq
    reader       \* the export or the client

txVars == <<stage, todo, drawn, table, lastId>>
storeVars == <<items, txVars, reader>>

TxStages == {"idle", "open", "committed", "lost", "counted", "uncounted", "failed"}
Row == [id : Nat \ {0}, email : Emails, tx : Txs]
AnyStatus == "any"

StoreTypeOK ==
    /\ items \in [Txs -> Seq(Emails)]
    /\ stage \in [Txs -> TxStages]
    /\ todo \in [Txs -> Seq(Emails)]
    /\ drawn \in [Txs -> Nat]
    /\ table \subseteq Row
    /\ lastId \in Nat
    /\ reader \in [state : {"none", "reading", "done", "failed"},
                   kind : {"export", "client"}, filter : Filters \cup {AnyStatus},
                   cursor : Nat, out : Seq(Row), base : SUBSET Row]

NoReader == [state |-> "none", kind |-> "export", filter |-> AnyStatus,
             cursor |-> 0, out |-> << >>, base |-> {}]

StoreInit ==
    /\ items = [t \in Txs |-> << >>]
    /\ stage = [t \in Txs |-> "idle"]
    /\ todo = [t \in Txs |-> << >>]
    /\ drawn = [t \in Txs |-> 0]
    /\ table = {} /\ lastId = 0
    /\ reader = NoReader

-----------------------------------------------------------------------------
(* BulkInsert *)

Open == {t \in Txs : stage[t] = "open"}
ConnFree == Cardinality(Open) < MaxConns

\* What statements of other connections see.
Visible == {r \in table : stage[r.tx] # "open"}

\* The elements of S in the order of their keys.
SortedBy(S, key) ==
    [i \in 1..Cardinality(S) |->
        CHOOSE x \in S : Cardinality({y \in S : key[y] <= key[x]}) = i]

Ids(S) == [r \in S |-> r.id]

\* Mutation: the rows come in the order of the batch.
StagedAsGiven(list) ==
    {SelectSeq(list, LAMBDA e : e \in R) :
        R \in {R \in SUBSET {list[i] : i \in DOMAIN list} :
                  /\ \A a, b \in R : Norm[a] = Norm[b] => a = b
                  /\ \A i \in DOMAIN list : \E a \in R : Norm[a] = Norm[list[i]]}}

\* SELECT DISTINCT ON (job_id, email_normalized): any one address of each key;
\* finding them sorts the staging table by its key, and the rows come in that order.
Staged(list) ==
    {SortedBy(R, Norm) :
        R \in {R \in SUBSET {list[i] : i \in DOMAIN list} :
                  /\ \A a, b \in R : Norm[a] = Norm[b] => a = b
                  /\ \A i \in DOMAIN list : \E a \in R : Norm[a] = Norm[list[i]]}}

\* Begin, the staging table, COPY.
Begin(t) ==
    /\ items[t] # << >> /\ stage[t] = "idle" /\ ConnFree
    /\ stage' = [stage EXCEPT ![t] = "open"]
    /\ \E rows \in Staged(items[t]) : todo' = [todo EXCEPT ![t] = rows]
    /\ UNCHANGED <<items, drawn, table, lastId, reader>>

\* The default of column id.
DrawId(t) ==
    /\ stage[t] = "open" /\ todo[t] # << >> /\ drawn[t] = 0
    /\ lastId' = lastId + 1
    /\ drawn' = [drawn EXCEPT ![t] = lastId']
    /\ UNCHANGED <<items, stage, todo, table, reader>>

SameKey(e, r) == Norm[e] = Norm[r.email]

\* t comes to a row whose key u has written and not committed.
WaitsFor(t, u) ==
    /\ t # u /\ stage[t] = "open" /\ stage[u] = "open" /\ drawn[t] # 0
    /\ \E r \in table : r.tx = u /\ SameKey(Head(todo[t]), r)

\* Mutation: a row written by anyone is a conflict at once.
PlaceRowHasty(t) ==
    /\ stage[t] = "open" /\ drawn[t] # 0
    /\ table' = IF \E r \in table : SameKey(Head(todo[t]), r) THEN table
                ELSE table \cup {[id |-> drawn[t], email |-> Head(todo[t]), tx |-> t]}
    /\ todo' = [todo EXCEPT ![t] = Tail(@)]
    /\ drawn' = [drawn EXCEPT ![t] = 0]
    /\ UNCHANGED <<items, stage, lastId, reader>>

\* ON CONFLICT (job_id, email_normalized) DO NOTHING: a row with the key that
\* stays is a conflict, and the id drawn is spent.
PlaceRow(t) ==
    /\ stage[t] = "open" /\ drawn[t] # 0
    /\ ~\E u \in Txs : WaitsFor(t, u)
    /\ table' = IF \E r \in table : SameKey(Head(todo[t]), r) THEN table
                ELSE table \cup {[id |-> drawn[t], email |-> Head(todo[t]), tx |-> t]}
    /\ todo' = [todo EXCEPT ![t] = Tail(@)]
    /\ drawn' = [drawn EXCEPT ![t] = 0]
    /\ UNCHANGED <<items, stage, lastId, reader>>

Commit(t) ==
    /\ stage[t] = "open" /\ todo[t] = << >>
    /\ stage' = [stage EXCEPT ![t] = "committed"]
    /\ UNCHANGED <<items, todo, drawn, table, lastId, reader>>

\* COMMIT took effect, its answer did not arrive.
CommitUnheard(t) ==
    /\ "write_error" \in Faults
    /\ stage[t] = "open" /\ todo[t] = << >>
    /\ stage' = [stage EXCEPT ![t] = "lost"]
    /\ UNCHANGED <<items, todo, drawn, table, lastId, reader>>

\* Any statement fails, Begin included: the deferred Rollback.
Rollback(t) ==
    /\ "write_error" \in Faults
    /\ items[t] # << >> /\ stage[t] \in {"idle", "open"}
    /\ stage' = [stage EXCEPT ![t] = "failed"]
    /\ table' = {r \in table : r.tx # t}
    /\ todo' = [todo EXCEPT ![t] = << >>]
    /\ drawn' = [drawn EXCEPT ![t] = 0]
    /\ UNCHANGED <<items, lastId, reader>>

\* IncrementProgress, a statement of its own.
Count(t) ==
    /\ stage[t] = "committed" /\ ConnFree
    /\ stage' = [stage EXCEPT ![t] = "counted"]
    /\ UNCHANGED <<items, todo, drawn, table, lastId, reader>>

CountFails(t) ==
    /\ "write_error" \in Faults
    /\ stage[t] = "committed"
    /\ stage' = [stage EXCEPT ![t] = "uncounted"]
    /\ UNCHANGED <<items, todo, drawn, table, lastId, reader>>

-----------------------------------------------------------------------------
(* The readers *)

Matching(filter) ==
    {r \in Visible : filter = AnyStatus \/ Verdict[r.email] = filter}

\* Mutation: the rows after the cursor's neighbour.
ListByJobSkipping(filter, afterID, limit) ==
    LET rest == {r \in Matching(filter) : r.id > afterID + 1}
        all  == SortedBy(rest, Ids(rest))
    IN  SubSeq(all, 1, IF limit < Len(all) THEN limit ELSE Len(all))

ListByJob(filter, afterID, limit) ==
    LET rest == {r \in Matching(filter) : r.id > afterID}
        all  == SortedBy(rest, Ids(rest))
    IN  SubSeq(all, 1, IF limit < Len(all) THEN limit ELSE Len(all))

\* base remembers what was there when the reader started.
StartReader(kind, filter) ==
    /\ reader.state = "none"
    /\ kind = "export" => filter = AnyStatus
    /\ reader' = [NoReader EXCEPT !.state = "reading", !.kind = kind,
                                  !.filter = filter, !.base = Matching(filter)]
    /\ UNCHANGED <<items, txVars>>

\* The rows of a page are added, and the last one is the next cursor; an empty page
\* is the end.
Turn(page, endCursor) ==
    reader' = IF page = << >> THEN [reader EXCEPT !.state = "done", !.cursor = endCursor]
              ELSE [reader EXCEPT !.out = @ \o page, !.cursor = page[Len(page)].id]

\* One turn of the loop of ExportCSV.
ExportPage ==
    /\ reader.state = "reading" /\ reader.kind = "export" /\ ConnFree
    /\ Turn(ListByJob(AnyStatus, reader.cursor, PageSize), reader.cursor)
    /\ UNCHANGED <<items, txVars>>

\* An error of a page, or the context: "# export error" ends the file.
ExportFails ==
    /\ "read_error" \in Faults
    /\ reader.state = "reading" /\ reader.kind = "export"
    /\ reader' = [reader EXCEPT !.state = "failed"]
    /\ UNCHANGED <<items, txVars>>

\* GET results?after=cursor.  The client goes on from next_cursor until a page is
\* empty, and an empty page says next_cursor 0.  An error answers 500 and the client
\* asks again.
Results ==
    /\ reader.state = "reading" /\ reader.kind = "client" /\ ConnFree
    /\ Turn(ListByJob(reader.filter, reader.cursor, PageSize), 0)
    /\ UNCHANGED <<items, txVars>>

TxStep(t) == Begin(t) \/ DrawId(t) \/ PlaceRow(t) \/ Commit(t) \/ Count(t)
ReaderStep == ExportPage \/ Results

-----------------------------------------------------------------------------
(* Properties *)

\* Two batches of one job may hold addresses that normalize to the same keys, and
\* each waits for the other's uncommitted row.  They never wait in a circle, for
\* PostgreSQL would break it by failing one, and with it the job: DISTINCT ON makes
\* every transaction take its keys in ascending order.
NoCircularWait ==
    \A S \in SUBSET Txs :
        S # {} => \E t \in S : ~\E u \in S : WaitsFor(t, u)

\* Whoever pages by id sees no row twice and no address twice, and whoever reaches
\* the end has seen every row that was committed when it started, however many
\* rows with ids on both sides of the cursor are committed meanwhile.
OldRowsExported ==
    /\ \A i, k \in DOMAIN reader.out : i < k =>
          /\ reader.out[i].id < reader.out[k].id
          /\ Norm[reader.out[i].email] # Norm[reader.out[k].email]
    /\ reader.state = "done" =>
          reader.base \subseteq {reader.out[i] : i \in DOMAIN reader.out}

Stored == {r.email : r \in Visible}

\* What BulkInsert has returned in each stage.
AnswerIn(s) == CASE s \in {"idle", "open"} -> "none"
                 [] s \in {"committed", "counted", "uncounted"} -> "ok"
                 [] s \in {"lost", "failed"} -> "error"

Answers == [t \in Txs |-> AnswerIn(stage[t])]

Table == INSTANCE ResultTable WITH rows <- Stored, answer <- Answers

\* BulkInsert row by row, with its waits and its rollbacks, is the atomic insert that
\* its callers count on.
ImplementsResultTable == Table!Spec
=============================================================================
