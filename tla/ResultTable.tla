------------------------------ MODULE ResultTable ------------------------------
(***************************************************************************)
(* What ResultsRepo.BulkInsert promises to its callers: the rows of a      *)
(* batch appear all at once or not at all, one per normalized address of   *)
(* the job, whatever other batches are doing.  It is the step Insert of    *)
(* JobSystem; ResultStore implements it.                                   *)
(***************************************************************************)
EXTENDS Sequences

CONSTANTS Txs, Emails, Norm

VARIABLES
    items,    \* the records of each batch, << >> before the call
    rows,     \* email_original of the rows of the job
    answer    \* what the call returned

Addresses(list) == {list[i] : i \in DOMAIN list}
Forms(S) == {Norm[e] : e \in S}

Init ==
    /\ items = [t \in Txs |-> << >>]
    /\ rows = {}
    /\ answer = [t \in Txs |-> "none"]

\* A worker comes with a batch, any batch.
Call(t) ==
    /\ items[t] = << >> /\ items'[t] \in Seq(Emails)
    /\ items' = [items EXCEPT ![t] = items'[t]]
    /\ UNCHANGED <<rows, answer>>

\* One row for every form that has none yet.
NewRows(S) ==
    {R \in SUBSET S :
        /\ \A a, b \in R : Norm[a] = Norm[b] => a = b
        /\ Forms(R) = Forms(S) \ Forms(rows)}

\* The caller may be told of an error although the rows are there.
Insert(t) ==
    /\ items[t] # << >> /\ answer[t] = "none"
    /\ \E R \in NewRows(Addresses(items[t])) : rows' = rows \cup R
    /\ \E a \in {"ok", "error"} : answer' = [answer EXCEPT ![t] = a]
    /\ UNCHANGED items

Fail(t) ==
    /\ items[t] # << >> /\ answer[t] = "none"
    /\ answer' = [answer EXCEPT ![t] = "error"]
    /\ UNCHANGED <<items, rows>>

Next == \E t \in Txs : Call(t) \/ Insert(t) \/ Fail(t)

Spec == Init /\ [][Next]_<<items, rows, answer>>
=============================================================================
