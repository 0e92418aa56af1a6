------------------------------ MODULE JobContract ------------------------------
(***************************************************************************)
(* What a client of a job may rely on when it polls the job, whatever      *)
(* happens to the processes behind it: what it uploaded, the status, the   *)
(* counter and the rows change in these ways and in no other.              *)
(***************************************************************************)
EXTENDS Integers, Sequences, FiniteSets

CONSTANTS Emails, Norm

VARIABLES
    phase,       \* of the request: "none", "open", "starting" its job, "over"
    list,        \* the addresses it was made with
    status, processed, rows

vars == <<phase, list, status, processed, rows>>

Final == {"completed", "failed", "cancelled"}
Created == status # "absent"
Listed == {list[p] : p \in 1..Len(list)}
Stored == {p \in 1..Len(list) : \E e \in rows : Norm[e] = Norm[list[p]]}

Init ==
    /\ phase = "none" /\ list = << >>
    /\ status = "absent" /\ processed = 0 /\ rows = {}

Ask ==
    /\ phase = "none" /\ phase' = "open"
    /\ list' \in Seq(Emails)
    /\ UNCHANGED <<status, processed, rows>>

\* The client may never hear of it.
Create ==
    /\ phase = "open" /\ ~Created
    /\ phase' \in {"open", "over"} /\ status' = "pending"
    /\ UNCHANGED <<list, processed, rows>>

\* Only a job that has not ended yet is going to be started.
Begin ==
    /\ phase = "open" /\ Created /\ status \notin Final
    /\ phase' = "starting"
    /\ UNCHANGED <<list, status, processed, rows>>

\* The one step that takes an ended job back: it ended while it was being started.
Start ==
    /\ phase = "starting" /\ Created
    /\ phase' = "over" /\ status' = "running"
    /\ UNCHANGED <<list, processed, rows>>

GiveUp ==
    /\ phase \in {"open", "starting"} /\ phase' = "over"
    /\ UNCHANGED <<list, status, processed, rows>>

\* Rows are never taken away, belong to the list, and are one for each normalised form.
Store ==
    /\ phase = "over" /\ Created
    /\ rows \subseteq rows' /\ rows' \subseteq Listed
    /\ \A a, b \in rows' : Norm[a] = Norm[b] => a = b
    /\ UNCHANGED <<phase, list, status, processed>>

\* Addresses are counted after they are stored.
Count ==
    /\ phase = "over" /\ Created
    /\ processed < processed' /\ processed' <= Cardinality(Stored)
    /\ UNCHANGED <<phase, list, status, rows>>

\* A job completes when every address has been counted; a cancellation does not change
\* how a job ended.
End ==
    /\ Created /\ status' \in Final
    /\ status' = "completed" => phase = "over" /\ processed = Len(list)
    /\ status' = "cancelled" => status \notin Final
    /\ UNCHANGED <<phase, list, processed, rows>>

Next == Ask \/ Create \/ Begin \/ Start \/ GiveUp \/ Store \/ Count \/ End

Spec == Init /\ [][Next]_vars
=============================================================================
