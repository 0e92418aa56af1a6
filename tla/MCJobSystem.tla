------------------------------ MODULE MCJobSystem ------------------------------
(***************************************************************************)
(* Instances of JobSystem for TLC.                                         *)
(***************************************************************************)
EXTENDS JobSystem

CONSTANTS e1, e2, e3

\* a.b@gmail.com and ab@gmail.com pass the importer's dedup as two addresses
\* and get one normalized form.
MCNorm == [e \in Emails |-> IF e = e2 THEN e1 ELSE e]
=============================================================================
