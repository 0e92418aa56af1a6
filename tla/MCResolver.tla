------------------------------ MODULE MCResolver ------------------------------
(***************************************************************************)
(* Instances of Resolver for TLC.  No symmetry: a run checks liveness.     *)
(***************************************************************************)
EXTENDS Resolver
=============================================================================
