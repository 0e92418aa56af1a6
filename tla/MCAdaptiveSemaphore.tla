-------------------------- MODULE MCAdaptiveSemaphore --------------------------
(***************************************************************************)
(* Instances of AdaptiveSemaphore for TLC.                                 *)
(***************************************************************************)
EXTENDS AdaptiveSemaphore, TLC

CallSymmetry == Permutations(Calls)
=============================================================================
