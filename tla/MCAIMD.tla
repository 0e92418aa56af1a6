-------------------------------- MODULE MCAIMD --------------------------------
(***************************************************************************)
(* Instances of AIMD for TLC.  The thresholds are those of the code scaled *)
(* to windows of a few queries, so that every branch of tick is taken.     *)
(***************************************************************************)
EXTENDS AIMD
=============================================================================
