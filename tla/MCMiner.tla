------------------------------ MODULE MCMiner ------------------------------
(***************************************************************************)
(* Instances of Miner for TLC.  Secrets are not declared symmetric, which  *)
(* is unsound for the liveness property.                                   *)
(***************************************************************************)
EXTENDS Miner
=============================================================================
