-------------------------- MODULE MCWeightedSample --------------------------
(* Registries of up to three holders with stakes 0..3, from a genesis skip  *)
(* longer than the registry down to a skip that leaves one candidate.       *)
EXTENDS WeightedSample
=============================================================================
