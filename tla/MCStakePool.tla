----------------------------- MODULE MCStakePool -----------------------------
(***************************************************************************)
(* Instances of StakePool for TLC.                                         *)
(***************************************************************************)
EXTENDS StakePool

TwoThirds == [numerator |-> 2, denominator |-> 3]
=============================================================================
