--------------------------- MODULE MCChainScripts ---------------------------
(***************************************************************************)
(* Instances of ChainScripts for TLC.                                      *)
(***************************************************************************)
EXTENDS ChainScripts, TLC

Half == [numerator |-> 1, denominator |-> 2]

\* Positions, two tokens in one output, look-alikes, and tokens elsewhere.
Outcomes ==
  {o \in [nft : 0..2, id : HolderIds, stake : Stakes, guarded : BOOLEAN] :
     IsPosition(o) \/ o.stake = 1}

\* Names and ids are all alike.
NameSymmetry == Permutations(Keys) \cup Permutations(HolderIds)
=============================================================================
