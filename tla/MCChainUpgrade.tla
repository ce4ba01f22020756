--------------------------- MODULE MCChainUpgrade ---------------------------
(***************************************************************************)
(* Instances of ChainUpgrade for TLC.                                      *)
(***************************************************************************)
EXTENDS ChainUpgrade
=============================================================================
