---------------------------- MODULE MCChainValue ----------------------------
(***************************************************************************)
(* Instances of ChainValue for TLC: lovelace, and one policy with the      *)
(* stake coin and the chain's auth NFT as its names.                       *)
(***************************************************************************)
EXTENDS ChainValue, TLC

CONSTANTS ada, tok, x, y

Lovelace(amount) == ada :> (x :> amount)

GenesisValue == Lovelace(2) @@ (tok :> ((x :> 3) @@ (y :> 1)))

Half == [numerator |-> 1, denominator |-> 2]

AgreedPayouts ==
  {Nothing, Lovelace(1), Lovelace(1) @@ (tok :> (x :> 1)),
   Lovelace(1) @@ (tok :> ((x :> 1) @@ (y :> 1)))}

AgreedTreasuries ==
  {Nothing, Lovelace(1), Lovelace(1) @@ (tok :> (x :> 1)),
   Lovelace(1) @@ (tok :> (y :> 1))}
=============================================================================
