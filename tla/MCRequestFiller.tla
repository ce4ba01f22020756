-------------------------- MODULE MCRequestFiller --------------------------
(***************************************************************************)
(* Instances of RequestFiller for TLC.                                     *)
(***************************************************************************)
EXTENDS RequestFiller, TLC

CONSTANTS p1, p2

\* Pools that have members, one with rewards and one that rounding has drained.
TwoPools == (p1 :> [stake |-> 6, tokens |-> 4]) @@ (p2 :> [stake |-> 3, tokens |-> 4])

\* A pool whose tokens are worth almost two coins.
RichPool == p1 :> [stake |-> 9, tokens |-> 5]

\* place_request.py asks for the amount itself, other clients may ask for less.
AnyMinimum(amount) == {1, amount}

=============================================================================
