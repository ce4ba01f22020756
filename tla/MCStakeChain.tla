---------------------------- MODULE MCStakeChain ----------------------------
(***************************************************************************)
(* Instances of StakeChain for TLC.                                        *)
(***************************************************************************)
EXTENDS StakeChain

CONSTANTS a, b, c, p, q, r

\* The parameters of a v0 chain with its first approval script.
V0Params ==
  [version |-> "v0", upgrade_approval |-> "v0", register_fee |-> 0,
   fraction_per_block |-> [numerator |-> 1, denominator |-> 2],
   max_holders |-> 3, slot_leader_interval |-> 1]

\* A v1 chain whose leader stays for three slots.
V1Params ==
  [V0Params EXCEPT !.version = "v1", !.upgrade_approval = "v1",
                   !.register_fee = 1, !.slot_leader_interval = 3]

Proposal(script, new) ==
  [address |-> script, params |-> new, treasury |-> 0, payout |-> 0]

\* Blocks may agree to charge a fee and to close registrations, which leaves
\* more holders registered than the new max_holders.
Restriction ==
  {Proposal(KeepAddress, [V0Params EXCEPT !.register_fee = 1, !.max_holders = 1])}

\* The way from v0 to v1, and a vote for v1's address that leaves the parameters
\* alone and makes a payout.
UpgradePath ==
  {Proposal("v0", [V0Params EXCEPT !.upgrade_approval = "v0a"]),
   Proposal("v1", V1Params),
   [Proposal("v1", KeepParams) EXCEPT !.payout = 1]}

SymmetryRegistry == Permutations({a, b, c}) \cup Permutations({p, q, r})
=============================================================================
