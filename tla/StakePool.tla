----------------------------- MODULE StakePool -----------------------------
(***************************************************************************)
(* One stake pool: a stake holder position that is owned by the script     *)
(* onchain/stakepool/stakepool.py, shared by its members through LP tokens *)
(* of the script's minting policy.                                         *)
(*                                                                         *)
(* An action is one transaction of the repository's tools, which init.py,  *)
(* fill_requests.py or mine.py builds, with any amounts that the script    *)
(* accepts.  The script looks at the input and the output that its own     *)
(* redeemer names, and no further; that they are the pool's position on    *)
(* the chain is the work of the chain's script, whose redeemer names the   *)
(* same two in these transactions (ChainScripts has its checks), and the   *)
(* pool's parameters name the chain's own tokens.  The operators named     *)
(* Checks are the script's; what is claimed below is claimed of the tools' *)
(* transactions.                                                           *)
(*                                                                         *)
(* Stake coin and LP tokens outside the pool are summed up: what a member  *)
(* or the filler of a request gets is in RequestFiller.                    *)
(***************************************************************************)
EXTENDS Integers

CONSTANTS
  InitialLiquidity,    \* INITIAL_STAKE_POOL_LIQUIDITY, 1000 in the code
  GuaranteedFraction,  \* params.guaranteed_reward_fraction
  MaxStake,            \* bound: stake coin in the pool
  MaxTokens,           \* bound: LP tokens, which rounding multiplies without end
  MaxRewarded          \* bound: rewards paid while the pool exists, and what
                       \* the pool gets of them

Fraction == [numerator : Nat, denominator : Nat \ {0}]

\* The script wants 1000 LP tokens that belong to nobody; the arguments below
\* need two.
ASSUME LiquidityAssumption == InitialLiquidity \in Nat /\ InitialLiquidity >= 2
ASSUME FractionAssumption == GuaranteedFraction \in Fraction
ASSUME BoundsAssumption == {MaxStake, MaxTokens, MaxRewarded} \subseteq Nat

VARIABLES
  registered,     \* the pool's position is on the ledger
  stake,          \* stake coin in the position
  all_lp_tokens,  \* PoolState.all_lp_tokens in the position's datum
  supply,         \* LP tokens of the pool on the ledger
  rewarded,       \* history: stake coin that left the chain in pool transactions
  credited        \* history: what the pool got of it

vars == <<registered, stake, all_lp_tokens, supply, rewarded, credited>>

-----------------------------------------------------------------------------
(***************************************************************************)
(* Broken variants of the definitions below, one plausible bug each.       *)
(***************************************************************************)
Bug_RoundedUp(added) == -((-all_lp_tokens * added) \div stake)
Bug_BurnsTwoLess(removed) == (-all_lp_tokens * removed) \div stake + 2
Bug_Floor(amount) ==
  (amount * GuaranteedFraction.numerator) \div GuaranteedFraction.denominator
Bug_DatumKept(minted) == supply' = supply + minted /\ all_lp_tokens' = all_lp_tokens
Bug_UncheckedLiquidity ==
  /\ supply' = supply
  /\ all_lp_tokens' \in 1..InitialLiquidity

-----------------------------------------------------------------------------
\* ceil_fraction(scale_fraction(amount, guaranteed_reward_fraction))
Guaranteed(amount) ==
  -((-amount * GuaranteedFraction.numerator) \div GuaranteedFraction.denominator)

\* What an addition mints: the floor of its share.
MintedFor(added) == (all_lp_tokens * added) \div stake

\* What a removal mints, a negative amount: the floor of its negative share,
\* plus one.
MintedForRemoval(removed) == (-all_lp_tokens * removed) \div stake + 1

\* The pool's tokens are minted or burned as computed and the datum counts them.
\* check_mint_exactly_n_with_name looks the policy up in the mint, which has no
\* entry for an amount of zero; the ledger burns only tokens that exist.
Mints(minted) ==
  /\ minted # 0
  /\ supply + minted >= 0
  /\ supply' = supply + minted
  /\ all_lp_tokens' = all_lp_tokens + minted

Init ==
  /\ registered = FALSE
  /\ stake = 0
  /\ all_lp_tokens = 0
  /\ supply = 0
  /\ rewarded = 0
  /\ credited = 0

\* The script fixes the token count of a new pool and that nothing is minted.  It
\* does not look at the stake.
RegisterChecks ==
  /\ supply' = supply
  /\ all_lp_tokens' = InitialLiquidity

\* An addition divides by the stake that is there.
AddChecks(added) ==
  /\ added > 0
  /\ stake > 0
  /\ Mints(MintedFor(added))

RemoveChecks(removed) ==
  /\ removed > 0
  /\ Mints(MintedForRemoval(removed))

\* The admin signs; the pool gets its guaranteed part of what leaves the chain, or
\* more.  The datum's token count stays, the mint is not looked at.
InteractChecks(coin_rewarded, increase) ==
  /\ coin_rewarded >= 0
  /\ increase >= Guaranteed(coin_rewarded)
  /\ all_lp_tokens' = all_lp_tokens

\* init.py: the position is registered together with its pool, once, because the
\* pool's initial input is spent.  The tool locks INITIAL_STAKE_POOL_LIQUIDITY;
\* the comment in the script advises less, or nothing.
RegisterPool(locked) ==
  /\ ~ registered
  /\ RegisterChecks
  /\ registered' = TRUE
  /\ stake' = locked
  /\ UNCHANGED <<rewarded, credited>>

\* fill_requests.py, for a request to join.
AddStake(added) ==
  /\ registered
  /\ AddChecks(added)
  /\ stake' = stake + added
  /\ UNCHANGED <<registered, rewarded, credited>>

\* fill_requests.py, for a request to leave.
RemoveStake(removed) ==
  /\ registered
  /\ removed <= stake
  /\ RemoveChecks(removed)
  /\ stake' = stake - removed
  /\ UNCHANGED <<registered, rewarded, credited>>

\* mine.py: a block of the pool, which moves a reward and mints nothing.
InteractWithPool(coin_rewarded, increase) ==
  /\ registered
  /\ InteractChecks(coin_rewarded, increase)
  /\ supply' = supply
  /\ stake' = stake + increase
  /\ rewarded' = rewarded + coin_rewarded
  /\ credited' = credited + increase
  /\ UNCHANGED registered

Next ==
  \/ \E locked \in 0..MaxStake : RegisterPool(locked)
  \/ \E added \in 1..(MaxStake - stake) :
       AddStake(added) /\ all_lp_tokens' <= MaxTokens
  \/ \E removed \in 1..stake : RemoveStake(removed)
  \/ \E coin_rewarded \in 0..(MaxRewarded - rewarded),
        increase \in 0..(MaxStake - stake) :
       /\ credited + increase <= MaxRewarded
       /\ InteractWithPool(coin_rewarded, increase)

Spec == Init /\ [][Next]_vars

-----------------------------------------------------------------------------
TypeOK ==
  /\ registered \in BOOLEAN
  /\ stake \in Nat
  /\ all_lp_tokens \in Nat
  /\ supply \in Nat
  /\ rewarded \in Nat
  /\ credited \in Nat

\* The tokens that the datum counts are those on the ledger and the initial ones,
\* which belong to nobody (stakepool.py:110).
InitialTokensAreLocked ==
  registered => all_lp_tokens = supply + InitialLiquidity

\* Over its lifetime the pool got its part of all rewards, in spite of rounding.
RewardsAreShared ==
  credited * GuaranteedFraction.denominator
    >= rewarded * GuaranteedFraction.numerator

\* A pool that holds stake is never emptied, in however many steps its members
\* leave: they could not join it again, since an addition divides by the stake.
StakeNeverRunsOut == [][stake > 0 => stake' > 0]_vars

\* Additions and rewards never lower the stake behind a token.
JoiningTakesNothing ==
  [][registered /\ stake' >= stake
       => stake' * all_lp_tokens >= stake * all_lp_tokens']_vars

\* A transaction takes at most one token's worth of stake from those that
\* stay.
ShareLosesAtMostOneToken ==
  [][registered => stake' * all_lp_tokens >= stake * (all_lp_tokens' - 1)]_vars

=============================================================================
