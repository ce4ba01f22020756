-------------------------- MODULE StakePoolProofs --------------------------
(***************************************************************************)
(* What a stake pool promises its members, for every initial liquidity,    *)
(* every reward fraction and every sequence of the tools' transactions,    *)
(* with whatever stake the pool begins.                                    *)
(*                                                                         *)
(* The bounds do not enter: Next restricts the amounts, the proofs use     *)
(* only that they are natural numbers.                                     *)
(***************************************************************************)
EXTENDS StakePool, CommonLemmas

-----------------------------------------------------------------------------
(* One transaction.                                                        *)

\* An addition mints no more than its share.
LEMMA MintedShare ==
  ASSUME TypeOK, stake > 0, NEW added \in Nat
  PROVE  /\ MintedFor(added) \in Int
         /\ MintedFor(added) * stake <= all_lp_tokens * added
<1>1. all_lp_tokens * added \in Int /\ stake \in Nat \ {0}
  BY DEF TypeOK
<1>. QED
  BY <1>1, Floor DEF MintedFor

\* A removal burns its share but for one token.
LEMMA BurnedShare ==
  ASSUME TypeOK, stake > 0, NEW removed \in Nat
  PROVE  /\ MintedForRemoval(removed) \in Int
         /\ (MintedForRemoval(removed) - 1) * stake <= -(all_lp_tokens * removed)
<1>1. -(all_lp_tokens * removed) \in Int /\ stake \in Nat \ {0}
  BY DEF TypeOK
<1>. DEFINE q == (-(all_lp_tokens * removed)) \div stake
<1>2. q \in Int /\ q * stake <= -(all_lp_tokens * removed)
  BY <1>1, Floor
<1>3. MintedForRemoval(removed) = q + 1
  BY DEF MintedForRemoval
<1>. HIDE DEF q
<1>4. MintedForRemoval(removed) - 1 = q
  BY <1>2, <1>3
<1>. QED
  BY <1>2, <1>3, <1>4

\* The guaranteed part of a reward is not less than the fraction of it.
LEMMA GuaranteedPart ==
  ASSUME NEW amount \in Nat
  PROVE  /\ Guaranteed(amount) \in Int
         /\ Guaranteed(amount) * GuaranteedFraction.denominator
              >= amount * GuaranteedFraction.numerator
<1>. DEFINE n == GuaranteedFraction.numerator
            d == GuaranteedFraction.denominator
            q == (-(amount * n)) \div d
<1>1. n \in Nat /\ d \in Nat \ {0}
  BY FractionAssumption DEF Fraction
<1>2. Guaranteed(amount) = -q
  BY DEF Guaranteed
<1>3. amount * n \in Nat
  BY <1>1
<1>. HIDE DEF n, d
<1>4. q \in Int /\ q * d <= -(amount * n)
  BY <1>1, <1>3, Floor
<1>. HIDE DEF q
<1>5. (-q) * d = -(q * d) /\ q * d \in Int
  BY <1>1, <1>4
<1>. QED
  BY <1>2, <1>3, <1>4, <1>5 DEF n, d

\* What holds in every state of a pool.
Inv ==
  /\ TypeOK
  /\ ~ registered => supply = 0 /\ stake = 0
  /\ InitialTokensAreLocked
  /\ RewardsAreShared

\* An addition keeps the invariant: it adds stake, and as many tokens to the
\* datum as to the ledger.
LEMMA AddStakeKeeps ==
  ASSUME Inv, NEW added \in Nat, AddStake(added)
  PROVE  Inv'
<1>1. MintedFor(added) \in Int
  BY MintedShare DEF Inv, AddStake, AddChecks
<1>2. /\ supply' = supply + MintedFor(added)
      /\ all_lp_tokens' = all_lp_tokens + MintedFor(added)
      /\ supply + MintedFor(added) >= 0
      /\ stake' = stake + added
      /\ registered /\ added > 0
      /\ UNCHANGED <<registered, rewarded, credited>>
  BY DEF AddStake, AddChecks, Mints
<1>3. InitialTokensAreLocked' /\ RewardsAreShared'
  BY <1>1, <1>2, LiquidityAssumption
     DEF Inv, TypeOK, InitialTokensAreLocked, RewardsAreShared
<1>4. TypeOK'
  BY <1>1, <1>2, LiquidityAssumption DEF Inv, TypeOK, InitialTokensAreLocked
<1>. QED
  BY <1>2, <1>3, <1>4 DEF Inv

\* A removal cannot take all stake: it would burn all tokens but one, and two of
\* them belong to nobody.
LEMMA RemoveStakeKeeps ==
  ASSUME Inv, NEW removed \in Nat, RemoveStake(removed)
  PROVE  Inv' /\ stake' > 0
<1>. DEFINE minted == MintedForRemoval(removed)
<1>1. stake > 0 /\ registered /\ removed > 0
  BY DEF Inv, TypeOK, RemoveStake, RemoveChecks
<1>2. minted \in Int /\ (minted - 1) * stake <= -(all_lp_tokens * removed)
  BY <1>1, BurnedShare DEF Inv
<1>3. /\ supply' = supply + minted
      /\ all_lp_tokens' = all_lp_tokens + minted
      /\ supply + minted >= 0
      /\ stake' = stake - removed
      /\ removed <= stake
      /\ UNCHANGED <<registered, rewarded, credited>>
  BY DEF RemoveStake, RemoveChecks, Mints
<1>. HIDE DEF minted
<1>4. InitialTokensAreLocked' /\ RewardsAreShared'
  BY <1>1, <1>2, <1>3, LiquidityAssumption
     DEF Inv, TypeOK, InitialTokensAreLocked, RewardsAreShared
<1>5. removed # stake
  <2>1. SUFFICES ASSUME removed = stake PROVE FALSE
    OBVIOUS
  <2>2. stake \in Nat \ {0} /\ all_lp_tokens \in Nat
    BY <1>1 DEF Inv, TypeOK
  <2>3. -(all_lp_tokens * removed) = (-all_lp_tokens) * stake
    BY <2>1, <2>2
  <2>4. (minted - 1) * stake <= (-all_lp_tokens) * stake
    BY <1>2, <2>3
  <2>5. minted - 1 <= -all_lp_tokens
    BY <1>2, <2>2, <2>4, TimesCancel
  <2>6. all_lp_tokens = supply + InitialLiquidity /\ supply \in Nat
    BY <1>1 DEF Inv, TypeOK, InitialTokensAreLocked
  <2>. QED
    BY <1>2, <1>3, <2>2, <2>5, <2>6, LiquidityAssumption
<1>6. TypeOK' /\ stake' > 0
  BY <1>1, <1>2, <1>3, <1>5, LiquidityAssumption
     DEF Inv, TypeOK, InitialTokensAreLocked
<1>. QED
  BY <1>1, <1>3, <1>4, <1>6 DEF Inv

\* A reward adds at least its fraction to what the pool was credited.
LEMMA InteractKeeps ==
  ASSUME Inv, NEW coin_rewarded \in Nat, NEW increase \in Nat,
         InteractWithPool(coin_rewarded, increase)
  PROVE  Inv'
<1>. DEFINE n == GuaranteedFraction.numerator
            d == GuaranteedFraction.denominator
<1>1. n \in Nat /\ d \in Nat \ {0}
  BY FractionAssumption DEF Fraction
<1>2. /\ increase >= Guaranteed(coin_rewarded)
      /\ stake' = stake + increase
      /\ rewarded' = rewarded + coin_rewarded
      /\ credited' = credited + increase
      /\ UNCHANGED <<registered, all_lp_tokens, supply>>
  BY DEF InteractWithPool, InteractChecks
<1>3. TypeOK' /\ InitialTokensAreLocked'
  BY <1>2 DEF Inv, TypeOK, InitialTokensAreLocked
<1>4. increase * d >= coin_rewarded * n
  <2>1. Guaranteed(coin_rewarded) \in Int
        /\ Guaranteed(coin_rewarded) * d >= coin_rewarded * n
    BY GuaranteedPart
  <2>. HIDE DEF n, d
  <2>2. Guaranteed(coin_rewarded) * d <= increase * d
    BY <1>1, <1>2, <2>1, TimesMonotone
  <2>3. Guaranteed(coin_rewarded) * d \in Int /\ increase * d \in Int
        /\ coin_rewarded * n \in Int
    BY <1>1, <2>1
  <2>. QED
    BY <2>1, <2>2, <2>3
<1>5. RewardsAreShared'
  <2>1. credited * d >= rewarded * n /\ credited \in Nat /\ rewarded \in Nat
    BY DEF Inv, TypeOK, RewardsAreShared
  <2>. HIDE DEF n, d
  <2>2. (credited + increase) * d = credited * d + increase * d
        /\ (rewarded + coin_rewarded) * n = rewarded * n + coin_rewarded * n
    BY <1>1, <2>1
  <2>3. credited * d \in Int /\ increase * d \in Int
        /\ rewarded * n \in Int /\ coin_rewarded * n \in Int
    BY <1>1, <2>1
  <2>4. (credited + increase) * d >= (rewarded + coin_rewarded) * n
    BY <1>4, <2>1, <2>2, <2>3
  <2>. QED
    BY <1>2, <2>4 DEF RewardsAreShared, n, d
<1>. QED
  BY <1>2, <1>3, <1>5 DEF Inv, InteractWithPool

\* Every step keeps the invariant.
LEMMA StepKeeps ==
  ASSUME Inv, [Next]_vars
  PROVE  Inv'
<1>1. CASE \E locked \in 0..MaxStake : RegisterPool(locked)
  <2>1. PICK locked \in 0..MaxStake : RegisterPool(locked)
    BY <1>1
  <2>2. locked \in Nat
    BY <2>1, BoundsAssumption
  <2>3. /\ registered' /\ stake' = locked
        /\ all_lp_tokens' = InitialLiquidity /\ supply' = 0
        /\ UNCHANGED <<rewarded, credited>>
    BY <2>1 DEF RegisterPool, RegisterChecks, Inv
  <2>. QED
    BY <2>1, <2>2, <2>3, LiquidityAssumption
       DEF RegisterPool, Inv, TypeOK, InitialTokensAreLocked, RewardsAreShared
<1>2. CASE \E added \in 1..(MaxStake - stake) :
             AddStake(added) /\ all_lp_tokens' <= MaxTokens
  <2>1. PICK added \in 1..(MaxStake - stake) : AddStake(added)
    BY <1>2
  <2>2. added \in Nat
    BY <2>1, BoundsAssumption DEF Inv, TypeOK
  <2>. QED
    BY <2>1, <2>2, AddStakeKeeps
<1>3. CASE \E removed \in 1..stake : RemoveStake(removed)
  BY <1>3, RemoveStakeKeeps DEF Inv, TypeOK
<1>4. CASE \E coin_rewarded \in 0..(MaxRewarded - rewarded),
              increase \in 0..(MaxStake - stake) :
             /\ credited + increase <= MaxRewarded
             /\ InteractWithPool(coin_rewarded, increase)
  <2>1. PICK coin_rewarded \in 0..(MaxRewarded - rewarded),
             increase \in 0..(MaxStake - stake) :
               InteractWithPool(coin_rewarded, increase)
    BY <1>4
  <2>2. coin_rewarded \in Nat /\ increase \in Nat
    BY <2>1, BoundsAssumption DEF Inv, TypeOK
  <2>. QED
    BY <2>1, <2>2, InteractKeeps
<1>5. CASE UNCHANGED vars
  BY <1>5 DEF vars, Inv, TypeOK, InitialTokensAreLocked, RewardsAreShared
<1>. QED
  BY <1>1, <1>2, <1>3, <1>4, <1>5 DEF Next

\* The invariant holds in every state.
LEMMA Invariance == Spec => []Inv
<1>1. Init => Inv
  <2>1. GuaranteedFraction.denominator \in Nat /\ GuaranteedFraction.numerator \in Nat
    BY FractionAssumption DEF Fraction
  <2>2. Init => RewardsAreShared
    BY <2>1 DEF Init, RewardsAreShared
  <2>3. Init => TypeOK
    <3>1. 0 \in Nat
      OBVIOUS
    <3>. QED
      BY <3>1, Zenon DEF Init, TypeOK
  <2>4. Init => ~ registered /\ supply = 0 /\ stake = 0
    BY DEF Init
  <2>. QED
    BY <2>2, <2>3, <2>4 DEF Inv, InitialTokensAreLocked
<1>2. Inv /\ [Next]_vars => Inv'
  BY StepKeeps
<1>. QED
  BY <1>1, <1>2, PTL DEF Spec

-----------------------------------------------------------------------------
\* Token counts and stake never become negative.
THEOREM PoolTypeCorrectness == Spec => []TypeOK
<1>1. Inv => TypeOK
  BY DEF Inv
<1>. QED
  BY <1>1, Invariance, PTL

\* The tokens that belong to nobody stay out of reach of every member.
THEOREM InitialTokensStayLocked == Spec => []InitialTokensAreLocked
<1>1. Inv => InitialTokensAreLocked
  BY DEF Inv
<1>. QED
  BY <1>1, Invariance, PTL

\* No sequence of transactions empties a pool that holds stake: a removal of all of
\* it would burn all tokens but one, and two of them belong to nobody.
THEOREM StakeStays == Spec => StakeNeverRunsOut
<1>1. Inv /\ [Next]_vars => [stake > 0 => stake' > 0]_vars
  <2>1. SUFFICES ASSUME Inv, Next, stake > 0
                 PROVE  stake' > 0
    OBVIOUS
  <2>2. stake \in Nat /\ rewarded \in Nat
    BY <2>1 DEF Inv, TypeOK
  <2>3. CASE \E locked \in 0..MaxStake : RegisterPool(locked)
    <3>1. ~ registered
      BY <2>3 DEF RegisterPool
    <3>. QED
      BY <3>1, <2>1 DEF Inv
  <2>4. CASE \E added \in 1..(MaxStake - stake) : AddStake(added)
    BY <2>1, <2>2, <2>4, BoundsAssumption DEF AddStake
  <2>5. CASE \E removed \in 1..stake : RemoveStake(removed)
    BY <2>1, <2>2, <2>5, RemoveStakeKeeps
  <2>6. CASE \E coin_rewarded \in 0..(MaxRewarded - rewarded),
                increase \in 0..(MaxStake - stake) :
               InteractWithPool(coin_rewarded, increase)
    BY <2>1, <2>2, <2>6, BoundsAssumption DEF InteractWithPool
  <2>. QED
    BY <2>1, <2>3, <2>4, <2>5, <2>6 DEF Next
<1>. QED
  BY <1>1, Invariance, PTL DEF Spec, StakeNeverRunsOut

\* The admin shares every reward, whatever the rounding of single rewards.
THEOREM RewardsStayShared == Spec => []RewardsAreShared
<1>1. Inv => RewardsAreShared
  BY DEF Inv
<1>. QED
  BY <1>1, Invariance, PTL

\* Neither joining nor rewards cost the other members anything.
THEOREM JoiningIsFair == Spec => JoiningTakesNothing
<1>1. Inv /\ [Next]_vars
        => [registered /\ stake' >= stake
              => stake' * all_lp_tokens >= stake * all_lp_tokens']_vars
  <2>1. SUFFICES ASSUME Inv, Next, registered, stake' >= stake
                 PROVE  stake' * all_lp_tokens >= stake * all_lp_tokens'
    OBVIOUS
  <2>2. stake \in Nat /\ all_lp_tokens \in Nat
    BY <2>1 DEF Inv, TypeOK
  <2>3. CASE \E added \in 1..(MaxStake - stake) : AddStake(added)
    <3>1. PICK added \in 1..(MaxStake - stake) : AddStake(added)
      BY <2>3
    <3>2. added \in Nat
      BY <3>1, <2>2, BoundsAssumption
    <3>. DEFINE x == MintedFor(added)
    <3>3. x \in Int /\ x * stake <= all_lp_tokens * added
      BY <3>1, <3>2, <2>1, <2>2, MintedShare DEF Inv, AddStake, AddChecks
    <3>4. stake' = stake + added /\ all_lp_tokens' = all_lp_tokens + x
      BY <3>1 DEF AddStake, AddChecks, Mints
    <3>. HIDE DEF x
    <3>5. stake' * all_lp_tokens = stake * all_lp_tokens + all_lp_tokens * added
          /\ stake * all_lp_tokens' = stake * all_lp_tokens + x * stake
      BY <3>2, <3>3, <3>4, <2>2
    <3>6. stake * all_lp_tokens \in Int /\ x * stake \in Int
          /\ all_lp_tokens * added \in Int
      BY <3>2, <3>3, <2>2
    <3>. QED
      BY <3>3, <3>5, <3>6
  <2>4. CASE \E coin_rewarded \in 0..(MaxRewarded - rewarded),
                increase \in 0..(MaxStake - stake) :
               InteractWithPool(coin_rewarded, increase)
    <3>1. PICK increase \in 0..(MaxStake - stake) :
            stake' = stake + increase /\ all_lp_tokens' = all_lp_tokens
      BY <2>4 DEF InteractWithPool, InteractChecks
    <3>2. increase \in Nat
      BY <3>1, <2>2, BoundsAssumption
    <3>3. stake' * all_lp_tokens = stake * all_lp_tokens + increase * all_lp_tokens
          /\ stake * all_lp_tokens' = stake * all_lp_tokens
      BY <3>1, <3>2, <2>2
    <3>4. stake * all_lp_tokens \in Int /\ increase * all_lp_tokens \in Nat
      BY <3>2, <2>2
    <3>. QED
      BY <3>3, <3>4, <2>2
  <2>5. ASSUME NEW removed \in 1..stake, RemoveStake(removed)
        PROVE  FALSE
    <3>1. stake' = stake - removed
      BY <2>5 DEF RemoveStake
    <3>. QED
      BY <2>1, <2>2, <3>1
  <2>. QED
    BY <2>1, <2>3, <2>4, <2>5 DEF Next, RegisterPool
<1>. QED
  BY <1>1, Invariance, PTL DEF Spec, JoiningTakesNothing

\* Leaving costs the other members at most the stake behind one token.
THEOREM LeavingCostsAtMostOneToken == Spec => ShareLosesAtMostOneToken
<1>1. Inv /\ [Next]_vars
        => [registered => stake' * all_lp_tokens >= stake * (all_lp_tokens' - 1)]_vars
  <2>1. SUFFICES ASSUME Inv, Next, registered
                 PROVE  stake' * all_lp_tokens >= stake * (all_lp_tokens' - 1)
    OBVIOUS
  <2>2. stake \in Nat /\ all_lp_tokens \in Nat
    BY <2>1 DEF Inv, TypeOK
  <2>3. CASE \E added \in 1..(MaxStake - stake) : AddStake(added)
    <3>1. PICK added \in 1..(MaxStake - stake) : AddStake(added)
      BY <2>3
    <3>2. added \in Nat
      BY <3>1, <2>2, BoundsAssumption
    <3>. DEFINE x == MintedFor(added)
    <3>3. x \in Int /\ x * stake <= all_lp_tokens * added
      BY <3>1, <3>2, <2>1, <2>2, MintedShare DEF Inv, AddStake, AddChecks
    <3>4. stake' = stake + added /\ all_lp_tokens' = all_lp_tokens + x
      BY <3>1 DEF AddStake, AddChecks, Mints
    <3>. HIDE DEF x
    <3>5. stake' * all_lp_tokens = stake * all_lp_tokens + all_lp_tokens * added
          /\ stake * (all_lp_tokens' - 1) = stake * all_lp_tokens + x * stake - stake
      BY <3>2, <3>3, <3>4, <2>2
    <3>6. stake * all_lp_tokens \in Int /\ x * stake \in Int
          /\ all_lp_tokens * added \in Int
      BY <3>2, <3>3, <2>2
    <3>. QED
      BY <3>3, <3>5, <3>6, <2>2
  <2>4. CASE \E removed \in 1..stake : RemoveStake(removed)
    <3>1. PICK removed \in 1..stake : RemoveStake(removed)
      BY <2>4
    <3>. DEFINE x == MintedForRemoval(removed) - 1
    <3>2. x \in Int /\ x * stake <= -(all_lp_tokens * removed)
      BY <3>1, <2>1, <2>2, BurnedShare DEF Inv
    <3>3. stake' = stake - removed /\ all_lp_tokens' - 1 = all_lp_tokens + x
      BY <3>1, <2>1, <2>2, BurnedShare DEF RemoveStake, RemoveChecks, Mints, Inv
    <3>. HIDE DEF x
    <3>4. stake' * all_lp_tokens = stake * all_lp_tokens - all_lp_tokens * removed
          /\ stake * (all_lp_tokens' - 1) = stake * all_lp_tokens + x * stake
      BY <3>1, <3>2, <3>3, <2>2
    <3>5. stake * all_lp_tokens \in Int /\ x * stake \in Int
          /\ all_lp_tokens * removed \in Int
      BY <3>1, <3>2, <2>2
    <3>. QED
      BY <3>2, <3>4, <3>5
  <2>5. CASE \E coin_rewarded \in 0..(MaxRewarded - rewarded),
                increase \in 0..(MaxStake - stake) :
               InteractWithPool(coin_rewarded, increase)
    <3>1. PICK increase \in 0..(MaxStake - stake) :
            stake' = stake + increase /\ all_lp_tokens' = all_lp_tokens
      BY <2>5 DEF InteractWithPool, InteractChecks
    <3>2. increase \in Nat
      BY <3>1, <2>2, BoundsAssumption
    <3>3. stake' * all_lp_tokens = stake * all_lp_tokens + increase * all_lp_tokens
          /\ stake * (all_lp_tokens' - 1) = stake * all_lp_tokens - stake
      BY <3>1, <3>2, <2>2
    <3>4. stake * all_lp_tokens \in Int /\ increase * all_lp_tokens \in Nat
      BY <3>2, <2>2
    <3>. QED
      BY <3>3, <3>4, <2>2
  <2>. QED
    BY <2>1, <2>3, <2>4, <2>5 DEF Next, RegisterPool
<1>. QED
  BY <1>1, Invariance, PTL DEF Spec, ShareLosesAtMostOneToken

=============================================================================
