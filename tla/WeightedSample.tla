--------------------------- MODULE WeightedSample ---------------------------
(***************************************************************************)
(* compute_slot_leader and the loop of weighted_sample that it calls, run  *)
(* one iteration at a time on any registry and any random number.          *)
(***************************************************************************)
EXTENDS Election, FiniteSets

CONSTANTS
  MaxHolders,   \* bound: length of the registry
  MaxWeight,    \* bound: stake of one holder
  GenesisSkip   \* a new chain starts with skip_holders = -GenesisSkip

ASSUME BoundsAssumption ==
  /\ MaxHolders \in Nat \ {0}
  /\ MaxWeight \in Nat \ {0}
  /\ GenesisSkip \in Nat \ {0}

VARIABLES
  weights,   \* stake_holder_weights
  skip,      \* skip_holders
  draw,      \* random_number(rng_seed) % total
  i,         \* loop counter of weighted_sample
  upto,      \* loop variable upto
  leader     \* index returned by compute_slot_leader, Undecided before that

vars == <<weights, skip, draw, i, upto, leader>>

Undecided == 0
ShouldntGetHere == -1

-----------------------------------------------------------------------------
choices == Candidates(weights, skip)

\* Any registry a chain state can hold when it is asked for a slot leader.
Init ==
  /\ weights \in UNION {[1..n -> 0..MaxWeight] : n \in 1..MaxHolders}
  /\ skip \in (-GenesisSkip)..(Len(weights) - 1)
  /\ Total(choices) > 0
  /\ draw \in 0..(Total(choices) - 1)
  /\ i = 0
  /\ upto = 0
  /\ leader = Undecided

\* A broken variant of the loop, to show that the properties notice it: the sum
\* is tested before the weight of the current holder is added.
Bug_TestBeforeAdding ==
  /\ leader = Undecided
  /\ i' = i + 1
  /\ upto' = upto + choices[i + 1]
  /\ leader' = IF Reaches(upto, draw) THEN LeaderIndex(i + 1, skip)
               ELSE IF i + 1 = Len(choices) THEN ShouldntGetHere
               ELSE Undecided
  /\ UNCHANGED <<weights, skip, draw>>

\* One iteration of "for w in choices", and the assert behind the loop.
Iterate ==
  /\ leader = Undecided
  /\ i' = i + 1
  /\ upto' = upto + choices[i + 1]
  /\ leader' = IF Reaches(upto', draw) THEN LeaderIndex(i + 1, skip)
               ELSE IF i + 1 = Len(choices) THEN ShouldntGetHere
               ELSE Undecided
  /\ UNCHANGED <<weights, skip, draw>>

Next == Iterate

Spec == Init /\ [][Next]_vars

-----------------------------------------------------------------------------
\* The loop variables stay in range, whatever the registry.
TypeOK ==
  /\ weights \in Seq(0..MaxWeight)
  /\ skip \in (-GenesisSkip)..MaxHolders
  /\ draw \in 0..(MaxHolders * MaxWeight)
  /\ i \in 0..Len(choices)
  /\ upto \in 0..Total(choices)
  /\ leader \in {Undecided, ShouldntGetHere} \cup 1..Len(weights)

\* The closed form that the chain model uses for the election is what the loop
\* computes: the assertion behind the loop is never reached.
LoopComputesSlotLeader ==
  leader # Undecided => leader = SlotLeader(weights, skip, draw)

\* Once the first block is produced, the leader is one of the holders that are
\* not skipped; before it, it is a registered holder.
LeaderIsCandidate ==
  leader # Undecided => leader \in (Max({0, skip}) + 1)..Len(weights)

\* The random numbers for which the holder at index leads.
DrawsOf(index) ==
  {r \in 0..(Total(choices) - 1) : SlotLeader(weights, skip, r) = index}

\* Stake weighs in: after the first block, every candidate leads for its stake
\* in draws, give or take one.
ShareWithinOneOfStake ==
  skip >= 0 =>
    \A index \in (skip + 1)..Len(weights) :
      Cardinality(DrawsOf(index)) - weights[index] \in -1..1

\* compute_slot_leader: "The slot leader is determined by a weighted sample
\* from the list of registered stake holders": as long as nobody is skipped yet
\* (the sample is taken from the whole list), the leader is the one sampled.
GenesisLeaderIsSampled ==
  skip <= -Len(weights) /\ leader > 0
    => leader = WeightedSample(weights, draw)

=============================================================================
