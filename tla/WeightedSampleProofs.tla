------------------------ MODULE WeightedSampleProofs ------------------------
(***************************************************************************)
(* Theorems about WeightedSample: what the loop of weighted_sample and     *)
(* compute_slot_leader return, for every registry and every draw.          *)
(***************************************************************************)
EXTENDS WeightedSample, CommonLemmas, FiniteSetTheorems

-----------------------------------------------------------------------------
\* The arguments of the election do not change while it runs.
Arguments ==
  /\ weights \in Seq(0..MaxWeight)
  /\ Len(weights) \in 1..MaxHolders
  /\ skip \in (-GenesisSkip)..(Len(weights) - 1)
  /\ draw \in 0..(Total(choices) - 1)

\* The loop has added the first i stakes and none of the sums before the last one
\* reached the draw; that one has if and only if the loop has returned.
LoopInvariant ==
  /\ i \in 0..Len(choices)
  /\ upto = Upto(choices)[i]
  /\ \A j \in 1..(i - 1) : ~ Reaches(Upto(choices)[j], draw)
  /\ leader = Undecided => \A j \in 1..i : ~ Reaches(Upto(choices)[j], draw)
  /\ leader # Undecided =>
       /\ i # 0
       /\ Reaches(upto, draw)
       /\ leader = LeaderIndex(i, skip)

Inv == Arguments /\ LoopInvariant

-----------------------------------------------------------------------------
\* The candidates are a list of natural numbers.
LEMMA ArgumentsTypes ==
  ASSUME Arguments
  PROVE  /\ weights \in Seq(Nat) /\ Len(weights) \in Nat
         /\ skip \in Int /\ skip < Len(weights)
         /\ choices \in Seq(Nat)
         /\ choices \in Seq(0..MaxWeight)
         /\ Len(choices) \in 0..Len(weights)
<1>1. /\ MaxHolders \in Nat /\ MaxWeight \in Nat /\ GenesisSkip \in Nat
      /\ 0..MaxWeight \subseteq Nat
  BY BoundsAssumption
<1>2. /\ weights \in Seq(0..MaxWeight) /\ Len(weights) \in Nat
      /\ skip \in Int /\ skip < Len(weights)
  BY <1>1, LenProperties DEF Arguments
<1>3. weights \in Seq(Nat)
  BY <1>1, <1>2
<1>4. /\ choices \in Seq(Nat)
      /\ choices \in Seq(0..MaxWeight)
      /\ Len(choices) \in 0..Len(weights)
  <2>1. skip <= Len(weights)
    BY <1>2
  <2>2. /\ Dropped(weights, skip) \in 0..Len(weights)
        /\ Len(choices) = Len(weights) - Dropped(weights, skip)
        /\ choices \in Seq(Nat)
    BY <1>2, <1>3, <2>1, CandidatesProperties DEF choices
  <2>3. choices \in Seq(0..MaxWeight)
    BY <1>2, <2>1, CandidatesProperties DEF choices
  <2>. QED
    BY <1>2, <2>2, <2>3
<1>. QED
  BY <1>2, <1>3, <1>4

\* As long as the loop runs there is a candidate left: the sum of all of them
\* would have reached the draw.
LEMMA LoopGoesOn ==
  ASSUME Inv, leader = Undecided
  PROVE  i + 1 \in 1..Len(choices)
<1>1. /\ Len(choices) \in Nat /\ choices \in Seq(Nat) /\ i \in 0..Len(choices)
      /\ draw \in 0..(Total(choices) - 1)
  BY ArgumentsTypes DEF Inv, LoopInvariant, Arguments
<1>2. Total(choices) \in Nat /\ Total(choices) = Upto(choices)[Len(choices)]
  BY <1>1, UptoIsNat DEF Total
<1>3. Len(choices) # 0
  BY <1>1, <1>2, UptoEquations
<1>4. Reaches(Upto(choices)[Len(choices)], draw)
  BY <1>1, <1>2 DEF Reaches
<1>5. i # Len(choices)
  BY <1>1, <1>3, <1>4 DEF Inv, LoopInvariant
<1>. QED
  BY <1>1, <1>5

LEMMA InitInv == Init => Inv
<1>. SUFFICES ASSUME Init
              PROVE  Inv
  OBVIOUS
<1>1. MaxHolders \in Nat /\ MaxWeight \in Nat
  BY BoundsAssumption
<1>2. PICK n \in 1..MaxHolders : weights \in [1..n -> 0..MaxWeight]
  BY DEF Init
<1>3. weights \in Seq(0..MaxWeight) /\ Len(weights) = n
  BY <1>1, <1>2
<1>4. Arguments
  BY <1>2, <1>3 DEF Init, Arguments
<1>5. Len(choices) \in Nat
  BY <1>4, ArgumentsTypes
<1>6. LoopInvariant
  BY <1>5, UptoEquations DEF Init, LoopInvariant, Undecided
<1>. QED
  BY <1>4, <1>6 DEF Inv

LEMMA IteratePreservesInv ==
  ASSUME Inv, Iterate
  PROVE  Inv'
<1>1. leader = Undecided /\ i + 1 \in 1..Len(choices)
  BY LoopGoesOn DEF Iterate
<1>2. choices' = choices
  BY DEF Iterate, choices
<1>3. Arguments'
  BY <1>2 DEF Inv, Arguments, Iterate
<1>4. /\ Len(choices) \in Nat /\ choices \in Seq(Nat) /\ i \in 0..Len(choices)
      /\ skip \in Int
  BY ArgumentsTypes DEF Inv, LoopInvariant
<1>5. i' = i + 1 /\ upto' = Upto(choices)[i + 1] /\ i = (i + 1) - 1
  <2>1. Upto(choices)[i + 1] = Upto(choices)[(i + 1) - 1] + choices[i + 1]
    BY <1>1, <1>4, UptoEquations
  <2>. QED
    BY <1>4, <2>1 DEF Iterate, Inv, LoopInvariant
<1>6. \A j \in 1..i : ~ Reaches(Upto(choices)[j], draw)
  BY <1>1 DEF Inv, LoopInvariant
<1>7. draw' = draw /\ skip' = skip
  BY DEF Iterate
<1>8. LeaderIndex(i + 1, skip) \in Int /\ LeaderIndex(i + 1, skip) >= 1
  BY <1>4, MaxOfTwo DEF LeaderIndex
<1>9. CASE Reaches(upto', draw)
  <2>1. leader' = LeaderIndex(i', skip')
    BY <1>5, <1>7, <1>9 DEF Iterate
  <2>2. leader' # Undecided
    BY <1>5, <1>7, <1>8, <2>1 DEF Undecided
  <2>3. LoopInvariant'
    BY <1>1, <1>2, <1>4, <1>5, <1>6, <1>7, <1>9, <2>1, <2>2 DEF LoopInvariant
  <2>. QED
    BY <1>3, <2>3 DEF Inv
<1>10. CASE ~ Reaches(upto', draw)
  <2>1. \A j \in 1..(i + 1) : ~ Reaches(Upto(choices)[j], draw)
    BY <1>4, <1>5, <1>6, <1>10
  <2>2. i + 1 # Len(choices)
    <3>1. Reaches(Upto(choices)[Len(choices)], draw)
      <4>1. Total(choices) \in Nat /\ Total(choices) = Upto(choices)[Len(choices)]
        BY <1>4, UptoIsNat DEF Total
      <4>2. draw \in 0..(Total(choices) - 1)
        BY DEF Inv, Arguments
      <4>. QED
        BY ONLY <4>1, <4>2 DEF Reaches
    <3>. QED
      BY <1>1, <2>1, <3>1
  <2>3. leader' = Undecided
    BY <1>10, <2>2 DEF Iterate
  <2>4. LoopInvariant'
    BY <1>1, <1>2, <1>4, <1>5, <1>6, <1>7, <2>1, <2>3 DEF LoopInvariant
  <2>. QED
    BY <1>3, <2>4 DEF Inv
<1>. QED
  BY <1>9, <1>10

THEOREM LoopStaysInvariant == Spec => []Inv
<1>1. Inv /\ UNCHANGED vars => Inv'
  BY DEF Inv, Arguments, LoopInvariant, vars, choices
<1>2. Inv /\ [Next]_vars => Inv'
  BY <1>1, IteratePreservesInv DEF Next
<1>. QED
  BY <1>2, InitInv, PTL DEF Spec

-----------------------------------------------------------------------------
\* Once the loop has returned, it has found the sample.
LEMMA DecidedIsSample ==
  ASSUME Inv, leader # Undecided
  PROVE  /\ leader = SlotLeader(weights, skip, draw)
         /\ leader \in (Max({0, skip}) + 1)..Len(weights)
<1>1. /\ choices \in Seq(Nat) /\ Len(choices) \in Nat
      /\ weights \in Seq(Nat) /\ skip \in Int /\ skip <= Len(weights)
      /\ draw \in 0..(Total(choices) - 1)
  BY ArgumentsTypes DEF Inv, Arguments
<1>2. i \in 1..Len(choices)
  BY <1>1 DEF Inv, LoopInvariant
<1>3. WeightedSample(choices, draw) = i
  BY <1>1, <1>2, SampleIsUnique DEF Inv, LoopInvariant
<1>4. leader = SlotLeader(weights, skip, draw)
  BY <1>3 DEF Inv, LoopInvariant, SlotLeader, choices
<1>. QED
  BY <1>1, <1>4, SlotLeaderIsCandidate DEF choices

\* compute_slot_leader never fails its assertion, and what its loop computes is
\* what the closed form SlotLeader says, which the chain model uses.
THEOREM LoopIsClosedForm == Spec => []LoopComputesSlotLeader
<1>1. Inv => LoopComputesSlotLeader
  BY DecidedIsSample DEF LoopComputesSlotLeader
<1>. QED
  BY <1>1, LoopStaysInvariant, PTL

\* compute_slot_leader returns an index of the registry that is not skipped.
THEOREM LeaderIsNotSkipped == Spec => []LeaderIsCandidate
<1>1. Inv => LeaderIsCandidate
  BY DecidedIsSample DEF LeaderIsCandidate
<1>. QED
  BY <1>1, LoopStaysInvariant, PTL

\* The loop variables stay in range: no draw is as large as the stake of a full
\* registry, and the running sum stays below the total.
THEOREM ElectionTypeCorrectness == Spec => []TypeOK
<1>1. ASSUME Inv
      PROVE  TypeOK
  <2>1. /\ MaxHolders \in Nat /\ MaxWeight \in Nat /\ GenesisSkip \in Nat
        /\ 0..MaxWeight \subseteq Nat
    BY BoundsAssumption
  <2>2. /\ weights \in Seq(0..MaxWeight)
        /\ Len(weights) \in 1..MaxHolders
        /\ skip \in (-GenesisSkip)..(Len(weights) - 1)
        /\ draw \in 0..(Total(choices) - 1)
        /\ i \in 0..Len(choices)
        /\ upto = Upto(choices)[i]
    BY <1>1 DEF Inv, Arguments, LoopInvariant
  <2>3. /\ choices \in Seq(Nat)
        /\ choices \in Seq(0..MaxWeight)
        /\ Len(choices) \in 0..Len(weights)
        /\ Len(weights) \in Nat
    BY <1>1, ArgumentsTypes DEF Inv
  <2>4. upto \in 0..Total(choices)
    <3>1. Len(choices) \in Nat
      BY <2>3
    <3>2. /\ Upto(choices)[i] \in Nat
          /\ Total(choices) \in Nat
      BY <2>2, <2>3, <3>1, UptoIsNat DEF Total
    <3>3. Upto(choices)[i] <= Total(choices)
      BY <2>2, <2>3, <3>1, UptoIsMonotone DEF Total
    <3>. QED
      BY <2>2, <3>2, <3>3
  <2>5. draw \in 0..(MaxHolders * MaxWeight)
    <3>1. /\ Total(choices) \in Nat
          /\ Total(choices) <= Len(choices) * MaxWeight
      BY <2>1, <2>3, UptoIsNat, UptoIsBounded DEF Total
    <3>2. Len(choices) \in 0..MaxHolders
      BY <2>1, <2>2, <2>3
    <3>3. \E rest \in Nat : MaxHolders = Len(choices) + rest
      BY <2>1, <3>2
    <3>4. PICK rest \in Nat : MaxHolders = Len(choices) + rest
      BY <3>3
    <3>5. MaxHolders * MaxWeight = Len(choices) * MaxWeight + rest * MaxWeight
      BY <2>1, <3>2, <3>4
    <3>6. rest * MaxWeight \in Nat /\ Len(choices) * MaxWeight \in Nat
      BY <2>1, <3>2
    <3>. QED
      BY <2>2, <3>1, <3>5, <3>6
  <2>6. leader \in {Undecided, ShouldntGetHere} \cup 1..Len(weights)
    <3>1. CASE leader = Undecided
      BY <3>1
    <3>2. CASE leader # Undecided
      <4>1. Max({0, skip}) >= 0 /\ Max({0, skip}) \in Int
        BY <2>1, <2>2, MaxOfTwo
      <4>. QED
        BY <1>1, <2>3, <3>2, <4>1, DecidedIsSample
    <3>. QED
      BY <3>1, <3>2
  <2>7. skip \in (-GenesisSkip)..MaxHolders
    BY <2>1, <2>2
  <2>. QED
    BY <2>2, <2>4, <2>5, <2>6, <2>7 DEF TypeOK
<1>. QED
  BY <1>1, LoopStaysInvariant, PTL

-----------------------------------------------------------------------------
\* The sums cut the draws into intervals: a candidate is sampled by those above
\* the sum of the candidates before it, up to the sum that includes its stake.
LEMMA DrawsOfCandidate ==
  ASSUME NEW list \in Seq(Nat), NEW p \in 1..Len(list),
         NEW r \in 0..(Total(list) - 1)
  PROVE  WeightedSample(list, r) = p
           <=> r <= Upto(list)[p] /\ (p # 1 => Upto(list)[p - 1] < r)
<1>1. Len(list) \in Nat /\ r \in Nat /\ \A k \in 0..Len(list) : Upto(list)[k] \in Nat
  BY LenProperties, UptoIsNat
<1>2. ASSUME WeightedSample(list, r) = p
      PROVE  r <= Upto(list)[p] /\ (p # 1 => Upto(list)[p - 1] < r)
  <2>1. Reaches(Upto(list)[p], r) /\ \A j \in 1..(p - 1) : ~ Reaches(Upto(list)[j], r)
    BY <1>2, SampleExists
  <2>2. r <= Upto(list)[p]
    BY <1>1, <2>1 DEF Reaches
  <2>3. ASSUME p # 1
        PROVE  Upto(list)[p - 1] < r
    <3>1. p - 1 \in 1..(p - 1) /\ p - 1 \in 0..Len(list)
      BY <1>1, <2>3
    <3>. QED
      BY <1>1, <2>1, <3>1 DEF Reaches
  <2>. QED
    BY <2>2, <2>3
<1>3. ASSUME r <= Upto(list)[p], p # 1 => Upto(list)[p - 1] < r
      PROVE  WeightedSample(list, r) = p
  <2>1. Reaches(Upto(list)[p], r)
    BY <1>1, <1>3 DEF Reaches
  <2>2. ASSUME NEW j \in 1..(p - 1)
        PROVE  ~ Reaches(Upto(list)[j], r)
    <3>1. /\ p # 1 /\ j <= p - 1
          /\ j \in 0..Len(list) /\ p - 1 \in 0..Len(list)
      BY <1>1
    <3>2. Upto(list)[j] <= Upto(list)[p - 1]
      BY <3>1, UptoIsMonotone
    <3>. QED
      <4>1. Upto(list)[p - 1] < r
        BY <1>3, <3>1
      <4>2. Upto(list)[j] \in Nat /\ Upto(list)[p - 1] \in Nat /\ r \in Nat
        BY <1>1, <3>1
      <4>. QED
        BY ONLY <3>2, <4>1, <4>2 DEF Reaches
  <2>. QED
    BY <2>1, <2>2, SampleIsUnique
<1>. QED
  BY <1>2, <1>3

\* How many draws there are in an interval that may end with the last draw.
LEMMA ClippedInterval ==
  ASSUME NEW before \in Nat, NEW stake \in Nat, NEW sum, sum = before + stake,
         NEW total \in Nat, sum <= total,
         NEW last, last = IF sum <= total - 1 THEN sum ELSE total - 1,
         NEW size,
         size = IF before + 1 > last THEN 0 ELSE last - (before + 1) + 1
  PROVE  size - stake \in -1..1
OBVIOUS

\* After the first block the draws that elect a candidate are an interval as long
\* as its stake, but for the ends: the first candidate also has the draw 0, and
\* there is no draw as large as the total.
LEMMA ShareOfCandidate ==
  ASSUME Arguments, skip >= 0, NEW index \in (skip + 1)..Len(weights)
  PROVE  Cardinality(DrawsOf(index)) - weights[index] \in -1..1
<1>. DEFINE p == index - skip
            first == IF p = 1 THEN 0 ELSE Upto(choices)[p - 1] + 1
            total == Total(choices)
            last == IF Upto(choices)[p] <= total - 1 THEN Upto(choices)[p]
                    ELSE total - 1
<1>1. /\ weights \in Seq(Nat) /\ Len(weights) \in Nat /\ skip \in Nat
      /\ skip <= Len(weights) /\ choices \in Seq(Nat)
      /\ index \in Int
  BY ArgumentsTypes
<1>2. /\ Len(choices) = Len(weights) - skip
      /\ \A k \in 1..(Len(weights) - skip) : choices[k] = weights[k + skip]
  <2>1. Dropped(weights, skip) = skip
    BY <1>1 DEF Dropped
  <2>2. /\ Len(choices) = Len(weights) - Dropped(weights, skip)
        /\ \A k \in 1..(Len(weights) - Dropped(weights, skip)) :
             choices[k] = weights[k + Dropped(weights, skip)]
    BY <1>1, CandidatesProperties DEF choices
  <2>. QED
    BY <2>1, <2>2
<1>3. /\ p \in 1..Len(choices) /\ index = p + skip /\ p \in Int
      /\ choices[p] = weights[index]
  <2>1. p \in 1..(Len(weights) - skip) /\ index = p + skip /\ p \in Int
    <3>1. index \in (skip + 1)..Len(weights)
      OBVIOUS
    <3>. QED
      BY ONLY <1>1, <3>1
  <2>. HIDE DEF p
  <2>. QED
    BY ONLY <1>2, <2>1
<1>4. /\ Upto(choices)[p] = Upto(choices)[p - 1] + weights[index]
      /\ \A k \in 0..Len(choices) : Upto(choices)[k] \in Nat
      /\ Upto(choices)[0] = 0
      /\ weights[index] \in Nat
      /\ p - 1 \in 0..Len(choices) /\ p \in 0..Len(choices)
      /\ p = 1 => Upto(choices)[p - 1] = 0
  <2>1. Len(choices) \in Nat
    BY <1>1, <1>2
  <2>2. index \in 1..Len(weights)
    BY <1>1
  <2>3. weights[index] \in Nat
    BY <1>1, <2>2, ElementOfSeq
  <2>. HIDE DEF p
  <2>4. p - 1 \in 0..Len(choices) /\ p \in 0..Len(choices) /\ (p = 1 => p - 1 = 0)
    BY <1>3, <2>1
  <2>5. /\ Upto(choices)[p] = Upto(choices)[p - 1] + choices[p]
        /\ Upto(choices)[0] = 0
    BY <1>3, <2>1, UptoEquations
  <2>6. \A k \in 0..Len(choices) : Upto(choices)[k] \in Nat
    BY <1>1, UptoIsNat
  <2>. QED
    BY <1>3, <2>3, <2>4, <2>5, <2>6
<1>5. total \in Nat /\ Upto(choices)[p] <= total
  <2>1. Len(choices) \in 0..Len(choices) /\ p <= Len(choices)
    BY <1>1, <1>2, <1>3
  <2>. HIDE DEF p
  <2>2. total = Upto(choices)[Len(choices)]
    BY DEF Total
  <2>3. Upto(choices)[p] <= Upto(choices)[Len(choices)]
    BY <1>1, <1>4, <2>1, UptoIsMonotone
  <2>. QED
    BY <1>4, <2>1, <2>2, <2>3
<1>. HIDE DEF p, total
<1>6. ASSUME NEW r \in 0..(total - 1)
      PROVE  SlotLeader(weights, skip, r) = index <=> r \in first..last
  <2>. DEFINE sample == WeightedSample(choices, r)
  <2>1. SlotLeader(weights, skip, r) = Max({1, sample + skip})
    BY DEF SlotLeader, LeaderIndex, choices
  <2>2. sample \in 1..Len(choices)
    BY <1>1, <1>6, SampleExists DEF total
  <2>6. sample = p
          <=> r <= Upto(choices)[p] /\ (p # 1 => Upto(choices)[p - 1] < r)
    BY <1>1, <1>3, <1>6, DrawsOfCandidate DEF total
  <2>. HIDE DEF sample
  <2>3. sample \in Nat /\ sample >= 1 /\ sample + skip \in Int
    BY <1>1, <1>2, <2>2
  <2>4. SlotLeader(weights, skip, r) = sample + skip
    <3>1. Max({1, sample + skip}) = IF 1 >= sample + skip THEN 1 ELSE sample + skip
      BY <2>3, MaxOfTwo
    <3>. QED
      BY <1>1, <2>1, <2>3, <3>1
  <2>5. SlotLeader(weights, skip, r) = index <=> sample = p
    BY ONLY <1>1, <1>3, <2>3, <2>4
  <2>7. (p # 1 => Upto(choices)[p - 1] < r) <=> r >= first
    BY <1>4, <1>5, <1>6
  <2>8. r <= Upto(choices)[p] <=> r <= last
    BY <1>4, <1>5, <1>6
  <2>9. r \in first..last <=> r >= first /\ r <= last
    BY <1>4, <1>5, <1>6
  <2>. QED
    BY <2>5, <2>6, <2>7, <2>8, <2>9
<1>7. first \in Nat /\ last \in Int /\ last <= total - 1
  BY <1>4, <1>5
<1>8. DrawsOf(index) = first..last
  <2>1. first..last \subseteq 0..(total - 1)
    BY <1>5, <1>7
  <2>. HIDE DEF first, last
  <2>2. DrawsOf(index) = {r \in 0..(total - 1) : SlotLeader(weights, skip, r) = index}
    BY DEF DrawsOf, total
  <2>. QED
    BY <1>6, <2>1, <2>2
<1>9. Cardinality(DrawsOf(index)) = IF first > last THEN 0 ELSE last - first + 1
  <2>. HIDE DEF first, last
  <2>1. Cardinality(first..last) = IF first > last THEN 0 ELSE last - first + 1
    BY <1>7, FS_Interval
  <2>. QED
    BY <1>8, <2>1
<1>10. ASSUME p = 1
       PROVE  Cardinality(DrawsOf(index)) - weights[index] \in -1..1
  <2>1. Upto(choices)[p] = weights[index] /\ first = 0
    BY <1>4, <1>10
  <2>. QED
    BY <1>4, <1>5, <1>9, <2>1
<1>11. ASSUME p # 1
       PROVE  Cardinality(DrawsOf(index)) - weights[index] \in -1..1
  <2>1. /\ first = Upto(choices)[p - 1] + 1
        /\ Upto(choices)[p - 1] \in Nat
        /\ Upto(choices)[p] \in Nat
    BY <1>4, <1>11
  <2>. HIDE DEF first
  <2>2. Cardinality(DrawsOf(index))
          = IF Upto(choices)[p - 1] + 1 > last THEN 0
            ELSE last - (Upto(choices)[p - 1] + 1) + 1
    BY <1>9, <2>1
  <2>. QED
    BY <1>4, <1>5, <2>1, <2>2, ClippedInterval
<1>. QED
  BY <1>10, <1>11

\* Every candidate leads for its stake in draws, give or take one, however many
\* stake holders there are and whatever they hold.
THEOREM ChancesFollowStake == Spec => []ShareWithinOneOfStake
<1>1. Inv => ShareWithinOneOfStake
  BY ShareOfCandidate DEF Inv, ShareWithinOneOfStake
<1>. QED
  BY <1>1, LoopStaysInvariant, PTL

=============================================================================
