------------------------------ MODULE Election ------------------------------
(***************************************************************************)
(* The slot leader election of the stake chain, as operators:              *)
(* onchain/utils/random.py (weighted_sample) and compute_slot_leader of    *)
(* onchain/stakechain/stakechain_v1.py.                                    *)
(*                                                                         *)
(* Lists are sequences, so a Python index i is position i + 1 here.  The   *)
(* hash random_number(rng_seed) is an arbitrary natural number: only what  *)
(* is computed from it is modelled.                                        *)
(***************************************************************************)
EXTENDS Integers, Sequences, SequencesExt

(***************************************************************************)
(* Broken variants of the definitions below, one plausible bug each.  They *)
(* are used only to show that the properties notice the bug.               *)
(***************************************************************************)
Bug_WholeList(weights, skip) == weights           \* forgets the slice
Bug_UnshiftedIndex(index, skip) == index          \* forgets "+ skip_holders"
Bug_UnclampedIndex(index, skip) == index + skip   \* forgets "max([0, ...])"

-----------------------------------------------------------------------------
\* The test in the loop of weighted_sample: upto >= r.
Reaches(sum, r) == sum >= r

\* Upto(choices)[i] is the loop variable upto after i iterations.
Upto(choices) ==
  LET upto[i \in 0..Len(choices)] ==
        IF i = 0 THEN 0 ELSE upto[i - 1] + choices[i]
  IN  upto

\* sum(choices), the modulus the random number is reduced by.
Total(choices) == Upto(choices)[Len(choices)]

\* The one-based index that weighted_sample returns for r = random % total.
WeightedSample(choices, r) ==
  CHOOSE i \in 1..Len(choices) :
    /\ Reaches(Upto(choices)[i], r)
    /\ \A j \in 1..(i - 1) : ~ Reaches(Upto(choices)[j], r)

\* The slice weights[skip:].  A negative skip counts from the end of the list,
\* and takes all of it when it reaches past the front.
Candidates(weights, skip) ==
  SubSeq(weights,
         IF skip >= 0 THEN skip + 1 ELSE Max({0, Len(weights) + skip}) + 1,
         Len(weights))

\* max([0, slot_leader_index + skip_holders]), one-based.
LeaderIndex(index, skip) == Max({1, index + skip})

\* What compute_slot_leader returns once random_uniform has returned r.
SlotLeader(weights, skip, r) ==
  LeaderIndex(WeightedSample(Candidates(weights, skip), r), skip)

=============================================================================
