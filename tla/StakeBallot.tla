---------------------------- MODULE StakeBallot ----------------------------
(***************************************************************************)
(* What the stake chain promises its holders about elections, without      *)
(* lists, counters, positions or time: who holds how much registered       *)
(* stake, who stands for election, and who produced the last block.        *)
(*                                                                         *)
(* A holder that joins once the chain has started stands from the block    *)
(* after next on: it can be elected only after another block has been      *)
(* produced by those who stood before it came.  A holder that stands keeps *)
(* standing until it leaves.                                               *)
(***************************************************************************)
EXTENDS Naturals

CONSTANTS
  HolderIds,   \* the identities a holder can register
  Stakes,      \* amounts of stake
  Genesis      \* the producer of the state before the first block

VARIABLES
  stake,       \* the registered holders and the stake of each
  standing,    \* those that can be elected for the next block
  enrolling,   \* registrations still stand at once: no block produced so far
  blocks,      \* number of blocks produced
  producer     \* who produced the last one

vars == <<stake, standing, enrolling, blocks, producer>>

Registered == DOMAIN stake

-----------------------------------------------------------------------------
Init ==
  /\ stake = [id \in {} |-> 0]
  /\ standing = {}
  /\ enrolling = TRUE
  /\ blocks = 0
  /\ producer = Genesis

\* A new holder stands at once while the chain enrols, and waits afterwards.
\* Enrolment may close at any time, for good.
Join(id, amount) ==
  /\ id \notin Registered
  /\ stake' = [h \in Registered \cup {id} |->
                 IF h = id THEN amount ELSE stake[h]]
  /\ standing' = IF enrolling THEN standing \cup {id} ELSE standing
  /\ enrolling' \in {enrolling, FALSE}
  /\ UNCHANGED <<blocks, producer>>

Leave(id) ==
  /\ id \in Registered
  /\ stake' = [h \in Registered \ {id} |-> stake[h]]
  /\ standing' = standing \ {id}
  /\ UNCHANGED <<enrolling, blocks, producer>>

Restake(id, amount) ==
  /\ id \in Registered
  /\ stake' = [stake EXCEPT ![id] = amount]
  /\ UNCHANGED <<standing, enrolling, blocks, producer>>

\* One of those standing produces a block, and the reward may go to the stake
\* of any one holder.  From now on everybody registered stands.
Produce(leader, id, amount) ==
  /\ leader \in standing
  /\ id \in Registered
  /\ stake' = [stake EXCEPT ![id] = amount]
  /\ standing' = Registered
  /\ enrolling' = FALSE
  /\ blocks' = blocks + 1
  /\ producer' = leader

Next ==
  \E id \in HolderIds, amount \in Stakes :
    \/ Join(id, amount)
    \/ Leave(id)
    \/ Restake(id, amount)
    \/ \E leader \in HolderIds : Produce(leader, id, amount)

Spec == Init /\ [][Next]_vars

=============================================================================
