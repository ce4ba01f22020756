----------------------------- MODULE StakeChain -----------------------------
(***************************************************************************)
(* The stake chain: the one UTxO that carries the chain's auth NFT, its    *)
(* datum (StakeChainV0State, StakeChainV1State), and the UTxOs of the      *)
(* stake holders registered with it.                                       *)
(*                                                                         *)
(* An action is one transaction that the ledger accepts.  It spends the    *)
(* chain UTxO, so transactions on the chain are serialised whatever the    *)
(* number of parties that submit them; its guard is what the scripts it    *)
(* runs check (stakechain_v0.py, stakechain_v1.py, stakeholder.py,         *)
(* stakeholder_auth_nft.py, the upgrade approval scripts), and its inputs  *)
(* are whatever the submitter may choose.  Anybody may submit at any time: *)
(* required signatures can always be obtained.                             *)
(*                                                                         *)
(* Python lists are sequences: index i of the code is i + 1 here.          *)
(***************************************************************************)
EXTENDS Election, FiniteSets

CONSTANTS
  HolderIds,        \* stakechain_id values of at most five bytes
  Positions,        \* stake holder positions: threads of UTxOs with one auth NFT
  NoHolder,         \* a position that is not on the ledger
  Nobody,           \* the producer of the genesis state
  Stakes,           \* amounts of stake coin a position can be given
  GenesisSkip,      \* a new chain has skip_holders = -GenesisSkip
  GenesisAddress,   \* the script that a new chain is locked by
  GenesisParams,    \* the params a new chain is created with
  GenesisReserve,   \* stake coin locked in the chain at its creation
  GenesisWallet,    \* stake coin sold at its creation, held by the users
  SlotLength,       \* params.slot_length, in ticks of the ledger clock
  AgreementLength,  \* agreement_length of the upgrade approval scripts
  Proposals,        \* the ChainUpgradeProposals that blocks may vote for
  NoProposal,       \* any other auxiliary data
  KeepAddress,      \* upgrade_address = Nothing
  KeepParams,       \* upgrade_params = Nothing
  MaxTime,          \* bound: the ledger clock
  MaxBlocks         \* bound: blocks attached to the chain

\* The scripts a chain can be locked by, named by their version, and the shapes of
\* its parameters: V0Params has no slot_leader_interval.
Versions == {"v0", "v1"}

Params ==
  [version : Versions,
   upgrade_approval : {"v0", "v0a", "v1"},
   register_fee : Nat,
   fraction_per_block : [numerator : Nat, denominator : Nat \ {0}],
   max_holders : Nat,
   slot_leader_interval : Nat \ {0}]

Holder == [id : HolderIds, stake : Stakes]

ProducerState ==
  [producer : HolderIds \cup {Nobody}, auxiliary : Proposals \cup {NoProposal}]

ASSUME StakesAssumption == Stakes \subseteq Nat
ASSUME AmountsAssumption == GenesisReserve \in Nat /\ GenesisWallet \in Nat
ASSUME SkipAssumption == GenesisSkip \in Nat \ {0}
ASSUME ParamsAssumption == GenesisAddress \in Versions /\ GenesisParams \in Params
ASSUME TimeAssumption == SlotLength \in Nat \ {0} /\ MaxTime \in Nat
ASSUME AgreementAssumption == AgreementLength \in Nat \ {0}
ASSUME NoHolderAssumption == NoHolder \notin Holder
ASSUME NobodyAssumption == Nobody \notin HolderIds
ASSUME NoProposalAssumption == NoProposal \notin Proposals
ASSUME ProposalsAssumption ==
  /\ Proposals \subseteq
       [address : Versions \cup {KeepAddress}, params : Params \cup {KeepParams},
        treasury : Nat, payout : Nat]
  /\ KeepAddress \notin Versions /\ KeepParams \notin Params

VARIABLES
  address,          \* the script that locks the chain output
  params,           \* params of the chain state
  ids,              \* holder_state.stake_holder_ids
  weights,          \* holder_state.stake_holder_weights
  skip,             \* skip_holders
  slot_number,      \* chain_state.slot_number
  producer_states,  \* the hash chain of ProducerStates, newest first
  reserve,          \* stake coin in the chain UTxO
  holder,           \* what each position holds
  wallet,           \* stake coin that is not in the protocol
  now               \* the ledger's clock; genesis_time is 0

registry == <<ids, weights, skip>>
chain == <<address, params, registry, slot_number, producer_states, reserve>>
vars == <<chain, holder, wallet, now>>

\* chain_state.block_number counts the blocks after the genesis state.
block_number == Len(producer_states) - 1

Live == {p \in Positions : holder[p] # NoHolder}

-----------------------------------------------------------------------------
(***************************************************************************)
(* Broken variants of the definitions below, one plausible bug each.  They *)
(* are used only to show that the properties notice the bug.               *)
(***************************************************************************)
Bug_NewHolderStands == skip
Bug_RemovalOffByOne(index) == IF index < skip THEN skip - 1 ELSE skip
Bug_WeightsNotUpdated(index, stake) == weights
Bug_SameSlotAgain(slot) == slot >= slot_number
Bug_AnySlot(slot) == TRUE
Bug_OneVoteMissing(proposal) ==
  /\ Len(producer_states) >= AgreementLength
  /\ \A i \in 1..(AgreementLength - 1) : producer_states[i].auxiliary = proposal
Bug_AnyParams(approval, proposed) == TRUE
Bug_EarlierVotes(proposal) ==
  \E newest \in 1..Len(producer_states) :
    /\ newest + AgreementLength - 1 <= Len(producer_states)
    /\ \A i \in newest..(newest + AgreementLength - 1) :
         producer_states[i].auxiliary = proposal
Bug_WeightInserted(index, stake) == InsertAt(weights, index, stake)

-----------------------------------------------------------------------------
(* What the ledger checks of every transaction.                            *)

\* No output holds a negative amount.
Funded(amount) == amount >= 0

(* What the chain script checks of a slot, whatever the redeemer.          *)

\* check_slot_of_tx: the validity interval [lower, upper) of the transaction,
\* which the ledger requires to hold the current time, is within the slot (v0)
\* or strictly within the slot leader interval that begins with it (v1).
InSlot(slot) ==
  LET first == slot * SlotLength IN
  \E lower \in 0..now, upper \in (now + 1)..(MaxTime + 1) :
    \/ /\ address = "v0"
       /\ first <= lower
       /\ upper <= first + SlotLength
    \/ /\ address = "v1"
       /\ first < lower
       /\ upper <= first + SlotLength * params.slot_leader_interval

\* new_chain_state: "Slot number not strictly increasing".
IsLaterSlot(slot) == slot > slot_number

\* new_chain_state: the v1 script reads slot_leader_interval, and fails on
\* parameters of v0's shape.
HasInterval == address = "v1" => params.version = "v1"

\* new_chain_state: a v1 slot is the first of a slot leader interval.
IsIntervalStart(slot) ==
  address = "v1" => slot % params.slot_leader_interval = 0

-----------------------------------------------------------------------------
(* The registry of holders in the chain state.                             *)

SkipAfterRegistration == skip + 1

\* int(holder_index < skip_holders), for a one-based index.
SkipAfterRemoval(index) == IF index <= skip THEN skip - 1 ELSE skip

WeightsWith(index, stake) == ReplaceAt(weights, index, stake)

\* stake_index_in_holder_list of a holder that is not in the list.
NotListed == 0

Genesis ==
  /\ address = GenesisAddress
  /\ params = GenesisParams
  /\ ids = <<>>
  /\ weights = <<>>
  /\ skip = -GenesisSkip
  /\ slot_number = 0
  /\ producer_states = <<[producer |-> Nobody, auxiliary |-> NoProposal]>>
  /\ reserve = GenesisReserve

Init ==
  /\ Genesis
  /\ holder = [p \in Positions |-> NoHolder]
  /\ wallet = GenesisWallet
  /\ now = 0

-----------------------------------------------------------------------------
\* check_correct_register_value_update: the fee is due at both ends.
PaysRegisterFee == reserve' = reserve + params.register_fee

\* A new holder jumps to the start of the lists, its id is fresh.
NewRegisteredState(id, stake) ==
  /\ id \notin ToSet(ids)
  /\ ids' = <<id>> \o ids
  /\ weights' = <<stake>> \o weights
  /\ skip' = SkipAfterRegistration

\* A position is created with its stake and listed.
RegisterStake(p, id, stake) ==
  /\ p \notin Live
  /\ Len(ids) + 1 <= params.max_holders
  /\ NewRegisteredState(id, stake)
  /\ PaysRegisterFee
  /\ holder' = [holder EXCEPT ![p] = [id |-> id, stake |-> stake]]
  /\ wallet' = wallet - stake - params.register_fee
  /\ Funded(wallet')
  /\ UNCHANGED <<address, params, slot_number, producer_states, now>>

\* The holder leaves the lists at the index the transaction names, or is not in
\* the lists at all.
NewDeregisteredState(id, index) ==
  IF index # NotListed
    THEN /\ ids[index] = id
         /\ ids' = RemoveAt(ids, index)
         /\ weights' = RemoveAt(weights, index)
         /\ skip' = SkipAfterRemoval(index)
    ELSE /\ id \notin ToSet(ids)
         /\ UNCHANGED registry

\* A position is closed and its auth NFT burned.
DeregisterStake(p, index) ==
  /\ p \in Live
  /\ NewDeregisteredState(holder[p].id, index)
  /\ PaysRegisterFee
  /\ holder' = [holder EXCEPT ![p] = NoHolder]
  /\ wallet' = wallet + holder[p].stake - params.register_fee
  /\ Funded(wallet')
  /\ UNCHANGED <<address, params, slot_number, producer_states, now>>

\* The stake of a position is changed, in the position and in the registry.
Restake(p, index, stake) ==
  /\ p \in Live
  /\ ids[index] = holder[p].id
  /\ weights' = WeightsWith(index, stake)
  /\ holder' = [holder EXCEPT ![p].stake = stake]
  /\ UNCHANGED ids

UpdateStake(p, index, stake) ==
  /\ Restake(p, index, stake)
  /\ wallet' = wallet + holder[p].stake - stake
  /\ Funded(wallet')
  /\ UNCHANGED <<address, params, skip, slot_number, producer_states, reserve, now>>

\* floor_fraction(scale_fraction(prev_reserve_amount, fraction_per_block))
BlockReward ==
  LET fraction == params.fraction_per_block
  IN  (reserve * fraction.numerator) \div fraction.denominator

\* check_correct_producer: the referenced position belongs to the slot leader.
\* The leader numbers 0..num_slot_leaders seed the draw; any draw may result.
IsSlotLeader(id) ==
  \E draw \in 0..(Total(Candidates(weights, skip)) - 1) :
    id = ids[SlotLeader(weights, skip, draw)]

\* A block has a slot of its own that is current.
NewChainState(slot) ==
  /\ HasInterval
  /\ InSlot(slot)
  /\ IsLaterSlot(slot)
  /\ IsIntervalStart(slot)
  /\ slot_number' = slot

\* What a block leaves in the datum: nobody is skipped for the next one.
NewMinedState(producer, slot, auxiliary) ==
  /\ NewChainState(slot)
  /\ skip' = 0
  /\ producer_states' =
       <<[producer |-> producer, auxiliary |-> auxiliary]>> \o producer_states

\* The slot leader, a position that the transaction references, attaches a block
\* with auxiliary data of its choice.  The transaction spends some position, its
\* own or not, whose stake it changes; the reward is paid out of the reserve.
MineBlockUpdateStake(leader, slot, auxiliary, p, index, stake) ==
  /\ leader \in Live
  /\ IsSlotLeader(holder[leader].id)
  /\ NewMinedState(holder[leader].id, slot, auxiliary)
  /\ Restake(p, index, stake)
  /\ reserve' = reserve - BlockReward
  /\ Funded(reserve')
  /\ wallet' = wallet + holder[p].stake - stake + BlockReward
  /\ Funded(wallet')
  /\ UNCHANGED <<address, params, now>>

-----------------------------------------------------------------------------
\* The approval script follows prev_producer_state_hash from the current
\* producer state through agreement_length - 1 earlier ones.
AgreedOn(proposal) ==
  /\ Len(producer_states) >= AgreementLength
  /\ \A i \in 1..AgreementLength : producer_states[i].auxiliary = proposal

\* The parameters that the approval script of the chain accepts in a proposal.  v0
\* checks their integrity, so they have to be of v0's shape.  v0a and v1 do not, and
\* the two shapes share a constructor: either passes for V1Params.  v0a wants some.
Accepts(approval, proposed) ==
  IF proposed = KeepParams THEN approval # "v0a"
  ELSE approval = "v0" => proposed.version = "v0"

\* Address and parameters are replaced independently of each other.  No holder script
\* may run along with the approval script, so no position is touched; the registry
\* and the blocks are preserved.
UpgradeProtocol(proposal) ==
  /\ AgreedOn(proposal)
  /\ Accepts(params.upgrade_approval, proposal.params)
  /\ address' = IF proposal.address = KeepAddress THEN address ELSE proposal.address
  /\ params' = IF proposal.params = KeepParams THEN params ELSE proposal.params
  /\ reserve' = reserve + proposal.treasury - proposal.payout
  /\ Funded(reserve')
  /\ wallet' = wallet - proposal.treasury + proposal.payout
  /\ Funded(wallet')
  /\ UNCHANGED <<registry, slot_number, producer_states, holder, now>>

Tick ==
  /\ now < MaxTime
  /\ now' = now + 1
  /\ UNCHANGED <<chain, holder, wallet>>

-----------------------------------------------------------------------------
Next ==
  \/ \E p \in Positions, id \in HolderIds, stake \in Stakes :
       RegisterStake(p, id, stake)
  \/ \E p \in Positions, index \in {NotListed} \cup DOMAIN ids :
       DeregisterStake(p, index)
  \/ \E p \in Positions, index \in DOMAIN ids, stake \in Stakes :
       UpdateStake(p, index, stake)
  \/ /\ block_number < MaxBlocks
     /\ \E leader \in Positions, slot \in 0..MaxTime,
           auxiliary \in Proposals \cup {NoProposal},
           p \in Positions, index \in DOMAIN ids, stake \in Stakes :
          MineBlockUpdateStake(leader, slot, auxiliary, p, index, stake)
  \/ \E proposal \in Proposals : UpgradeProtocol(proposal)
  \/ Tick

Spec == Init /\ [][Next]_vars

-----------------------------------------------------------------------------
\* Lists and amounts stay well formed: every registered id has a weight, and no
\* transaction leaves a negative amount of stake coin anywhere.
TypeOK ==
  /\ address \in Versions
  /\ params \in Params
  /\ ids \in Seq(HolderIds)
  /\ weights \in Seq(Stakes)
  /\ Len(weights) = Len(ids)
  /\ skip \in Int
  /\ slot_number \in Nat
  /\ producer_states \in Seq(ProducerState)
  /\ reserve \in Nat
  /\ holder \in [Positions -> Holder \cup {NoHolder}]
  /\ wallet \in Nat
  /\ now \in Nat

\* No id is registered twice.
IdsAreDistinct == \A i, j \in DOMAIN ids : ids[i] = ids[j] => i = j

\* Every position on the ledger is registered, with the stake it really holds.
HoldersAreRegistered ==
  \A p \in Live : \E i \in DOMAIN ids :
    ids[i] = holder[p].id /\ weights[i] = holder[p].stake

\* Every registered id belongs to a position on the ledger.
RegisteredAreHolders ==
  \A i \in DOMAIN ids : \E p \in Live : holder[p].id = ids[i]

\* No two positions share an id.
PositionsAreDistinct ==
  \A p, q \in Live : holder[p].id = holder[q].id => p = q

\* The weights the election draws from are the stakes locked in positions: the
\* list in the chain datum and the positions, which separate transactions of
\* several owners edit by index, always describe the same set of holders.
RegistryMatchesHolders ==
  /\ IdsAreDistinct
  /\ HoldersAreRegistered
  /\ RegisteredAreHolders
  /\ PositionsAreDistinct

\* At most the registered holders are skipped (skip_holders is "an int since new
\* holders always jump to the start of the list"), and once the chain has
\* started the count is never negative, which a Python slice would accept.
SkipWithinRegistry ==
  /\ skip <= Len(ids)
  /\ block_number > 0 => skip >= 0

\* A block carries a slot that has begun: its time is not in the future.
SlotHasBegun == slot_number * SlotLength <= now

\* The parameters in force are those of the genesis state, or those of a
\* proposal that agreement_length consecutive blocks carry.
ParamsWereAgreed ==
  \/ params = GenesisParams
  \/ \E proposal \in Proposals, newest \in 1..Len(producer_states) :
       /\ proposal.params = params
       /\ newest + AgreementLength - 1 <= Len(producer_states)
       /\ \A i \in newest..(newest + AgreementLength - 1) :
            producer_states[i].auxiliary = proposal

\* Parameters of v1's shape only come after those of a v0 chain named another
\* approval script, since v0's checks the integrity of proposals: two rounds of votes
\* lie in between, so that a chain created as v0 has them only after twice
\* agreement_length blocks.
UpgradePathIsFollowed ==
  GenesisParams.version = "v0" /\ GenesisParams.upgrade_approval = "v0"
    /\ params.version = "v1"
  => block_number >= 2 * AgreementLength

Attached == producer_states' # producer_states

\* After a block at the start of a slot leader interval, the next block is
\* attached once that interval (after any block: once its slot) has passed,
\* whatever upgrades happen in between.  Of the first v1 block after a block in the
\* middle of an interval, where v0 left it, only the weaker one is said.
NextBlockAwaitsSlot ==
  [][Attached => now >= (slot_number + 1) * SlotLength]_vars

NextBlockAwaitsInterval ==
  [][Attached /\ address = "v1"
       /\ slot_number % params.slot_leader_interval = 0
     => now >= (slot_number + params.slot_leader_interval) * SlotLength]_vars

\* Nobody can be elected any more: the candidates weights[skip_holders:] are
\* the empty list.
Stalled == skip = Len(ids)

\* A chain without candidates never gets one: no registration, withdrawal,
\* update or upgrade makes a block possible again.
StallIsForever == [][Stalled => Stalled' /\ ~ Attached]_vars

\* The script that locks the chain cannot read its parameters.
Mismatched == address = "v1" /\ params.version = "v0"

\* A vote for v1's address without v1's parameters cannot be undone: the chain
\* never attaches a block again, so that no other proposal is ever agreed on, and
\* carrying out the last one once more leaves address and parameters as they are.
MismatchIsForever == [][Mismatched => Mismatched' /\ ~ Attached]_vars

\* README.md: "It consecutively attaches a new block to the blockchain every 60
\* seconds" and "Every 60 seconds, a slot leader is elected": whenever holders
\* are registered, one of them can be elected.
SomebodyCanLead == ids # <<>> => ~ Stalled

-----------------------------------------------------------------------------
(***************************************************************************)
(* The chain keeps the promises of StakeBallot: those that stand for       *)
(* election are the holders at the end of the list.                        *)
(***************************************************************************)
\* Where the id is listed.
IndexOf(id) == CHOOSE i \in DOMAIN ids : ids[i] = id

\* weights[skip_holders:], by id.
Standing == {ids[i] : i \in (Max({0, skip}) + 1)..Len(ids)}

Ballot == INSTANCE StakeBallot WITH
  Genesis   <- Nobody,
  stake     <- [id \in ToSet(ids) |-> weights[IndexOf(id)]],
  standing  <- Standing,
  enrolling <- skip < 0,
  blocks    <- block_number,
  producer  <- producer_states[1].producer

\* Every transaction on the chain is a step of the ballot or leaves it alone: a
\* holder registered after the first block cannot be elected before the block
\* after next, nobody loses its turn because others register or leave, and only
\* a holder that stands produces a block.
ImplementsBallot == Ballot!Spec

=============================================================================
