---------------------------- MODULE ChainScripts ----------------------------
(***************************************************************************)
(* The scripts of a v0 chain, checking one transaction together: the chain *)
(* script (stakechain_v0.py), the script of the positions (stakeholder.py) *)
(* and the minting policy of their auth NFT (stakeholder_auth_nft.py).     *)
(*                                                                         *)
(* StakeChain takes for granted that a position is one thread of UTxOs.    *)
(* Here positions are UTxOs like any other: a transaction may spend        *)
(* several, mint and burn auth NFTs, send them anywhere, place look-alikes *)
(* at the address of the positions, and point the scripts at any of its    *)
(* inputs and outputs.  The scripts see one transaction and no history; no *)
(* single one of them checks everything.                                   *)
(*                                                                         *)
(* Also here: the transactions that the offchain code builds.              *)
(***************************************************************************)
EXTENDS Election, FiniteSets

CONSTANTS
  HolderIds,       \* stakechain_id values
  Keys,            \* names of UTxOs
  NoOutput,        \* a name that is not in use
  NoHolder,        \* an id without a position
  Nobody,          \* the producer of the genesis state
  Stakes,          \* amounts of stake coin in a position
  Made,            \* bound: the outputs that transactions make
  MaxOthers,       \* bound: unspent outputs that are no positions
  RegisterFee,     \* params.register_fee
  BlockFraction,   \* params.fraction_per_block
  MaxHolders,      \* params.max_holders
  GenesisSkip,     \* a new chain has skip_holders = -GenesisSkip
  GenesisReserve,  \* stake coin locked in the chain at its creation
  GenesisWallet,   \* stake coin held by the users
  SlotLength,      \* params.slot_length
  MaxTime,         \* bound: the ledger clock
  MaxBlocks        \* bound: blocks attached to the chain

\* What the scripts can see of an output: its auth NFTs, the id in its datum, its
\* stake coin, and whether it is at the address of the positions.
Outputs == [nft : Nat, id : HolderIds, stake : Stakes, guarded : BOOLEAN]

ASSUME MadeAssumption == Made \subseteq Outputs
ASSUME StakesAssumption == Stakes \subseteq Nat
ASSUME ParamsAssumption ==
  /\ RegisterFee \in Nat
  /\ BlockFraction \in [numerator : Nat, denominator : Nat \ {0}]
  /\ MaxHolders \in Nat
ASSUME AmountsAssumption == GenesisReserve \in Nat /\ GenesisWallet \in Nat
ASSUME SkipAssumption == GenesisSkip \in Nat \ {0}
ASSUME TimeAssumption == SlotLength \in Nat \ {0} /\ MaxTime \in Nat
ASSUME NoOutputAssumption == NoOutput \notin Outputs
ASSUME NoHolderAssumption == NoHolder \notin [id : HolderIds, stake : Stakes]

VARIABLES
  state,    \* the datum of the chain UTxO
  reserve,  \* stake coin in the chain UTxO
  utxos,    \* the outputs that are not spent
  wallet,   \* stake coin that is neither in the chain nor in a position
  now       \* the ledger's clock; genesis_time is 0

vars == <<state, reserve, utxos, wallet, now>>

Unspent == {k \in Keys : utxos[k] # NoOutput}

\* The position carries an auth NFT and is at its address.
IsPosition(output) == output.nft = 1 /\ output.guarded

-----------------------------------------------------------------------------
(***************************************************************************)
(* Broken variants of the definitions below, one plausible bug each.       *)
(***************************************************************************)
Bug_AnyAddress(output) == output.nft > 0
Bug_TokenNotChecked(output) == output.guarded
Bug_WeightInserted(index, stake) ==
  [state EXCEPT !.weights = InsertAt(@, index + 1, stake)]

\* A deregistration that leaves the count of skipped holders as it is.
Bug_SkipKept(position) ==
  LET index == Min({i \in DOMAIN state.ids : state.ids[i] = position.id}) - 1 IN
  [inputs  |-> <<position>>,
   outputs |-> <<>>,
   index   |-> index,
   state   |-> [state EXCEPT !.ids = RemoveAt(@, index + 1),
                             !.weights = RemoveAt(@, index + 1)],
   reserve |-> reserve + RegisterFee]

-----------------------------------------------------------------------------
(* The chain datum that each redeemer asks for.  Indices are the code's,   *)
(* which start at 0.                                                       *)

At(list, index) == list[index + 1]
InBounds(index) == index \in 0..(Len(state.ids) - 1)

Registered(id, stake) ==
  [state EXCEPT !.ids = <<id>> \o @, !.weights = <<stake>> \o @, !.skip = @ + 1]

Deregistered(index) ==
  IF index >= 0
    THEN [state EXCEPT !.ids = RemoveAt(@, index + 1),
                       !.weights = RemoveAt(@, index + 1),
                       !.skip = IF index < @ THEN @ - 1 ELSE @]
    ELSE state

Updated(index, stake) == [state EXCEPT !.weights = ReplaceAt(@, index + 1, stake)]

Mined(index, stake, slot, producer) ==
  [Updated(index, stake) EXCEPT !.slot = slot, !.skip = 0,
                                !.producers = <<producer>> \o @]

\* floor_fraction(scale_fraction(prev_reserve_amount, fraction_per_block))
Reward == (reserve * BlockFraction.numerator) \div BlockFraction.denominator

\* compute_slot_leader, for an arbitrary random number
IsSlotLeader(id) ==
  \E draw \in 0..(Total(Candidates(state.weights, state.skip)) - 1) :
    id = state.ids[SlotLeader(state.weights, state.skip, draw)]

\* check_slot_of_tx: the validity interval is within the slot, bounds included.
InSlot(slot) ==
  \E lower \in 0..now, upper \in (now + 1)..(MaxTime + 1) :
    slot * SlotLength <= lower /\ upper <= (slot + 1) * SlotLength

-----------------------------------------------------------------------------
(* A transaction: the outputs it spends and makes, by name.                *)

\* The sum of the amounts, natural numbers, counted unit by unit.
SumOf(amounts) ==
  Cardinality(UNION {{k} \X (1..amounts[k]) : k \in DOMAIN amounts})

NftOf(outputs) == SumOf([k \in DOMAIN outputs |-> outputs[k].nft])

\* What the transaction mints, negative if it burns: the ledger balances tokens.
Mint(tx) == NftOf(tx.outputs) - NftOf(tx.inputs)

\* Stake coin in positions.
StakeOf(outputs) ==
  SumOf([k \in DOMAIN outputs |->
           IF IsPosition(outputs[k]) THEN outputs[k].stake ELSE 0])

\* stakeholder.py runs for each position that is spent: DeregisterStake burns its
\* token, UpdateStake wants an output with it and no minting.
HolderScripts(tx) ==
  \A k \in DOMAIN tx.inputs :
    tx.inputs[k].guarded /\ tx.inputs[k].nft > 0 =>
      /\ \/ Mint(tx) = -1
         \/ Mint(tx) = 0 /\ \E o \in DOMAIN tx.outputs : tx.outputs[o].nft > 0
      /\ NftOf(tx.inputs) = 1

\* stakeholder_auth_nft.py: one token is minted, to the only output that has one;
\* burning is free.
MintingPolicy(tx) ==
  Mint(tx) > 0 =>
    /\ Mint(tx) = 1
    /\ Cardinality({o \in DOMAIN tx.outputs : tx.outputs[o].nft = 1}) = 1

\* check_valid_stake_holder; the owner's signature can always be obtained.
ValidHolder(output) == IsPosition(output)

(* What the chain script checks, besides the next datum and value.         *)

RegisterChecks(tx, new) ==
  /\ new \in DOMAIN tx.outputs
  /\ Len(state.ids) + 1 <= MaxHolders
  /\ tx.outputs[new].id \notin ToSet(state.ids)
  /\ ValidHolder(tx.outputs[new])
  /\ NftOf(tx.inputs) = 0
  /\ Mint(tx) = 1

DeregisterChecks(tx, old, index) ==
  /\ old \in DOMAIN tx.inputs
  /\ IF index >= 0
       THEN InBounds(index) /\ At(state.ids, index) = tx.inputs[old].id
       ELSE tx.inputs[old].id \notin ToSet(state.ids)
  /\ ValidHolder(tx.inputs[old])
  /\ NftOf(tx.inputs) = 1
  /\ Mint(tx) = -1

UpdateChecks(tx, old, new, index) ==
  /\ old \in DOMAIN tx.inputs
  /\ new \in DOMAIN tx.outputs
  /\ InBounds(index)
  /\ At(state.ids, index) = tx.inputs[old].id
  /\ ValidHolder(tx.inputs[old])
  /\ ValidHolder(tx.outputs[new])
  /\ tx.inputs[old].id = tx.outputs[new].id
  /\ NftOf(tx.inputs) = 1
  /\ Mint(tx) = 0

\* The producer's output is a reference input.
MineChecks(tx, old, new, index, leader, slot) ==
  /\ UpdateChecks(tx, old, new, index)
  /\ InSlot(slot)
  /\ slot > state.slot
  /\ ValidHolder(leader)
  /\ IsSlotLeader(leader.id)

-----------------------------------------------------------------------------
(* Accepted transactions.                                                  *)

Init ==
  /\ state = [ids |-> <<>>, weights |-> <<>>, skip |-> -GenesisSkip, slot |-> 0,
              producers |-> <<Nobody>>]
  /\ reserve = GenesisReserve
  /\ utxos = [k \in Keys |-> NoOutput]
  /\ wallet = GenesisWallet
  /\ now = 0

\* What the ledger does with it: no amount becomes negative.
Settle(tx) ==
  /\ utxos' = [k \in Keys |-> IF k \in DOMAIN tx.outputs THEN tx.outputs[k]
                              ELSE IF k \in DOMAIN tx.inputs THEN NoOutput
                              ELSE utxos[k]]
  /\ wallet' = wallet + StakeOf(tx.inputs) - StakeOf(tx.outputs) + reserve - reserve'
  /\ reserve' >= 0
  /\ wallet' >= 0
  /\ UNCHANGED now

RegisterStake(tx, new) ==
  /\ RegisterChecks(tx, new)
  /\ state' = Registered(tx.outputs[new].id, tx.outputs[new].stake)
  /\ reserve' = reserve + RegisterFee
  /\ Settle(tx)

DeregisterStake(tx, old, index) ==
  /\ DeregisterChecks(tx, old, index)
  /\ state' = Deregistered(index)
  /\ reserve' = reserve + RegisterFee
  /\ Settle(tx)

UpdateStake(tx, old, new, index) ==
  /\ UpdateChecks(tx, old, new, index)
  /\ state' = Updated(index, tx.outputs[new].stake)
  /\ reserve' = reserve
  /\ Settle(tx)

MineBlockUpdateStake(tx, old, new, index, leader, slot) ==
  /\ MineChecks(tx, old, new, index, leader, slot)
  /\ state' = Mined(index, tx.outputs[new].stake, slot, leader.id)
  /\ reserve' = reserve - Reward
  /\ Settle(tx)

\* A transaction without the chain: holder scripts and minting want the chain
\* among its inputs.
PlainTransaction(tx) ==
  /\ \A k \in DOMAIN tx.inputs : ~ (tx.inputs[k].guarded /\ tx.inputs[k].nft > 0)
  /\ Mint(tx) <= 0
  /\ UNCHANGED <<state, reserve>>
  /\ Settle(tx)

Tick ==
  /\ now < MaxTime
  /\ now' = now + 1
  /\ UNCHANGED <<state, reserve, utxos, wallet>>

Others == {k \in Unspent : ~ IsPosition(utxos[k])}

\* Any transaction that makes up to two outputs of interest.
Transact ==
  \E spent \in SUBSET Unspent, made \in SUBSET Keys :
    /\ IsFiniteSet(spent)
    /\ IsFiniteSet(made) /\ Cardinality(made) <= 2
    /\ made \cap Unspent \subseteq spent
    /\ \E outputs \in [made -> Made] :
         LET tx == [inputs |-> [k \in spent |-> utxos[k]], outputs |-> outputs]
             Indices == -1..(Len(state.ids) - 1)
         IN  \/ PlainTransaction(tx)
             \/ /\ HolderScripts(tx)
                /\ MintingPolicy(tx)
                /\ \/ \E new \in made : RegisterStake(tx, new)
                   \/ \E old \in spent, index \in Indices :
                        DeregisterStake(tx, old, index)
                   \/ \E old \in spent, new \in made, index \in Indices :
                        UpdateStake(tx, old, new, index)
                   \/ /\ Len(state.producers) - 1 < MaxBlocks
                      /\ \E old \in spent, new \in made, index \in Indices,
                            leader \in Unspent, slot \in 0..MaxTime :
                           MineBlockUpdateStake(tx, old, new, index,
                                                utxos[leader], slot)

Next == (Transact /\ Cardinality(Others') <= MaxOthers) \/ Tick

Spec == Init /\ [][Next]_vars

-----------------------------------------------------------------------------
(* What the offchain code builds, from the chain and the positions it sees. *)

\* stakeholder/init.py: a position for a new holder.
BuiltRegistration(id, stake) ==
  [inputs  |-> <<>>,
   outputs |-> <<[nft |-> 1, id |-> id, stake |-> stake, guarded |-> TRUE]>>,
   state   |-> [state EXCEPT !.ids = <<id>> \o @, !.weights = <<stake>> \o @,
                             !.skip = @ + 1],
   reserve |-> reserve + RegisterFee]

\* list.index(id), counted from 0
Index(id) == Min({i \in DOMAIN state.ids : state.ids[i] = id}) - 1

\* stakeholder/deregister.py: the position of a holder is burned.
BuiltDeregistration(position) ==
  LET index == Index(position.id) IN
  [inputs  |-> <<position>>,
   outputs |-> <<>>,
   index   |-> index,
   state   |-> [state EXCEPT !.ids = RemoveAt(@, index + 1),
                             !.weights = RemoveAt(@, index + 1),
                             !.skip = IF index < @ THEN @ - 1 ELSE @],
   reserve |-> reserve + RegisterFee]

\* stakechain/mine.py: the slot leader adds the reward to its own position.
BuiltBlock(position, slot) ==
  LET index == Index(position.id) IN
  [inputs  |-> <<position>>,
   outputs |-> <<[position EXCEPT !.stake = @ + Reward]>>,
   index   |-> index,
   state   |-> [state EXCEPT !.weights[index + 1] = @ + Reward, !.skip = 0,
                             !.slot = slot, !.producers = <<position.id>> \o @],
   reserve |-> reserve - Reward]

RegistrationIsAccepted(id, stake) ==
  LET tx == BuiltRegistration(id, stake) IN
  /\ HolderScripts(tx) /\ MintingPolicy(tx) /\ RegisterChecks(tx, 1)
  /\ tx.state = Registered(id, stake)
  /\ tx.reserve = reserve + RegisterFee

DeregistrationIsAccepted(position) ==
  LET tx == BuiltDeregistration(position) IN
  /\ HolderScripts(tx) /\ MintingPolicy(tx) /\ DeregisterChecks(tx, 1, tx.index)
  /\ tx.state = Deregistered(tx.index)
  /\ tx.reserve = reserve + RegisterFee

BlockIsAccepted(position, slot) ==
  LET tx == BuiltBlock(position, slot) IN
  /\ HolderScripts(tx) /\ MintingPolicy(tx)
  /\ MineChecks(tx, 1, 1, tx.index, position, slot)
  /\ tx.state = Mined(tx.index, tx.outputs[1].stake, slot, position.id)
  /\ tx.reserve = reserve - Reward

-----------------------------------------------------------------------------
TypeOK ==
  /\ state \in [ids : Seq(HolderIds), weights : Seq(Stakes), skip : Int,
               slot : 0..MaxTime, producers : Seq(HolderIds \cup {Nobody})]
  /\ Len(state.weights) = Len(state.ids)
  /\ reserve \in Nat
  /\ utxos \in [Keys -> Outputs \cup {NoOutput}]
  /\ wallet \in Nat
  /\ now \in 0..MaxTime

Positions == {k \in Unspent : IsPosition(utxos[k])}

\* An auth NFT is always alone in an output at the address of the positions, and
\* there is one for each listed id: no transaction takes a token out, merges or
\* copies positions, or registers a look-alike.
TokensArePositions ==
  /\ \A k \in Unspent \ Positions : utxos[k].nft = 0
  /\ \A id \in HolderIds :
       Cardinality({k \in Positions : utxos[k].id = id})
         = Cardinality({i \in DOMAIN state.ids : state.ids[i] = id})

\* What the tools build on the current state is accepted whenever it should be: a
\* new id while there is room, the end of any position, a block of whoever is
\* elected.  They compute the next datum by code of their own.
ToolsAreAccepted ==
  /\ \A id \in HolderIds \ ToSet(state.ids), stake \in Stakes :
       Len(state.ids) < MaxHolders => RegistrationIsAccepted(id, stake)
  /\ \A k \in Positions : DeregistrationIsAccepted(utxos[k])
  /\ \A k \in Positions, slot \in (state.slot + 1)..MaxTime :
       InSlot(slot) /\ IsSlotLeader(utxos[k].id) => BlockIsAccepted(utxos[k], slot)

-----------------------------------------------------------------------------
(***************************************************************************)
(* The scripts implement StakeChain: the position of an id is the output   *)
(* that carries a token and that id.                                       *)
(***************************************************************************)
Voteless == "no proposal"

V0Params ==
  [version |-> "v0", upgrade_approval |-> "v0", register_fee |-> RegisterFee,
   fraction_per_block |-> BlockFraction, max_holders |-> MaxHolders,
   slot_leader_interval |-> 1]

HolderOf(id) ==
  LET keys == {k \in Positions : utxos[k].id = id} IN
  IF keys = {} THEN NoHolder
  ELSE [id |-> id, stake |-> utxos[CHOOSE k \in keys : TRUE].stake]

HolderById == [id \in HolderIds |-> HolderOf(id)]

ProducerStates ==
  [i \in DOMAIN state.producers |->
     [producer |-> state.producers[i], auxiliary |-> Voteless]]

Chain == INSTANCE StakeChain WITH
  Positions       <- HolderIds,
  GenesisAddress  <- "v0",
  GenesisParams   <- V0Params,
  AgreementLength <- 1,
  Proposals       <- {},
  NoProposal      <- Voteless,
  KeepAddress     <- "keep",
  KeepParams      <- "keep",
  address         <- "v0",
  params          <- V0Params,
  ids             <- state.ids,
  weights         <- state.weights,
  skip            <- state.skip,
  slot_number     <- state.slot,
  producer_states <- ProducerStates,
  holder          <- HolderById

\* Every transaction that the scripts accept together is a step of StakeChain on
\* the position it names, or leaves chain and positions alone.
ImplementsChain == Chain!Spec

=============================================================================
