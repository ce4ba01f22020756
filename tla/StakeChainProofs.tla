-------------------------- MODULE StakeChainProofs --------------------------
(***************************************************************************)
(* Theorems about StakeChain, for every value of its constants.            *)
(***************************************************************************)
EXTENDS StakeChain, CommonLemmas

-----------------------------------------------------------------------------
(* Type correctness.                                                       *)

\* The block reward is a whole number of stake coin.
LEMMA RewardIsInteger ==
  ASSUME TypeOK
  PROVE  BlockReward \in Int
BY DEF TypeOK, BlockReward, Params

\* What a transaction that changes one position's stake leaves behind.
LEMMA RestakeType ==
  ASSUME TypeOK, NEW p \in Positions, NEW index \in DOMAIN ids,
         NEW stake \in Stakes, Restake(p, index, stake)
  PROVE  /\ ids' = ids
         /\ weights' \in Seq(Stakes)
         /\ Len(weights') = Len(ids)
         /\ holder' \in [Positions -> Holder \cup {NoHolder}]
         /\ holder[p].stake \in Nat
         /\ holder[p].id \in HolderIds
<1>1. index \in 1..Len(weights)
  BY LenProperties DEF TypeOK
<1>2. weights' = ReplaceAt(weights, index, stake) /\ weights \in Seq(Stakes)
  BY DEF TypeOK, Restake, WeightsWith
<1>3. weights' \in Seq(Stakes) /\ Len(weights') = Len(ids)
  BY <1>1, <1>2, ReplaceAtProperties DEF TypeOK
<1>4. holder[p] \in Holder
  BY DEF TypeOK, Restake, Live
<1>5. holder' \in [Positions -> Holder \cup {NoHolder}]
  <2>1. holder' = [holder EXCEPT ![p] = [holder[p] EXCEPT !.stake = stake]]
    BY DEF Restake
  <2>2. [holder[p] EXCEPT !.stake = stake] \in Holder
    BY <1>4 DEF Holder
  <2>. QED
    BY <2>1, <2>2 DEF TypeOK
<1>. QED
  BY <1>3, <1>4, <1>5, StakesAssumption DEF Holder, Restake

\* A registration keeps lists and amounts well formed.
LEMMA RegisterType ==
  ASSUME TypeOK, NEW p \in Positions, NEW id \in HolderIds,
         NEW stake \in Stakes, RegisterStake(p, id, stake)
  PROVE  TypeOK'
<1>1. /\ ids' \in Seq(HolderIds)
      /\ Len(ids') = Len(ids) + 1
  BY PrependProperties DEF TypeOK, RegisterStake, NewRegisteredState
<1>2. /\ weights' \in Seq(Stakes)
      /\ Len(weights') = Len(weights) + 1
  BY PrependProperties DEF TypeOK, RegisterStake, NewRegisteredState
<1>3. skip' \in Int
  BY DEF TypeOK, RegisterStake, NewRegisteredState, PaysRegisterFee, SkipAfterRegistration
<1>4. reserve' \in Nat
  BY DEF TypeOK, RegisterStake, NewRegisteredState, PaysRegisterFee, Params
<1>5. holder' \in [Positions -> Holder \cup {NoHolder}]
  BY DEF TypeOK, RegisterStake, NewRegisteredState, PaysRegisterFee, Holder
<1>6. wallet' \in Nat
  BY StakesAssumption DEF TypeOK, RegisterStake, PaysRegisterFee, Params, Funded
<1>. QED
  BY <1>1, <1>2, <1>3, <1>4, <1>5, <1>6 DEF TypeOK, RegisterStake

\* A deregistration does, whether or not the id was in the list.
LEMMA DeregisterType ==
  ASSUME TypeOK, NEW p \in Positions, NEW index \in {NotListed} \cup DOMAIN ids,
         DeregisterStake(p, index)
  PROVE  TypeOK'
<1>1. /\ ids' \in Seq(HolderIds)
      /\ weights' \in Seq(Stakes)
      /\ Len(weights') = Len(ids')
      /\ skip' \in Int
  <2>1. CASE index = NotListed
    BY <2>1 DEF TypeOK, DeregisterStake, NewDeregisteredState, registry
  <2>2. CASE index # NotListed
    <3>1. index \in 1..Len(ids) /\ index \in 1..Len(weights)
      BY <2>2, LenProperties DEF TypeOK
    <3>2. ids' = RemoveAt(ids, index) /\ weights' = RemoveAt(weights, index)
      BY <2>2 DEF DeregisterStake, NewDeregisteredState, registry
    <3>3. ids' \in Seq(HolderIds) /\ Len(ids') = Len(ids) - 1
      BY <3>1, <3>2, RemoveAtProperties DEF TypeOK
    <3>4. weights' \in Seq(Stakes) /\ Len(weights') = Len(weights) - 1
      BY <3>1, <3>2, RemoveAtProperties DEF TypeOK
    <3>5. skip' \in Int
      BY <2>2 DEF TypeOK, DeregisterStake, NewDeregisteredState, SkipAfterRemoval
    <3>. QED
      BY <3>3, <3>4, <3>5 DEF TypeOK
  <2>. QED
    BY <2>1, <2>2
<1>2. reserve' \in Nat
  BY DEF TypeOK, DeregisterStake, PaysRegisterFee, Params
<1>3. holder' \in [Positions -> Holder \cup {NoHolder}]
  BY DEF TypeOK, DeregisterStake, PaysRegisterFee
<1>4. wallet' \in Nat
  <2>1. holder[p].stake \in Nat
    BY StakesAssumption DEF TypeOK, DeregisterStake, PaysRegisterFee, Live, Holder
  <2>. QED
    BY <2>1 DEF TypeOK, DeregisterStake, Params, Funded
<1>. QED
  BY <1>1, <1>2, <1>3, <1>4 DEF TypeOK, DeregisterStake

\* A change of stake does.
LEMMA UpdateType ==
  ASSUME TypeOK, NEW p \in Positions, NEW index \in DOMAIN ids,
         NEW stake \in Stakes, UpdateStake(p, index, stake)
  PROVE  TypeOK'
<1>1. Restake(p, index, stake)
  BY DEF UpdateStake
<1>2. wallet' \in Nat
  BY <1>1, RestakeType, StakesAssumption DEF TypeOK, UpdateStake, Funded
<1>. QED
  BY <1>1, <1>2, RestakeType DEF TypeOK, UpdateStake

\* A block does; that the reward fits in the reserve is up to the ledger.
LEMMA MineType ==
  ASSUME TypeOK,
         NEW leader \in Positions, NEW slot \in 0..MaxTime,
         NEW auxiliary \in Proposals \cup {NoProposal},
         NEW p \in Positions, NEW index \in DOMAIN ids, NEW stake \in Stakes,
         MineBlockUpdateStake(leader, slot, auxiliary, p, index, stake)
  PROVE  TypeOK'
<1>1. Restake(p, index, stake)
  BY DEF MineBlockUpdateStake, NewMinedState, NewChainState
<1>2. slot_number' \in Nat
  BY TimeAssumption DEF MineBlockUpdateStake, NewMinedState, NewChainState
<1>3. producer_states' \in Seq(ProducerState)
  <2>. DEFINE block == [producer |-> holder[leader].id, auxiliary |-> auxiliary]
  <2>1. holder[leader].id \in HolderIds
    BY DEF TypeOK, MineBlockUpdateStake, NewMinedState, NewChainState, Live, Holder
  <2>2. block \in ProducerState
    BY <2>1 DEF ProducerState
  <2>3. producer_states' = <<block>> \o producer_states
    BY DEF MineBlockUpdateStake, NewMinedState
  <2>. HIDE DEF block
  <2>. QED
    BY <2>2, <2>3, PrependProperties DEF TypeOK
<1>4. reserve' \in Nat
  BY RewardIsInteger DEF TypeOK, MineBlockUpdateStake, NewMinedState, Funded
<1>5. wallet' \in Nat
  BY <1>1, RestakeType, RewardIsInteger, StakesAssumption
     DEF TypeOK, MineBlockUpdateStake, NewMinedState, Funded
<1>. QED
  BY <1>1, <1>2, <1>3, <1>4, <1>5, RestakeType DEF TypeOK, MineBlockUpdateStake, NewMinedState

\* An upgrade does, as the proposals carry well-formed parameters.
LEMMA UpgradeType ==
  ASSUME TypeOK, NEW proposal \in Proposals, UpgradeProtocol(proposal)
  PROVE  TypeOK'
<1>1. /\ proposal.address \in Versions \cup {KeepAddress}
      /\ proposal.params \in Params \cup {KeepParams}
      /\ proposal.treasury \in Nat
      /\ proposal.payout \in Nat
  BY ProposalsAssumption
<1>2. params' \in Params /\ address' \in Versions
  BY <1>1 DEF TypeOK, UpgradeProtocol
<1>3. reserve' \in Nat /\ wallet' \in Nat
  BY <1>1 DEF TypeOK, UpgradeProtocol, Funded
<1>. QED
  BY <1>2, <1>3 DEF TypeOK, UpgradeProtocol, registry

\* The clock does not touch the chain.
LEMMA TickType ==
  ASSUME TypeOK, Tick
  PROVE  TypeOK'
BY DEF TypeOK, Tick, chain, registry

\* A step is one of the six actions or changes nothing.
LEMMA StepTypes ==
  ASSUME TypeOK, [Next]_vars
  PROVE  TypeOK'
<1>1. CASE UNCHANGED vars
  BY <1>1 DEF TypeOK, vars, chain, registry
<1>. QED
  BY <1>1, RegisterType, DeregisterType, UpdateType, MineType, UpgradeType,
     TickType DEF Next

\* A new chain is well typed.
LEMMA InitTypes == Init => TypeOK
<1>. SUFFICES ASSUME Init
              PROVE  TypeOK
  OBVIOUS
<1>1. <<>> \in Seq(HolderIds) /\ <<>> \in Seq(Stakes)
  OBVIOUS
<1>2. producer_states \in Seq(ProducerState)
  BY DEF Init, Genesis, ProducerState
<1>3. address \in Versions /\ params \in Params /\ skip \in Int /\ reserve \in Nat
  BY ParamsAssumption, SkipAssumption, AmountsAssumption DEF Init, Genesis
<1>4. wallet \in Nat
  BY AmountsAssumption DEF Init
<1>. QED
  BY <1>1, <1>2, <1>3, <1>4 DEF Init, Genesis, TypeOK

\* Every reachable state is well typed; in particular no amount of stake coin
\* is ever negative, and every registered id has a weight.
THEOREM TypeCorrectness == Spec => []TypeOK
<1>1. Init => TypeOK
  BY InitTypes
<1>2. TypeOK /\ [Next]_vars => TypeOK'
  BY StepTypes
<1>. QED
  BY <1>1, <1>2, PTL DEF Spec

-----------------------------------------------------------------------------
(* The registry describes the positions.                                   *)

\* A registration adds a fresh id in front and its position on the ledger: the
\* positions registered before are found one place further back.
LEMMA RegisterPreservesRegistry ==
  ASSUME TypeOK, RegistryMatchesHolders,
         NEW p \in Positions, NEW id \in HolderIds, NEW stake \in Stakes,
         RegisterStake(p, id, stake)
  PROVE  RegistryMatchesHolders'
<1>. USE DEF RegistryMatchesHolders
<1>1. /\ Len(ids) \in Nat /\ Len(ids) = Len(weights)
      /\ DOMAIN ids = 1..Len(ids)
      /\ DOMAIN ids' = 1..(Len(ids) + 1)
      /\ ids'[1] = id
      /\ \A i \in DOMAIN ids : ids'[i + 1] = ids[i]
  BY PrependProperties, LenProperties DEF TypeOK, RegisterStake, NewRegisteredState
<1>2. /\ weights'[1] = stake
      /\ \A i \in DOMAIN ids : weights'[i + 1] = weights[i]
  BY <1>1, PrependProperties DEF TypeOK, RegisterStake, NewRegisteredState
<1>3. /\ p \notin Live
      /\ Live' = Live \cup {p}
      /\ holder'[p] = [id |-> id, stake |-> stake]
      /\ \A q \in Live : holder'[q] = holder[q]
  <2>1. [id |-> id, stake |-> stake] # NoHolder
    BY NoHolderAssumption DEF Holder
  <2>. QED
    BY <2>1 DEF TypeOK, RegisterStake, NewRegisteredState, Live
<1>4. \A i \in DOMAIN ids : ids[i] # id
  BY DEF RegisterStake, NewRegisteredState, ToSet
<1>5. \A i \in DOMAIN ids' : i = 1 \/ (i - 1 \in DOMAIN ids /\ ids'[i] = ids[i - 1])
  <2>. SUFFICES ASSUME NEW i \in DOMAIN ids', i # 1
                PROVE  i - 1 \in DOMAIN ids /\ ids'[i] = ids[i - 1]
    OBVIOUS
  <2>1. i - 1 \in DOMAIN ids /\ (i - 1) + 1 = i
    BY <1>1
  <2>. QED
    BY <2>1, <1>1
<1>6. IdsAreDistinct'
  <2>. SUFFICES ASSUME NEW i \in DOMAIN ids', NEW j \in DOMAIN ids',
                       ids'[i] = ids'[j]
                PROVE  i = j
    BY DEF IdsAreDistinct
  <2>1. CASE i = 1 \/ j = 1
    BY <2>1, <1>1, <1>4, <1>5
  <2>2. CASE i # 1 /\ j # 1
    <3>1. i - 1 = j - 1
      BY <2>2, <1>5 DEF IdsAreDistinct
    <3>. QED
      BY <3>1, <1>1
  <2>. QED
    BY <2>1, <2>2
<1>7. HoldersAreRegistered'
  <2>. SUFFICES ASSUME NEW q \in Live'
                PROVE  \E i \in DOMAIN ids' :
                         ids'[i] = holder'[q].id /\ weights'[i] = holder'[q].stake
    BY DEF HoldersAreRegistered
  <2>1. CASE q = p
    BY <2>1, <1>1, <1>2, <1>3
  <2>2. CASE q \in Live
    <3>1. PICK i \in DOMAIN ids :
            ids[i] = holder[q].id /\ weights[i] = holder[q].stake
      BY <2>2 DEF HoldersAreRegistered
    <3>2. i + 1 \in DOMAIN ids'
      BY <1>1
    <3>. QED
      BY <2>2, <3>1, <3>2, <1>1, <1>2, <1>3
  <2>. QED
    BY <2>1, <2>2, <1>3
<1>8. RegisteredAreHolders'
  <2>. SUFFICES ASSUME NEW i \in DOMAIN ids'
                PROVE  \E q \in Live' : holder'[q].id = ids'[i]
    BY DEF RegisteredAreHolders
  <2>1. CASE i = 1
    BY <2>1, <1>1, <1>3
  <2>2. CASE i # 1
    BY <2>2, <1>3, <1>5 DEF RegisteredAreHolders
  <2>. QED
    BY <2>1, <2>2
<1>9. PositionsAreDistinct'
  <2>1. \A q \in Live : holder[q].id # id
    BY <1>4 DEF HoldersAreRegistered
  <2>. QED
    BY <2>1, <1>3 DEF PositionsAreDistinct
<1>. QED
  BY <1>6, <1>7, <1>8, <1>9

\* A deregistration removes the entry of the very position it closes, because a
\* live position is always listed, and listed once.
LEMMA DeregisterPreservesRegistry ==
  ASSUME TypeOK, RegistryMatchesHolders,
         NEW p \in Positions, NEW index \in {NotListed} \cup DOMAIN ids,
         DeregisterStake(p, index)
  PROVE  RegistryMatchesHolders'
<1>. USE DEF RegistryMatchesHolders
<1>1. p \in Live
  BY DEF DeregisterStake
<1>2. index # NotListed
  \* A position on the ledger is in the registry.
  <2>1. PICK i \in DOMAIN ids : ids[i] = holder[p].id
    BY <1>1 DEF HoldersAreRegistered
  <2>. QED
    BY <2>1 DEF DeregisterStake, NewDeregisteredState, ToSet
<1>3. /\ index \in DOMAIN ids
      /\ ids[index] = holder[p].id
      /\ ids' = RemoveAt(ids, index)
      /\ weights' = RemoveAt(weights, index)
  BY <1>2 DEF DeregisterStake, NewDeregisteredState
<1>4. /\ Len(ids) \in Nat /\ Len(weights) = Len(ids)
      /\ DOMAIN ids = 1..Len(ids)
      /\ DOMAIN ids' = 1..(Len(ids) - 1)
      /\ index \in Int
  BY <1>3, RemoveAtProperties, LenProperties DEF TypeOK
<1>5. \A i \in 1..(Len(ids) - 1) :
        /\ ids'[i] = IF i < index THEN ids[i] ELSE ids[i + 1]
        /\ weights'[i] = IF i < index THEN weights[i] ELSE weights[i + 1]
  <2>1. /\ ids \in Seq(HolderIds) /\ index \in 1..Len(ids)
        /\ weights \in Seq(Stakes) /\ index \in 1..Len(weights)
    BY <1>3, <1>4 DEF TypeOK
  <2>2. \A i \in 1..(Len(ids) - 1) :
          RemoveAt(ids, index)[i] = IF i < index THEN ids[i] ELSE ids[i + 1]
    BY ONLY <2>1, RemoveAtProperties
  <2>3. \A i \in 1..(Len(weights) - 1) :
          RemoveAt(weights, index)[i]
            = IF i < index THEN weights[i] ELSE weights[i + 1]
    BY ONLY <2>1, RemoveAtProperties
  <2>. QED
    BY <2>2, <2>3, <1>3, <1>4
<1>. DEFINE old(i) == IF i < index THEN i ELSE i + 1
<1>6. \A i \in DOMAIN ids' :
        /\ old(i) \in DOMAIN ids \ {index}
        /\ ids'[i] = ids[old(i)]
        /\ weights'[i] = weights[old(i)]
  BY <1>4, <1>5
<1>7. \A k \in DOMAIN ids \ {index} : \E i \in DOMAIN ids' : k = old(i)
  <2>. SUFFICES ASSUME NEW k \in DOMAIN ids, k # index
                PROVE  \E i \in DOMAIN ids' : k = old(i)
    OBVIOUS
  <2>1. CASE k < index
    <3>1. k \in DOMAIN ids' /\ k = old(k)
      BY <2>1, <1>3, <1>4
    <3>. QED
      BY <3>1
  <2>2. CASE ~ (k < index)
    <3>1. k - 1 \in DOMAIN ids' /\ k = old(k - 1)
      BY <2>2, <1>3, <1>4
    <3>. QED
      BY <3>1
  <2>. QED
    BY <2>1, <2>2
<1>8. \A i, j \in DOMAIN ids' : old(i) = old(j) => i = j
  BY <1>4
<1>. HIDE DEF old
<1>9. /\ Live' = Live \ {p}
      /\ \A q \in Live' : holder'[q] = holder[q] /\ q \in Live /\ q # p
  BY <1>1 DEF TypeOK, DeregisterStake, Live
<1>10. IdsAreDistinct'
  BY <1>6, <1>8 DEF IdsAreDistinct
<1>11. HoldersAreRegistered'
  <2>. SUFFICES ASSUME NEW q \in Live'
                PROVE  \E i \in DOMAIN ids' :
                         ids'[i] = holder'[q].id /\ weights'[i] = holder'[q].stake
    BY DEF HoldersAreRegistered
  <2>1. PICK k \in DOMAIN ids :
          ids[k] = holder[q].id /\ weights[k] = holder[q].stake
    BY <1>9 DEF HoldersAreRegistered
  <2>2. k # index
    BY <2>1, <1>1, <1>3, <1>9 DEF PositionsAreDistinct
  <2>3. PICK i \in DOMAIN ids' : k = old(i)
    BY <2>2, <1>7
  <2>. QED
    BY <2>1, <2>3, <1>6, <1>9
<1>12. RegisteredAreHolders'
  <2>. SUFFICES ASSUME NEW i \in DOMAIN ids'
                PROVE  \E q \in Live' : holder'[q].id = ids'[i]
    BY DEF RegisteredAreHolders
  <2>1. PICK q \in Live : holder[q].id = ids[old(i)]
    BY <1>6 DEF RegisteredAreHolders
  <2>2. q # p
    BY <2>1, <1>3, <1>6 DEF IdsAreDistinct
  <2>. QED
    BY <2>1, <2>2, <1>6, <1>9
<1>13. PositionsAreDistinct'
  BY <1>9 DEF PositionsAreDistinct
<1>. QED
  BY <1>10, <1>11, <1>12, <1>13

\* A change of stake is written to the entry of the position it changes, and to
\* no other entry.
LEMMA RestakePreservesRegistry ==
  ASSUME TypeOK, RegistryMatchesHolders,
         NEW p \in Positions, NEW index \in DOMAIN ids, NEW stake \in Stakes,
         Restake(p, index, stake)
  PROVE  RegistryMatchesHolders'
<1>. USE DEF RegistryMatchesHolders
<1>1. /\ p \in Live
      /\ ids[index] = holder[p].id
      /\ ids' = ids
  BY DEF Restake
<1>2. \A i \in DOMAIN ids :
        weights'[i] = IF i = index THEN stake ELSE weights[i]
  <2>1. DOMAIN ids = 1..Len(weights) /\ index \in 1..Len(weights)
    BY LenProperties DEF TypeOK
  <2>2. weights' = ReplaceAt(weights, index, stake) /\ weights \in Seq(Stakes)
    BY DEF TypeOK, Restake, WeightsWith
  <2>3. \A i \in 1..Len(weights) :
          ReplaceAt(weights, index, stake)[i] =
            IF i = index THEN stake ELSE weights[i]
    BY <2>1, <2>2, ExceptSeq DEF ReplaceAt
  <2>. QED
    BY <2>1, <2>2, <2>3
<1>3. /\ Live' = Live
      /\ holder'[p].id = holder[p].id /\ holder'[p].stake = stake
      /\ \A q \in Live \ {p} : holder'[q] = holder[q]
  <2>1. holder' = [holder EXCEPT ![p] = [holder[p] EXCEPT !.stake = stake]]
    BY DEF Restake
  <2>2. holder[p] \in Holder
    BY <1>1 DEF TypeOK, Live
  <2>3. [holder[p] EXCEPT !.stake = stake] \in Holder
    BY <2>2 DEF Holder
  <2>4. [holder[p] EXCEPT !.stake = stake] # NoHolder
    BY <2>3, NoHolderAssumption
  <2>. QED
    BY <1>1, <2>1, <2>2, <2>4 DEF TypeOK, Live, Holder
<1>4. IdsAreDistinct'
  BY <1>1 DEF IdsAreDistinct
<1>5. HoldersAreRegistered'
  <2>. SUFFICES ASSUME NEW q \in Live
                PROVE  \E i \in DOMAIN ids :
                         ids[i] = holder'[q].id /\ weights'[i] = holder'[q].stake
    BY <1>1, <1>3 DEF HoldersAreRegistered
  <2>1. CASE q = p
    BY <2>1, <1>1, <1>2, <1>3
  <2>2. CASE q # p
    <3>1. PICK i \in DOMAIN ids :
            ids[i] = holder[q].id /\ weights[i] = holder[q].stake
      BY DEF HoldersAreRegistered
    <3>2. i # index
      BY <2>2, <3>1, <1>1 DEF PositionsAreDistinct
    <3>. QED
      BY <2>2, <3>1, <3>2, <1>2, <1>3
  <2>. QED
    BY <2>1, <2>2
<1>6. RegisteredAreHolders'
  BY <1>1, <1>3 DEF RegisteredAreHolders
<1>7. PositionsAreDistinct'
  BY <1>3 DEF PositionsAreDistinct
<1>. QED
  BY <1>4, <1>5, <1>6, <1>7

\* No transaction makes the list and the positions disagree.
LEMMA StepPreservesRegistry ==
  ASSUME TypeOK, RegistryMatchesHolders, [Next]_vars
  PROVE  RegistryMatchesHolders'
<1>1. ASSUME UNCHANGED <<ids, weights, holder>>
      PROVE  RegistryMatchesHolders'
  BY <1>1 DEF RegistryMatchesHolders, IdsAreDistinct, HoldersAreRegistered,
              RegisteredAreHolders, PositionsAreDistinct, Live
<1>2. CASE UNCHANGED vars
  BY <1>1, <1>2 DEF vars, chain, registry
<1>3. ASSUME NEW p \in Positions, NEW index \in DOMAIN ids, NEW stake \in Stakes,
             UpdateStake(p, index, stake)
      PROVE  RegistryMatchesHolders'
  BY <1>3, RestakePreservesRegistry DEF UpdateStake
<1>4. ASSUME NEW leader \in Positions, NEW slot \in 0..MaxTime,
             NEW auxiliary \in Proposals \cup {NoProposal},
             NEW p \in Positions, NEW index \in DOMAIN ids, NEW stake \in Stakes,
             MineBlockUpdateStake(leader, slot, auxiliary, p, index, stake)
      PROVE  RegistryMatchesHolders'
  BY <1>4, RestakePreservesRegistry DEF MineBlockUpdateStake
<1>5. ASSUME NEW proposal \in Proposals, UpgradeProtocol(proposal)
      PROVE  RegistryMatchesHolders'
  BY <1>1, <1>5 DEF UpgradeProtocol, registry
<1>6. CASE Tick
  BY <1>1, <1>6 DEF Tick, chain, registry
<1>. QED
  BY <1>2, <1>3, <1>4, <1>5, <1>6, RegisterPreservesRegistry,
     DeregisterPreservesRegistry DEF Next

\* The list of holders in the chain datum and the positions on the ledger
\* describe the same holders and stakes in every reachable state.  The
\* invariant is inductive together with the type invariant: that ids are
\* distinct is what makes an edit by index hit the right holder, and that no
\* position is missing in the list is what keeps ids distinct.
THEOREM RegistryIsFaithful == Spec => []RegistryMatchesHolders
<1>1. Init => RegistryMatchesHolders
  BY DEF Init, Genesis, RegistryMatchesHolders, IdsAreDistinct,
         HoldersAreRegistered, RegisteredAreHolders, PositionsAreDistinct, Live
<1>2. TypeOK /\ RegistryMatchesHolders /\ [Next]_vars => RegistryMatchesHolders'
  BY StepPreservesRegistry
<1>. QED
  BY <1>1, <1>2, TypeCorrectness, PTL DEF Spec

-----------------------------------------------------------------------------
(* The skipped holders, and the chain that has none left to elect.         *)

\* A registration lengthens the list and the skipped part of it together.
LEMMA RegisteredIsLonger ==
  ASSUME TypeOK, NEW p \in Positions, NEW id \in HolderIds,
         NEW stake \in Stakes, RegisterStake(p, id, stake)
  PROVE  Len(ids') = Len(ids) + 1 /\ skip' = skip + 1
BY PrependProperties DEF TypeOK, RegisterStake, NewRegisteredState, SkipAfterRegistration

\* A deregistration shortens the list by one, and the skipped part too when the
\* holder that leaves is in it.
LEMMA DeregisteredIsShorter ==
  ASSUME TypeOK, NEW p \in Positions, NEW index \in {NotListed} \cup DOMAIN ids,
         DeregisterStake(p, index)
  PROVE  \/ ids' = ids /\ skip' = skip
         \/ /\ Len(ids') = Len(ids) - 1
            /\ index \in 1..Len(ids)
            /\ skip' = IF index <= skip THEN skip - 1 ELSE skip
<1>1. CASE index = NotListed
  BY <1>1 DEF DeregisterStake, NewDeregisteredState, registry
<1>2. CASE index # NotListed
  <2>1. index \in 1..Len(ids)
    BY <1>2, LenProperties DEF TypeOK
  <2>2. ids' = RemoveAt(ids, index) /\ skip' = SkipAfterRemoval(index)
    BY <1>2 DEF DeregisterStake, NewDeregisteredState, registry
  <2>. QED
    BY <2>1, <2>2, RemoveAtProperties DEF TypeOK, SkipAfterRemoval
<1>. QED
  BY <1>1, <1>2

\* No transaction moves skip_holders out of the list.
LEMMA StepPreservesSkip ==
  ASSUME TypeOK, SkipWithinRegistry, [Next]_vars
  PROVE  SkipWithinRegistry'
<1>. USE DEF SkipWithinRegistry, block_number
<1>1. Len(ids) \in Nat /\ skip \in Int /\ Len(producer_states) \in Nat
  BY LenProperties DEF TypeOK
<1>2. ASSUME UNCHANGED <<ids, skip, producer_states>>
      PROVE  SkipWithinRegistry'
  BY <1>2
<1>3. CASE UNCHANGED vars
  BY <1>2, <1>3 DEF vars, chain, registry
<1>4. ASSUME NEW p \in Positions, NEW id \in HolderIds, NEW stake \in Stakes,
             RegisterStake(p, id, stake)
      PROVE  SkipWithinRegistry'
  <2>1. producer_states' = producer_states
    BY <1>4 DEF RegisterStake
  <2>2. Len(ids') = Len(ids) + 1 /\ skip' = skip + 1
    BY <1>4, RegisteredIsLonger
  <2>. QED
    BY <1>1, <2>1, <2>2
<1>5. ASSUME NEW p \in Positions, NEW index \in {NotListed} \cup DOMAIN ids,
             DeregisterStake(p, index)
      PROVE  SkipWithinRegistry'
  <2>1. producer_states' = producer_states
    BY <1>5 DEF DeregisterStake
  <2>. QED
    BY <1>1, <1>5, <2>1, DeregisteredIsShorter
<1>6. ASSUME NEW p \in Positions, NEW index \in DOMAIN ids, NEW stake \in Stakes,
             UpdateStake(p, index, stake)
      PROVE  SkipWithinRegistry'
  BY <1>2, <1>6 DEF UpdateStake, Restake
<1>7. ASSUME NEW leader \in Positions, NEW slot \in 0..MaxTime,
             NEW auxiliary \in Proposals \cup {NoProposal},
             NEW p \in Positions, NEW index \in DOMAIN ids, NEW stake \in Stakes,
             MineBlockUpdateStake(leader, slot, auxiliary, p, index, stake)
      PROVE  SkipWithinRegistry'
  <2>1. skip' = 0 /\ ids' = ids
    BY <1>7 DEF MineBlockUpdateStake, NewMinedState, Restake
  <2>. QED
    BY <1>1, <2>1
<1>8. ASSUME NEW proposal \in Proposals, UpgradeProtocol(proposal)
      PROVE  SkipWithinRegistry'
  BY <1>2, <1>8 DEF UpgradeProtocol, registry
<1>9. CASE Tick
  BY <1>2, <1>9 DEF Tick, chain, registry
<1>. QED
  BY <1>3, <1>4, <1>5, <1>6, <1>7, <1>8, <1>9 DEF Next

\* skip_holders never exceeds the number of registered holders, and is never
\* negative once a block has been attached: the slice weights[skip_holders:]
\* is then exactly the holders that do not wait for their first block.
THEOREM SkipStaysInRegistry == Spec => []SkipWithinRegistry
<1>1. Init => SkipWithinRegistry
  BY SkipAssumption DEF Init, Genesis, SkipWithinRegistry, block_number
<1>2. TypeOK /\ SkipWithinRegistry /\ [Next]_vars => SkipWithinRegistry'
  BY StepPreservesSkip
<1>. QED
  BY <1>1, <1>2, TypeCorrectness, PTL DEF Spec

\* Nobody is drawn from an empty list of candidates.
LEMMA NoCandidatesNoLeader ==
  ASSUME TypeOK, Stalled, NEW id
  PROVE  ~ IsSlotLeader(id)
<1>1. Len(ids) \in Nat /\ skip \in Int /\ skip >= 0 /\ Len(weights) = skip
  BY LenProperties DEF TypeOK, Stalled
<1>2. Candidates(weights, skip) = SubSeq(weights, skip + 1, Len(weights))
  BY <1>1 DEF Candidates
<1>3. Candidates(weights, skip) = <<>>
  BY <1>1, <1>2, SubSeqEmpty
<1>4. Total(<<>>) = 0
  <2>. DEFINE sums(f) == [i \in 0..0 |-> IF i = 0 THEN 0 ELSE f[i - 1] + <<>>[i]]
  <2>1. Upto(<<>>) = CHOOSE f : f = sums(f)
    BY Len(<<>>) = 0 DEF Upto
  <2>2. \E f : f = sums(f)
    <3>1. [i \in 0..0 |-> 0] = sums([i \in 0..0 |-> 0])
      OBVIOUS
    <3>. QED
      BY <3>1
  <2>3. Upto(<<>>) = sums(Upto(<<>>))
    BY <2>1, <2>2
  <2>. QED
    BY <2>3 DEF Total
<1>. QED
  BY <1>3, <1>4 DEF IsSlotLeader

\* Only mining attaches a block, so the other actions are left with the count
\* of skipped holders and the length of the list, which they change together.
LEMMA StalledStepStaysStalled ==
  ASSUME TypeOK, Stalled, [Next]_vars
  PROVE  Stalled' /\ ~ Attached
<1>. USE DEF Stalled, Attached
<1>1. Len(ids) \in Nat /\ skip \in Int
  BY LenProperties DEF TypeOK
<1>2. CASE UNCHANGED vars
  BY <1>2 DEF vars, chain, registry
<1>3. ASSUME NEW p \in Positions, NEW id \in HolderIds, NEW stake \in Stakes,
             RegisterStake(p, id, stake)
      PROVE  Stalled' /\ ~ Attached
  <2>1. producer_states' = producer_states
    BY <1>3 DEF RegisterStake
  <2>2. Len(ids') = Len(ids) + 1 /\ skip' = skip + 1
    BY <1>3, RegisteredIsLonger
  <2>. QED
    BY <1>1, <2>1, <2>2
<1>4. ASSUME NEW p \in Positions, NEW index \in {NotListed} \cup DOMAIN ids,
             DeregisterStake(p, index)
      PROVE  Stalled' /\ ~ Attached
  <2>1. producer_states' = producer_states
    BY <1>4 DEF DeregisterStake
  <2>. QED
    BY <1>1, <1>4, <2>1, DeregisteredIsShorter
<1>5. ASSUME NEW p \in Positions, NEW index \in DOMAIN ids, NEW stake \in Stakes,
             UpdateStake(p, index, stake)
      PROVE  Stalled' /\ ~ Attached
  BY <1>5 DEF UpdateStake, Restake
<1>6. ASSUME NEW leader \in Positions, NEW slot \in 0..MaxTime,
             NEW auxiliary \in Proposals \cup {NoProposal},
             NEW p \in Positions, NEW index \in DOMAIN ids, NEW stake \in Stakes,
             MineBlockUpdateStake(leader, slot, auxiliary, p, index, stake)
      PROVE  FALSE
  BY <1>6, NoCandidatesNoLeader DEF MineBlockUpdateStake
<1>7. ASSUME NEW proposal \in Proposals, UpgradeProtocol(proposal)
      PROVE  Stalled' /\ ~ Attached
  BY <1>7 DEF UpgradeProtocol, registry
<1>8. CASE Tick
  BY <1>8 DEF Tick, chain, registry
<1>. QED
  BY <1>2, <1>3, <1>4, <1>5, <1>6, <1>7, <1>8 DEF Next

\* A chain whose list of candidates is empty never attaches another block, and
\* nothing any party submits, an agreed upgrade included, gives it candidates.
THEOREM StallIsPermanent == Spec => StallIsForever
<1>1. TypeOK /\ [Next]_vars => [Stalled => Stalled' /\ ~ Attached]_vars
  BY StalledStepStaysStalled
<1>. QED
  BY <1>1, TypeCorrectness, PTL DEF Spec, StallIsForever

-----------------------------------------------------------------------------
(* Blocks and time.                                                        *)

\* A slot begins at a whole number of ticks.
LEMMA TimesIsNat ==
  ASSUME NEW m \in Nat, NEW k \in Nat
  PROVE  m * k \in Nat
OBVIOUS

\* Two different multiples of an interval are an interval apart.
LEMMA NextMultiple ==
  ASSUME NEW m \in Nat, NEW n \in Nat, NEW k \in Nat \ {0},
         m < n, m % k = 0, n % k = 0
  PROVE  m + k <= n
<1>. DEFINE a == m \div k
            b == n \div k
<1>1. a \in Nat /\ b \in Nat /\ m = k * a /\ n = k * b
  OBVIOUS
<1>. HIDE DEF a, b
<1>2. a < b
  BY <1>1
<1>3. k * (a + 1) <= k * b
  BY <1>1, <1>2
<1>. QED
  BY <1>1, <1>3

\* A slot that check_slot_of_tx accepts has begun.
LEMMA SlotIsCurrent ==
  ASSUME TypeOK, NEW slot \in Nat, InSlot(slot)
  PROVE  slot * SlotLength <= now
<1>1. slot * SlotLength \in Nat
  BY TimeAssumption
<1>2. PICK lower \in 0..now : slot * SlotLength <= lower
  BY <1>1 DEF InSlot, TypeOK
<1>. QED
  BY <1>1, <1>2 DEF TypeOK

\* The guard under which the slot number changes, and a block is attached.
LEMMA MiningTime ==
  ASSUME TypeOK, [Next]_vars
  PROVE  \/ UNCHANGED <<slot_number, producer_states>> /\ now' \in Nat /\ now' >= now
         \/ /\ slot_number' \in Nat
            /\ InSlot(slot_number')
            /\ IsLaterSlot(slot_number')
            /\ IsIntervalStart(slot_number')
            /\ UNCHANGED now
<1>. DEFINE Quiet == UNCHANGED <<slot_number, producer_states>>
                     /\ now' \in Nat /\ now' >= now
<1>1. CASE UNCHANGED vars
  BY <1>1 DEF vars, chain, TypeOK
<1>2. ASSUME NEW p \in Positions, NEW id \in HolderIds, NEW stake \in Stakes,
             RegisterStake(p, id, stake)
      PROVE  Quiet
  BY <1>2 DEF RegisterStake, TypeOK
<1>3. ASSUME NEW p \in Positions, NEW index \in {NotListed} \cup DOMAIN ids,
             DeregisterStake(p, index)
      PROVE  Quiet
  BY <1>3 DEF DeregisterStake, TypeOK
<1>4. ASSUME NEW p \in Positions, NEW index \in DOMAIN ids, NEW stake \in Stakes,
             UpdateStake(p, index, stake)
      PROVE  Quiet
  BY <1>4 DEF UpdateStake, TypeOK
<1>5. ASSUME NEW leader \in Positions, NEW slot \in 0..MaxTime,
             NEW auxiliary \in Proposals \cup {NoProposal},
             NEW p \in Positions, NEW index \in DOMAIN ids, NEW stake \in Stakes,
             MineBlockUpdateStake(leader, slot, auxiliary, p, index, stake)
      PROVE  /\ slot_number' \in Nat
             /\ InSlot(slot_number')
             /\ IsLaterSlot(slot_number')
             /\ IsIntervalStart(slot_number')
             /\ UNCHANGED now
  <2>1. slot_number' = slot /\ UNCHANGED now /\ slot \in Nat
    BY <1>5, TimeAssumption DEF MineBlockUpdateStake, NewMinedState, NewChainState
  <2>2. InSlot(slot) /\ IsLaterSlot(slot) /\ IsIntervalStart(slot)
    BY <1>5 DEF MineBlockUpdateStake, NewMinedState, NewChainState
  <2>. QED
    BY <2>1, <2>2
<1>6. ASSUME NEW proposal \in Proposals, UpgradeProtocol(proposal)
      PROVE  Quiet
  BY <1>6 DEF UpgradeProtocol, TypeOK
<1>7. CASE Tick
  BY <1>7 DEF Tick, chain, TypeOK
<1>. QED
  BY <1>1, <1>2, <1>3, <1>4, <1>5, <1>6, <1>7 DEF Next

\* No block is ever attached for a slot that has not begun.
THEOREM SlotsHaveBegun == Spec => []SlotHasBegun
<1>1. Init => SlotHasBegun
  BY TimeAssumption DEF Init, Genesis, SlotHasBegun
<1>2. TypeOK /\ SlotHasBegun /\ [Next]_vars => SlotHasBegun'
  <2>. SUFFICES ASSUME TypeOK, SlotHasBegun, [Next]_vars
                PROVE  SlotHasBegun'
    OBVIOUS
  <2>1. CASE slot_number' = slot_number /\ now' \in Nat /\ now' >= now
    <3>1. slot_number * SlotLength \in Nat /\ slot_number * SlotLength <= now
      BY TimeAssumption DEF TypeOK, SlotHasBegun
    <3>. QED
      BY <2>1, <3>1 DEF TypeOK, SlotHasBegun
  <2>2. CASE slot_number' \in Nat /\ InSlot(slot_number') /\ UNCHANGED now
    BY <2>2, SlotIsCurrent DEF SlotHasBegun
  <2>. QED
    BY <2>1, <2>2, MiningTime
<1>. QED
  BY <1>1, <1>2, TypeCorrectness, PTL DEF Spec

\* A block finds the clock past the slot, under v1 past the interval, of the last.
LEMMA BlockIsLate ==
  ASSUME TypeOK, [Next]_vars, Attached
  PROVE  /\ now >= (slot_number + 1) * SlotLength
         /\ address = "v1"
              /\ slot_number % params.slot_leader_interval = 0
            => now >= (slot_number + params.slot_leader_interval) * SlotLength
<1>1. /\ slot_number' \in Nat
      /\ slot_number' > slot_number
      /\ slot_number' * SlotLength <= now
      /\ IsIntervalStart(slot_number')
  BY MiningTime, SlotIsCurrent DEF Attached, IsLaterSlot
<1>2. ASSUME NEW n \in Nat, n <= slot_number'
      PROVE  n * SlotLength <= now
  <2>. DEFINE earlier == n * SlotLength
              block   == slot_number' * SlotLength
  <2>1. earlier <= block
    <3>1. n \in Nat /\ slot_number' \in Nat /\ SlotLength \in Nat
      BY <1>1, TimeAssumption
    <3>2. n \in Int /\ slot_number' \in Int
      BY <3>1
    <3>. QED
      BY <1>2, <3>1, <3>2, TimesMonotone, Zenon
  <2>2. earlier \in Nat /\ block \in Nat /\ now \in Nat
    <3>1. slot_number' \in Nat /\ SlotLength \in Nat /\ now \in Nat
      BY <1>1, TimeAssumption DEF TypeOK
    <3>. QED
      BY <3>1, TimesIsNat, Zenon
  <2>3. block <= now
    BY <1>1
  <2>. HIDE DEF earlier, block
  <2>4. earlier <= now
    BY <2>1, <2>2, <2>3
  <2>. QED
    BY <2>4 DEF earlier
<1>3. now >= (slot_number + 1) * SlotLength
  <2>1. slot_number + 1 \in Nat /\ slot_number + 1 <= slot_number'
    BY <1>1 DEF TypeOK
  <2>2. (slot_number + 1) * SlotLength <= now
    BY <2>1, <1>2
  <2>3. (slot_number + 1) * SlotLength \in Nat /\ now \in Nat
    BY <2>1, TimeAssumption DEF TypeOK
  <2>. QED
    BY <2>2, <2>3
<1>4. ASSUME address = "v1",
             slot_number % params.slot_leader_interval = 0
      PROVE  now >= (slot_number + params.slot_leader_interval) * SlotLength
  <2>. DEFINE interval == params.slot_leader_interval
  <2>1. interval \in Nat \ {0}
    BY DEF TypeOK, Params
  <2>2. slot_number' % interval = 0
    BY <1>1, <1>4 DEF IsIntervalStart
  <2>3. slot_number + interval \in Nat /\ slot_number + interval <= slot_number'
    <3>. HIDE DEF interval
    <3>1. slot_number \in Nat /\ slot_number < slot_number'
      BY <1>1 DEF TypeOK
    <3>2. slot_number % interval = 0
      BY <1>4 DEF interval
    <3>3. slot_number + interval <= slot_number'
      BY <1>1, <2>1, <2>2, <3>1, <3>2, NextMultiple, Zenon
    <3>. QED
      BY <2>1, <3>1, <3>3
  <2>4. (slot_number + interval) * SlotLength <= now
    BY <2>3, <1>2
  <2>5. (slot_number + interval) * SlotLength \in Nat /\ now \in Nat
    BY <2>3, TimeAssumption DEF TypeOK
  <2>. QED
    BY <2>4, <2>5
<1>. QED
  BY <1>3, <1>4

\* Two blocks are never attached within one slot, whatever is registered, updated
\* or upgraded between them (new_chain_state, check_slot_of_tx).
THEOREM BlocksAwaitSlots == Spec => NextBlockAwaitsSlot
<1>1. TypeOK /\ [Next]_vars =>
        [Attached => now >= (slot_number + 1) * SlotLength]_vars
  BY BlockIsLate
<1>. QED
  BY <1>1, TypeCorrectness, PTL DEF Spec, NextBlockAwaitsSlot

\* Under v1 they are never attached within one slot leader interval either, also
\* if an upgrade comes in between.
THEOREM BlocksAwaitIntervals == Spec => NextBlockAwaitsInterval
<1>1. TypeOK /\ [Next]_vars =>
        [Attached /\ address = "v1"
           /\ slot_number % params.slot_leader_interval = 0
         => now >= (slot_number + params.slot_leader_interval) * SlotLength]_vars
  BY BlockIsLate
<1>. QED
  BY <1>1, TypeCorrectness, PTL DEF Spec, NextBlockAwaitsInterval

-----------------------------------------------------------------------------
(* Parameters and votes.                                                   *)

\* The votes for a proposal that begin at a block and go back in time.
VotedFrom(newest, proposal) ==
  /\ newest \in 1..Len(producer_states)
  /\ newest + AgreementLength - 1 <= Len(producer_states)
  /\ \A i \in newest..(newest + AgreementLength - 1) :
       producer_states[i].auxiliary = proposal

\* A new block moves the votes of earlier blocks one place back, unchanged.
LEMMA VotesAreKept ==
  ASSUME TypeOK,
         NEW leader \in Positions, NEW slot \in 0..MaxTime,
         NEW auxiliary \in Proposals \cup {NoProposal},
         NEW p \in Positions, NEW index \in DOMAIN ids, NEW stake \in Stakes,
         MineBlockUpdateStake(leader, slot, auxiliary, p, index, stake),
         NEW proposal, NEW newest, VotedFrom(newest, proposal)
  PROVE  VotedFrom(newest + 1, proposal)'
<1>. DEFINE block == [producer |-> holder[leader].id, auxiliary |-> auxiliary]
<1>1. block \in ProducerState
  BY DEF TypeOK, MineBlockUpdateStake, NewMinedState, Live, Holder, ProducerState
<1>2. producer_states' = <<block>> \o producer_states
  BY DEF MineBlockUpdateStake, NewMinedState
<1>. HIDE DEF block
<1>3. /\ Len(producer_states) \in Nat
      /\ Len(producer_states') = Len(producer_states) + 1
      /\ \A i \in 1..Len(producer_states) :
           producer_states'[i + 1] = producer_states[i]
  BY <1>1, <1>2, PrependProperties, LenProperties DEF TypeOK
<1>4. /\ newest \in 1..Len(producer_states)
      /\ newest + AgreementLength - 1 <= Len(producer_states)
  BY DEF VotedFrom
<1>5. /\ newest + 1 \in 1..Len(producer_states')
      /\ newest + 1 + AgreementLength - 1 <= Len(producer_states')
  BY <1>3, <1>4, AgreementAssumption
<1>6. ASSUME NEW i \in (newest + 1)..(newest + 1 + AgreementLength - 1)
      PROVE  producer_states'[i].auxiliary = proposal
  <2>1. /\ i - 1 \in newest..(newest + AgreementLength - 1)
        /\ i - 1 \in 1..Len(producer_states)
        /\ (i - 1) + 1 = i
    BY <1>3, <1>4, AgreementAssumption
  <2>. QED
    BY <2>1, <1>3 DEF VotedFrom
<1>. QED
  BY <1>5, <1>6 DEF VotedFrom

\* No transaction puts parameters in force that were not voted for.
LEMMA StepPreservesAgreement ==
  ASSUME TypeOK, ParamsWereAgreed, [Next]_vars
  PROVE  ParamsWereAgreed'
<1>. DEFINE Agreed ==
       \E proposal \in Proposals, newest \in 1..Len(producer_states) :
         proposal.params = params /\ VotedFrom(newest, proposal)
<1>1. ParamsWereAgreed <=> params = GenesisParams \/ Agreed
  BY DEF ParamsWereAgreed, VotedFrom
<1>2. ParamsWereAgreed' <=> params' = GenesisParams \/ Agreed'
  BY DEF ParamsWereAgreed, VotedFrom
<1>3. ASSUME UNCHANGED <<params, producer_states>>
      PROVE  ParamsWereAgreed'
  BY <1>3 DEF ParamsWereAgreed
<1>4. CASE UNCHANGED vars
  BY <1>3, <1>4 DEF vars, chain
<1>5. ASSUME NEW p \in Positions, NEW id \in HolderIds, NEW stake \in Stakes,
             RegisterStake(p, id, stake)
      PROVE  ParamsWereAgreed'
  BY <1>3, <1>5 DEF RegisterStake
<1>6. ASSUME NEW p \in Positions, NEW index \in {NotListed} \cup DOMAIN ids,
             DeregisterStake(p, index)
      PROVE  ParamsWereAgreed'
  BY <1>3, <1>6 DEF DeregisterStake
<1>7. ASSUME NEW p \in Positions, NEW index \in DOMAIN ids, NEW stake \in Stakes,
             UpdateStake(p, index, stake)
      PROVE  ParamsWereAgreed'
  BY <1>3, <1>7 DEF UpdateStake
<1>8. ASSUME NEW leader \in Positions, NEW slot \in 0..MaxTime,
             NEW auxiliary \in Proposals \cup {NoProposal},
             NEW p \in Positions, NEW index \in DOMAIN ids, NEW stake \in Stakes,
             MineBlockUpdateStake(leader, slot, auxiliary, p, index, stake)
      PROVE  ParamsWereAgreed'
  <2>1. params' = params
    BY <1>8 DEF MineBlockUpdateStake
  <2>2. CASE params = GenesisParams
    BY <2>1, <2>2, <1>2
  <2>3. CASE Agreed
    <3>1. PICK proposal \in Proposals, newest \in 1..Len(producer_states) :
            proposal.params = params /\ VotedFrom(newest, proposal)
      BY <2>3
    <3>2. VotedFrom(newest + 1, proposal)'
      BY <1>8, <3>1, VotesAreKept
    <3>3. newest + 1 \in 1..Len(producer_states')
      BY <3>2 DEF VotedFrom
    <3>4. VotedFrom(newest + 1, proposal)' <=>
            /\ newest + 1 \in 1..Len(producer_states')
            /\ newest + 1 + AgreementLength - 1 <= Len(producer_states')
            /\ \A i \in (newest + 1)..(newest + 1 + AgreementLength - 1) :
                 producer_states'[i].auxiliary = proposal
      BY DEF VotedFrom
    <3>. QED
      BY <2>1, <3>1, <3>2, <3>3, <3>4 DEF ParamsWereAgreed
  <2>. QED
    BY <2>2, <2>3, <1>1
<1>9. ASSUME NEW proposal \in Proposals, UpgradeProtocol(proposal)
      PROVE  ParamsWereAgreed'
  <2>1. producer_states' = producer_states
    BY <1>9 DEF UpgradeProtocol
  <2>2. CASE proposal.params = KeepParams
    BY <1>3, <1>9, <2>1, <2>2 DEF UpgradeProtocol
  <2>3. CASE proposal.params # KeepParams
    <3>1. params' = proposal.params /\ AgreedOn(proposal)
      BY <1>9, <2>3 DEF UpgradeProtocol
    <3>2. /\ 1 \in 1..Len(producer_states)
          /\ 1 + AgreementLength - 1 <= Len(producer_states)
          /\ \A i \in 1..(1 + AgreementLength - 1) :
               producer_states[i].auxiliary = proposal
      BY <3>1, AgreementAssumption, LenProperties DEF TypeOK, AgreedOn
    <3>. QED
      BY <2>1, <3>1, <3>2 DEF ParamsWereAgreed
  <2>. QED
    BY <2>2, <2>3
<1>10. CASE Tick
  BY <1>3, <1>10 DEF Tick, chain
<1>. QED
  BY <1>4, <1>5, <1>6, <1>7, <1>8, <1>9, <1>10 DEF Next

\* The parameters of the chain are those it was created with, or those that as
\* many consecutive blocks as the approval script asks for carry as their vote.
THEOREM UpgradesWereAgreed == Spec => []ParamsWereAgreed
<1>1. Init => ParamsWereAgreed
  BY DEF Init, Genesis, ParamsWereAgreed
<1>2. TypeOK /\ ParamsWereAgreed /\ [Next]_vars => ParamsWereAgreed'
  BY StepPreservesAgreement
<1>. QED
  BY <1>1, <1>2, TypeCorrectness, PTL DEF Spec

-----------------------------------------------------------------------------
(* The way from v0 to v1.                                                  *)

\* The oldest producer state is that of the genesis, which is no vote.
GenesisIsOldest ==
  /\ Len(producer_states) >= 1
  /\ producer_states[Len(producer_states)].auxiliary = NoProposal

\* The votes of a block never reach below the first block.
LEMMA StepKeepsGenesis ==
  ASSUME TypeOK, GenesisIsOldest, [Next]_vars
  PROVE  /\ GenesisIsOldest'
         /\ block_number' \in Int /\ block_number \in Int
         /\ block_number' >= block_number
<1>1. Len(producer_states) \in Nat
  BY LenProperties DEF TypeOK
<1>2. ASSUME producer_states' = producer_states
      PROVE  /\ GenesisIsOldest'
             /\ block_number' \in Int /\ block_number \in Int
             /\ block_number' >= block_number
  BY <1>1, <1>2 DEF GenesisIsOldest, block_number
<1>3. ASSUME NEW leader \in Positions, NEW slot \in 0..MaxTime,
             NEW auxiliary \in Proposals \cup {NoProposal},
             NEW p \in Positions, NEW index \in DOMAIN ids, NEW stake \in Stakes,
             MineBlockUpdateStake(leader, slot, auxiliary, p, index, stake)
      PROVE  /\ GenesisIsOldest'
             /\ block_number' \in Int /\ block_number \in Int
             /\ block_number' >= block_number
  <2>. DEFINE block == [producer |-> holder[leader].id, auxiliary |-> auxiliary]
  <2>1. block \in ProducerState
    BY <1>3 DEF TypeOK, MineBlockUpdateStake, Live, Holder, ProducerState
  <2>2. producer_states' = <<block>> \o producer_states
    BY <1>3 DEF MineBlockUpdateStake, NewMinedState
  <2>3. producer_states \in Seq(ProducerState)
    BY DEF TypeOK
  <2>. HIDE DEF block
  <2>4. /\ Len(producer_states') = Len(producer_states) + 1
        /\ \A j \in 1..Len(producer_states) :
             producer_states'[j + 1] = producer_states[j]
    BY <2>1, <2>2, <2>3, PrependProperties
  <2>5. Len(producer_states) \in 1..Len(producer_states)
    BY <1>1 DEF GenesisIsOldest
  <2>6. producer_states'[Len(producer_states')] = producer_states[Len(producer_states)]
    BY <2>4, <2>5
  <2>. QED
    BY <1>1, <2>4, <2>6 DEF GenesisIsOldest, block_number
<1>4. CASE UNCHANGED vars
  BY <1>2, <1>4 DEF vars, chain
<1>5. ASSUME NEW p \in Positions, NEW id \in HolderIds, NEW stake \in Stakes,
             RegisterStake(p, id, stake)
      PROVE  producer_states' = producer_states
  BY <1>5 DEF RegisterStake
<1>6. ASSUME NEW p \in Positions, NEW index \in {NotListed} \cup DOMAIN ids,
             DeregisterStake(p, index)
      PROVE  producer_states' = producer_states
  BY <1>6 DEF DeregisterStake
<1>7. ASSUME NEW p \in Positions, NEW index \in DOMAIN ids, NEW stake \in Stakes,
             UpdateStake(p, index, stake)
      PROVE  producer_states' = producer_states
  BY <1>7 DEF UpdateStake
<1>8. ASSUME NEW proposal \in Proposals, UpgradeProtocol(proposal)
      PROVE  producer_states' = producer_states
  BY <1>8 DEF UpgradeProtocol
<1>9. CASE Tick
  BY <1>2, <1>9 DEF Tick, chain
<1>. QED
  BY <1>2, <1>3, <1>4, <1>5, <1>6, <1>7, <1>8, <1>9 DEF Next

\* The parameters of a v0 chain change only by an agreed proposal that its
\* approval script accepts.
LEMMA StepChangesParams ==
  ASSUME TypeOK, [Next]_vars
  PROVE  \/ params' = params
         \/ \E proposal \in Proposals :
              /\ AgreedOn(proposal)
              /\ proposal.params # KeepParams
              /\ Accepts(params.upgrade_approval, proposal.params)
              /\ params' = proposal.params
              /\ producer_states' = producer_states
<1>1. CASE UNCHANGED vars
  BY <1>1 DEF vars, chain
<1>2. ASSUME NEW p \in Positions, NEW id \in HolderIds, NEW stake \in Stakes,
             RegisterStake(p, id, stake)
      PROVE  params' = params
  BY <1>2 DEF RegisterStake
<1>3. ASSUME NEW p \in Positions, NEW index \in {NotListed} \cup DOMAIN ids,
             DeregisterStake(p, index)
      PROVE  params' = params
  BY <1>3 DEF DeregisterStake
<1>4. ASSUME NEW p \in Positions, NEW index \in DOMAIN ids, NEW stake \in Stakes,
             UpdateStake(p, index, stake)
      PROVE  params' = params
  BY <1>4 DEF UpdateStake
<1>5. ASSUME NEW leader \in Positions, NEW slot \in 0..MaxTime,
             NEW auxiliary \in Proposals \cup {NoProposal},
             NEW p \in Positions, NEW index \in DOMAIN ids, NEW stake \in Stakes,
             MineBlockUpdateStake(leader, slot, auxiliary, p, index, stake)
      PROVE  params' = params
  BY <1>5 DEF MineBlockUpdateStake
<1>6. ASSUME NEW proposal \in Proposals, UpgradeProtocol(proposal),
             proposal.params # KeepParams
      PROVE  /\ AgreedOn(proposal)
             /\ Accepts(params.upgrade_approval, proposal.params)
             /\ params' = proposal.params
             /\ producer_states' = producer_states
  BY <1>6 DEF UpgradeProtocol
<1>7. ASSUME NEW proposal \in Proposals, UpgradeProtocol(proposal),
             proposal.params = KeepParams
      PROVE  params' = params
  BY <1>7 DEF UpgradeProtocol
<1>8. CASE Tick
  BY <1>8 DEF Tick, chain
<1>. QED
  BY <1>1, <1>2, <1>3, <1>4, <1>5, <1>6, <1>7, <1>8 DEF Next

\* A v0 chain whose approval script was replaced keeps the round of votes for it.
\* The round that brings v1 is another one, and neither reaches the genesis.
LEMMA TwoRounds ==
  ASSUME TypeOK, ParamsWereAgreed, GenesisIsOldest,
         params # GenesisParams,
         NEW proposal \in Proposals, AgreedOn(proposal), proposal.params # params
  PROVE  block_number >= 2 * AgreementLength
<1>1. Len(producer_states) \in Nat /\ AgreementLength \in Nat /\ AgreementLength >= 1
  BY LenProperties, AgreementAssumption DEF TypeOK
<1>2. PICK old \in Proposals, newest \in 1..Len(producer_states) :
        /\ old.params = params
        /\ newest + AgreementLength - 1 <= Len(producer_states)
        /\ \A i \in newest..(newest + AgreementLength - 1) :
             producer_states[i].auxiliary = old
  BY DEF ParamsWereAgreed
<1>3. /\ AgreementLength <= Len(producer_states)
      /\ \A i \in 1..AgreementLength : producer_states[i].auxiliary = proposal
  BY <1>1 DEF AgreedOn
<1>4. old # proposal
  BY <1>2
<1>5. newest > AgreementLength
  <2>. SUFFICES ASSUME newest <= AgreementLength
                PROVE  FALSE
    BY <1>1
  <2>1. newest \in newest..(newest + AgreementLength - 1) /\ newest \in 1..AgreementLength
    BY <1>1
  <2>. QED
    BY <1>2, <1>3, <1>4, <2>1
<1>6. newest + AgreementLength - 1 # Len(producer_states)
  <2>. SUFFICES ASSUME newest + AgreementLength - 1 = Len(producer_states)
                PROVE  FALSE
    OBVIOUS
  <2>1. Len(producer_states) \in newest..(newest + AgreementLength - 1)
    BY <1>1
  <2>2. producer_states[Len(producer_states)].auxiliary = old
    BY <1>2, <2>1
  <2>. QED
    BY <1>2, <2>2, NoProposalAssumption DEF GenesisIsOldest
<1>. QED
  BY <1>1, <1>2, <1>5, <1>6 DEF block_number

\* No transaction gives a v0 chain v1's parameters early.
LEMMA StepFollowsPath ==
  ASSUME TypeOK, ParamsWereAgreed, GenesisIsOldest, UpgradePathIsFollowed,
         [Next]_vars
  PROVE  UpgradePathIsFollowed'
<1>1. /\ block_number' \in Int /\ block_number \in Int
      /\ block_number' >= block_number
      /\ 2 * AgreementLength \in Int
  BY StepKeepsGenesis, AgreementAssumption
<1>. SUFFICES ASSUME GenesisParams.version = "v0",
                     GenesisParams.upgrade_approval = "v0",
                     params'.version = "v1"
              PROVE  block_number' >= 2 * AgreementLength
  BY DEF UpgradePathIsFollowed
<1>2. params.version \in {"v0", "v1"}
  BY DEF TypeOK, Params, Versions
<1>3. CASE params.version = "v1"
  BY <1>1, <1>3 DEF UpgradePathIsFollowed
<1>4. CASE params.version = "v0"
  <2>1. PICK proposal \in Proposals :
          /\ AgreedOn(proposal)
          /\ proposal.params # KeepParams
          /\ Accepts(params.upgrade_approval, proposal.params)
          /\ params' = proposal.params
    BY <1>4, StepChangesParams
  <2>2. proposal.params.version = "v1"
    BY <2>1
  <2>3. params.upgrade_approval # "v0"
    BY <2>1, <2>2 DEF Accepts
  <2>4. params # GenesisParams /\ proposal.params # params
    BY <1>4, <2>2, <2>3
  <2>5. block_number >= 2 * AgreementLength
    BY <2>1, <2>4, TwoRounds
  <2>. QED
    BY <1>1, <2>5
<1>. QED
  BY <1>2, <1>3, <1>4

\* A chain created with v0's parameters has v1's only after two rounds of votes: the
\* v0 approval script checks that the proposed ones are v0's, so it has to be
\* replaced first, by a round of its own (check_integrity in
\* stakechain_upgrade_v0.py, which v0a and v1 lack).
THEOREM UpgradesTakeTwoRounds == Spec => []UpgradePathIsFollowed
<1>1. Init => GenesisIsOldest /\ UpgradePathIsFollowed
  BY DEF Init, Genesis, GenesisIsOldest, UpgradePathIsFollowed
<1>2. TypeOK /\ GenesisIsOldest /\ [Next]_vars => GenesisIsOldest'
  BY StepKeepsGenesis
<1>3. TypeOK /\ ParamsWereAgreed /\ GenesisIsOldest /\ UpgradePathIsFollowed
        /\ [Next]_vars => UpgradePathIsFollowed'
  BY StepFollowsPath
<1>. QED
  BY <1>1, <1>2, <1>3, TypeCorrectness, UpgradesWereAgreed, PTL DEF Spec

-----------------------------------------------------------------------------
(* A script that cannot read its parameters.                               *)

\* Where the script and the parameters differ, nothing else was agreed on since.
MismatchWasAgreed ==
  Mismatched => \A proposal \in Proposals : AgreedOn(proposal) =>
    /\ proposal.address # "v0"
    /\ proposal.params = KeepParams \/ proposal.params.version = "v0"

\* What a step does to the script, the parameters and the votes.
LEMMA ScriptSteps ==
  ASSUME [Next]_vars
  PROVE  \/ UNCHANGED <<address, params, producer_states>>
         \/ HasInterval /\ UNCHANGED <<address, params>>
         \/ \E proposal \in Proposals : UpgradeProtocol(proposal)
<1>1. CASE UNCHANGED vars
  BY <1>1 DEF vars, chain
<1>2. ASSUME NEW p \in Positions, NEW id \in HolderIds, NEW stake \in Stakes,
             RegisterStake(p, id, stake)
      PROVE  UNCHANGED <<address, params, producer_states>>
  BY <1>2 DEF RegisterStake
<1>3. ASSUME NEW p \in Positions, NEW index \in {NotListed} \cup DOMAIN ids,
             DeregisterStake(p, index)
      PROVE  UNCHANGED <<address, params, producer_states>>
  BY <1>3 DEF DeregisterStake
<1>4. ASSUME NEW p \in Positions, NEW index \in DOMAIN ids, NEW stake \in Stakes,
             UpdateStake(p, index, stake)
      PROVE  UNCHANGED <<address, params, producer_states>>
  BY <1>4 DEF UpdateStake
<1>5. ASSUME NEW leader \in Positions, NEW slot \in 0..MaxTime,
             NEW auxiliary \in Proposals \cup {NoProposal},
             NEW p \in Positions, NEW index \in DOMAIN ids, NEW stake \in Stakes,
             MineBlockUpdateStake(leader, slot, auxiliary, p, index, stake)
      PROVE  HasInterval /\ UNCHANGED <<address, params>>
  BY <1>5 DEF MineBlockUpdateStake, NewMinedState, NewChainState
<1>6. CASE Tick
  BY <1>6 DEF Tick, chain
<1>. QED
  BY <1>1, <1>2, <1>3, <1>4, <1>5, <1>6 DEF Next

\* Two proposals that the newest blocks agree on are one.
LEMMA AgreedOnOne ==
  ASSUME NEW proposal, NEW other, AgreedOn(proposal), AgreedOn(other)
  PROVE  proposal = other /\ proposal = producer_states[1].auxiliary
<1>1. 1 \in 1..AgreementLength
  BY AgreementAssumption
<1>. QED
  BY <1>1 DEF AgreedOn

\* A mismatch comes from the proposal agreed on now, and stays so.
LEMMA StepMismatches ==
  ASSUME TypeOK, MismatchWasAgreed, [Next]_vars
  PROVE  /\ MismatchWasAgreed'
         /\ Mismatched => Mismatched' /\ ~ Attached
<1>1. CASE UNCHANGED <<address, params, producer_states>>
  BY <1>1 DEF MismatchWasAgreed, Mismatched, AgreedOn, Attached
<1>2. CASE HasInterval /\ UNCHANGED <<address, params>>
  BY <1>2 DEF HasInterval, Mismatched, MismatchWasAgreed
<1>3. ASSUME NEW proposal \in Proposals, UpgradeProtocol(proposal)
      PROVE  /\ MismatchWasAgreed'
             /\ Mismatched => Mismatched' /\ ~ Attached
  <2>1. /\ AgreedOn(proposal)
        /\ producer_states' = producer_states
        /\ address' = IF proposal.address = KeepAddress THEN address ELSE proposal.address
        /\ params' = IF proposal.params = KeepParams THEN params ELSE proposal.params
    BY <1>3 DEF UpgradeProtocol
  <2>2. /\ proposal.address \in Versions \cup {KeepAddress} /\ KeepAddress \notin Versions
        /\ proposal.params \in Params \cup {KeepParams}
    BY ProposalsAssumption
  <2>3. Mismatched => Mismatched' /\ ~ Attached
    BY <2>1, <2>2 DEF MismatchWasAgreed, Mismatched, Attached, Versions
  <2>4. ASSUME Mismatched', NEW other \in Proposals, AgreedOn(other)'
        PROVE  /\ other.address # "v0"
               /\ other.params = KeepParams \/ other.params.version = "v0"
    <3>1. other = proposal
      BY <2>1, <2>4, AgreedOnOne DEF AgreedOn
    <3>. QED
      BY <2>1, <2>2, <2>4, <3>1 DEF Mismatched, Versions
  <2>. QED
    BY <2>3, <2>4 DEF MismatchWasAgreed
<1>. QED
  BY <1>1, <1>2, <1>3, ScriptSteps

\* A chain locked by the v1 script with parameters of v0's shape stays so and never
\* attaches a block: new_chain_state reads slot_leader_interval, and an upgrade
\* needs other votes than those the chain got there with.
THEOREM MismatchIsPermanent == Spec => MismatchIsForever
<1>1. Init => MismatchWasAgreed
  <2>. SUFFICES ASSUME Init, NEW proposal \in Proposals, AgreedOn(proposal)
                PROVE  FALSE
    BY DEF MismatchWasAgreed
  <2>. QED
    BY AgreedOnOne, NoProposalAssumption DEF Init, Genesis
<1>2. TypeOK /\ MismatchWasAgreed /\ [Next]_vars => MismatchWasAgreed'
  BY StepMismatches
<1>3. TypeOK /\ MismatchWasAgreed /\ [Next]_vars
        => [Mismatched => Mismatched' /\ ~ Attached]_vars
  BY StepMismatches
<1>. QED
  BY <1>1, <1>2, <1>3, TypeCorrectness, PTL DEF Spec, MismatchIsForever

-----------------------------------------------------------------------------
(* The ballot that the chain implements.                                   *)

\* An id that is listed once is found where it is listed.
LEMMA IndexIsUnique ==
  ASSUME NEW list, NEW k \in DOMAIN list,
         \A i, j \in DOMAIN list : list[i] = list[j] => i = j
  PROVE  (CHOOSE i \in DOMAIN list : list[i] = list[k]) = k
OBVIOUS

\* The slice of the candidates as a condition on the index.
LEMMA CandidateIndices ==
  ASSUME NEW n \in Nat, NEW s \in Int
  PROVE  (Max({0, s}) + 1)..n = {j \in 1..n : j > s}
<1>1. Max({0, s}) = IF 0 >= s THEN 0 ELSE s
  BY MaxOfTwo
<1>. QED
  BY <1>1

\* What the ballot calls the stake of the registered holders.
RegisteredStake == [id \in ToSet(ids) |-> weights[IndexOf(id)]]

\* The holders and their stakes, read from the lists.
LEMMA ListsAsBallot ==
  ASSUME TypeOK, IdsAreDistinct
  PROVE  /\ Len(ids) \in Nat /\ skip \in Int /\ DOMAIN ids = 1..Len(ids)
         /\ \A h : h \in DOMAIN RegisteredStake <=> \E j \in 1..Len(ids) : h = ids[j]
         /\ \A j \in 1..Len(ids) : RegisteredStake[ids[j]] = weights[j]
         /\ \A h : h \in Standing <=>
              \E j \in 1..Len(ids) : j > skip /\ h = ids[j]
<1>1. Len(ids) \in Nat /\ skip \in Int /\ DOMAIN ids = 1..Len(ids)
  BY LenProperties DEF TypeOK
<1>2. ToSet(ids) = {ids[j] : j \in 1..Len(ids)}
  BY <1>1 DEF ToSet
<1>3. \A j \in DOMAIN ids : IndexOf(ids[j]) = j
  BY IndexIsUnique DEF IdsAreDistinct, IndexOf
<1>4. Standing = {ids[j] : j \in {k \in 1..Len(ids) : k > skip}}
  BY <1>1, CandidateIndices DEF Standing
<1>. QED
  BY <1>1, <1>2, <1>3, <1>4 DEF RegisteredStake

LEMMA ListsAsBallotNext ==
  ASSUME TypeOK', IdsAreDistinct'
  PROVE  /\ Len(ids') \in Nat /\ skip' \in Int /\ DOMAIN ids' = 1..Len(ids')
         /\ \A h : h \in DOMAIN RegisteredStake' <=> \E j \in 1..Len(ids') : h = ids'[j]
         /\ \A j \in 1..Len(ids') : RegisteredStake'[ids'[j]] = weights'[j]
         /\ \A h : h \in Standing' <=>
              \E j \in 1..Len(ids') : j > skip' /\ h = ids'[j]
<1>1. Len(ids') \in Nat /\ skip' \in Int /\ DOMAIN ids' = 1..Len(ids')
  BY LenProperties DEF TypeOK
<1>2. ToSet(ids') = {ids'[j] : j \in 1..Len(ids')}
  BY <1>1 DEF ToSet
<1>3. \A j \in DOMAIN ids' : IndexOf(ids[j])' = j
  BY IndexIsUnique DEF IdsAreDistinct, IndexOf
<1>4. Standing' = {ids'[j] : j \in {k \in 1..Len(ids') : k > skip'}}
  BY <1>1, CandidateIndices DEF Standing
<1>. QED
  BY <1>1, <1>2, <1>3, <1>4 DEF RegisteredStake

\* The moves of the ballot in terms of the chain's lists.
LEMMA RegistrationIsJoin ==
  ASSUME TypeOK, IdsAreDistinct, TypeOK', IdsAreDistinct',
         NEW p \in Positions, NEW id \in HolderIds, NEW stake \in Stakes,
         RegisterStake(p, id, stake)
  PROVE  Ballot!Join(id, stake)
<1>1. /\ ids \in Seq(HolderIds) /\ weights \in Seq(Stakes)
      /\ Len(weights) = Len(ids)
      /\ ids' = <<id>> \o ids /\ weights' = <<stake>> \o weights
      /\ skip' = skip + 1 /\ id \notin ToSet(ids)
      /\ producer_states' = producer_states
  BY DEF TypeOK, RegisterStake, NewRegisteredState, SkipAfterRegistration
<1>2. /\ Len(ids') = Len(ids) + 1
      /\ ids'[1] = id /\ weights'[1] = stake
      /\ \A j \in 1..Len(ids) : ids'[j + 1] = ids[j] /\ weights'[j + 1] = weights[j]
  BY <1>1, PrependProperties
<1>3. /\ Len(ids) \in Nat /\ skip \in Int
      /\ \A h : h \in DOMAIN RegisteredStake <=> \E j \in 1..Len(ids) : h = ids[j]
      /\ \A j \in 1..Len(ids) : RegisteredStake[ids[j]] = weights[j]
      /\ \A h : h \in Standing <=> \E j \in 1..Len(ids) : j > skip /\ h = ids[j]
  BY ListsAsBallot
<1>4. /\ DOMAIN RegisteredStake' = {ids'[j] : j \in 1..Len(ids')}
      /\ \A j \in 1..Len(ids') : RegisteredStake'[ids'[j]] = weights'[j]
      /\ \A h : h \in Standing' <=> \E j \in 1..Len(ids') : j > skip' /\ h = ids'[j]
  BY ListsAsBallotNext
<1>5. \A j \in 1..Len(ids') :
        \/ j = 1 /\ ids'[j] = id /\ weights'[j] = stake
        \/ /\ j - 1 \in 1..Len(ids) /\ j = (j - 1) + 1
           /\ ids'[j] = ids[j - 1] /\ weights'[j] = weights[j - 1]
  <2>. SUFFICES ASSUME NEW j \in 1..Len(ids'), j # 1
                PROVE  j - 1 \in 1..Len(ids) /\ j = (j - 1) + 1
    BY <1>2
  <2>. QED
    BY <1>2, <1>3
<1>6. \A j \in 1..Len(ids) : j + 1 \in 1..Len(ids') /\ 1 \in 1..Len(ids')
  BY <1>2, <1>3
<1>7. 1 \in 1..Len(ids')
  BY <1>2, <1>3
<1>8. DOMAIN RegisteredStake' = DOMAIN RegisteredStake \cup {id}
  <2>1. ASSUME NEW h \in DOMAIN RegisteredStake'
        PROVE  h \in DOMAIN RegisteredStake \cup {id}
    <3>1. PICK j \in 1..Len(ids') : h = ids'[j]
      BY <1>4, <2>1
    <3>. QED
      BY <1>3, <1>5, <3>1
  <2>2. ASSUME NEW h \in DOMAIN RegisteredStake
        PROVE  h \in DOMAIN RegisteredStake'
    <3>1. PICK j \in 1..Len(ids) : h = ids[j]
      BY <1>3, <2>2
    <3>2. h = ids'[j + 1] /\ j + 1 \in 1..Len(ids')
      BY <1>2, <1>6, <3>1
    <3>. QED
      BY <1>4, <3>2
  <2>3. id \in DOMAIN RegisteredStake'
    BY <1>2, <1>4, <1>7
  <2>. QED
    BY <2>1, <2>2, <2>3
<1>9. ASSUME NEW h \in DOMAIN RegisteredStake'
      PROVE  RegisteredStake'[h] = IF h = id THEN stake ELSE RegisteredStake[h]
  <2>1. CASE h = id
    BY <1>2, <1>4, <1>7, <2>1
  <2>2. CASE h # id
    <3>1. PICK j \in 1..Len(ids) : h = ids[j]
      BY <1>3, <1>8, <1>9, <2>2
    <3>2. /\ j + 1 \in 1..Len(ids')
          /\ ids'[j + 1] = h /\ weights'[j + 1] = weights[j]
      BY <1>2, <1>6, <3>1
    <3>3. RegisteredStake'[h] = weights'[j + 1]
      BY <1>4, <3>2
    <3>4. RegisteredStake[h] = weights[j]
      BY <1>3, <3>1
    <3>. QED
      BY <2>2, <3>2, <3>3, <3>4
  <2>. QED
    BY <2>1, <2>2
<1>10. \A j \in 1..Len(ids) : ids[j] # id
  <2>1. DOMAIN ids = 1..Len(ids)
    BY ListsAsBallot
  <2>. QED
    BY <1>1, <2>1 DEF ToSet
<1>11. Standing' = IF skip < 0 THEN Standing \cup {id} ELSE Standing
  <2>1. ASSUME NEW h \in Standing, h # id
        PROVE  h \in Standing'
    <3>1. PICK j \in 1..Len(ids) : j > skip /\ h = ids[j]
      BY <1>3, <2>1
    <3>2. /\ h = ids'[j + 1] /\ j + 1 \in 1..Len(ids')
          /\ j + 1 > skip'
      BY <1>1, <1>2, <1>3, <1>6, <3>1
    <3>. QED
      BY <1>4, <3>2
  <2>2. ASSUME NEW h \in Standing', h # id
        PROVE  h \in Standing
    <3>1. PICK j \in 1..Len(ids') : j > skip' /\ h = ids'[j]
      BY <1>4, <2>2
    <3>2. j - 1 \in 1..Len(ids) /\ ids'[j] = ids[j - 1] /\ j = (j - 1) + 1
      BY <1>5, <2>2, <3>1
    <3>3. j - 1 > skip
      BY <1>1, <1>3, <3>1, <3>2
    <3>. QED
      BY <1>3, <3>1, <3>2, <3>3
  <2>3. id \notin Standing
    BY <1>3, <1>10
  <2>4. id \in Standing' <=> skip < 0
    <3>1. ASSUME skip < 0
          PROVE  id \in Standing'
      <4>1. 1 > skip'
        BY <1>1, <1>3, <3>1
      <4>. QED
        BY <1>2, <1>4, <1>7, <4>1
    <3>2. ASSUME id \in Standing'
          PROVE  skip < 0
      <4>1. PICK j \in 1..Len(ids') : j > skip' /\ id = ids'[j]
        BY <1>4, <3>2
      <4>2. j = 1
        BY <1>5, <1>10, <4>1
      <4>. QED
        BY <1>1, <1>3, <4>1, <4>2
    <3>. QED
      BY <3>1, <3>2
  <2>. QED
    BY <2>1, <2>2, <2>3, <2>4
<1>12. (skip' < 0) \in {skip < 0, FALSE}
  <2>1. ASSUME skip' < 0
        PROVE  skip < 0
    BY <1>1, <1>3, <2>1
  <2>2. (skip' < 0) = (skip < 0) \/ (skip' < 0) = FALSE
    BY <2>1
  <2>. QED
    BY <2>2, Zenon
<1>13. id \notin DOMAIN RegisteredStake
  BY <1>1 DEF RegisteredStake
<1>14. RegisteredStake' = [h \in DOMAIN RegisteredStake \cup {id} |->
                             IF h = id THEN stake ELSE RegisteredStake[h]]
  BY <1>8, <1>9 DEF RegisteredStake
<1>. QED
  BY <1>1, <1>11, <1>12, <1>13, <1>14
     DEF Ballot!Join, Ballot!Registered, RegisteredStake, block_number

\* A deregistration is a holder that leaves: the holders behind it move up, and
\* the skipped prefix ends before the same holder as before.
LEMMA DeregistrationIsLeave ==
  ASSUME TypeOK, IdsAreDistinct, TypeOK', IdsAreDistinct',
         NEW p \in Positions, NEW index \in DOMAIN ids,
         DeregisterStake(p, index)
  PROVE  Ballot!Leave(ids[index])
<1>. DEFINE id == ids[index]
<1>1. /\ Len(ids) \in Nat /\ skip \in Int /\ DOMAIN ids = 1..Len(ids)
      /\ \A h : h \in DOMAIN RegisteredStake <=> \E j \in 1..Len(ids) : h = ids[j]
      /\ \A j \in 1..Len(ids) : RegisteredStake[ids[j]] = weights[j]
      /\ \A h : h \in Standing <=> \E j \in 1..Len(ids) : j > skip /\ h = ids[j]
  BY ListsAsBallot
<1>2. /\ \A h : h \in DOMAIN RegisteredStake' <=> \E j \in 1..Len(ids') : h = ids'[j]
      /\ \A j \in 1..Len(ids') : RegisteredStake'[ids'[j]] = weights'[j]
      /\ \A h : h \in Standing' <=> \E j \in 1..Len(ids') : j > skip' /\ h = ids'[j]
  BY ListsAsBallotNext
<1>3. /\ index \in 1..Len(ids) /\ index # NotListed
      /\ ids \in Seq(HolderIds) /\ weights \in Seq(Stakes)
      /\ Len(weights) = Len(ids)
  BY <1>1 DEF TypeOK, NotListed
<1>4. /\ ids' = RemoveAt(ids, index) /\ weights' = RemoveAt(weights, index)
      /\ skip' = IF index <= skip THEN skip - 1 ELSE skip
      /\ producer_states' = producer_states
  BY <1>3 DEF DeregisterStake, NewDeregisteredState, SkipAfterRemoval
<1>5. /\ Len(ids') = Len(ids) - 1
      /\ \A j \in 1..(Len(ids) - 1) :
           /\ ids'[j] = IF j < index THEN ids[j] ELSE ids[j + 1]
           /\ weights'[j] = IF j < index THEN weights[j] ELSE weights[j + 1]
  BY <1>3, <1>4, RemoveAtProperties
<1>6. \A j, k \in 1..Len(ids) : ids[j] = ids[k] => j = k
  BY <1>1 DEF IdsAreDistinct
\* Where an entry of the new list comes from, and where one of the old list goes.
<1>7. ASSUME NEW j \in 1..Len(ids')
      PROVE  \E k \in 1..Len(ids) :
               /\ k # index /\ ids'[j] = ids[k] /\ weights'[j] = weights[k]
               /\ j > skip' <=> k > skip
  <2>1. CASE j < index
    BY <1>1, <1>3, <1>4, <1>5, <2>1
  <2>2. CASE ~ (j < index)
    <3>1. j + 1 \in 1..Len(ids) /\ j + 1 # index
      BY <1>1, <1>3, <1>5, <2>2
    <3>2. j > skip' <=> j + 1 > skip
      BY <1>1, <1>3, <1>4, <2>2
    <3>. QED
      BY <1>5, <2>2, <3>1, <3>2
  <2>. QED
    BY <2>1, <2>2
<1>8. ASSUME NEW k \in 1..Len(ids), k # index
      PROVE  \E j \in 1..Len(ids') :
               /\ ids'[j] = ids[k] /\ weights'[j] = weights[k]
               /\ j > skip' <=> k > skip
  <2>1. CASE k < index
    <3>1. k \in 1..Len(ids')
      BY <1>1, <1>3, <1>5, <2>1
    <3>2. k > skip' <=> k > skip
      BY <1>1, <1>3, <1>4, <2>1
    <3>. QED
      BY <1>5, <2>1, <3>1, <3>2
  <2>2. CASE k > index
    <3>1. k - 1 \in 1..Len(ids') /\ (k - 1) + 1 = k /\ ~ (k - 1 < index)
      BY <1>1, <1>3, <1>5, <2>2
    <3>2. k - 1 > skip' <=> k > skip
      BY <1>1, <1>3, <1>4, <2>2
    <3>. QED
      BY <1>5, <3>1, <3>2
  <2>. QED
    BY <1>1, <1>3, <1>8, <2>1, <2>2
<1>. HIDE DEF id
<1>9. /\ id \in DOMAIN RegisteredStake
      /\ \A k \in 1..Len(ids) : ids[k] = id <=> k = index
  BY <1>1, <1>3, <1>6 DEF id
<1>10. DOMAIN RegisteredStake' = DOMAIN RegisteredStake \ {id}
  <2>1. ASSUME NEW h \in DOMAIN RegisteredStake'
        PROVE  h \in DOMAIN RegisteredStake \ {id}
    <3>1. PICK j \in 1..Len(ids') : h = ids'[j]
      BY <1>2, <2>1
    <3>2. PICK k \in 1..Len(ids) : k # index /\ h = ids[k]
      BY <1>7, <3>1
    <3>. QED
      BY <1>1, <1>9, <3>2
  <2>2. ASSUME NEW h \in DOMAIN RegisteredStake, h # id
        PROVE  h \in DOMAIN RegisteredStake'
    <3>1. PICK k \in 1..Len(ids) : h = ids[k] /\ k # index
      BY <1>1, <1>9, <2>2
    <3>2. PICK j \in 1..Len(ids') : h = ids'[j]
      BY <1>8, <3>1
    <3>. QED
      BY <1>2, <3>2
  <2>. QED
    BY <2>1, <2>2
<1>11. ASSUME NEW h \in DOMAIN RegisteredStake'
       PROVE  RegisteredStake'[h] = RegisteredStake[h]
  <2>1. PICK j \in 1..Len(ids') : h = ids'[j]
    BY <1>2, <1>11
  <2>2. PICK k \in 1..Len(ids) : h = ids[k] /\ weights'[j] = weights[k]
    BY <1>7, <2>1
  <2>. QED
    BY <1>1, <1>2, <2>1, <2>2
<1>12. Standing' = Standing \ {id}
  <2>1. ASSUME NEW h \in Standing'
        PROVE  h \in Standing \ {id}
    <3>1. PICK j \in 1..Len(ids') : j > skip' /\ h = ids'[j]
      BY <1>2, <2>1
    <3>2. PICK k \in 1..Len(ids) : k # index /\ h = ids[k] /\ k > skip
      BY <1>7, <3>1
    <3>. QED
      BY <1>1, <1>9, <3>2
  <2>2. ASSUME NEW h \in Standing, h # id
        PROVE  h \in Standing'
    <3>1. PICK k \in 1..Len(ids) : h = ids[k] /\ k > skip /\ k # index
      BY <1>1, <1>9, <2>2
    <3>2. PICK j \in 1..Len(ids') : h = ids'[j] /\ j > skip'
      BY <1>8, <3>1
    <3>. QED
      BY <1>2, <3>2
  <2>. QED
    BY <2>1, <2>2
<1>13. skip' < 0 <=> skip < 0
  BY <1>1, <1>3, <1>4
<1>14. RegisteredStake' = [h \in DOMAIN RegisteredStake \ {id} |-> RegisteredStake[h]]
  BY <1>10, <1>11 DEF RegisteredStake
<1>15. (skip' < 0) = (skip < 0)
  BY <1>13
<1>. QED
  BY <1>4, <1>9, <1>12, <1>14, <1>15
     DEF Ballot!Leave, Ballot!Registered, RegisteredStake, block_number, id

\* A change of stake is the ballot's Restake for the same holder.
LEMMA RestakingTheHolder ==
  ASSUME TypeOK, IdsAreDistinct, TypeOK', IdsAreDistinct',
         NEW p \in Positions, NEW index \in DOMAIN ids, NEW stake \in Stakes,
         Restake(p, index, stake)
  PROVE  /\ ids' = ids
         /\ ids[index] \in DOMAIN RegisteredStake
         /\ RegisteredStake' = [RegisteredStake EXCEPT ![ids[index]] = stake]
<1>1. /\ Len(ids) \in Nat /\ DOMAIN ids = 1..Len(ids)
      /\ \A h : h \in DOMAIN RegisteredStake <=> \E j \in 1..Len(ids) : h = ids[j]
      /\ \A j \in 1..Len(ids) : RegisteredStake[ids[j]] = weights[j]
  BY ListsAsBallot
<1>2. /\ ids' = ids
      /\ \A j \in 1..Len(ids) : RegisteredStake'[ids[j]] = weights'[j]
  BY ListsAsBallotNext DEF Restake
<1>3. \A j \in 1..Len(ids) : weights'[j] = IF j = index THEN stake ELSE weights[j]
  <2>1. /\ weights \in Seq(Stakes) /\ index \in 1..Len(weights)
        /\ Len(weights) = Len(ids)
    BY <1>1 DEF TypeOK
  <2>2. weights' = ReplaceAt(weights, index, stake)
    BY DEF Restake, WeightsWith
  <2>. QED
    BY <2>1, <2>2, ExceptSeq DEF ReplaceAt
<1>4. DOMAIN RegisteredStake' = DOMAIN RegisteredStake
  BY <1>2 DEF RegisteredStake
<1>5. ASSUME NEW h \in DOMAIN RegisteredStake
      PROVE  RegisteredStake'[h] = IF h = ids[index] THEN stake ELSE RegisteredStake[h]
  <2>1. PICK j \in 1..Len(ids) : h = ids[j]
    BY <1>1, <1>5
  <2>2. j = index <=> h = ids[index]
    BY <1>1, <2>1 DEF IdsAreDistinct
  <2>. QED
    BY <1>1, <1>2, <1>3, <2>1, <2>2
<1>6. RegisteredStake' = [RegisteredStake EXCEPT ![ids[index]] = stake]
  BY <1>4, <1>5 DEF RegisteredStake
<1>. QED
  BY <1>1, <1>2, <1>6

LEMMA UpdateIsRestake ==
  ASSUME TypeOK, IdsAreDistinct, TypeOK', IdsAreDistinct',
         NEW p \in Positions, NEW index \in DOMAIN ids, NEW stake \in Stakes,
         UpdateStake(p, index, stake)
  PROVE  Ballot!Restake(ids[index], stake)
<1>1. /\ ids' = ids
      /\ ids[index] \in DOMAIN RegisteredStake
      /\ RegisteredStake' = [RegisteredStake EXCEPT ![ids[index]] = stake]
  BY RestakingTheHolder DEF UpdateStake
<1>2. skip' = skip /\ producer_states' = producer_states
  BY DEF UpdateStake
<1>3. Standing' = Standing
  BY <1>1, <1>2 DEF Standing
<1>. QED
  BY <1>1, <1>2, <1>3
     DEF Ballot!Restake, Ballot!Registered, RegisteredStake, block_number

\* Whoever is elected stands for election: this is where the loop of
\* weighted_sample and the shift by skip_holders matter.
LEMMA LeaderStands ==
  ASSUME TypeOK, SkipWithinRegistry, NEW id, IsSlotLeader(id)
  PROVE  id \in Standing
<1>1. /\ weights \in Seq(Nat) /\ skip \in Int /\ skip <= Len(weights)
      /\ Len(weights) = Len(ids)
  <2>1. /\ weights \in Seq(Stakes) /\ skip \in Int /\ skip <= Len(weights)
        /\ Len(weights) = Len(ids)
    BY DEF TypeOK, SkipWithinRegistry
  <2>2. weights \in Seq(Nat)
    <3>1. Len(weights) \in Nat /\ weights \in [1..Len(weights) -> Stakes]
      BY <2>1, LenProperties
    <3>2. weights \in [1..Len(weights) -> Nat]
      BY <3>1, StakesAssumption
    <3>. QED
      BY ONLY <3>1, <3>2
  <2>. QED
    BY <2>1, <2>2
<1>2. PICK draw \in 0..(Total(Candidates(weights, skip)) - 1) :
        id = ids[SlotLeader(weights, skip, draw)]
  BY DEF IsSlotLeader
<1>3. SlotLeader(weights, skip, draw) \in (Max({0, skip}) + 1)..Len(weights)
  BY <1>1, SlotLeaderIsCandidate
<1>. QED
  BY <1>1, <1>2, <1>3 DEF Standing

\* A block is the ballot's Produce: after it nobody is skipped.
LEMMA BlockIsProduce ==
  ASSUME TypeOK, IdsAreDistinct, SkipWithinRegistry, TypeOK', IdsAreDistinct',
         NEW leader \in Positions, NEW slot \in 0..MaxTime,
         NEW auxiliary \in Proposals \cup {NoProposal},
         NEW p \in Positions, NEW index \in DOMAIN ids, NEW stake \in Stakes,
         MineBlockUpdateStake(leader, slot, auxiliary, p, index, stake)
  PROVE  Ballot!Produce(holder[leader].id, ids[index], stake)
<1>. DEFINE block == [producer |-> holder[leader].id, auxiliary |-> auxiliary]
<1>1. /\ ids' = ids
      /\ ids[index] \in DOMAIN RegisteredStake
      /\ RegisteredStake' = [RegisteredStake EXCEPT ![ids[index]] = stake]
  BY RestakingTheHolder DEF MineBlockUpdateStake
<1>2. /\ skip' = 0
      /\ producer_states' = <<block>> \o producer_states
      /\ IsSlotLeader(holder[leader].id)
  BY DEF MineBlockUpdateStake, NewMinedState
<1>3. holder[leader].id \in Standing
  BY <1>2, LeaderStands
<1>4. block \in ProducerState
  BY DEF TypeOK, MineBlockUpdateStake, Live, Holder, ProducerState
<1>5. /\ Len(producer_states') = Len(producer_states) + 1
      /\ Len(producer_states) \in Nat
      /\ producer_states'[1].producer = holder[leader].id
  <2>1. producer_states \in Seq(ProducerState)
    BY DEF TypeOK
  <2>. HIDE DEF block
  <2>2. /\ Len(producer_states') = Len(producer_states) + 1
        /\ producer_states'[1] = block
    BY <1>2, <1>4, <2>1, PrependProperties
  <2>. QED
    BY <2>1, <2>2, LenProperties DEF block
<1>6. Standing' = DOMAIN RegisteredStake
  <2>1. /\ Len(ids) \in Nat
        /\ \A h : h \in DOMAIN RegisteredStake <=> \E j \in 1..Len(ids) : h = ids[j]
    BY ListsAsBallot
  <2>2. \A h : h \in Standing' <=> \E j \in 1..Len(ids) : j > 0 /\ h = ids[j]
    BY <1>1, <1>2, ListsAsBallotNext
  <2>3. \A j \in 1..Len(ids) : j > 0
    BY <2>1
  <2>. QED
    BY <2>1, <2>2, <2>3
<1>7. (skip' < 0) = FALSE
  BY <1>2
<1>8. block_number' = block_number + 1
  BY <1>5 DEF block_number
<1>. QED
  BY <1>1, <1>3, <1>5, <1>6, <1>7, <1>8
     DEF Ballot!Produce, Ballot!Registered, RegisteredStake

\* A transaction that leaves lists and blocks alone is no step of the ballot.
LEMMA BallotStutters ==
  ASSUME UNCHANGED <<ids, weights, skip, producer_states>>
  PROVE  UNCHANGED Ballot!vars
BY DEF Ballot!vars, Standing, IndexOf, block_number

\* Every step of the chain is a step of the ballot or leaves it alone.
LEMMA StepImplementsBallot ==
  ASSUME TypeOK, RegistryMatchesHolders, SkipWithinRegistry, [Next]_vars
  PROVE  [Ballot!Next]_(Ballot!vars)
<1>1. TypeOK' /\ RegistryMatchesHolders'
  BY StepTypes, StepPreservesRegistry
<1>2. IdsAreDistinct /\ IdsAreDistinct'
  BY <1>1 DEF RegistryMatchesHolders
<1>3. \A j \in DOMAIN ids : ids[j] \in HolderIds
  BY LenProperties, ElementOfSeq DEF TypeOK
<1>4. CASE UNCHANGED vars
  BY <1>4, BallotStutters DEF vars, chain, registry
<1>5. ASSUME NEW p \in Positions, NEW id \in HolderIds, NEW stake \in Stakes,
             RegisterStake(p, id, stake)
      PROVE  Ballot!Next
  BY <1>1, <1>2, <1>5, RegistrationIsJoin DEF Ballot!Next
<1>6. ASSUME NEW p \in Positions, NEW index \in {NotListed} \cup DOMAIN ids,
             DeregisterStake(p, index)
      PROVE  [Ballot!Next]_(Ballot!vars)
  <2>1. CASE index = NotListed
    BY <1>6, <2>1, BallotStutters DEF DeregisterStake, NewDeregisteredState, registry
  <2>2. CASE index # NotListed
    <3>1. Ballot!Leave(ids[index])
      BY <1>1, <1>2, <1>6, <2>2, DeregistrationIsLeave
    <3>2. holder[p].id \in HolderIds /\ holder[p].stake \in Stakes
      BY <1>6 DEF DeregisterStake, TypeOK, Live, Holder
    <3>. QED
      BY <1>3, <1>6, <2>2, <3>1, <3>2 DEF Ballot!Next
  <2>. QED
    BY <2>1, <2>2
<1>7. ASSUME NEW p \in Positions, NEW index \in DOMAIN ids, NEW stake \in Stakes,
             UpdateStake(p, index, stake)
      PROVE  Ballot!Next
  BY <1>1, <1>2, <1>3, <1>7, UpdateIsRestake DEF Ballot!Next
<1>8. ASSUME NEW leader \in Positions, NEW slot \in 0..MaxTime,
             NEW auxiliary \in Proposals \cup {NoProposal},
             NEW p \in Positions, NEW index \in DOMAIN ids, NEW stake \in Stakes,
             MineBlockUpdateStake(leader, slot, auxiliary, p, index, stake)
      PROVE  Ballot!Next
  <2>1. holder[leader].id \in HolderIds
    BY <1>8 DEF MineBlockUpdateStake, TypeOK, Live, Holder
  <2>2. Ballot!Produce(holder[leader].id, ids[index], stake)
    BY <1>1, <1>2, <1>8, BlockIsProduce
  <2>. QED
    BY <1>3, <2>1, <2>2 DEF Ballot!Next
<1>9. ASSUME NEW proposal \in Proposals, UpgradeProtocol(proposal)
      PROVE  UNCHANGED Ballot!vars
  BY <1>9, BallotStutters DEF UpgradeProtocol, registry
<1>10. CASE Tick
  BY <1>10, BallotStutters DEF Tick, chain, registry
<1>. QED
  BY <1>4, <1>5, <1>6, <1>7, <1>8, <1>9, <1>10 DEF Next

\* A new chain is a ballot without holders or blocks.
LEMMA InitImplementsBallot == Init => Ballot!Init
<1>. SUFFICES ASSUME Init
              PROVE  Ballot!Init
  OBVIOUS
<1>1. /\ ids = <<>> /\ weights = <<>> /\ skip = -GenesisSkip
      /\ producer_states = <<[producer |-> Nobody, auxiliary |-> NoProposal]>>
  BY DEF Init, Genesis
<1>2. ToSet(ids) = {}
  BY <1>1 DEF ToSet
<1>3. skip \in Int /\ skip < 0
  BY <1>1, SkipAssumption
<1>4. Standing = {}
  <2>1. (Max({0, skip}) + 1)..0 = {}
    BY <1>3, CandidateIndices
  <2>2. Len(ids) = 0
    BY <1>1
  <2>. QED
    BY <2>1, <2>2 DEF Standing
<1>5. (skip < 0) = TRUE
  BY <1>3
<1>6. block_number = 0 /\ producer_states[1].producer = Nobody
  BY <1>1 DEF block_number
<1>. QED
  BY <1>2, <1>4, <1>5, <1>6 DEF Ballot!Init

\* The chain implements the ballot: registrations, withdrawals, edits by index and
\* the moving prefix that is skipped amount to holders that join, wait, stand,
\* leave and produce, and only a holder that stands produces a block.
THEOREM ChainImplementsBallot == Spec => ImplementsBallot
<1>1. TypeOK /\ RegistryMatchesHolders /\ SkipWithinRegistry /\ [Next]_vars
        => [Ballot!Next]_(Ballot!vars)
  BY StepImplementsBallot
<1>. QED
  BY <1>1, InitImplementsBallot, TypeCorrectness, RegistryIsFaithful,
     SkipStaysInRegistry, PTL DEF Spec, ImplementsBallot, Ballot!Spec

=============================================================================
