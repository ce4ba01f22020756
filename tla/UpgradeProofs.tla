---------------------------- MODULE UpgradeProofs ----------------------------
(***************************************************************************)
(* Proofs about the two models of what the approval scripts decide on.     *)
(*                                                                         *)
(* ChainUpgrade: for every agreement length, proposal and list of states   *)
(* that an upgrade is handed, and every list that the indexer may hold     *)
(* when a tool runs, somebody else's outputs included.                     *)
(*                                                                         *)
(* ChainValue: the arithmetic of values is the arithmetic of amounts,      *)
(* token by token, and the chain's value is exact in every token but       *)
(* lovelace, through upgrades as through blocks and fees.                  *)
(***************************************************************************)
EXTENDS ChainUpgrade, ChainValue, CommonLemmas, FiniteSetTheorems

\* The first state of the chain carries no proposal; without this agreement_length votes
\* could be all the states that there are.
FirstIsGenesis == messages # <<>> /\ messages[1] = GenesisMessage

\* A match that contains a state of the chain has the message of that state.
IsMatch(match) ==
  /\ match \in Match
  /\ match.number \in 0..Newest
  /\ match.number # 0 => match.message = messages[match.number]

MatchesAreStates == \A i \in DOMAIN outputs : IsMatch(outputs[i])

\* At the address of v0 the parameters are v0's, which the tools copy.
ShapeOfAddress == address = "v0" => params \in V0Params

\* The inductive invariant of ChainUpgrade.
Inv == TypeOK /\ FirstIsGenesis /\ MatchesAreStates /\ ShapeOfAddress

\* The chain always has a producer state.
LEMMA NewestIsPositive ==
  ASSUME Inv
  PROVE  /\ messages \in Seq(Proposal \cup {NoMessage, GenesisMessage})
         /\ Newest \in Nat \ {0}
         /\ DOMAIN messages = 1..Newest
         /\ messages[1] = GenesisMessage
         /\ \A n \in 1..Newest : messages[n] \in Proposal \cup {NoMessage, GenesisMessage}
<1>1. messages \in Seq(Proposal \cup {NoMessage, GenesisMessage}) /\ messages # <<>>
  BY DEF Inv, TypeOK, FirstIsGenesis
<1>2. Len(messages) \in Nat \ {0} /\ DOMAIN messages = 1..Len(messages)
  BY <1>1, EmptySeq, LenProperties
<1>3. \A n \in 1..Len(messages) : messages[n] \in Proposal \cup {NoMessage, GenesisMessage}
  BY <1>1, ElementOfSeq
<1> QED  BY <1>1, <1>2, <1>3 DEF Newest, Inv, FirstIsGenesis

\* What the tools propose is well formed, given a chain of v0.
LEMMA ProposalsAreWellFormed ==
  ASSUME params \in V0Params, NEW fee \in Fees
  PROVE  {ProposalV0a, ProposalV1, ProposalFee(fee)} \subseteq Proposal
<1>1. [params EXCEPT !.upgrade_approval = "v0a"] \in V0Params
  BY DEF V0Params
<1>2. [params EXCEPT !.register_fee = fee] \in V0Params
  BY DEF V0Params
<1>3. [version |-> "v1", upgrade_approval |-> "v1", register_fee |-> NewFee] \in V1Params
  BY FeesAssumption DEF V1Params
<1>4. ProposalV0a \in Proposal
  BY <1>1 DEF ProposalV0a, Proposal
<1>5. ProposalFee(fee) \in Proposal
  BY <1>2 DEF ProposalFee, Proposal
<1>6. ProposalV1 \in Proposal
  BY <1>3 DEF ProposalV1, Proposal
<1> QED  BY <1>4, <1>5, <1>6

\* It holds in the genesis.
LEMMA InvInit == Init => Inv
<1> SUFFICES ASSUME Init PROVE Inv
  OBVIOUS
<1> DEFINE first == [number |-> 1, message |-> GenesisMessage]
<1>1. params \in V0Params /\ params \in Params
  BY FeesAssumption DEF Init, V0Params, Params
<1>2. messages \in Seq(Proposal \cup {NoMessage, GenesisMessage}) /\ Newest = 1 /\ FirstIsGenesis
  BY DEF Init, Newest, FirstIsGenesis
<1>3. first \in Match /\ IsMatch(first)
  BY <1>2 DEF Match, IsMatch, FirstIsGenesis
<1>4. outputs = <<first>>
  BY DEF Init
<1> HIDE DEF first
<1>5. outputs \in Seq(Match) /\ MatchesAreStates
  BY <1>3, <1>4 DEF MatchesAreStates
<1> QED  BY <1>1, <1>2, <1>5 DEF Init, Inv, TypeOK, ShapeOfAddress

\* The list of matches grows by one in front, while the messages grow at the end.
LEMMA MatchesGrow ==
  ASSUME Inv, NEW match, IsMatch(match)', outputs' = <<match>> \o outputs,
         Newest' \in Nat, Newest' >= Newest, \A n \in 1..Newest : messages'[n] = messages[n]
  PROVE  outputs' \in Seq(Match) /\ MatchesAreStates'
<1>1. outputs \in Seq(Match) /\ match \in Match /\ Newest \in Nat
  BY NewestIsPositive DEF Inv, TypeOK, IsMatch
<1>2. /\ outputs' \in Seq(Match)
      /\ Len(outputs') = Len(outputs) + 1
      /\ outputs'[1] = match
      /\ \A i \in 1..Len(outputs) : outputs'[i + 1] = outputs[i]
  BY <1>1, PrependProperties
<1>3. /\ Len(outputs) \in Nat
      /\ DOMAIN outputs = 1..Len(outputs)
      /\ DOMAIN outputs' = 1..Len(outputs')
  BY <1>1, <1>2, LenProperties
<1>4. ASSUME NEW i \in DOMAIN outputs' PROVE IsMatch(outputs[i])'
  <2>1. CASE i = 1
    BY <1>2, <2>1
  <2>2. CASE i # 1
    <3>1. i - 1 \in 1..Len(outputs) /\ (i - 1) + 1 = i
      BY <1>2, <1>3, <2>2
    <3>2. IsMatch(outputs[i - 1]) /\ outputs'[i] = outputs[i - 1]
      BY <1>2, <1>3, <3>1 DEF Inv, MatchesAreStates
    <3> QED  BY <1>1, <3>2 DEF IsMatch
  <2> QED  BY <2>1, <2>2
<1> QED  BY <1>2, <1>4 DEF MatchesAreStates

\* If it does not, the matches stay what they are.
LEMMA MatchesStay ==
  ASSUME Inv, outputs' = outputs,
         Newest' \in Nat, Newest' >= Newest, \A n \in 1..Newest : messages'[n] = messages[n]
  PROVE  outputs' \in Seq(Match) /\ MatchesAreStates'
<1>1. Newest \in Nat /\ outputs \in Seq(Match) /\ \A i \in DOMAIN outputs : IsMatch(outputs[i])
  BY NewestIsPositive DEF Inv, TypeOK, MatchesAreStates
<1>2. ASSUME NEW i \in DOMAIN outputs PROVE IsMatch(outputs[i])'
  BY <1>1 DEF IsMatch
<1> QED  BY <1>1, <1>2 DEF MatchesAreStates

\* A transaction of the chain lists its newest state, or nothing.
LEMMA NewOutputMatches ==
  ASSUME Inv, NewOutput, Newest' \in Nat, Newest' >= Newest,
         \A n \in 1..Newest : messages'[n] = messages[n],
         messages'[Newest'] \in Proposal \cup {NoMessage, GenesisMessage}
  PROVE  outputs' \in Seq(Match) /\ MatchesAreStates'
<1> DEFINE match == [number |-> Newest', message |-> messages'[Newest']]
<1>1. match \in Match
  BY DEF Match
<1>2. match.number = Newest' /\ match.message = messages'[Newest']
  OBVIOUS
<1>3. outputs' = outputs \/ outputs' = <<match>> \o outputs
  BY DEF NewOutput
<1> HIDE DEF match
<1>4. ASSUME NEW m, m \in Match, m.number = Newest', m.message = messages'[Newest']
      PROVE  IsMatch(m)'
  BY <1>4 DEF IsMatch
<1>5. CASE outputs' = outputs
  BY <1>5, MatchesStay
<1>6. ASSUME NEW m, m \in Match, m.number = Newest', m.message = messages'[Newest'],
             outputs' = <<m>> \o outputs
      PROVE  outputs' \in Seq(Match) /\ MatchesAreStates'
  BY <1>4, <1>6, MatchesGrow
<1> QED  BY <1>1, <1>2, <1>3, <1>5, <1>6

\* Every step preserves the invariant.
LEMMA InvNext == Inv /\ [Next]_vars => Inv'
<1> SUFFICES ASSUME Inv, [Next]_vars PROVE Inv'
  OBVIOUS
<1>0. /\ Newest \in Nat \ {0}
      /\ messages \in Seq(Proposal \cup {NoMessage, GenesisMessage})
      /\ \A n \in 1..Newest : messages[n] \in Proposal \cup {NoMessage, GenesisMessage}
  BY NewestIsPositive
<1>1. CASE UNCHANGED vars
  BY <1>1 DEF vars, Inv, TypeOK, FirstIsGenesis, MatchesAreStates, IsMatch, ShapeOfAddress,
              Newest
<1>2. CASE Propose
  <2>1. proposals' \subseteq Proposal
    BY <1>2, ProposalsAreWellFormed, FeesAssumption DEF Propose, Inv, TypeOK, ShapeOfAddress
  <2>2. UNCHANGED <<address, params, messages, outputs>>
    BY <1>2 DEF Propose
  <2> QED  BY <2>1, <2>2 DEF Inv, TypeOK, FirstIsGenesis, MatchesAreStates, IsMatch,
                             ShapeOfAddress, Newest
<1>3. ASSUME NEW message \in proposals \cup {NoMessage}, MineBlock(message)
      PROVE  Inv'
  <2>1. message \in Proposal \cup {NoMessage, GenesisMessage}
    BY DEF Inv, TypeOK
  <2>2. /\ messages' = Append(messages, message)
        /\ messages' \in Seq(Proposal \cup {NoMessage, GenesisMessage})
        /\ Len(messages') = Newest + 1
        /\ messages'[Newest + 1] = message
        /\ \A n \in 1..Newest : messages'[n] = messages[n]
    BY <1>0, <1>3, <2>1, AppendProperties DEF MineBlock, Newest
  <2>3. Newest' = Newest + 1
    BY <2>2 DEF Newest
  <2>4. outputs' \in Seq(Match) /\ MatchesAreStates'
    BY <1>0, <1>3, <2>1, <2>2, <2>3, NewOutputMatches DEF MineBlock
  <2>5. FirstIsGenesis'
    BY <1>0, <2>2, NewestIsPositive, EmptySeq DEF FirstIsGenesis
  <2> QED  BY <1>3, <2>2, <2>4, <2>5 DEF MineBlock, Inv, TypeOK, ShapeOfAddress
<1>4. CASE ChangeHolders
  <2>1. UNCHANGED <<address, params, messages, proposals>> /\ NewOutput /\ Newest' = Newest
    BY <1>4 DEF ChangeHolders, Newest
  <2>2. outputs' \in Seq(Match) /\ MatchesAreStates'
    BY <1>0, <2>1, NewOutputMatches
  <2> QED  BY <2>1, <2>2 DEF Inv, TypeOK, FirstIsGenesis, ShapeOfAddress
<1>5. ASSUME NEW number \in 0..Newest,
             NEW message \in proposals \cup {NoMessage, GenesisMessage, NoDatum, NoState},
             PlaceOutput(number, message)
      PROVE  Inv'
  <2> DEFINE match == [number |-> number, message |-> message]
  <2>1. UNCHANGED <<address, params, messages, proposals>> /\ Newest' = Newest
    BY <1>5 DEF PlaceOutput, Newest
  <2>2. match \in Match
    BY DEF Match, Inv, TypeOK
  <2>3. IsMatch(match)'
    BY <1>5, <2>1, <2>2 DEF PlaceOutput, IsMatch
  <2>4. outputs' = <<match>> \o outputs
    BY <1>5 DEF PlaceOutput
  <2> HIDE DEF match
  <2>5. \A n \in 1..Newest : messages'[n] = messages[n]
    BY <2>1
  <2>6. outputs' \in Seq(Match) /\ MatchesAreStates'
    BY ONLY Inv, <1>0, <2>1, <2>3, <2>4, <2>5, MatchesGrow
  <2> QED  BY <2>1, <2>6 DEF Inv, TypeOK, FirstIsGenesis, ShapeOfAddress
<1>6. ASSUME NEW list \in [1..(AgreementLength - 1) -> 0..Newest], NEW proposal \in proposals,
             UpgradeProtocol(list, proposal)
      PROVE  Inv'
  <2>1. /\ UNCHANGED <<messages, proposals>> /\ NewOutput /\ Newest' = Newest
        /\ address' = IF proposal.address = KeepAddress THEN address ELSE proposal.address
        /\ params' = proposal.params
    BY <1>6 DEF UpgradeProtocol, Newest
  <2>2. outputs' \in Seq(Match) /\ MatchesAreStates'
    BY <1>0, <2>1, NewOutputMatches
  <2>3. proposal \in Proposal
    BY DEF Inv, TypeOK
  <2>4. params' \in Params /\ address' \in {"v0", "v1"} /\ ShapeOfAddress'
    <3>1. CASE proposal.address \in {"v0", KeepAddress} /\ proposal.params \in V0Params
      BY <2>1, <3>1 DEF Params, Inv, TypeOK, ShapeOfAddress
    <3>2. CASE proposal.address = "v1" /\ proposal.params \in V1Params
      BY <2>1, <3>2, AddressAssumption DEF Params, ShapeOfAddress
    <3> QED  BY <2>3, <3>1, <3>2 DEF Proposal
  <2> QED  BY <2>1, <2>2, <2>4 DEF Inv, TypeOK, FirstIsGenesis
<1> QED  BY <1>1, <1>2, <1>3, <1>4, <1>5, <1>6 DEF Next

\* So it holds in every reachable state.
LEMMA InvHolds == Spec => []Inv
  BY InvInit, InvNext, PTL DEF Spec

\* The approval scripts can not be led astray by the list: it has to be the states right
\* before the current one, and there are that many.
LEMMA ApprovalMeansVotes ==
  ASSUME Inv, NEW list \in [1..(AgreementLength - 1) -> 0..Newest], NEW proposal \in Proposal,
         Approves(list, proposal)
  PROVE  /\ Newest > AgreementLength
         /\ messages[Newest] = proposal
         /\ \A n \in (Newest - AgreementLength + 1)..Newest : messages[n] = proposal
<1>1. Newest \in Nat \ {0} /\ messages[1] = GenesisMessage /\ messages[Newest] = proposal
  BY NewestIsPositive DEF Approves
<1>2. proposal # GenesisMessage
  BY MessageAssumption
<1>3. \A i \in 1..(AgreementLength - 1) :
        list[i] = Newest - i /\ list[i] \in 1..Newest /\ messages[Newest - i] = proposal
  <2>1. DOMAIN list = 1..(AgreementLength - 1)
    OBVIOUS
  <2>2. ASSUME NEW i \in 1..(AgreementLength - 1)
        PROVE  list[i] = Newest - i /\ list[i] \in 1..Newest /\ messages[list[i]] = proposal
    <3>1. list[i] \in 0..Newest
      OBVIOUS
    <3> QED  BY <1>1, <2>1, <3>1 DEF Approves, IsHashChain
  <2>3. ASSUME NEW i \in 1..(AgreementLength - 1)
        PROVE  messages[Newest - i] = proposal
    BY <2>2
  <2> QED  BY <2>2, <2>3
<1>4. \A n \in (Newest - AgreementLength + 1)..Newest : messages[n] = proposal
  <2> SUFFICES ASSUME NEW n \in (Newest - AgreementLength + 1)..Newest, n # Newest
               PROVE  messages[n] = proposal
    BY <1>1
  <2>1. Newest - n \in 1..(AgreementLength - 1) /\ Newest - (Newest - n) = n
    BY <1>1, AgreementAssumption
  <2> QED  BY <2>1, <1>3
<1>5. Newest - AgreementLength + 1 >= 1
  <2>1. CASE AgreementLength = 1
    BY <2>1, <1>1
  <2>2. CASE AgreementLength # 1
    <3>1. AgreementLength - 1 \in 1..(AgreementLength - 1)
      BY <2>2, AgreementAssumption
    <3> QED  BY <3>1, <1>3, <1>1, AgreementAssumption
  <2> QED  BY <2>1, <2>2
<1>6. Newest - AgreementLength + 1 # 1
  BY <1>1, <1>2, <1>4, AgreementAssumption
<1> QED  BY <1>1, <1>4, <1>5, <1>6, AgreementAssumption

\* Parameters, messages and matches stay well formed; in particular v1 parameters come
\* with the approval script of v1.
THEOREM UpgradeTypeCorrectness == Spec => []TypeOK
<1>1. Inv => TypeOK
  BY DEF Inv
<1> QED  BY <1>1, InvHolds, PTL

\* Address and parameters change to nothing but what the newest agreement_length blocks
\* voted for.
THEOREM ChangesNeedVotes == Spec => ChangesWereAgreed
<1>1. Inv /\ [Next]_vars =>
        [<<address, params>>' # <<address, params>> =>
           /\ Newest > AgreementLength
           /\ messages[Newest] \in Proposal
           /\ messages[Newest].params = params'
           /\ messages[Newest].address \in {address', KeepAddress}
           /\ \A n \in (Newest - AgreementLength + 1)..Newest :
                messages[n] = messages[Newest]]_vars
  <2> SUFFICES ASSUME Inv, Next, <<address, params>>' # <<address, params>>
               PROVE  /\ Newest > AgreementLength
                      /\ messages[Newest] \in Proposal
                      /\ messages[Newest].params = params'
                      /\ messages[Newest].address \in {address', KeepAddress}
                      /\ \A n \in (Newest - AgreementLength + 1)..Newest :
                            messages[n] = messages[Newest]
    OBVIOUS
  <2>1. PICK list \in [1..(AgreementLength - 1) -> 0..Newest], proposal \in proposals :
          UpgradeProtocol(list, proposal)
    BY DEF Next, Propose, MineBlock, ChangeHolders, PlaceOutput
  <2>2. /\ Approves(list, proposal)
        /\ params' = proposal.params
        /\ address' = IF proposal.address = KeepAddress THEN address ELSE proposal.address
        /\ proposal \in Proposal
    BY <2>1 DEF UpgradeProtocol, Inv, TypeOK
  <2>3. /\ Newest > AgreementLength
        /\ messages[Newest] = proposal
        /\ \A n \in (Newest - AgreementLength + 1)..Newest : messages[n] = proposal
    BY <2>2, ApprovalMeansVotes
  <2> QED  BY <2>2, <2>3
<1> QED  BY <1>1, InvHolds, PTL DEF Spec, ChangesWereAgreed

-----------------------------------------------------------------------------
(* The tool that submits the upgrade.                                      *)

\* The loop's lists exist, and each is the one before or has one state more.
LEMMA CollectedEquations ==
  ASSUME Len(outputs) \in Nat
  PROVE  /\ CollectedUpto[0] = <<>>
         /\ \A i \in 1..Len(outputs) :
              CollectedUpto[i] = IF IsKept(i) THEN Append(CollectedUpto[i - 1], outputs[i].number)
                                 ELSE CollectedUpto[i - 1]
<1> DEFINE More(f, i) == IF IsKept(i) THEN Append(f[i - 1], outputs[i].number) ELSE f[i - 1]
           Step(f, n) == [i \in 0..n |-> IF i = 0 THEN <<>> ELSE More(f, i)]
           Solvable == {n \in Nat : \E f : f = Step(f, n)}
<1>1. 0 \in Solvable
  <2> DEFINE f == [i \in 0..0 |-> <<>>]
  <2>1. f = Step(f, 0)
    OBVIOUS
  <2> QED  BY <2>1
<1>2. ASSUME NEW n \in Nat, n \in Solvable
      PROVE  n + 1 \in Solvable
  <2>1. PICK f : f = Step(f, n)
    BY <1>2
  <2> DEFINE g == [i \in 0..(n + 1) |-> IF i <= n THEN f[i] ELSE More(f, n + 1)]
  <2>2. \A i \in 0..n : f[i] = IF i = 0 THEN <<>> ELSE More(f, i)
    BY <2>1
  <2>3. ASSUME NEW i \in 0..(n + 1)
        PROVE  g[i] = IF i = 0 THEN <<>> ELSE More(g, i)
    <3>1. CASE i <= n
      <4>1. g[i] = f[i] /\ (i # 0 => g[i - 1] = f[i - 1])
        BY <3>1
      <4>2. i # 0 => More(g, i) = More(f, i)
        BY <4>1
      <4> QED  BY <2>2, <3>1, <4>1, <4>2
    <3>2. CASE i = n + 1
      <4>1. g[i] = More(f, i) /\ i # 0 /\ g[i - 1] = f[i - 1]
        BY <3>2
      <4> QED  BY <4>1
    <3> QED  BY <3>1, <3>2
  <2>4. g = Step(g, n + 1)
    BY <2>3
  <2> HIDE DEF g, Step
  <2> QED  BY <2>4
<1>3. Nat \subseteq Solvable
  <2> HIDE DEF Solvable
  <2> QED  BY <1>1, <1>2, InductionOnNat
<1>4. CollectedUpto = CHOOSE f : f = Step(f, Len(outputs))
  BY DEF CollectedUpto
<1>5. CollectedUpto = Step(CollectedUpto, Len(outputs))
  <2> HIDE DEF Step
  <2> QED  BY <1>3, <1>4
<1>6. \A i \in 0..Len(outputs) :
        CollectedUpto[i] = IF i = 0 THEN <<>> ELSE More(CollectedUpto, i)
  <2> HIDE DEF More
  <2> QED  BY <1>5
<1> QED  BY <1>6

\* The repeats before a match, of which there are finitely many.
Before(n) == {j \in Repeats : j < n}

LEMMA RepeatsAreCounted ==
  ASSUME Len(outputs) \in Nat
  PROVE  /\ IsFiniteSet(Repeats)
         /\ Cardinality(Repeats) \in Nat
         /\ Before(Len(outputs) + 1) = Repeats
         /\ Cardinality(Before(2)) = 0
         /\ \A n : Cardinality(Before(n)) \in Nat
         /\ \A n \in Nat : Cardinality(Before(n + 1)) =
              IF n \in Repeats THEN Cardinality(Before(n)) + 1 ELSE Cardinality(Before(n))
<1>1. Repeats \subseteq 2..Len(outputs)
  BY DEF Repeats
<1>2. IsFiniteSet(2..Len(outputs))
  BY FS_Interval
<1>3. IsFiniteSet(Repeats)
  BY <1>1, <1>2, FS_Subset
<1>4. \A n : IsFiniteSet(Before(n)) /\ Cardinality(Before(n)) \in Nat
  BY <1>3, FS_Subset, FS_CardinalityType DEF Before
<1>5. Before(Len(outputs) + 1) = Repeats /\ Before(2) = {}
  <2>1. \A j \in Repeats : j < Len(outputs) + 1 /\ ~ (j < 2)
    BY <1>1
  <2>2. Before(Len(outputs) + 1) = Repeats
    BY <2>1, Zenon DEF Before
  <2> QED  BY <2>1, <2>2, Zenon DEF Before
<1>6. ASSUME NEW n \in Nat
      PROVE  Cardinality(Before(n + 1)) =
               IF n \in Repeats THEN Cardinality(Before(n)) + 1 ELSE Cardinality(Before(n))
  <2>1. \A j \in Repeats : j < n + 1 <=> j < n \/ j = n
    BY <1>1
  <2>2. CASE n \in Repeats
    <3>1. Before(n + 1) = Before(n) \cup {n}
      BY <2>1, <2>2, Zenon DEF Before
    <3>2. n \notin Before(n)
      BY <2>1 DEF Before
    <3> QED  BY <1>4, <2>2, <3>1, <3>2, FS_AddElement
  <2>3. CASE n \notin Repeats
    BY <2>1, <2>3 DEF Before
  <2> QED  BY <2>2, <2>3
<1> QED  BY <1>3, <1>4, <1>5, <1>6, FS_EmptySet, FS_CardinalityType

\* The loop keeps the first match and, in their order, those that repeat its message.
LEMMA CollectsTheRepeats ==
  ASSUME Inv, 1 \in DOMAIN outputs, ~ Ends(outputs[1])
  PROVE  /\ Collected \in Seq(Nat)
         /\ Len(Collected) = Cardinality(Repeats) + 1
         /\ \A i \in Repeats :
              /\ Cardinality(Before(i)) + 2 \in 1..Len(Collected)
              /\ Collected[Cardinality(Before(i)) + 2] = outputs[i].number
         /\ \A k \in 2..Len(Collected) :
              \E i \in Repeats : k = Cardinality(Before(i)) + 2
<1>1. /\ outputs \in Seq(Match) /\ Len(outputs) \in Nat \ {0} /\ DOMAIN outputs = 1..Len(outputs)
      /\ \A i \in 1..Len(outputs) : outputs[i].number \in Nat
  <2>1. outputs \in Seq(Match)
    BY DEF Inv, TypeOK
  <2>2. Len(outputs) \in Nat /\ DOMAIN outputs = 1..Len(outputs)
    BY <2>1, LenProperties
  <2>3. \A i \in 1..Len(outputs) : outputs[i] \in Match
    BY <2>1, ElementOfSeq
  <2> QED  BY <2>1, <2>2, <2>3 DEF Match
<1>2. IsKept(1)
  BY <1>1 DEF IsKept, IsRead
<1>3. \A i \in 2..Len(outputs) : IsKept(i) <=> i \in Repeats
  BY DEF IsKept, Repeats
<1>4. Repeats \subseteq 2..Len(outputs)
  BY DEF Repeats
<1> DEFINE rank == [n \in Nat |-> Cardinality(Before(n))]
           Good == {n \in Nat : n + 1 <= Len(outputs) =>
                     /\ CollectedUpto[n + 1] \in Seq(Nat)
                     /\ Len(CollectedUpto[n + 1]) = rank[n + 2] + 1
                     /\ \A i \in Repeats : i <= n + 1 =>
                          /\ rank[i] + 2 \in 1..Len(CollectedUpto[n + 1])
                          /\ CollectedUpto[n + 1][rank[i] + 2] = outputs[i].number
                     /\ \A k \in 2..Len(CollectedUpto[n + 1]) :
                          \E i \in Repeats : i <= n + 1 /\ k = rank[i] + 2}
<1>5. /\ \A n \in Nat : rank[n] \in Nat
      /\ \A n \in Nat : rank[n + 1] = IF n \in Repeats THEN rank[n] + 1 ELSE rank[n]
      /\ rank[2] = 0
      /\ rank[Len(outputs) + 1] = Cardinality(Repeats)
  <2>1. \A n \in Nat : rank[n] = Cardinality(Before(n))
    OBVIOUS
  <2>2. 2 \in Nat /\ Len(outputs) + 1 \in Nat /\ \A n \in Nat : n + 1 \in Nat
    BY <1>1
  <2> HIDE DEF rank
  <2> QED  BY <1>1, <2>1, <2>2, RepeatsAreCounted
<1>6. /\ CollectedUpto[0] = <<>>
      /\ \A n \in 1..Len(outputs) :
           CollectedUpto[n] = IF IsKept(n) THEN Append(CollectedUpto[n - 1], outputs[n].number)
                     ELSE CollectedUpto[n - 1]
  BY <1>1, CollectedEquations
<1> HIDE DEF rank
<1>7. 0 \in Good
  <2>1. CollectedUpto[1] = Append(<<>>, outputs[1].number)
    <3>1. 1 \in 1..Len(outputs) /\ 1 - 1 = 0
      BY <1>1
    <3> QED  BY <1>2, <1>6, <3>1
  <2>2. CollectedUpto[1] = <<outputs[1].number>>
    BY <2>1
  <2>3. outputs[1].number \in Nat
    BY <1>1
  <2>4. CollectedUpto[1] \in Seq(Nat) /\ Len(CollectedUpto[1]) = 1
    BY <2>2, <2>3
  <2>5. \A i \in Repeats : ~ (i <= 0 + 1)
    BY <1>4
  <2>6. 0 + 1 = 1 /\ 0 + 2 = 2 /\ 2..1 = {}
    OBVIOUS
  <2>7. /\ CollectedUpto[0 + 1] \in Seq(Nat)
        /\ Len(CollectedUpto[0 + 1]) = rank[0 + 2] + 1
        /\ 2..Len(CollectedUpto[0 + 1]) = {}
    BY <1>5, <2>4, <2>6
  <2> QED  BY <2>5, <2>7
<1>8. ASSUME NEW n \in Nat, n \in Good
      PROVE  n + 1 \in Good
  <2> DEFINE m == n + 1
  <2> SUFFICES ASSUME m + 1 <= Len(outputs)
               PROVE  /\ CollectedUpto[m + 1] \in Seq(Nat)
                      /\ Len(CollectedUpto[m + 1]) = rank[m + 2] + 1
                      /\ \A i \in Repeats : i <= m + 1 =>
                           /\ rank[i] + 2 \in 1..Len(CollectedUpto[m + 1])
                           /\ CollectedUpto[m + 1][rank[i] + 2] = outputs[i].number
                      /\ \A k \in 2..Len(CollectedUpto[m + 1]) :
                           \E i \in Repeats : i <= m + 1 /\ k = rank[i] + 2
    OBVIOUS
  <2>1. /\ m \in Nat /\ m + 1 \in 2..Len(outputs) /\ (m + 1) - 1 = m /\ n + 2 = m + 1
        /\ m + 2 = (m + 1) + 1 /\ n + 1 <= Len(outputs)
    BY <1>1
  <2>2. /\ CollectedUpto[m] \in Seq(Nat)
        /\ Len(CollectedUpto[m]) = rank[m + 1] + 1
        /\ \A i \in Repeats : i <= m =>
             /\ rank[i] + 2 \in 1..Len(CollectedUpto[m])
             /\ CollectedUpto[m][rank[i] + 2] = outputs[i].number
        /\ \A k \in 2..Len(CollectedUpto[m]) : \E i \in Repeats : i <= m /\ k = rank[i] + 2
    BY <1>8, <2>1
  <2>3. outputs[m + 1].number \in Nat
    BY <1>1, <2>1
  <2>4. \A i \in Repeats : i \in Nat /\ (i <= m + 1 <=> i <= m \/ i = m + 1)
    BY <1>1, <1>4, <2>1
  <2>5. rank[m + 2] = IF m + 1 \in Repeats THEN rank[m + 1] + 1 ELSE rank[m + 1]
    BY <1>5, <2>1
  <2>6. CollectedUpto[m + 1] = IF m + 1 \in Repeats THEN Append(CollectedUpto[m], outputs[m + 1].number)
                      ELSE CollectedUpto[m]
    BY <1>1, <1>3, <1>6, <2>1
  <2>7. rank[m + 1] \in Nat /\ Len(CollectedUpto[m]) \in Nat
    <3>1. m + 1 \in Nat
      BY <2>1
    <3>2. Len(CollectedUpto[m]) \in Nat
      BY <2>2, LenProperties
    <3> QED  BY <1>5, <3>1, <3>2
  <2> HIDE DEF m
  <2>8. CASE m + 1 \in Repeats
    <3>1. /\ CollectedUpto[m + 1] \in Seq(Nat)
          /\ Len(CollectedUpto[m + 1]) = Len(CollectedUpto[m]) + 1
          /\ \A k \in 1..Len(CollectedUpto[m]) : CollectedUpto[m + 1][k] = CollectedUpto[m][k]
          /\ CollectedUpto[m + 1][Len(CollectedUpto[m]) + 1] = outputs[m + 1].number
      BY <2>2, <2>3, <2>6, <2>8, AppendProperties
    <3>2. Len(CollectedUpto[m]) + 1 = rank[m + 1] + 2 /\ Len(CollectedUpto[m + 1]) = rank[m + 2] + 1
      BY <2>2, <2>5, <2>7, <2>8, <3>1
    <3>3. ASSUME NEW i \in Repeats, i <= m + 1
          PROVE  /\ rank[i] + 2 \in 1..Len(CollectedUpto[m + 1])
                 /\ CollectedUpto[m + 1][rank[i] + 2] = outputs[i].number
      <4>1. CASE i <= m
        <5>1. rank[i] + 2 \in 1..Len(CollectedUpto[m]) /\ CollectedUpto[m][rank[i] + 2] = outputs[i].number
          BY <2>2, <4>1
        <5>2. CollectedUpto[m + 1][rank[i] + 2] = outputs[i].number
          BY <3>1, <5>1
        <5>3. rank[i] + 2 \in 1..Len(CollectedUpto[m + 1])
          BY <2>7, <3>1, <5>1
        <5> QED  BY <5>2, <5>3
      <4>2. CASE i = m + 1
        <5>1. rank[i] + 2 = Len(CollectedUpto[m]) + 1
          BY <3>2, <4>2
        <5> QED  BY <2>7, <3>1, <4>2, <5>1
      <4> QED  BY <2>4, <3>3, <4>1, <4>2
    <3>4. ASSUME NEW k \in 2..Len(CollectedUpto[m + 1])
          PROVE  \E i \in Repeats : i <= m + 1 /\ k = rank[i] + 2
      <4>1. CASE k \in 2..Len(CollectedUpto[m])
        BY <2>2, <2>4, <4>1
      <4>2. CASE k = Len(CollectedUpto[m]) + 1
        BY <2>4, <2>8, <3>2, <4>2
      <4> QED  BY <2>7, <3>1, <4>1, <4>2
    <3> QED  BY <3>1, <3>2, <3>3, <3>4
  <2>9. CASE m + 1 \notin Repeats
    <3>1. CollectedUpto[m + 1] = CollectedUpto[m] /\ rank[m + 2] = rank[m + 1]
      BY <2>5, <2>6, <2>9
    <3>2. \A i \in Repeats : i <= m + 1 <=> i <= m
      BY <2>4, <2>9
    <3> QED  BY <2>2, <3>1, <3>2
  <2> QED  BY <2>8, <2>9
<1>9. Nat \subseteq Good
  <2> HIDE DEF Good
  <2> QED  BY <1>7, <1>8, InductionOnNat
<1>10. Len(outputs) - 1 \in Nat /\ (Len(outputs) - 1) + 1 = Len(outputs)
       /\ (Len(outputs) - 1) + 2 = Len(outputs) + 1
  BY <1>1
<1>11. /\ CollectedUpto[Len(outputs)] \in Seq(Nat)
       /\ Len(CollectedUpto[Len(outputs)]) = rank[Len(outputs) + 1] + 1
       /\ \A i \in Repeats : i <= Len(outputs) =>
            /\ rank[i] + 2 \in 1..Len(CollectedUpto[Len(outputs)])
            /\ CollectedUpto[Len(outputs)][rank[i] + 2] = outputs[i].number
       /\ \A k \in 2..Len(CollectedUpto[Len(outputs)]) :
            \E i \in Repeats : i <= Len(outputs) /\ k = rank[i] + 2
  <2> DEFINE n == Len(outputs) - 1
  <2>1. n \in Good /\ n + 1 = Len(outputs) /\ n + 2 = Len(outputs) + 1 /\ n + 1 <= Len(outputs)
    <3> HIDE DEF Good
    <3> QED  BY <1>1, <1>9, <1>10
  <2> HIDE DEF n
  <2> QED  BY <2>1
<1>12. \A i \in Repeats : i <= Len(outputs)
  BY <1>1, <1>4
<1>13. Collected = CollectedUpto[Len(outputs)]
  BY DEF Collected
<1>14. \A i \in Repeats : rank[i] = Cardinality(Before(i))
  BY <1>1, <1>4 DEF rank
<1> QED  BY <1>5, <1>11, <1>12, <1>13, <1>14

\* What the tool hands to the script: the repeats, none if the loop ends at once.
LEMMA HandsTheRepeats ==
  ASSUME Inv, NEW list, list = WithoutCurrent(Collected)
  PROVE  /\ Len(list) = Cardinality(Repeats)
         /\ Cardinality(Repeats) \in Nat
         /\ DOMAIN list = 1..Len(list)
         /\ \A i \in Repeats :
              /\ Cardinality(Before(i)) \in Nat
              /\ Cardinality(Before(i)) + 1 \in 1..Len(list)
              /\ list[Cardinality(Before(i)) + 1] = outputs[i].number
         /\ \A k \in 1..Len(list) : \E i \in Repeats : k = Cardinality(Before(i)) + 1
<1>1. Len(outputs) \in Nat /\ DOMAIN outputs = 1..Len(outputs)
  BY LenProperties DEF Inv, TypeOK
<1>2. /\ Cardinality(Repeats) \in Nat
      /\ \A n : Cardinality(Before(n)) \in Nat
  BY <1>1, RepeatsAreCounted
<1>3. CASE 1 \in DOMAIN outputs /\ ~ Ends(outputs[1])
  <2>1. /\ Collected \in Seq(Nat)
        /\ Len(Collected) = Cardinality(Repeats) + 1
        /\ \A i \in Repeats :
             /\ Cardinality(Before(i)) + 2 \in 1..Len(Collected)
             /\ Collected[Cardinality(Before(i)) + 2] = outputs[i].number
        /\ \A k \in 2..Len(Collected) : \E i \in Repeats : k = Cardinality(Before(i)) + 2
    BY <1>3, CollectsTheRepeats
  <2>2. list = SubSeq(Collected, 2, Len(Collected)) /\ Len(Collected) \in Nat
    BY <1>2, <2>1 DEF WithoutCurrent
  <2>3. \A k \in 2..Len(Collected) : Collected[k] \in Nat
    BY <2>1, ElementOfSeq
  <2>4. /\ list \in Seq(Nat)
        /\ Len(list) = Cardinality(Repeats)
        /\ \A k \in 1..Cardinality(Repeats) : list[k] = Collected[k + 1]
    <3>1. /\ list \in Seq(Nat)
          /\ Len(list) = IF 2 <= Len(Collected) THEN Len(Collected) - 2 + 1 ELSE 0
          /\ \A k \in 1..(Len(Collected) - 2 + 1) : list[k] = Collected[2 + k - 1]
      BY <2>2, <2>3, SubSeqProperties
    <3>2. \A k \in 1..Cardinality(Repeats) :
            k \in 1..(Len(Collected) - 2 + 1) /\ 2 + k - 1 = k + 1
      BY <1>2, <2>1
    <3> QED  BY <1>2, <2>1, <3>1, <3>2
  <2>5. DOMAIN list = 1..Len(list)
    BY <2>4, LenProperties
  <2>6. ASSUME NEW i \in Repeats
        PROVE  /\ Cardinality(Before(i)) + 1 \in 1..Len(list)
               /\ list[Cardinality(Before(i)) + 1] = outputs[i].number
    <3>1. /\ Cardinality(Before(i)) + 1 \in 1..Cardinality(Repeats)
          /\ (Cardinality(Before(i)) + 1) + 1 = Cardinality(Before(i)) + 2
      BY <1>2, <2>1
    <3> QED  BY <2>1, <2>4, <3>1
  <2>7. ASSUME NEW k \in 1..Len(list)
        PROVE  \E i \in Repeats : k = Cardinality(Before(i)) + 1
    <3>1. k + 1 \in 2..Len(Collected)
      BY <1>2, <2>1, <2>4
    <3>2. PICK i \in Repeats : k + 1 = Cardinality(Before(i)) + 2
      BY <2>1, <3>1
    <3> QED  BY <1>2, <3>2
  <2> QED  BY <1>2, <2>4, <2>5, <2>6, <2>7
<1>4. CASE ~ (1 \in DOMAIN outputs /\ ~ Ends(outputs[1]))
  <2>1. \A i \in 1..Len(outputs) : ~ IsRead(i)
    BY <1>1, <1>4 DEF IsRead
  <2>2. Repeats = {}
    BY <1>1, <2>1 DEF Repeats
  <2>3. Collected = <<>>
    <3> DEFINE Blank == {n \in Nat : n <= Len(outputs) => CollectedUpto[n] = <<>>}
    <3>1. 0 \in Blank
      BY <1>1, CollectedEquations
    <3>2. ASSUME NEW n \in Nat, n \in Blank PROVE n + 1 \in Blank
      <4> SUFFICES ASSUME n + 1 <= Len(outputs) PROVE CollectedUpto[n + 1] = <<>>
        OBVIOUS
      <4>1. n + 1 \in 1..Len(outputs) /\ (n + 1) - 1 = n /\ n <= Len(outputs)
        BY <1>1
      <4>2. ~ IsKept(n + 1)
        BY <2>1, <4>1 DEF IsKept
      <4> QED  BY <1>1, <3>2, <4>1, <4>2, CollectedEquations
    <3>3. Nat \subseteq Blank
      <4> HIDE DEF Blank
      <4> QED  BY <3>1, <3>2, InductionOnNat
    <3> QED  BY <1>1, <3>3 DEF Collected
  <2>4. list = <<>> /\ Len(list) = 0
    BY <2>3, SubSeqEmpty, EmptySeq DEF WithoutCurrent
  <2>5. Cardinality(Repeats) = 0
    BY <2>2, FS_EmptySet
  <2> QED  BY <2>2, <2>4, <2>5
<1> QED  BY <1>3, <1>4

\* The tool upgrades the chain when the votes of the newest blocks are what it reads,
\* each once and newest first, and at no other time: an output that repeats a vote, an
\* older one of the same message before the first blank, or a datum of somebody else's
\* that is no state each makes it fail (upgrade_v0_to_v0a.py:66-87, 109-119).
THEOREM ToolsHaveToBeInTime == Spec => []ToolSubmitsInTime
<1>1. ASSUME Inv PROVE ToolSubmitsInTime
  <2> SUFFICES ASSUME address = "v0", HasProposal
               PROVE  ToolSubmits <=> InTime
    BY DEF ToolSubmitsInTime
  <2> DEFINE list == WithoutCurrent(Collected)
             vote == messages[Newest]
             rank(i) == Cardinality(Before(i))
  <2>1. /\ Newest \in Nat \ {0} /\ AgreementLength \in Nat \ {0}
        /\ \A i \in Repeats :
             /\ outputs[i].number \in Nat
             /\ outputs[i].number # 0 => outputs[i].message = messages[outputs[i].number]
    <3>1. DOMAIN outputs = 1..Len(outputs) /\ Len(outputs) \in Nat
      BY <1>1, LenProperties DEF Inv, TypeOK
    <3>2. Repeats \subseteq DOMAIN outputs
      BY <3>1 DEF Repeats
    <3> QED  BY <1>1, <3>2, NewestIsPositive, AgreementAssumption
             DEF Inv, MatchesAreStates, IsMatch
  <2>2. /\ Len(list) = Cardinality(Repeats)
        /\ Cardinality(Repeats) \in Nat
        /\ DOMAIN list = 1..Len(list)
        /\ \A i \in Repeats :
             rank(i) \in Nat /\ rank(i) + 1 \in 1..Len(list) /\ list[rank(i) + 1] = outputs[i].number
        /\ \A k \in 1..Len(list) : \E i \in Repeats : k = rank(i) + 1
    BY <1>1, HandsTheRepeats
  <2>3. \A i : rank(i) = Cardinality({j \in Repeats : j < i})
    BY DEF Before
  <2>4. AllAreStates <=>
          \A i \in DOMAIN outputs :
            outputs[i].message = NoState => \E j \in 1..i : Ends(outputs[j])
    BY DEF AllAreStates, IsRead
  <2>5. ToolSubmits <=>
          /\ AllAreStates
          /\ Len(list) + 1 = AgreementLength
          /\ Approves(list, vote)
    BY DEF ToolSubmits
  <2>6. InTime <=>
          /\ AllAreStates
          /\ Cardinality(Repeats) = AgreementLength - 1
          /\ \A i \in Repeats :
               /\ outputs[i].number = Newest - 1 - rank(i)
               /\ outputs[i].number # 0
               /\ outputs[i].message = vote
    BY <2>3, <2>4 DEF InTime
  <2> HIDE DEF list, vote, rank
  <2>7. Approves(list, vote) <=>
          /\ Len(list) = AgreementLength - 1
          /\ \A k \in 1..Len(list) :
               list[k] = Newest - k /\ list[k] # 0 /\ messages[list[k]] = vote
    BY <2>2 DEF Approves, IsHashChain, vote
  <2>8. ASSUME \A k \in 1..Len(list) :
                 list[k] = Newest - k /\ list[k] # 0 /\ messages[list[k]] = vote,
               NEW i \in Repeats
        PROVE  /\ outputs[i].number = Newest - 1 - rank(i)
               /\ outputs[i].number # 0
               /\ outputs[i].message = vote
    <3>1. /\ rank(i) \in Nat /\ rank(i) + 1 \in 1..Len(list)
          /\ list[rank(i) + 1] = outputs[i].number
      BY <2>2
    <3>2. /\ outputs[i].number = Newest - (rank(i) + 1)
          /\ outputs[i].number # 0
          /\ messages[outputs[i].number] = vote
      BY <2>8, <3>1
    <3> QED  BY <2>1, <3>1, <3>2
  <2>9. ASSUME \A i \in Repeats :
                 /\ outputs[i].number = Newest - 1 - rank(i)
                 /\ outputs[i].number # 0
                 /\ outputs[i].message = vote,
               NEW k \in 1..Len(list)
        PROVE  list[k] = Newest - k /\ list[k] # 0 /\ messages[list[k]] = vote
    <3>1. PICK i \in Repeats : k = rank(i) + 1
      BY <2>2
    <3>2. rank(i) \in Nat /\ list[k] = outputs[i].number
      BY <2>2, <3>1
    <3>3. /\ outputs[i].number = Newest - 1 - rank(i)
          /\ outputs[i].number # 0
          /\ outputs[i].message = vote
      BY <2>9
    <3> QED  BY <2>1, <3>1, <3>2, <3>3
  <2>10. Len(list) + 1 = AgreementLength <=> Cardinality(Repeats) = AgreementLength - 1
    BY <2>1, <2>2
  <2> QED  BY <2>1, <2>2, <2>5, <2>6, <2>7, <2>8, <2>9, <2>10
<1> QED  BY <1>1, InvHolds, PTL

-----------------------------------------------------------------------------
(* The value of the chain.                                                 *)

Dict == ValueDicts(Int)

\* Dictionaries, by their domain and range: four lemmas that stand for unfolding the
\* unions of sets of functions.
LEMMA NameDictsIntro ==
  ASSUME NEW S, NEW N \in SUBSET Names, NEW d \in [N -> S]
  PROVE  d \in NameDicts(S)
BY DEF NameDicts

LEMMA ValueDictsIntro ==
  ASSUME NEW P \in SUBSET Policies, NEW v \in [P -> NameDicts(Int)]
  PROVE  v \in Dict
BY DEF ValueDicts, Dict

LEMMA NameDictsElim ==
  ASSUME NEW S, NEW d \in NameDicts(S)
  PROVE  DOMAIN d \subseteq Names /\ d \in [DOMAIN d -> S]
BY DEF NameDicts

LEMMA DictElim ==
  ASSUME NEW v \in Dict
  PROVE  DOMAIN v \subseteq Policies /\ v \in [DOMAIN v -> NameDicts(Int)]
BY DEF ValueDicts, Dict

\* The default that the arithmetic uses for a missing policy is a dictionary.
LEMMA EmptyIsDict == Empty \in NameDicts(Int) /\ DOMAIN Empty = {}
<1>1. Empty \in [{} -> Int] /\ DOMAIN Empty = {}
  BY DEF Empty
<1>2. {} \in SUBSET Names
  OBVIOUS
<1> QED BY <1>1, <1>2, NameDictsIntro

\* A look-up with a default finds an amount, a dictionary of amounts, and an amount,
\* whether or not the policy and the name are there.
LEMMA GetName ==
  ASSUME NEW d \in NameDicts(Int), NEW n
  PROVE  Get(d, n, 0) \in Int
BY NameDictsElim DEF Get

LEMMA GetPolicy ==
  ASSUME NEW v \in Dict, NEW p
  PROVE  Get(v, p, Empty) \in NameDicts(Int)
BY DictElim, EmptyIsDict DEF Get

LEMMA AmountIsInt ==
  ASSUME NEW v \in Dict, NEW p, NEW n
  PROVE  AmountOf(v, p, n) \in Int
BY GetPolicy, GetName DEF AmountOf

-----------------------------------------------------------------------------
\* The amounts under the names of one policy.
LEMMA NamesAdd ==
  ASSUME NEW a \in NameDicts(Int), NEW b \in NameDicts(Int)
  PROVE  /\ AddNames(a, b) \in NameDicts(Int)
         /\ \A n : Get(AddNames(a, b), n, 0) = Get(a, n, 0) + Get(b, n, 0)
<1>1. \A n : Get(a, n, 0) \in Int /\ Get(b, n, 0) \in Int
  BY GetName
<1>2. CASE DOMAIN a = {}
  <2>1. \A n : Get(a, n, 0) = 0
    BY <1>2 DEF Get
  <2> QED BY <1>1, <1>2, <2>1 DEF AddNames
<1>3. CASE DOMAIN a # {} /\ DOMAIN b = {}
  <2>1. \A n : Get(b, n, 0) = 0
    BY <1>3 DEF Get
  <2> QED BY <1>1, <1>3, <2>1 DEF AddNames
<1>4. CASE DOMAIN a # {} /\ DOMAIN b # {}
  <2>1. AddNames(a, b) = [n \in Keys(a, b) |-> Get(a, n, 0) + Get(b, n, 0)]
    BY <1>4 DEF AddNames
  <2>2. AddNames(a, b) \in NameDicts(Int)
    <3>1. Keys(a, b) \in SUBSET Names
      BY NameDictsElim DEF Keys
    <3>2. AddNames(a, b) \in [Keys(a, b) -> Int]
      BY <1>1, <2>1
    <3> QED BY <3>1, <3>2, NameDictsIntro
  <2>3. \A n : n \notin Keys(a, b) => Get(a, n, 0) = 0 /\ Get(b, n, 0) = 0
    BY DEF Get, Keys
  <2>4. ASSUME NEW n
        PROVE  Get(AddNames(a, b), n, 0) = Get(a, n, 0) + Get(b, n, 0)
    <3>1. CASE n \in Keys(a, b)
      BY <2>1, <3>1 DEF Get
    <3>2. CASE n \notin Keys(a, b)
      <4>1. Get(AddNames(a, b), n, 0) = 0
        BY <2>1, <3>2 DEF Get
      <4> QED BY <2>3, <3>2, <4>1
    <3> QED BY <3>1, <3>2
  <2> QED BY <2>2, <2>4
<1> QED BY <1>2, <1>3, <1>4

\* What the arithmetic does to the names of one policy.
LEMMA NamesNegate ==
  ASSUME NEW b \in NameDicts(Int)
  PROVE  /\ Negated(b) \in NameDicts(Int)
         /\ \A n : Get(Negated(b), n, 0) = -Get(b, n, 0)
<1>1. \A n \in DOMAIN b : b[n] \in Int
  BY NameDictsElim
<1>2. Negated(b) = [n \in DOMAIN b |-> -b[n]]
  BY DEF Negated
<1>3. Negated(b) \in NameDicts(Int)
  BY <1>1, <1>2, NameDictsElim, NameDictsIntro
<1>4. ASSUME NEW n PROVE Get(Negated(b), n, 0) = -Get(b, n, 0)
  BY <1>2 DEF Get
<1> QED BY <1>3, <1>4

LEMMA NamesSubtract ==
  ASSUME NEW a \in NameDicts(Int), NEW b \in NameDicts(Int)
  PROVE  /\ SubtractNames(a, b) \in NameDicts(Int)
         /\ \A n : Get(SubtractNames(a, b), n, 0) = Get(a, n, 0) - Get(b, n, 0)
<1>1. \A n : Get(a, n, 0) \in Int /\ Get(b, n, 0) \in Int
  BY GetName
<1>2. CASE DOMAIN b = {}
  <2>1. \A n : Get(b, n, 0) = 0
    BY <1>2 DEF Get
  <2> QED BY <1>1, <1>2, <2>1 DEF SubtractNames
<1>3. CASE DOMAIN b # {} /\ DOMAIN a = {}
  <2>1. \A n : Get(a, n, 0) = 0
    BY <1>3 DEF Get
  <2>2. SubtractNames(a, b) = Negated(b)
    BY <1>3 DEF SubtractNames
  <2> QED BY <1>1, <2>1, <2>2, NamesNegate
<1>4. CASE DOMAIN b # {} /\ DOMAIN a # {}
  <2>1. SubtractNames(a, b) = [n \in Keys(a, b) |-> Get(a, n, 0) - Get(b, n, 0)]
    BY <1>4 DEF SubtractNames
  <2>2. SubtractNames(a, b) \in NameDicts(Int)
    <3>1. Keys(a, b) \in SUBSET Names
      BY NameDictsElim DEF Keys
    <3>2. SubtractNames(a, b) \in [Keys(a, b) -> Int]
      BY <1>1, <2>1
    <3> QED BY <3>1, <3>2, NameDictsIntro
  <2>3. \A n : n \notin Keys(a, b) => Get(a, n, 0) = 0 /\ Get(b, n, 0) = 0
    BY DEF Get, Keys
  <2>4. ASSUME NEW n
        PROVE  Get(SubtractNames(a, b), n, 0) = Get(a, n, 0) - Get(b, n, 0)
    <3>1. CASE n \in Keys(a, b)
      BY <2>1, <3>1 DEF Get
    <3>2. CASE n \notin Keys(a, b)
      <4>1. Get(SubtractNames(a, b), n, 0) = 0
        BY <2>1, <3>2 DEF Get
      <4> QED BY <2>3, <3>2, <4>1
    <3> QED BY <3>1, <3>2
  <2> QED BY <2>2, <2>4
<1> QED BY <1>2, <1>3, <1>4

-----------------------------------------------------------------------------
\* add_value adds the amounts of every token (value.py:71-83).
THEOREM AmountOfSum ==
  ASSUME NEW a \in Dict, NEW b \in Dict
  PROVE  /\ AddValue(a, b) \in Dict
         /\ \A p, n : AmountOf(AddValue(a, b), p, n)
                        = AmountOf(a, p, n) + AmountOf(b, p, n)
<1>1. \A p, n : AmountOf(a, p, n) \in Int /\ AmountOf(b, p, n) \in Int
  BY AmountIsInt
<1>2. CASE DOMAIN a = {}
  <2>1. \A p, n : AmountOf(a, p, n) = 0
    BY <1>2, EmptyIsDict DEF AmountOf, Get
  <2> QED BY <1>1, <1>2, <2>1 DEF AddValue
<1>3. CASE DOMAIN a # {} /\ DOMAIN b = {}
  <2>1. \A p, n : AmountOf(b, p, n) = 0
    BY <1>3, EmptyIsDict DEF AmountOf, Get
  <2> QED BY <1>1, <1>3, <2>1 DEF AddValue
<1>4. CASE DOMAIN a # {} /\ DOMAIN b # {}
  <2> DEFINE A(p) == Get(a, p, Empty)
             B(p) == Get(b, p, Empty)
  <2>1. AddValue(a, b) = [p \in Keys(a, b) |-> AddNames(A(p), B(p))]
    BY <1>4 DEF AddValue
  <2>2. \A p : A(p) \in NameDicts(Int) /\ B(p) \in NameDicts(Int)
    BY GetPolicy
  <2>3. \A p : AddNames(A(p), B(p)) \in NameDicts(Int)
    BY <2>2, NamesAdd
  <2>4. Keys(a, b) \subseteq Policies
    BY DictElim DEF Keys
  <2>5. AddValue(a, b) \in Dict
    BY <2>1, <2>3, <2>4, ValueDictsIntro
  <2>6. ASSUME NEW p, NEW n
        PROVE  AmountOf(AddValue(a, b), p, n) = AmountOf(a, p, n) + AmountOf(b, p, n)
    <3>1. Get(AddNames(A(p), B(p)), n, 0) = Get(A(p), n, 0) + Get(B(p), n, 0)
      BY <2>2, NamesAdd
    <3>2. CASE p \in Keys(a, b)
      <4>1. Get(AddValue(a, b), p, Empty) = AddNames(A(p), B(p))
        BY <2>1, <3>2 DEF Get
      <4> QED BY <3>1, <4>1 DEF AmountOf
    <3>3. CASE p \notin Keys(a, b)
      <4>1. /\ Get(AddValue(a, b), p, Empty) = Empty
            /\ A(p) = Empty
            /\ B(p) = Empty
        BY <2>1, <3>3 DEF Get, Keys
      <4>2. Get(Empty, n, 0) = 0
        BY EmptyIsDict DEF Get
      <4> QED BY <4>1, <4>2 DEF AmountOf
    <3> QED BY <3>2, <3>3
  <2> QED BY <2>5, <2>6
<1> QED BY <1>2, <1>3, <1>4

\* subtract_value subtracts the amounts of every token (value.py:33-51), also
\* those that only one of the values has.
THEOREM AmountOfDifference ==
  ASSUME NEW a \in Dict, NEW b \in Dict
  PROVE  /\ SubtractValue(a, b) \in Dict
         /\ \A p, n : AmountOf(SubtractValue(a, b), p, n)
                        = AmountOf(a, p, n) - AmountOf(b, p, n)
<1>1. \A p, n : AmountOf(a, p, n) \in Int /\ AmountOf(b, p, n) \in Int
  BY AmountIsInt
<1>2. CASE DOMAIN b = {}
  <2>1. \A p, n : AmountOf(b, p, n) = 0
    BY <1>2, EmptyIsDict DEF AmountOf, Get
  <2> QED BY <1>1, <1>2, <2>1 DEF SubtractValue
<1>3. CASE DOMAIN b # {} /\ DOMAIN a = {}
  <2>1. SubtractValue(a, b) = [p \in DOMAIN b |-> Negated(b[p])]
    BY <1>3 DEF SubtractValue
  <2>2. \A p \in DOMAIN b : b[p] \in NameDicts(Int)
    BY DictElim
  <2>3. \A p \in DOMAIN b : Negated(b[p]) \in NameDicts(Int)
    BY <2>2, NamesNegate
  <2>4. SubtractValue(a, b) \in Dict
    BY <2>1, <2>3, DictElim, ValueDictsIntro
  <2>5. \A p, n : AmountOf(a, p, n) = 0
    BY <1>3, EmptyIsDict DEF AmountOf, Get
  <2>6. ASSUME NEW p, NEW n
        PROVE  AmountOf(SubtractValue(a, b), p, n) = -AmountOf(b, p, n)
    <3>1. CASE p \in DOMAIN b
      <4>1. /\ Get(SubtractValue(a, b), p, Empty) = Negated(b[p])
            /\ Get(b, p, Empty) = b[p]
        BY <2>1, <3>1 DEF Get
      <4>2. Get(Negated(b[p]), n, 0) = -Get(b[p], n, 0)
        BY <2>2, <3>1, NamesNegate
      <4> QED BY <4>1, <4>2 DEF AmountOf
    <3>2. CASE p \notin DOMAIN b
      <4>1. /\ Get(SubtractValue(a, b), p, Empty) = Empty
            /\ Get(b, p, Empty) = Empty
        BY <2>1, <3>2 DEF Get
      <4>2. Get(Empty, n, 0) = 0
        BY EmptyIsDict DEF Get
      <4> QED BY <4>1, <4>2 DEF AmountOf
    <3> QED BY <3>1, <3>2
  <2>7. \A p, n : AmountOf(a, p, n) - AmountOf(b, p, n) = -AmountOf(b, p, n)
    BY <1>1, <2>5
  <2> QED BY <2>4, <2>6, <2>7
<1>4. CASE DOMAIN b # {} /\ DOMAIN a # {}
  <2> DEFINE A(p) == Get(a, p, Empty)
             B(p) == Get(b, p, Empty)
  <2>1. SubtractValue(a, b) = [p \in Keys(a, b) |-> SubtractNames(A(p), B(p))]
    BY <1>4 DEF SubtractValue
  <2>2. \A p : A(p) \in NameDicts(Int) /\ B(p) \in NameDicts(Int)
    BY GetPolicy
  <2>3. \A p : SubtractNames(A(p), B(p)) \in NameDicts(Int)
    BY <2>2, NamesSubtract
  <2>4. Keys(a, b) \subseteq Policies
    BY DictElim DEF Keys
  <2>5. SubtractValue(a, b) \in Dict
    BY <2>1, <2>3, <2>4, ValueDictsIntro
  <2>6. ASSUME NEW p, NEW n
        PROVE  AmountOf(SubtractValue(a, b), p, n)
                 = AmountOf(a, p, n) - AmountOf(b, p, n)
    <3>1. Get(SubtractNames(A(p), B(p)), n, 0) = Get(A(p), n, 0) - Get(B(p), n, 0)
      BY <2>2, NamesSubtract
    <3>2. CASE p \in Keys(a, b)
      <4>1. Get(SubtractValue(a, b), p, Empty) = SubtractNames(A(p), B(p))
        BY <2>1, <3>2 DEF Get
      <4> QED BY <3>1, <4>1 DEF AmountOf
    <3>3. CASE p \notin Keys(a, b)
      <4>1. /\ Get(SubtractValue(a, b), p, Empty) = Empty
            /\ A(p) = Empty
            /\ B(p) = Empty
        BY <2>1, <3>3 DEF Get, Keys
      <4>2. Get(Empty, n, 0) = 0
        BY EmptyIsDict DEF Get
      <4> QED BY <4>1, <4>2 DEF AmountOf
    <3> QED BY <3>2, <3>3
  <2> QED BY <2>5, <2>6
<1> QED BY <1>2, <1>3, <1>4

\* The comparison of two dictionaries compares the amounts of every token but
\* lovelace, also of those that neither has (value.py:103-123).
LEMMA SameTokensIsPointwise ==
  ASSUME NEW a, NEW b
  PROVE  SameTokens(a, b)
           <=> \A p, n : p # Ada => AmountOf(a, p, n) = AmountOf(b, p, n)
<1>1. ASSUME SameTokens(a, b), NEW p, NEW n, p # Ada
      PROVE  AmountOf(a, p, n) = AmountOf(b, p, n)
  <2>1. CASE p \notin Keys(a, b)
    BY <2>1 DEF AmountOf, Get, Keys
  <2>2. CASE n \notin Keys(Get(a, p, Empty), Get(b, p, Empty))
    BY <2>2 DEF AmountOf, Get, Keys
  <2> QED BY <1>1, <2>1, <2>2 DEF SameTokens
<1>2. ASSUME \A p, n : p # Ada => AmountOf(a, p, n) = AmountOf(b, p, n)
      PROVE  SameTokens(a, b)
  BY <1>2 DEF SameTokens
<1> QED BY <1>1, <1>2

-----------------------------------------------------------------------------
\* The arithmetic applies to what the ledger holds, and to single tokens.
LEMMA LedgerValuesAreDicts == LedgerValues \subseteq Dict
<1>1. 1..MaxAmount \subseteq Int
  OBVIOUS
<1>2. NameDicts(1..MaxAmount) \subseteq NameDicts(Int)
  <2>1. ASSUME NEW N \in SUBSET Names, NEW d \in [N -> 1..MaxAmount]
        PROVE  d \in NameDicts(Int)
    <3>1. d \in [N -> Int]
      BY <1>1
    <3> QED BY <3>1, NameDictsIntro
  <2> QED BY <2>1 DEF NameDicts
<1>3. ASSUME NEW P \in SUBSET Policies, NEW v \in [P -> NameDicts(1..MaxAmount)]
      PROVE  v \in Dict
  <2>1. v \in [P -> NameDicts(Int)]
    BY <1>2
  <2> QED BY <2>1, ValueDictsIntro
<1> QED BY <1>3 DEF LedgerValues, ValueDicts

\* The value that rewards and fees are written as.
LEMMA AmountOfOneToken ==
  ASSUME NEW p \in Policies, NEW n \in Names, NEW amount \in Int
  PROVE  /\ OneToken(p, n, amount) \in Dict
         /\ \A q, m : AmountOf(OneToken(p, n, amount), q, m)
                        = IF q = p /\ m = n THEN amount ELSE 0
<1> DEFINE inner == [m \in {n} |-> amount]
<1>1. inner \in NameDicts(Int)
  <2>1. {n} \in SUBSET Names /\ inner \in [{n} -> Int]
    OBVIOUS
  <2> QED BY <2>1, NameDictsIntro
<1>2. OneToken(p, n, amount) = [q \in {p} |-> inner]
  BY DEF OneToken
<1>3. OneToken(p, n, amount) \in Dict
  <2>1. {p} \in SUBSET Policies /\ OneToken(p, n, amount) \in [{p} -> NameDicts(Int)]
    BY <1>1, <1>2
  <2> QED BY <2>1, ValueDictsIntro
<1>4. ASSUME NEW q, NEW m
      PROVE  AmountOf(OneToken(p, n, amount), q, m)
               = IF q = p /\ m = n THEN amount ELSE 0
  <2>1. CASE q = p
    <3>1. Get(OneToken(p, n, amount), q, Empty) = inner
      BY <1>2, <2>1 DEF Get
    <3> QED BY <2>1, <3>1 DEF AmountOf, Get
  <2>2. CASE q # p
    <3>1. Get(OneToken(p, n, amount), q, Empty) = Empty
      BY <1>2, <2>2 DEF Get
    <3> QED BY <2>2, <3>1, EmptyIsDict DEF AmountOf, Get
  <2> QED BY <2>1, <2>2
<1> QED BY <1>3, <1>4

-----------------------------------------------------------------------------
\* The value of the output is well formed, and the account is kept exactly.
ValueInv ==
  /\ value \in LedgerValues
  /\ account = [t \in Tokens |-> AmountOf(value, t[1], t[2])]

\* The account starts with what the genesis holds.
LEMMA ValueInvInit == ValueInit => ValueInv
BY ValuesAssumption DEF ValueInit, ValueInv

\* Rewards are rounded down to an integer.
LEMMA RewardIsInt ==
  ASSUME ValueInv
  PROVE  Reward \in Int
<1>1. AmountOf(value, Coin, CoinName) \in Int
  BY LedgerValuesAreDicts, AmountIsInt DEF ValueInv
<1>2. Fraction.numerator \in Nat /\ Fraction.denominator \in Nat \ {0}
  BY ParamsAssumption
<1> QED BY <1>1, <1>2 DEF Reward

\* A value that is compared with the sum of the old one and an amount of coin.
LEMMA CoinMoves ==
  ASSUME ValueInv, NEW next \in LedgerValues, NEW amount \in Int, NEW expected,
         \A p, n : AmountOf(expected, p, n)
                    = AmountOf(value, p, n)
                        + (IF p = Coin /\ n = CoinName THEN amount ELSE 0),
         SameTokens(next, expected), value' = next, account' = CreditCoin(amount)
  PROVE  ValueInv'
<1> DEFINE coin == <<Coin, CoinName>>
<1>1. coin \in Tokens
  BY NamesAssumption DEF Tokens
<1>2. \A p, n : AmountOf(value, p, n) \in Int
  BY LedgerValuesAreDicts, AmountIsInt DEF ValueInv
<1>3. account' = [t \in Tokens |-> IF t = coin
                                   THEN AmountOf(value, Coin, CoinName) + amount
                                   ELSE AmountOf(value, t[1], t[2])]
  BY <1>1 DEF ValueInv, CreditCoin
<1>4. ASSUME NEW t \in Tokens
      PROVE  AmountOf(next, t[1], t[2])
               = IF t = coin THEN AmountOf(value, Coin, CoinName) + amount
                 ELSE AmountOf(value, t[1], t[2])
  <2>1. t[1] # Ada /\ t = <<t[1], t[2]>>
    BY DEF Tokens
  <2>2. AmountOf(next, t[1], t[2]) = AmountOf(expected, t[1], t[2])
    BY <2>1, SameTokensIsPointwise
  <2>3. CASE t = coin
    BY <2>2, <2>3
  <2>4. CASE t # coin
    <3>1. ~ (t[1] = Coin /\ t[2] = CoinName)
      BY <2>1, <2>4
    <3> QED BY <1>2, <2>2, <2>4, <3>1
  <2> QED BY <2>3, <2>4
<1> QED BY <1>3, <1>4 DEF ValueInv

\* Each action keeps the account exact: blocks, fees, updates and upgrades.
LEMMA MineKeepsInv ==
  ASSUME ValueInv, NEW next \in LedgerValues, PayReward(next)
  PROVE  ValueInv'
<1> DEFINE paid == OneToken(Coin, CoinName, Reward)
           expected == SubtractValue(value, paid)
<1>1. Reward \in Int
  BY RewardIsInt
<1>2. value \in Dict
  BY LedgerValuesAreDicts DEF ValueInv
<1>3. /\ paid \in Dict
      /\ \A p, n : AmountOf(paid, p, n) = IF p = Coin /\ n = CoinName THEN Reward ELSE 0
  BY <1>1, NamesAssumption, AmountOfOneToken
<1>4. \A p, n : AmountOf(expected, p, n) = AmountOf(value, p, n) - AmountOf(paid, p, n)
  BY <1>2, <1>3, AmountOfDifference
<1>5. \A p, n : AmountOf(expected, p, n)
                  = AmountOf(value, p, n)
                      + (IF p = Coin /\ n = CoinName THEN -Reward ELSE 0)
  <2> TAKE p, n
  <2>1. AmountOf(value, p, n) \in Int
    BY <1>2, AmountIsInt
  <2> QED BY <1>1, <1>3, <1>4, <2>1
<1>6. SameTokens(next, expected) /\ value' = next /\ account' = CreditCoin(-Reward)
  BY DEF PayReward, EqualExceptAdaIncrease
<1> QED
  <2>1. -Reward \in Int
    BY <1>1
  <2> HIDE DEF expected
  <2> QED BY <1>5, <1>6, <2>1, CoinMoves

LEMMA FeeKeepsInv ==
  ASSUME ValueInv, NEW next \in LedgerValues, PayFee(next)
  PROVE  ValueInv'
<1> DEFINE paid == OneToken(Coin, CoinName, Fee)
           expected == AddValue(value, paid)
<1>1. Fee \in Int
  BY ParamsAssumption
<1>2. value \in Dict
  BY LedgerValuesAreDicts DEF ValueInv
<1>3. /\ paid \in Dict
      /\ \A p, n : AmountOf(paid, p, n) = IF p = Coin /\ n = CoinName THEN Fee ELSE 0
  BY <1>1, NamesAssumption, AmountOfOneToken
<1>4. \A p, n : AmountOf(expected, p, n) = AmountOf(value, p, n) + AmountOf(paid, p, n)
  BY <1>2, <1>3, AmountOfSum
<1>5. \A p, n : AmountOf(expected, p, n)
                  = AmountOf(value, p, n)
                      + (IF p = Coin /\ n = CoinName THEN Fee ELSE 0)
  BY <1>3, <1>4
<1>6. SameTokens(next, expected) /\ value' = next /\ account' = CreditCoin(Fee)
  BY DEF PayFee, EqualExceptAdaIncrease
<1> HIDE DEF expected
<1> QED BY <1>1, <1>5, <1>6, CoinMoves

LEMMA UpdateKeepsInv ==
  ASSUME ValueInv, NEW next \in LedgerValues, UpdateStake(next)
  PROVE  ValueInv'
<1>1. SameTokens(next, value) /\ value' = next /\ account' = account
  BY DEF UpdateStake, EqualExceptAdaIncrease
<1>2. \A t \in Tokens : AmountOf(next, t[1], t[2]) = AmountOf(value, t[1], t[2])
  BY <1>1, SameTokensIsPointwise DEF Tokens
<1> QED BY <1>1, <1>2 DEF ValueInv

\* What an upgrade takes in and pays out, token by token.
LEMMA AmountAfterUpgrade ==
  ASSUME ValueInv, NEW treasury \in Treasuries, NEW payout \in Payouts
  PROVE  \A p, n : AmountOf(AfterUpgrade(treasury, payout), p, n)
                     = AmountOf(value, p, n) + AmountIn(treasury, p, n)
                         - AmountIn(payout, p, n)
<1>1. value \in Dict
  BY LedgerValuesAreDicts DEF ValueInv
<1>2. /\ treasury # Nothing => treasury \in Dict
      /\ payout # Nothing => payout \in Dict
  BY ValuesAssumption, LedgerValuesAreDicts
<1>3. \A p, n : /\ AmountOf(value, p, n) \in Int
                /\ AmountIn(treasury, p, n) \in Int
                /\ AmountIn(payout, p, n) \in Int
  BY <1>1, <1>2, AmountIsInt DEF AmountIn
<1>4. /\ Taken(treasury) \in Dict
      /\ \A p, n : AmountOf(Taken(treasury), p, n)
                     = AmountOf(value, p, n) + AmountIn(treasury, p, n)
  <2>1. CASE treasury = Nothing
    BY <1>1, <1>3, <2>1 DEF Taken, AmountIn
  <2>2. CASE treasury # Nothing
    <3>1. Taken(treasury) = AddValue(treasury, value)
      BY <2>2 DEF Taken
    <3>2. \A p, n : AmountOf(AddValue(treasury, value), p, n)
                      = AmountOf(treasury, p, n) + AmountOf(value, p, n)
      BY <1>1, <1>2, <2>2, AmountOfSum
    <3>3. \A p, n : AmountIn(treasury, p, n) = AmountOf(treasury, p, n)
      BY <2>2 DEF AmountIn
    <3>4. AddValue(treasury, value) \in Dict
      BY <1>1, <1>2, <2>2, AmountOfSum
    <3> QED BY <1>3, <3>1, <3>2, <3>3, <3>4
  <2> QED BY <2>1, <2>2
<1>5. CASE payout = Nothing
  <2>1. AfterUpgrade(treasury, payout) = Taken(treasury)
    BY <1>5 DEF AfterUpgrade
  <2>2. \A p, n : AmountIn(payout, p, n) = 0
    BY <1>5 DEF AmountIn
  <2> QED BY <1>3, <1>4, <2>1, <2>2
<1>6. CASE payout # Nothing
  <2>1. AfterUpgrade(treasury, payout) = SubtractValue(Taken(treasury), payout)
    BY <1>6 DEF AfterUpgrade
  <2>2. \A p, n : AmountOf(SubtractValue(Taken(treasury), payout), p, n)
                    = AmountOf(Taken(treasury), p, n) - AmountOf(payout, p, n)
    BY <1>2, <1>4, <1>6, AmountOfDifference
  <2>3. \A p, n : AmountIn(payout, p, n) = AmountOf(payout, p, n)
    BY <1>6 DEF AmountIn
  <2> QED BY <1>3, <1>4, <2>1, <2>2, <2>3
<1> QED BY <1>5, <1>6

\* An upgrade keeps the account exact, though its comparison is the other way round.
LEMMA UpgradeKeepsInv ==
  ASSUME ValueInv, NEW next \in LedgerValues, NEW treasury \in Treasuries,
         NEW payout \in Payouts, Upgrade(treasury, payout, next)
  PROVE  ValueInv'
<1>1. SameTokens(AfterUpgrade(treasury, payout), next) /\ value' = next
  BY DEF Upgrade, EqualExceptAdaIncrease
<1>2. account' = [t \in Tokens |->
                    AmountOf(value, t[1], t[2]) + AmountIn(treasury, t[1], t[2])
                      - AmountIn(payout, t[1], t[2])]
  BY DEF Upgrade, ValueInv
<1>3. \A t \in Tokens :
        AmountOf(next, t[1], t[2])
          = AmountOf(value, t[1], t[2]) + AmountIn(treasury, t[1], t[2])
              - AmountIn(payout, t[1], t[2])
  <2> TAKE t \in Tokens
  <2>1. t[1] # Ada
    BY DEF Tokens
  <2>2. AmountOf(next, t[1], t[2]) = AmountOf(AfterUpgrade(treasury, payout), t[1], t[2])
    BY <1>1, <2>1, SameTokensIsPointwise
  <2> QED BY <2>2, AmountAfterUpgrade
<1> QED BY <1>1, <1>2, <1>3 DEF ValueInv

\* Every step preserves the invariant.
LEMMA ValueInvNext == ValueInv /\ [ValueNext]_valueVars => ValueInv'
<1> SUFFICES ASSUME ValueInv, [ValueNext]_valueVars PROVE ValueInv'
  OBVIOUS
<1>1. CASE UNCHANGED valueVars
  BY <1>1 DEF valueVars, ValueInv
<1>2. CASE ValueNext
  BY <1>2, MineKeepsInv, FeeKeepsInv, UpdateKeepsInv, UpgradeKeepsInv DEF ValueNext
<1> QED BY <1>1, <1>2

\* Of every token but lovelace the chain holds exactly what it should, for any
\* policies and names, and any sequence of transactions.
THEOREM ValueStaysExact == ValueSpec => []AccountIsExact
<1>1. ValueInv => AccountIsExact
  BY DEF ValueInv, AccountIsExact, Tokens
<1> QED BY ValueInvInit, ValueInvNext, <1>1, PTL DEF ValueSpec

-----------------------------------------------------------------------------
\* Amounts in an output are bounded, those of tokens it does not hold being zero.
LEMMA AmountInOutput ==
  ASSUME NEW v \in LedgerValues, NEW p, NEW n
  PROVE  AmountOf(v, p, n) \in 0..MaxAmount
<1>1. MaxAmount \in Nat
  BY ParamsAssumption
<1>2. PICK P \in SUBSET Policies : v \in [P -> NameDicts(1..MaxAmount)]
  BY DEF LedgerValues, ValueDicts
<1>3. CASE p \notin P
  <2>1. Get(v, p, Empty) = Empty
    BY <1>2, <1>3 DEF Get
  <2>2. AmountOf(v, p, n) = 0
    BY <2>1, EmptyIsDict DEF AmountOf, Get
  <2> QED BY <1>1, <2>2
<1>4. CASE p \in P
  <2>1. PICK N \in SUBSET Names : v[p] \in [N -> 1..MaxAmount]
    BY <1>2, <1>4 DEF NameDicts
  <2>2. AmountOf(v, p, n) = IF n \in N THEN v[p][n] ELSE 0
    BY <1>2, <1>4, <2>1 DEF AmountOf, Get
  <2>3. n \in N => v[p][n] \in 1..MaxAmount
    BY <2>1
  <2> QED BY <1>1, <2>2, <2>3
<1> QED BY <1>3, <1>4

\* The output is always one the ledger accepts: positive amounts, an entry for
\* lovelace, no policy without tokens; and what is counted for each token is an
\* amount an output can hold, whatever the scripts' arithmetic gives in between.
THEOREM ValueTypeCorrectness == ValueSpec => []ValueTypeOK
<1>1. ASSUME ValueInv PROVE ValueTypeOK
  <2>1. value \in LedgerValues
    BY <1>1 DEF ValueInv
  <2>2. \A t \in Tokens : AmountOf(value, t[1], t[2]) \in 0..MaxAmount
    BY <2>1, AmountInOutput
  <2>3. account \in [Tokens -> 0..MaxAmount]
    BY <1>1, <2>2 DEF ValueInv
  <2> QED BY <2>1, <2>3 DEF ValueTypeOK
<1> QED BY ValueInvInit, ValueInvNext, <1>1, PTL DEF ValueSpec

-----------------------------------------------------------------------------
\* A block takes no lovelace: the reward is of another policy, and the value
\* comparison asks for at least as much lovelace as before.
LEMMA MineKeepsAda ==
  ASSUME ValueInv, NEW next \in LedgerValues, PayReward(next)
  PROVE  AmountOf(next, Ada, AdaName) >= AmountOf(value, Ada, AdaName)
<1> DEFINE paid == OneToken(Coin, CoinName, Reward)
<1>1. value \in Dict /\ Reward \in Int
  BY RewardIsInt, LedgerValuesAreDicts DEF ValueInv
<1>2. paid \in Dict /\ AmountOf(paid, Ada, AdaName) = 0
  BY <1>1, NamesAssumption, AmountOfOneToken
<1>3. AmountOf(SubtractValue(value, paid), Ada, AdaName)
        = AmountOf(value, Ada, AdaName) - AmountOf(paid, Ada, AdaName)
  BY <1>1, <1>2, AmountOfDifference
<1>4. AmountOf(value, Ada, AdaName) \in Int
  BY <1>1, AmountIsInt
<1>5. AmountOf(next, Ada, AdaName) >= AmountOf(SubtractValue(value, paid), Ada, AdaName)
  BY DEF PayReward, EqualExceptAdaIncrease, EnoughAda
<1> QED BY <1>2, <1>3, <1>4, <1>5

\* Neither does a registration or a deregistration: the fee is of another policy.
LEMMA FeeKeepsAda ==
  ASSUME ValueInv, NEW next \in LedgerValues, PayFee(next)
  PROVE  AmountOf(next, Ada, AdaName) >= AmountOf(value, Ada, AdaName)
<1> DEFINE paid == OneToken(Coin, CoinName, Fee)
<1>1. value \in Dict /\ Fee \in Int
  BY ParamsAssumption, LedgerValuesAreDicts DEF ValueInv
<1>2. paid \in Dict /\ AmountOf(paid, Ada, AdaName) = 0
  BY <1>1, NamesAssumption, AmountOfOneToken
<1>3. AmountOf(AddValue(value, paid), Ada, AdaName)
        = AmountOf(value, Ada, AdaName) + AmountOf(paid, Ada, AdaName)
  BY <1>1, <1>2, AmountOfSum
<1>4. AmountOf(value, Ada, AdaName) \in Int
  BY <1>1, AmountIsInt
<1>5. AmountOf(next, Ada, AdaName) >= AmountOf(AddValue(value, paid), Ada, AdaName)
  BY DEF PayFee, EqualExceptAdaIncrease, EnoughAda
<1> QED BY <1>2, <1>3, <1>4, <1>5

\* Blocks, fees and updates keep the chain's lovelace or add to it: each compares the
\* next value with what the old one comes to, in this order (value.py:94-123).
THEOREM AdaStaysWithoutUpgrades == ValueSpec => OnlyUpgradesLowerAda
<1>1. ASSUME ValueInv, NEW next \in LedgerValues,
             PayReward(next) \/ PayFee(next) \/ UpdateStake(next)
      PROVE  AmountOf(value', Ada, AdaName) >= AmountOf(value, Ada, AdaName)
  <2>1. value' = next
    BY <1>1 DEF PayReward, PayFee, UpdateStake
  <2>2. CASE PayReward(next) \/ PayFee(next)
    BY <1>1, <2>1, <2>2, MineKeepsAda, FeeKeepsAda
  <2>3. CASE UpdateStake(next)
    BY <2>1, <2>3 DEF UpdateStake, EqualExceptAdaIncrease, EnoughAda
  <2> QED BY <1>1, <2>2, <2>3
<1>2. ValueInv /\ [ValueNext]_valueVars
        => [(\E next \in LedgerValues : PayReward(next) \/ PayFee(next) \/ UpdateStake(next))
            => AmountOf(value', Ada, AdaName) >= AmountOf(value, Ada, AdaName)]_valueVars
  BY <1>1
<1> QED BY ValueInvInit, ValueInvNext, <1>2, PTL DEF ValueSpec, OnlyUpgradesLowerAda

=============================================================================
