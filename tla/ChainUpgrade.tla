---------------------------- MODULE ChainUpgrade ----------------------------
(***************************************************************************)
(* Upgrades of the chain: the approval scripts (stakechain_upgrade_v0.py,  *)
(* _v0a.py, _v1.py), which are handed the earlier producer states and      *)
(* follow their hashes, and the tools that make proposals                  *)
(* (upgrade_proposal_*.py), collect the states and submit the upgrade      *)
(* (upgrade_v0_to_v0a.py, upgrade_v0a_to_v1.py).                           *)
(*                                                                         *)
(* A producer state of the chain is known by its number, since each        *)
(* contains the hash of the one before.  Of the parameters that a proposal *)
(* of the tools copies one is kept; those proposals pay nothing out and    *)
(* take nothing in.                                                        *)
(***************************************************************************)
EXTENDS Integers, Sequences, FiniteSets

CONSTANTS
  AgreementLength,  \* agreement_length of the scripts, 7 in the tools
  Fees,             \* values of register_fee, which stands for all parameters
                    \* that the proposals of the tools copy
  GenesisFee,       \* the one that the chain starts with
  NewFee,           \* the one that the proposal for v1 asks for
  KeepAddress,      \* upgrade_address = Nothing
  NoMessage,        \* NoOutputDatum, the auxiliary of most blocks
  GenesisMessage,   \* SomeOutputDatum(0), the one of the genesis: no proposal
  NoDatum,          \* an output without a datum hash
  NoState,          \* an output whose datum is not a StakeChainV0State
  MaxBlocks,        \* bound: producer states
  MaxExtra          \* bound: outputs at the address of v0 that are no block's

V0Params == [version : {"v0"}, upgrade_approval : {"v0", "v0a"}, register_fee : Fees]
V1Params == [version : {"v1"}, upgrade_approval : {"v1"}, register_fee : Fees]
Params == V0Params \cup V1Params

\* What the tools and their users propose: the script of v1 comes with its parameters.
Proposal ==
  [address : {"v0", KeepAddress}, params : V0Params]
    \cup [address : {"v1"}, params : V1Params]

ASSUME AgreementAssumption == AgreementLength \in Nat \ {0}
ASSUME FeesAssumption == {GenesisFee, NewFee} \subseteq Fees
ASSUME AddressAssumption == KeepAddress \notin {"v0", "v1"}
ASSUME MessageAssumption ==
  /\ {NoMessage, GenesisMessage, NoDatum, NoState} \cap Proposal = {}
  /\ GenesisMessage \notin {NoMessage, NoDatum, NoState}
  /\ NoMessage \notin {NoDatum, NoState}
  /\ NoDatum # NoState
ASSUME BoundsAssumption == {MaxBlocks, MaxExtra} \subseteq Nat

VARIABLES
  address,    \* the script that locks the chain
  params,     \* parameters of the chain
  messages,   \* auxiliary of each producer state, oldest first
  outputs,    \* kupo's matches at the address of v0, newest first
  proposals   \* proposals that somebody has made

vars == <<address, params, messages, outputs, proposals>>

Newest == Len(messages)

\* A match: which producer state of the chain its datum contains, or 0, and the
\* auxiliary of the producer state that it contains.
Match == [number : Nat, message : Proposal \cup {NoMessage, GenesisMessage, NoDatum, NoState}]

-----------------------------------------------------------------------------
(* Broken variants of the definitions, one plausible bug each.             *)

Bug_HashesNotFollowed(list) == \A i \in DOMAIN list : list[i] # 0
Bug_CurrentStateKept(list) == list
Bug_ApprovalKept ==
  [address |-> "v1", params |-> [params EXCEPT !.version = "v1", !.register_fee = NewFee]]

-----------------------------------------------------------------------------
(* The approval scripts.                                                   *)

\* prev_producer_state_hash leads from each state to the next in the list, and from
\* the genesis nowhere.
IsHashChain(list) == \A i \in DOMAIN list : list[i] = Newest - i /\ list[i] # 0

\* agreement_length states carry the proposal: the current one and the list.
Approves(list, proposal) ==
  /\ messages[Newest] = proposal
  /\ Len(list) = AgreementLength - 1
  /\ IsHashChain(list)
  /\ \A i \in DOMAIN list : messages[list[i]] = proposal

\* The parameters that the script in charge accepts: v0 checks the integrity of the
\* proposal, v0a and v1 take those of v0's shape for their own.
Accepts(approval, proposal) == approval = "v0" => proposal.params.version = "v0"

-----------------------------------------------------------------------------
(* The tools.                                                              *)

\* upgrade_proposal_v0_to_v0a.py: everything else is copied from the chain.
ProposalV0a == [address |-> "v0", params |-> [params EXCEPT !.upgrade_approval = "v0a"]]

\* upgrade_proposal_v0a_to_v1.py
ProposalV1 ==
  [address |-> "v1",
   params |-> [version |-> "v1", upgrade_approval |-> "v1", register_fee |-> NewFee]]

\* A proposal of somebody else, to change the parameter.
ProposalFee(fee) == [address |-> KeepAddress, params |-> [params EXCEPT !.register_fee = fee]]

\* previous_producer_states_from_kupo: the loop ends at the first match without a
\* datum hash or without a message.
Ends(match) == match.message \in {NoDatum, NoMessage}

IsRead(i) == \A j \in 1..i : ~ Ends(outputs[j])

\* It collects the states that carry the message of the first match, and skips others.
IsKept(i) == IsRead(i) /\ outputs[i].message = outputs[1].message

\* The list of states, by number, that the loop has collected after each match.
CollectedUpto ==
  LET list[i \in 0..Len(outputs)] ==
        IF i = 0 THEN <<>>
        ELSE IF IsKept(i) THEN Append(list[i - 1], outputs[i].number) ELSE list[i - 1]
  IN  list

Collected == CollectedUpto[Len(outputs)]

\* from_cbor raises on a datum of somebody else's.
AllAreStates == \A i \in DOMAIN outputs : IsRead(i) => outputs[i].message # NoState

\* The current state is not one of the previous ones: [1:]
WithoutCurrent(list) == SubSeq(list, 2, Len(list))

\* The tool reads the newest message as a ChainUpgradeProposal of the script it runs:
\* upgrade_v0_to_v0a.py of v0's, upgrade_v0a_to_v1.py of v0a's.
HasProposal ==
  /\ messages[Newest] \in Proposal
  /\ (params.upgrade_approval = "v0") = (messages[Newest].params.version = "v0")

\* What the tool hands to the script, unless one of its assertions fails.
ToolSubmits ==
  /\ address = "v0"
  /\ HasProposal
  /\ AllAreStates
  /\ Len(WithoutCurrent(Collected)) + 1 = AgreementLength
  /\ Approves(WithoutCurrent(Collected), messages[Newest])

-----------------------------------------------------------------------------
\* The genesis names a script of v0's parameters.
Init ==
  /\ address = "v0"
  /\ params \in [version : {"v0"}, upgrade_approval : {"v0", "v0a"},
                 register_fee : {GenesisFee}]
  /\ messages = <<GenesisMessage>>
  /\ outputs = <<[number |-> 1, message |-> GenesisMessage]>>
  /\ proposals = {}

\* The tools look for the chain at the address of v0.
Propose ==
  /\ address = "v0"
  /\ \/ proposals' = proposals \cup {ProposalV0a}
     \/ proposals' = proposals \cup {ProposalV1}
     \/ \E fee \in Fees : proposals' = proposals \cup {ProposalFee(fee)}
  /\ UNCHANGED <<address, params, messages, outputs>>

\* Every transaction on the chain makes an output of it, with the newest producer
\* state, at the address that the chain has then.
NewOutput ==
  outputs' = IF address' = "v0"
               THEN <<[number |-> Newest', message |-> messages'[Newest']]>> \o outputs
               ELSE outputs

\* The leader may vote for any proposal, or leave no message.  The script of v1 needs
\* parameters that have a slot leader interval.
MineBlock(message) ==
  /\ address = "v1" => params.version = "v1"
  /\ messages' = Append(messages, message)
  /\ UNCHANGED <<address, params, proposals>>
  /\ NewOutput

\* A holder registers, leaves or updates its stake.
ChangeHolders == UNCHANGED <<address, params, messages, proposals>> /\ NewOutput

\* An output of somebody else's at the address of v0: without a datum, with one that is
\* no state, with a copy of a state, or with a state of its own.
PlaceOutput(number, message) ==
  /\ number # 0 => message = messages[number]
  /\ outputs' = <<[number |-> number, message |-> message]>> \o outputs
  /\ UNCHANGED <<address, params, messages, proposals>>

\* An upgrade with a list of states from anywhere: the tools also take a list
\* by hand.  Address and parameters are replaced.
UpgradeProtocol(list, proposal) ==
  /\ Approves(list, proposal)
  /\ Accepts(params.upgrade_approval, proposal)
  /\ address' = IF proposal.address = KeepAddress THEN address ELSE proposal.address
  /\ params' = proposal.params
  /\ UNCHANGED <<messages, proposals>>
  /\ NewOutput

HasRoom == Len(outputs) < Newest + MaxExtra

Next ==
  \/ Propose
  \/ /\ Newest < MaxBlocks
     /\ \E message \in proposals \cup {NoMessage} : MineBlock(message)
  \/ HasRoom /\ ChangeHolders
  \/ /\ HasRoom
     /\ \E number \in 0..Newest,
           message \in proposals \cup {NoMessage, GenesisMessage, NoDatum, NoState} :
          PlaceOutput(number, message)
  \/ /\ HasRoom
     /\ \E list \in [1..(AgreementLength - 1) -> 0..Newest], proposal \in proposals :
          UpgradeProtocol(list, proposal)

Spec == Init /\ [][Next]_vars

-----------------------------------------------------------------------------
TypeOK ==
  /\ address \in {"v0", "v1"}
  /\ params \in Params
  /\ messages \in Seq(Proposal \cup {NoMessage, GenesisMessage})
  /\ outputs \in Seq(Match)
  /\ proposals \subseteq Proposal

\* Address and parameters only change to those that agreement_length blocks in a row,
\* the newest ones, have voted for, whatever list of states is handed in, and
\* though outputs of the chain between two blocks repeat a vote.
ChangesWereAgreed ==
  [][<<address, params>>' # <<address, params>> =>
       /\ Newest > AgreementLength
       /\ messages[Newest] \in Proposal
       /\ messages[Newest].params = params'
       /\ messages[Newest].address \in {address', KeepAddress}
       /\ \A n \in (Newest - AgreementLength + 1)..Newest :
            messages[n] = messages[Newest]]_vars

\* The matches after the first that repeat its message, up to where the loop ends.
Repeats == {i \in 2..Len(outputs) : IsRead(i) /\ outputs[i].message = outputs[1].message}

\* The tool comes in time: these are agreement_length - 1, with the states before the
\* newest one, each once and newest first, that carry its message.  What lies between
\* them, or between them and the end, are other messages in states that can be read.
InTime ==
  /\ Cardinality(Repeats) = AgreementLength - 1
  /\ \A i \in Repeats :
       /\ outputs[i].number = Newest - 1 - Cardinality({j \in Repeats : j < i})
       /\ outputs[i].number # 0
       /\ outputs[i].message = messages[Newest]
  /\ \A i \in DOMAIN outputs :
       outputs[i].message = NoState => \E j \in 1..i : Ends(outputs[j])

\* That decides whether it upgrades the chain: an output of the chain that repeats a
\* vote, or one of somebody else's, makes it fail though the blocks have agreed, and
\* only the newest votes, in the order that the script follows, let it through.
ToolSubmitsInTime == address = "v0" /\ HasProposal => (ToolSubmits <=> InTime)

=============================================================================
