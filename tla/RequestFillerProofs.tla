------------------------ MODULE RequestFillerProofs ------------------------
(***************************************************************************)
(* The registry keeps the stake of every pool, whatever the filler does    *)
(* with its list of stakes.                                                *)
(*                                                                         *)
(* What is included was checked when it was submitted.  It stays right     *)
(* because whatever changes the registry or a pool spends the chain's      *)
(* output, which voids it; the invariant says so.                          *)
(***************************************************************************)
EXTENDS RequestFiller, CommonLemmas

\* Pools are records, and open requests name pools.
Shape ==
  /\ pools = [p \in Pools |-> [stake |-> pools[p].stake, tokens |-> pools[p].tokens]]
  /\ requests = [ref \in Refs |-> requests[ref]]
  /\ \A ref \in Open : requests[ref].pool \in Pools
  /\ view # NoView => \A ref \in DOMAIN view.batch : view.batch[ref].pool \in Pools

Registry == weights = [p \in Pools |-> pools[p].stake]

\* A transaction on its way still fits the registry.
PendingFits ==
  pending # NoTx =>
    /\ pending.request.pool \in Pools
    /\ pending.weights = [weights EXCEPT ![pending.request.pool] = pending.stake]

Inv == Shape /\ Registry /\ PendingFits

\* The steps of the filler and of the owners leave pools and registry alone.
LEMMA RequestsKeepInv ==
  ASSUME Inv, UNCHANGED <<pools, weights>>,
         \/ \E ref \in Refs : \E r : r.pool \in Pools /\ PlaceRequest(ref, r)
         \/ \E ref \in Refs : CancelRequest(ref)
         \/ StartBatch
         \/ Lose
  PROVE  Inv'
<1>1. Registry'
  BY DEF Inv, Registry
<1>2. PendingFits'
  BY DEF Inv, PendingFits, PlaceRequest, CancelRequest, StartBatch, Lose
<1>3. Shape'
  <2>1. CASE \E ref \in Refs : \E r : r.pool \in Pools /\ PlaceRequest(ref, r)
    BY <2>1 DEF Inv, Shape, PlaceRequest, Open, IsOpen
  <2>2. CASE \E ref \in Refs : CancelRequest(ref)
    BY <2>2 DEF Inv, Shape, CancelRequest, Open, IsOpen
  <2>3. CASE StartBatch
    BY <2>3 DEF Inv, Shape, StartBatch, Open, IsOpen, Restrict
  <2>4. CASE Lose
    BY <2>4 DEF Inv, Shape, Lose, Open, IsOpen
  <2> QED BY <2>1, <2>2, <2>3, <2>4
<1> QED BY <1>1, <1>2, <1>3 DEF Inv

\* What the filler submits fits the registry: the chain's script compares the
\* whole list.
LEMMA ProcessKeepsInv ==
  ASSUME Inv, NEW ref \in Refs, ProcessRequest(ref)
  PROVE  Inv'
<1> DEFINE r == view.batch[ref]
           tx == Built(ref, r, view.weights)
<1>1. r.pool \in Pools
  BY DEF Inv, Shape, ProcessRequest, Shuffled
<1>2. Shape'
  BY DEF Inv, Shape, ProcessRequest, WithoutRef, Restrict, Open, IsOpen
<1>3. Registry'
  BY DEF Inv, Registry, ProcessRequest
<1>4. pending' = pending \/ (pending' = tx /\ Accepted(tx))
  BY DEF ProcessRequest
<1>5. tx.request = r
  BY DEF Built
<1>6. CASE pending' = pending
  BY <1>2, <1>3, <1>6 DEF Inv, PendingFits, ProcessRequest
<1>7. CASE pending' = tx /\ Accepted(tx)
  <2>1. tx.weights = [weights EXCEPT ![tx.request.pool] = tx.stake]
    BY <1>7 DEF Accepted, ListIsUpdated
  <2>2. weights' = weights
    BY DEF ProcessRequest
  <2>3. PendingFits'
    BY <1>1, <1>5, <1>7, <2>1, <2>2 DEF PendingFits
  <2> QED BY <1>2, <1>3, <2>3 DEF Inv
<1> QED BY <1>4, <1>6, <1>7

\* A transaction that is included updates the pool and its weight together.
LEMMA IncludeKeepsInv ==
  ASSUME Inv, Include
  PROVE  Inv'
<1> DEFINE p == pending.request.pool
<1>1. /\ p \in Pools
      /\ pending.weights = [weights EXCEPT ![p] = pending.stake]
  BY DEF Inv, PendingFits, Include
<1>2. /\ pools' = [pools EXCEPT ![p] = [stake  |-> pending.stake,
                                        tokens |-> pools[p].tokens + pending.minted]]
      /\ weights' = pending.weights
  BY <1>1 DEF Include
<1>3. Registry'
  BY <1>1, <1>2 DEF Inv, Shape, Registry
<1>4. pools' = [q \in Pools |-> [stake  |-> pools'[q].stake,
                               tokens |-> pools'[q].tokens]]
  BY <1>1, <1>2 DEF Inv, Shape
<1>5. Shape'
  BY <1>4 DEF Inv, Shape, Include, Outdated, Open, IsOpen
<1>6. PendingFits'
  BY DEF PendingFits, Include
<1> QED BY <1>3, <1>5, <1>6 DEF Inv

\* A block updates the weight with the pool and voids what is on its way.
LEMMA MineKeepsInv ==
  ASSUME Inv, NEW p \in Pools, NEW reward, MineBlock(p, reward)
  PROVE  Inv'
<1> DEFINE sum == pools[p].stake + reward
<1>1. /\ pools' = [pools EXCEPT ![p].stake = sum]
      /\ weights' = [weights EXCEPT ![p] = sum]
  <2>1. weights[p] = pools[p].stake
    BY DEF Inv, Registry
  <2> QED BY <2>1 DEF MineBlock, Inv, Shape
<1> HIDE DEF sum
<1>2. \A q \in Pools :
        pools[q] = [stake |-> pools[q].stake, tokens |-> pools[q].tokens]
  BY DEF Inv, Shape
<1>3. /\ pools' = [q \in Pools |-> pools'[q]]
      /\ pools'[p] = [stake |-> sum, tokens |-> pools[p].tokens]
      /\ \A q \in Pools \ {p} : pools'[q] = pools[q]
  BY <1>1, <1>2 DEF Inv, Shape
<1>4. pools' = [q \in Pools |-> [stake  |-> pools'[q].stake,
                               tokens |-> pools'[q].tokens]]
  BY <1>2, <1>3
<1>5. weights' = [q \in Pools |-> pools'[q].stake]
  <2>1. pools'[p].stake = sum
    BY <1>3
  <2>2. \A q \in Pools \ {p} : pools'[q].stake = pools[q].stake
    BY <1>3
  <2>3. weights' = [q \in Pools |-> IF q = p THEN sum ELSE pools[q].stake]
    BY <1>1 DEF Inv, Registry
  <2> QED BY <2>1, <2>2, <2>3
<1>6. Shape'
  BY <1>4 DEF Inv, Shape, MineBlock, Outdated, Open, IsOpen
<1>7. PendingFits'
  BY DEF PendingFits, MineBlock
<1> QED BY <1>5, <1>6, <1>7 DEF Inv, Registry

LEMMA InitInv == Init => Inv
<1> SUFFICES ASSUME Init PROVE Inv
  OBVIOUS
<1>1. \A p \in Pools :
        pools[p] = [stake |-> pools[p].stake, tokens |-> pools[p].tokens]
  BY GenesisAssumption DEF Init, Pool
<1>2. Shape
  BY <1>1, GenesisAssumption DEF Init, Shape, Open, IsOpen
<1> QED BY <1>2 DEF Inv, Init, Registry, PendingFits

LEMMA NextInv == Inv /\ [Next]_vars => Inv'
<1> SUFFICES ASSUME Inv, [Next]_vars PROVE Inv'
  OBVIOUS
<1>1. CASE UNCHANGED vars
  BY <1>1 DEF vars, Inv, Shape, Registry, PendingFits, Open, IsOpen
<1>2. ASSUME NEW ref \in Refs, NEW p \in Pools, NEW kind \in Kinds,
             NEW amount \in 1..MaxAmount, NEW min \in MinAmounts(amount),
             PlaceRequest(ref, [amount |-> amount, pool |-> p, kind |-> kind,
                                min |-> min])
      PROVE  Inv'
  <2>1. \E r : r.pool \in Pools /\ PlaceRequest(ref, r)
    BY <1>2
  <2>2. UNCHANGED <<pools, weights>>
    BY <1>2 DEF PlaceRequest
  <2> QED BY <2>1, <2>2, RequestsKeepInv
<1>3. CASE (\E ref \in Refs : CancelRequest(ref)) \/ StartBatch \/ Lose
  <2>1. UNCHANGED <<pools, weights>>
    BY <1>3 DEF CancelRequest, StartBatch, Lose
  <2> QED BY <1>3, <2>1, RequestsKeepInv
<1>4. CASE \E ref \in Refs : ProcessRequest(ref)
  BY <1>4, ProcessKeepsInv
<1>5. CASE Include
  BY <1>5, IncludeKeepsInv
<1>6. CASE \E p \in Pools, reward \in 0..MaxReward : MineBlock(p, reward)
  BY <1>6, MineKeepsInv
<1> QED BY <1>1, <1>2, <1>3, <1>4, <1>5, <1>6 DEF Next

\* The registry's weight of a pool is the stake in its position: a stale or wrongly
\* edited list never reaches the ledger (fill_requests.py:211-224 edits the list,
\* stakechain_v0.py:345-379 rejects it).
THEOREM RegistryStaysRight == Spec => []RegistryMatchesPools
<1>1. Inv => RegistryMatchesPools
  BY DEF Inv, Registry, RegistryMatchesPools
<1> QED BY InitInv, NextInv, <1>1, PTL DEF Spec

-----------------------------------------------------------------------------
(* Amounts.                                                                *)
(*                                                                         *)
(* No pool and no wallet runs dry: the tokens that a pool counts are its   *)
(* initial ones, those in wallets and those locked in open requests, so a  *)
(* removal never burns the initial ones, and what it takes of the stake is *)
(* less than all of it.                                                    *)

\* The tokens of pool p that the contents of a reference lock.
LockedBy(r, p) ==
  IF r \in Request /\ r.kind = "remove" /\ r.pool = p THEN r.amount ELSE 0

LockedIn(reqs, used, p) == [j \in 1..Len(used) |-> LockedBy(reqs[used[j]], p)]

\* The references used so far, in the order of their use.
IsUsed(used) ==
  /\ \A j, k \in 1..Len(used) : used[j] = used[k] => j = k
  /\ \A ref \in Refs :
       requests[ref] # NoRequest <=> \E j \in 1..Len(used) : used[j] = ref

IsAccounted(used) ==
  \A p \in Pools :
    pools[p].tokens = InitialLiquidity + held[p] + kept[p]
                        + Total(LockedIn(requests, used, p))

TokensAreAccounted == \E used \in Seq(Refs) : IsUsed(used) /\ IsAccounted(used)

\* The filler computes with integers, and with requests that were placed.
ViewIsTyped ==
  view # NoView =>
    /\ view = [weights |-> view.weights, fresh |-> view.fresh, batch |-> view.batch]
    /\ view.weights \in [Pools -> Int]
    /\ \A ref \in DOMAIN view.batch : view.batch[ref] \in Request

\* A transaction on its way is still accepted, and its request still open.
PendingIsRight ==
  pending # NoTx =>
    /\ pending.ref \in Refs
    /\ pending.request = requests[pending.ref]
    /\ pending.request \in Request
    /\ pending.stake \in Int
    /\ pending.paid \in Int
    /\ pending.request.kind = "add" => pending.paid = pending.minted
    /\ SharesAreRight(pending) /\ RequestIsMet(pending) /\ IsFunded(pending)

AmountInv ==
  Inv /\ TypeOK /\ ViewIsTyped /\ PendingIsRight /\ TokensAreAccounted

LEMMA LockedByIsNat ==
  ASSUME NEW r, NEW p
  PROVE  LockedBy(r, p) \in Nat
BY DEF LockedBy, Request

LEMMA LockedInIsSeq ==
  ASSUME NEW reqs, NEW used \in Seq(Refs), NEW p
  PROVE  /\ LockedIn(reqs, used, p) \in Seq(Nat)
         /\ Len(LockedIn(reqs, used, p)) = Len(used)
         /\ \A j \in 1..Len(used) :
              LockedIn(reqs, used, p)[j] = LockedBy(reqs[used[j]], p)
<1>1. Len(used) \in Nat
  BY LenProperties
<1>2. LockedIn(reqs, used, p) \in [1..Len(used) -> Nat]
  BY LockedByIsNat DEF LockedIn
<1>3. Seq(Nat) = UNION {[1..n -> Nat] : n \in Nat}
  OBVIOUS
<1>4. LockedIn(reqs, used, p) \in Seq(Nat)
  BY <1>1, <1>2, <1>3
<1>5. Len(LockedIn(reqs, used, p)) = Len(used)
  BY <1>1, <1>2, <1>4, LenProperties
<1>. QED
  BY <1>4, <1>5 DEF LockedIn

\* When one reference changes, the locked tokens change by what it locks.
LEMMA LockedAfterChange ==
  ASSUME NEW used \in Seq(Refs), NEW old, NEW new, NEW i \in 1..Len(used), NEW p,
         \A j \in 1..Len(used) : j # i => new[used[j]] = old[used[j]]
  PROVE  Total(LockedIn(new, used, p))
           = Total(LockedIn(old, used, p))
               + LockedBy(new[used[i]], p) - LockedBy(old[used[i]], p)
<1>. DEFINE before == LockedIn(old, used, p)
            after  == LockedIn(new, used, p)
<1>1. /\ before \in Seq(Nat) /\ Len(before) = Len(used)
      /\ after \in Seq(Nat) /\ Len(after) = Len(used)
      /\ \A j \in 1..Len(used) : before[j] = LockedBy(old[used[j]], p)
      /\ \A j \in 1..Len(used) : after[j] = LockedBy(new[used[j]], p)
  BY LockedInIsSeq
<1>2. \A j \in 1..Len(used) : j # i => after[j] = before[j]
  BY <1>1
<1>. HIDE DEF before, after
<1>3. Total(after) = Total(before) + after[i] - before[i]
  BY <1>1, <1>2, TotalAfterChange
<1>. QED
  BY <1>1, <1>3 DEF before, after

\* What one reference locks is part of what all of them lock.
LEMMA LockedIsPart ==
  ASSUME NEW used \in Seq(Refs), NEW reqs, NEW i \in 1..Len(used), NEW p
  PROVE  LockedBy(reqs[used[i]], p) <= Total(LockedIn(reqs, used, p))
BY LockedInIsSeq, ElementBelowTotal

LEMMA LockedIsNat ==
  ASSUME NEW used \in Seq(Refs), NEW reqs, NEW p
  PROVE  Total(LockedIn(reqs, used, p)) \in Nat
<1>1. Len(LockedIn(reqs, used, p)) \in 0..Len(LockedIn(reqs, used, p))
  BY LockedInIsSeq, LenProperties
<1>. QED
  BY <1>1, LockedInIsSeq, UptoIsNat DEF Total

-----------------------------------------------------------------------------
(* What a filled request does to its pool.                                 *)

\* An accepted transaction mints at most the share of the stake it adds, or burns
\* all but one token of the share that it removes.
LEMMA SharesOfPending ==
  ASSUME TypeOK, PendingIsRight, pending # NoTx
  PROVE  LET p == pending.request.pool
             m == pending.minted
         IN  /\ p \in Pools
             /\ m \in Int
             /\ (m - 1) * pools[p].stake <= pools[p].tokens * (pending.stake - pools[p].stake)
             /\ pending.request.kind = "add" => pending.stake > pools[p].stake /\ m > 0
             /\ pending.request.kind # "add" => pending.stake < pools[p].stake
<1>. DEFINE p == pending.request.pool
            m == pending.minted
            S == pools[p].stake
            T == pools[p].tokens
            c == pending.stake - S
<1>1. /\ pending.request \in Request
      /\ p \in Pools
      /\ pending.stake \in Int
      /\ SharesAreRight(pending)
  BY DEF PendingIsRight, Request
<1>2. S \in Nat \ {0} /\ T \in Nat \ {0} /\ c \in Int
  BY <1>1 DEF TypeOK, Pool
<1>3. T * c \in Int
  BY <1>2
<1>4. CASE pending.request.kind = "add"
  <2>1. c > 0 /\ m = (T * c) \div S /\ m # 0
    BY <1>1, <1>4 DEF SharesAreRight, Script!MintedFor
  <2>. HIDE DEF p, m, S, T, c
  <2>2. m \in Int /\ m * S <= T * c
    BY <1>2, <1>3, <2>1, Floor
  <2>3. T * c \in Nat
    BY <1>2, <2>1
  <2>4. m > 0
    BY <1>2, <2>1, <2>3
  <2>5. (m - 1) * S <= m * S
    BY <1>2, <2>2, TimesMonotone
  <2>6. (m - 1) * S \in Int /\ m * S \in Int
    BY <1>2, <2>2
  <2>7. (m - 1) * S <= T * c
    BY <1>3, <2>2, <2>5, <2>6
  <2>8. pending.stake > S
    BY <1>1, <1>2, <2>1 DEF c
  <2>. QED
    BY <1>1, <1>4, <2>2, <2>4, <2>7, <2>8 DEF p, m, S, T, c
<1>5. CASE pending.request.kind # "add"
  <2>1. c < 0 /\ m = (-(T * (-c))) \div S + 1
    BY <1>1, <1>5 DEF SharesAreRight, Script!MintedForRemoval
  <2>. HIDE DEF p, m, S, T, c
  <2>2. -(T * (-c)) = T * c
    BY <1>2
  <2>. DEFINE q == (T * c) \div S
  <2>3. q \in Int /\ q * S <= T * c
    BY <1>2, <1>3, Floor
  <2>4. m = q + 1
    BY <2>1, <2>2
  <2>. HIDE DEF q
  <2>5. m \in Int /\ m - 1 = q
    BY <2>3, <2>4
  <2>6. (m - 1) * S <= T * c
    BY <2>3, <2>5
  <2>7. pending.stake < S
    BY <1>1, <1>2, <2>1 DEF c
  <2>. QED
    BY <1>1, <1>5, <2>5, <2>6, <2>7 DEF p, m, S, T, c
<1>. QED
  BY <1>4, <1>5

\* Who burns all but the initial tokens of a pool does not take all of its stake.
LEMMA InitialTokensKeepStake ==
  ASSUME NEW S \in Nat \ {0}, NEW T \in Nat \ {0}, NEW m \in Int, NEW new \in Int,
         T + m >= 2, (m - 1) * S <= T * (new - S)
  PROVE  new > 0
<1>1. SUFFICES ASSUME new <= 0 PROVE FALSE
  OBVIOUS
<1>2. (1 - T) * S <= (m - 1) * S
  BY TimesMonotone
<1>3. (new - S) * T <= (-S) * T
  BY <1>1, TimesMonotone
<1>4. (1 - T) * S = S - T * S /\ (-S) * T = -(T * S) /\ (new - S) * T = T * (new - S)
  OBVIOUS
<1>5. T * S \in Int /\ T * (new - S) \in Int /\ (m - 1) * S \in Int
  OBVIOUS
<1>. QED
  BY <1>2, <1>3, <1>4, <1>5

\* A token of the pool is worth no less than before, but for one token.
LEMMA TokensKeepTheirWorth ==
  ASSUME NEW S \in Nat, NEW T \in Nat, NEW m \in Int, NEW new \in Int,
         (m - 1) * S <= T * (new - S)
  PROVE  new * T >= S * ((T + m) - 1)
<1>1. S * ((T + m) - 1) = S * T + (m - 1) * S
  OBVIOUS
<1>2. T * (new - S) = new * T - S * T
  OBVIOUS
<1>3. S * T \in Int /\ new * T \in Int /\ (m - 1) * S \in Int
  OBVIOUS
<1>. QED
  BY <1>1, <1>2, <1>3

-----------------------------------------------------------------------------
(* The steps.                                                              *)

\* What is on its way stays acceptable while pools, wallet and request stay.
LEMMA PendingStays ==
  ASSUME PendingIsRight, UNCHANGED <<pools, coin, kept>>,
         pending' = pending \/ pending' = NoTx,
         pending' # NoTx => requests'[pending.ref] = requests[pending.ref]
  PROVE  PendingIsRight'
<1>. SUFFICES ASSUME pending' # NoTx
              PROVE  PendingIsRight'
  BY DEF PendingIsRight
<1>1. pending' = pending /\ pending # NoTx
  OBVIOUS
<1>2. SharesAreRight(pending)'
  BY <1>1 DEF PendingIsRight, SharesAreRight, Script!MintedFor, Script!MintedForRemoval
<1>3. RequestIsMet(pending)' /\ IsFunded(pending)'
  BY <1>1 DEF PendingIsRight, RequestIsMet, IsFunded, CoinLeft, TokensLeft
<1>. QED
  BY <1>1, <1>2, <1>3 DEF PendingIsRight

\* The tokens stay accounted for while pools, wallets and requests stay.
LEMMA AccountsStay ==
  ASSUME TokensAreAccounted, UNCHANGED <<requests, held, kept>>,
         \A p \in Pools : pools'[p].tokens = pools[p].tokens
  PROVE  TokensAreAccounted'
<1>1. PICK used \in Seq(Refs) : IsUsed(used) /\ IsAccounted(used)
  BY DEF TokensAreAccounted
<1>2. IsUsed(used)' /\ IsAccounted(used)'
  BY <1>1 DEF IsUsed, IsAccounted
<1>. QED
  BY <1>2 DEF TokensAreAccounted

\* A new request locks tokens that its owner held.
LEMMA PlaceKeepsAmounts ==
  ASSUME AmountInv, NEW ref \in Refs, NEW r \in Request, PlaceRequest(ref, r)
  PROVE  TypeOK' /\ ViewIsTyped' /\ PendingIsRight' /\ TokensAreAccounted'
<1>. DEFINE spent(p) == IF r.kind = "remove" /\ r.pool = p THEN r.amount ELSE 0
<1>1. /\ r.pool \in Pools /\ r.amount \in Nat \ {0}
      /\ r # NoRequest
      /\ requests[ref] = NoRequest
  BY NamesAssumption DEF Request, PlaceRequest
<1>2. /\ requests' = [requests EXCEPT ![ref] = r]
      /\ requests'[ref] = r
      /\ \A other \in Refs : other # ref => requests'[other] = requests[other]
  BY DEF PlaceRequest, AmountInv, Inv, Shape
<1>3. /\ held' \in [Pools -> Nat]
      /\ \A p \in Pools : held'[p] = held[p] - spent(p)
  BY <1>1 DEF PlaceRequest, AmountInv, TypeOK
<1>4. UNCHANGED <<pools, weights, kept, coin, view, pending, blocks, faults>>
  BY DEF PlaceRequest
<1>5. TypeOK'
  BY <1>2, <1>3, <1>4 DEF AmountInv, TypeOK
<1>6. ViewIsTyped'
  BY <1>4 DEF AmountInv, ViewIsTyped
<1>7. PendingIsRight'
  <2>1. pending # NoTx => pending.ref \in Refs /\ pending.ref # ref
    BY <1>1, NamesAssumption DEF AmountInv, PendingIsRight
  <2>. QED
    BY <1>2, <1>4, <2>1, PendingStays DEF AmountInv
<1>8. TokensAreAccounted'
  <2>1. PICK used \in Seq(Refs) : IsUsed(used) /\ IsAccounted(used)
    BY DEF AmountInv, TokensAreAccounted
  <2>. DEFINE more == Append(used, ref)
  <2>2. /\ Len(used) \in Nat
        /\ more \in Seq(Refs)
        /\ Len(more) = Len(used) + 1
        /\ \A j \in 1..Len(used) : more[j] = used[j]
        /\ more[Len(used) + 1] = ref
    BY AppendProperties, LenProperties
  <2>. HIDE DEF more
  <2>3. \A j \in 1..Len(used) : used[j] \in Refs /\ used[j] # ref
    BY <1>1, <2>1, ElementOfSeq DEF IsUsed
  <2>4. IsUsed(more)'
    <3>1. \A j, k \in 1..Len(more) : more[j] = more[k] => j = k
      BY <2>1, <2>2, <2>3 DEF IsUsed
    <3>2. ASSUME NEW other \in Refs
          PROVE  requests'[other] # NoRequest <=> \E j \in 1..Len(more) : more[j] = other
      <4>1. CASE other = ref
        BY <1>1, <1>2, <2>2, <4>1
      <4>2. CASE other # ref
        <5>1. requests'[other] # NoRequest <=> \E j \in 1..Len(used) : used[j] = other
          BY <1>2, <2>1, <4>2 DEF IsUsed
        <5>. QED
          BY <2>2, <4>2, <5>1
      <4>. QED
        BY <4>1, <4>2
    <3>. QED
      BY <3>1, <3>2 DEF IsUsed
  <2>5. ASSUME NEW p \in Pools
        PROVE  pools[p].tokens = InitialLiquidity + held'[p] + kept[p]
                                   + Total(LockedIn(requests', more, p))
    <3>. DEFINE old == LockedIn(requests, used, p)
                new == LockedIn(requests', more, p)
    <3>1. /\ old \in Seq(Nat) /\ new \in Seq(Nat)
          /\ Len(old) = Len(used) /\ Len(new) = Len(more)
          /\ \A j \in 1..Len(used) : old[j] = LockedBy(requests[used[j]], p)
          /\ \A j \in 1..Len(more) : new[j] = LockedBy(requests'[more[j]], p)
      <4>1. old \in Seq(Nat)
        BY LockedInIsSeq
      <4>2. new \in Seq(Nat)
        BY <2>2, LockedInIsSeq
      <4>3. Len(old) = Len(used)
        BY LockedInIsSeq
      <4>4. Len(new) = Len(more)
        BY <2>2, LockedInIsSeq
      <4>5. \A j \in 1..Len(used) : old[j] = LockedBy(requests[used[j]], p)
        BY LockedInIsSeq
      <4>6. \A j \in 1..Len(more) : new[j] = LockedBy(requests'[more[j]], p)
        BY <2>2, LockedInIsSeq
      <4>. QED
        BY <4>1, <4>2, <4>3, <4>4, <4>5, <4>6
    <3>. HIDE DEF old, new
    <3>2. \A j \in 1..Len(old) : new[j] = old[j]
      BY <1>2, <2>2, <2>3, <3>1
    <3>3. new[Len(new)] = LockedBy(r, p)
      <4>1. Len(new) = Len(used) + 1 /\ Len(new) \in 1..Len(more)
        BY <2>2, <3>1
      <4>2. new[Len(new)] = LockedBy(requests'[more[Len(new)]], p)
        BY <3>1, <4>1
      <4>. QED
        BY <1>2, <2>2, <4>1, <4>2
    <3>4. Total(new) = Total(old) + new[Len(new)]
      BY <2>2, <3>1, <3>2, TotalAfterAppend
    <3>5. LockedBy(r, p) = spent(p)
      BY DEF LockedBy
    <3>6. Total(old) \in Nat
      BY LockedIsNat DEF old
    <3>7. spent(p) \in Nat
      BY <1>1
    <3>8. held[p] \in Nat /\ kept[p] \in Nat /\ InitialLiquidity \in Nat
      BY GenesisAssumption DEF AmountInv, TypeOK
    <3>9. pools[p].tokens = InitialLiquidity + held[p] + kept[p] + Total(old)
      BY <2>1 DEF IsAccounted, old
    <3>10. held'[p] = held[p] - spent(p)
      BY <1>3
    <3>. HIDE DEF spent
    <3>. QED
      BY <3>3, <3>4, <3>5, <3>6, <3>7, <3>8, <3>9, <3>10 DEF new
  <2>6. IsAccounted(more)'
    BY <1>4, <2>5 DEF IsAccounted
  <2>. QED
    BY <2>2, <2>4, <2>6 DEF TokensAreAccounted
<1>. QED
  BY <1>5, <1>6, <1>7, <1>8

\* A reference that is closed locks nothing any more.
LEMMA LockedAfterClosing ==
  ASSUME NEW used \in Seq(Refs), NEW i \in 1..Len(used), NEW p,
         requests'[used[i]] = Closed,
         \A j \in 1..Len(used) : j # i => requests'[used[j]] = requests[used[j]]
  PROVE  Total(LockedIn(requests', used, p))
           = Total(LockedIn(requests, used, p)) - LockedBy(requests[used[i]], p)
<1>1. LockedBy(Closed, p) = 0
  BY NamesAssumption DEF LockedBy
<1>2. Total(LockedIn(requests', used, p))
        = Total(LockedIn(requests, used, p))
            + LockedBy(requests'[used[i]], p) - LockedBy(requests[used[i]], p)
  BY LockedAfterChange
<1>3. /\ Total(LockedIn(requests, used, p)) \in Nat
      /\ LockedBy(requests[used[i]], p) \in Nat
  BY LockedIsNat, LockedByIsNat
<1>. QED
  BY <1>1, <1>2, <1>3

\* A request that is closed unlocks its tokens: they leave the accounts, or are in
\* a wallet afterwards.
LEMMA ClosingAccounts ==
  ASSUME TypeOK, TokensAreAccounted,
         NEW ref \in Refs, requests[ref] \in Request,
         requests = [other \in Refs |-> requests[other]],
         requests' = [requests EXCEPT ![ref] = Closed],
         \A p \in Pools : /\ pools'[p].tokens \in Int
                          /\ held'[p] \in Int
                          /\ kept'[p] \in Int
                          /\ pools'[p].tokens - held'[p] - kept'[p]
                               = pools[p].tokens - held[p] - kept[p]
                                   - LockedBy(requests[ref], p)
  PROVE  TokensAreAccounted'
<1>1. PICK used \in Seq(Refs) : IsUsed(used) /\ IsAccounted(used)
  BY DEF TokensAreAccounted
<1>2. requests[ref] # NoRequest /\ Closed # NoRequest /\ Closed \notin Request
  BY NamesAssumption
<1>3. /\ requests'[ref] = Closed
      /\ \A other \in Refs : other # ref => requests'[other] = requests[other]
  OBVIOUS
<1>4. Len(used) \in Nat /\ \A j \in 1..Len(used) : used[j] \in Refs
  BY LenProperties, ElementOfSeq
<1>5. PICK i \in 1..Len(used) : used[i] = ref
  BY <1>1, <1>2 DEF IsUsed
<1>6. \A j \in 1..Len(used) : j # i => requests'[used[j]] = requests[used[j]]
  BY <1>1, <1>3, <1>4, <1>5 DEF IsUsed
<1>7. IsUsed(used)'
  BY <1>1, <1>2, <1>3 DEF IsUsed
<1>8. ASSUME NEW p \in Pools
      PROVE  pools'[p].tokens = InitialLiquidity + held'[p] + kept'[p]
                                  + Total(LockedIn(requests', used, p))
  <2>. DEFINE before == Total(LockedIn(requests, used, p))
              after  == Total(LockedIn(requests', used, p))
              freed  == LockedBy(requests[ref], p)
  <2>1. after = before - freed
    BY <1>3, <1>5, <1>6, LockedAfterClosing
  <2>. DEFINE t == pools[p].tokens
              h == held[p]
              k == kept[p]
              newT == pools'[p].tokens
              newH == held'[p]
              newK == kept'[p]
  <2>2. /\ freed \in Int /\ before \in Int
        /\ t \in Int /\ h \in Int /\ k \in Int
        /\ newT \in Int /\ newH \in Int /\ newK \in Int
    BY LockedByIsNat, LockedIsNat DEF TypeOK, Pool
  <2>3. t = InitialLiquidity + h + k + before
    BY <1>1 DEF IsAccounted
  <2>4. newT - newH - newK = t - h - k - freed
    OBVIOUS
  <2>5. InitialLiquidity \in Int
    BY GenesisAssumption
  <2>6. newT = InitialLiquidity + newH + newK + (before - freed)
    <3>. HIDE DEF before, freed, t, h, k, newT, newH, newK
    <3>1. newT = (t - h - k - freed) + newH + newK
      BY ONLY <2>2, <2>4
    <3>2. t - h - k - freed = InitialLiquidity + before - freed
      BY ONLY <2>2, <2>3, <2>5
    <3>3. newT = (InitialLiquidity + before - freed) + newH + newK
      BY <3>1, <3>2
    <3>. QED
      BY ONLY <2>2, <2>5, <3>3
  <2>. QED
    BY <2>1, <2>6, Zenon
<1>9. IsAccounted(used)'
  BY <1>8 DEF IsAccounted
<1>. QED
  BY <1>7, <1>9 DEF TokensAreAccounted

\* A request that is cancelled gives its owner the tokens back.
LEMMA CancelKeepsAmounts ==
  ASSUME AmountInv, NEW ref \in Refs, CancelRequest(ref)
  PROVE  TypeOK' /\ ViewIsTyped' /\ PendingIsRight' /\ TokensAreAccounted'
<1>. DEFINE r == requests[ref]
<1>1. r \in Request /\ r.pool \in Pools /\ r.amount \in Nat
  BY DEF CancelRequest, IsOpen, AmountInv, TypeOK, Request
<1>2. /\ requests' = [requests EXCEPT ![ref] = Closed]
      /\ requests'[ref] = Closed
      /\ \A other \in Refs : other # ref => requests'[other] = requests[other]
      /\ requests = [other \in Refs |-> requests[other]]
  BY DEF CancelRequest, AmountInv, Inv, Shape
<1>3. UNCHANGED <<pools, weights, kept, coin, view, blocks, faults>>
  BY DEF CancelRequest
<1>4. /\ held' \in [Pools -> Nat]
      /\ \A p \in Pools : held'[p] = held[p] + LockedBy(r, p)
  <2>1. held \in [Pools -> Nat]
    BY DEF AmountInv, TypeOK
  <2>. QED
    BY <1>1, <2>1 DEF CancelRequest, LockedBy
<1>5. TypeOK'
  BY <1>2, <1>3, <1>4 DEF AmountInv, TypeOK
<1>6. ViewIsTyped'
  BY <1>3 DEF AmountInv, ViewIsTyped
<1>7. PendingIsRight'
  <2>1. /\ pending' = pending \/ pending' = NoTx
        /\ pending' # NoTx => pending # NoTx /\ pending.ref # ref
    BY DEF CancelRequest
  <2>2. pending # NoTx => pending.ref \in Refs
    BY DEF AmountInv, PendingIsRight
  <2>. QED
    BY <1>2, <1>3, <2>1, <2>2, PendingStays DEF AmountInv
<1>8. TokensAreAccounted'
  <2>1. ASSUME NEW p \in Pools
        PROVE  /\ pools'[p].tokens \in Int /\ held'[p] \in Int /\ kept'[p] \in Int
               /\ pools'[p].tokens - held'[p] - kept'[p]
                    = pools[p].tokens - held[p] - kept[p] - LockedBy(r, p)
    <3>1. /\ pools[p].tokens \in Int /\ held[p] \in Int /\ kept[p] \in Int
          /\ LockedBy(r, p) \in Int
      BY LockedByIsNat DEF AmountInv, TypeOK, Pool
    <3>2. held'[p] = held[p] + LockedBy(r, p)
      BY <1>4
    <3>. QED
      BY <1>3, <3>1, <3>2
  <2>. QED
    BY <1>1, <1>2, <2>1, ClosingAccounts DEF AmountInv
<1>. QED
  BY <1>5, <1>6, <1>7, <1>8

\* The filler's bookkeeping and a lost transaction move nothing.
LEMMA QuietStepKeepsAmounts ==
  ASSUME AmountInv, StartBatch \/ Lose
  PROVE  TypeOK' /\ ViewIsTyped' /\ PendingIsRight' /\ TokensAreAccounted'
<1>1. /\ UNCHANGED <<pools, weights, requests, held, kept, coin, blocks>>
      /\ pending' = pending \/ pending' = NoTx
  BY DEF StartBatch, Lose
<1>2. faults' \in 0..MaxFaults
  BY BoundsAssumption DEF StartBatch, Lose, AmountInv, TypeOK
<1>3. TypeOK'
  BY <1>1, <1>2 DEF AmountInv, TypeOK
<1>4. ViewIsTyped'
  <2>1. CASE StartBatch
    <3>1. view' = [weights |-> weights, fresh |-> TRUE,
                   batch |-> [ref \in Open |-> requests[ref]]]
      BY <2>1 DEF StartBatch, Restrict
    <3>2. weights \in [Pools -> Int]
      BY DEF AmountInv, TypeOK
    <3>3. \A ref \in Open : requests[ref] \in Request
      BY DEF Open, IsOpen, AmountInv, TypeOK
    <3>. QED
      BY <3>1, <3>2, <3>3 DEF ViewIsTyped
  <2>2. CASE Lose
    BY <2>2 DEF Lose, AmountInv, ViewIsTyped
  <2>. QED
    BY <2>1, <2>2
<1>5. PendingIsRight'
  BY <1>1, PendingStays DEF AmountInv
<1>6. TokensAreAccounted'
  BY <1>1, AccountsStay DEF AmountInv
<1>. QED
  BY <1>3, <1>4, <1>5, <1>6

\* A block gives stake to a pool and voids what is on its way.
LEMMA MineKeepsAmounts ==
  ASSUME AmountInv, NEW p \in Pools, NEW reward \in Nat, MineBlock(p, reward)
  PROVE  TypeOK' /\ ViewIsTyped' /\ PendingIsRight' /\ TokensAreAccounted'
<1>1. /\ UNCHANGED <<requests, held, kept, coin, faults>>
      /\ pending' = NoTx /\ view' = Outdated(view)
      /\ blocks' \in 0..MaxBlocks
  BY BoundsAssumption DEF MineBlock, AmountInv, TypeOK
<1>2. /\ pools' \in [Pools -> Pool]
      /\ \A q \in Pools : pools'[q].tokens = pools[q].tokens
  <2>1. pools \in [Pools -> Pool] /\ pools' = [pools EXCEPT ![p].stake = pools[p].stake + reward]
    BY DEF MineBlock, AmountInv, TypeOK
  <2>2. pools[p] \in Pool
    BY <2>1
  <2>3. [pools[p] EXCEPT !.stake = pools[p].stake + reward]
          = [stake |-> pools[p].stake + reward, tokens |-> pools[p].tokens]
    BY <2>2 DEF Pool
  <2>. DEFINE new == [stake |-> pools[p].stake + reward, tokens |-> pools[p].tokens]
  <2>4. new \in Pool /\ new.tokens = pools[p].tokens
    BY <2>2 DEF Pool
  <2>5. pools' = [pools EXCEPT ![p] = new]
    BY <2>1, <2>3
  <2>. HIDE DEF new
  <2>. QED
    BY <2>1, <2>4, <2>5
<1>3. weights' \in [Pools -> Nat]
  BY DEF MineBlock, AmountInv, TypeOK
<1>4. TypeOK'
  BY <1>1, <1>2, <1>3 DEF AmountInv, TypeOK
<1>5. ViewIsTyped'
  BY <1>1 DEF Outdated, AmountInv, ViewIsTyped
<1>6. PendingIsRight'
  BY <1>1 DEF PendingIsRight
<1>7. TokensAreAccounted'
  BY <1>1, <1>2, AccountsStay DEF AmountInv
<1>. QED
  BY <1>4, <1>5, <1>6, <1>7

\* What the filler submits was accepted by the scripts, from integers.
LEMMA ProcessKeepsAmounts ==
  ASSUME AmountInv, NEW ref \in Refs, ProcessRequest(ref)
  PROVE  TypeOK' /\ ViewIsTyped' /\ PendingIsRight' /\ TokensAreAccounted'
<1>. DEFINE r    == view.batch[ref]
            prev == view.weights[r.pool]
            list == [view.weights EXCEPT ![r.pool] = NewStake(r, prev)]
            left == WithoutRef(view.batch, ref)
            tx   == Built(ref, r, view.weights)
<1>1. UNCHANGED <<pools, weights, requests, held, kept, coin, blocks, faults>>
  BY DEF ProcessRequest
<1>2. /\ view = [weights |-> view.weights, fresh |-> view.fresh, batch |-> view.batch]
      /\ view.weights \in [Pools -> Int]
      /\ r \in Request /\ r.pool \in Pools /\ r.amount \in Int
  BY DEF ProcessRequest, Shuffled, AmountInv, ViewIsTyped, Request
<1>3. prev \in Int /\ NewStake(r, prev) \in Int
  <2>1. prev \in Int /\ pools[r.pool].tokens \in Nat \ {0}
    BY <1>2 DEF AmountInv, TypeOK, Pool
  <2>. HIDE DEF r, prev
  <2>2. (-(prev * r.amount)) \div pools[r.pool].tokens \in Int
    BY <1>2, <2>1
  <2>. QED
    BY <1>2, <2>1, <2>2 DEF NewStake
<1>4. TypeOK'
  BY <1>1 DEF AmountInv, TypeOK
<1>5. ViewIsTyped'
  <2>1. view' = NoView \/ view' = [view EXCEPT !.weights = list, !.batch = left]
    BY DEF ProcessRequest
  <2>2. list \in [Pools -> Int]
    <3>. HIDE DEF prev
    <3>. QED
      BY <1>2, <1>3
  <2>3. \A other \in DOMAIN left : left[other] \in Request
    BY DEF ProcessRequest, AmountInv, ViewIsTyped, WithoutRef, Restrict
  <2>. HIDE DEF list, left
  <2>4. CASE view' = [view EXCEPT !.weights = list, !.batch = left]
    <3>1. view' = [weights |-> list, fresh |-> view.fresh, batch |-> left]
      BY <1>2, <2>4
    <3>. QED
      BY <2>2, <2>3, <3>1 DEF ViewIsTyped
  <2>. QED
    BY <2>1, <2>4 DEF ViewIsTyped
<1>6. PendingIsRight'
  <2>1. CASE pending' = pending
    BY <1>1, <2>1, PendingStays DEF AmountInv
  <2>2. CASE pending' # pending
    <3>1. pending' = tx /\ requests[ref] = r /\ Accepted(tx)
      BY <2>2 DEF ProcessRequest
    <3>2. /\ tx.ref = ref /\ tx.request = r
          /\ tx.stake = NewStake(r, prev)
          /\ tx.minted = Minted(r, prev)
          /\ tx.paid = IF r.kind = "add" THEN Minted(r, prev) ELSE prev - NewStake(r, prev)
      BY DEF Built
    <3>. HIDE DEF tx, r, prev
    <3>3. SharesAreRight(tx) /\ RequestIsMet(tx) /\ IsFunded(tx)
      BY <3>1 DEF Accepted
    <3>4. tx.request.kind = "add" => tx.paid = tx.minted
      BY <3>2
    <3>5. tx.paid \in Int
      <4>1. CASE r.kind = "add"
        <5>1. /\ tx.minted = (pools[r.pool].tokens * (tx.stake - pools[r.pool].stake))
                               \div pools[r.pool].stake
          BY <3>2, <3>3, <4>1 DEF SharesAreRight, Script!MintedFor
        <5>2. /\ pools[r.pool].tokens \in Nat \ {0}
              /\ pools[r.pool].stake \in Nat \ {0}
              /\ tx.stake \in Int
          BY <1>2, <1>3, <3>2 DEF AmountInv, TypeOK, Pool
        <5>. QED
          BY <3>2, <4>1, <5>1, <5>2
      <4>2. CASE r.kind # "add"
        BY <1>3, <3>2, <4>2
      <4>. QED
        BY <4>1, <4>2
    <3>6. SharesAreRight(pending)' /\ RequestIsMet(pending)' /\ IsFunded(pending)'
      BY <1>1, <3>1, <3>3
         DEF SharesAreRight, RequestIsMet, IsFunded, CoinLeft, TokensLeft,
             Script!MintedFor, Script!MintedForRemoval
    <3>. QED
      BY <1>1, <1>2, <1>3, <3>1, <3>2, <3>4, <3>5, <3>6 DEF PendingIsRight
  <2>. QED
    BY <2>1, <2>2
<1>7. TokensAreAccounted'
  BY <1>1, AccountsStay DEF AmountInv
<1>. QED
  BY <1>4, <1>5, <1>6, <1>7

\* A filled request leaves the pool at least its initial tokens: the others that it
\* counts are in wallets or locked, the filled request's among them.
LEMMA InitialTokensStay ==
  ASSUME AmountInv, pending # NoTx
  PROVE  pools[pending.request.pool].tokens + pending.minted >= InitialLiquidity
<1>. DEFINE p   == pending.request.pool
            m   == pending.minted
            T   == pools[p].tokens
            h   == held[p]
            k   == kept[p]
            own == LockedBy(requests[pending.ref], p)
<1>1. /\ p \in Pools /\ m \in Int
      /\ pending.request.kind = "add" => m > 0
  BY SharesOfPending DEF AmountInv
<1>2. /\ pending.ref \in Refs
      /\ pending.request = requests[pending.ref]
      /\ pending.request \in Request
      /\ IsFunded(pending)
  BY DEF AmountInv, PendingIsRight
<1>3. PICK used \in Seq(Refs) : IsUsed(used) /\ IsAccounted(used)
  BY DEF AmountInv, TokensAreAccounted
<1>4. PICK i \in 1..Len(used) : used[i] = pending.ref
  BY <1>2, <1>3, NamesAssumption DEF IsUsed
<1>. DEFINE locked == Total(LockedIn(requests, used, p))
<1>5. /\ own <= locked
      /\ own \in Nat
      /\ locked \in Nat
  BY <1>4, LockedIsPart, LockedIsNat, LockedByIsNat
<1>6. T = InitialLiquidity + h + k + locked
  BY <1>1, <1>3 DEF IsAccounted
<1>7. h \in Nat /\ k \in Nat /\ InitialLiquidity \in Nat
  BY <1>1, GenesisAssumption DEF AmountInv, TypeOK
<1>8. k + own + m >= 0
  <2>1. CASE pending.request.kind = "add"
    <3>1. m > 0
      BY <1>1, <2>1
    <3>. HIDE DEF k, own, m
    <3>. QED
      BY <1>1, <1>5, <1>7, <3>1
  <2>2. CASE pending.request.kind # "add"
    <3>1. own = pending.request.amount /\ pending.request.kind = "remove"
      BY <1>2, <2>2 DEF LockedBy, Request, Kinds
    <3>2. k + (pending.request.amount + m) >= 0
      BY <1>2, <2>2 DEF IsFunded, TokensLeft
    <3>. HIDE DEF k, own, m
    <3>. QED
      BY <1>1, <1>5, <1>7, <3>1, <3>2
  <2>. QED
    BY <2>1, <2>2
<1>9. T + m >= InitialLiquidity
  <2>. HIDE DEF T, h, k, own, m, locked
  <2>1. T + m = InitialLiquidity + h + (k + locked + m)
    BY <1>1, <1>5, <1>6, <1>7
  <2>2. k + locked + m >= k + own + m
    BY <1>1, <1>5, <1>7
  <2>. QED
    BY <1>1, <1>5, <1>7, <1>8, <2>1, <2>2
<1>. QED
  BY <1>9

\* The pool that a filled request leaves has stake and tokens.
LEMMA PoolAfterFilling ==
  ASSUME AmountInv, pending # NoTx
  PROVE  LET p == pending.request.pool
         IN  [stake |-> pending.stake, tokens |-> pools[p].tokens + pending.minted] \in Pool
<1>. DEFINE p == pending.request.pool
            m == pending.minted
            S == pools[p].stake
            T == pools[p].tokens
            new == pending.stake
<1>1. /\ p \in Pools /\ m \in Int
      /\ (m - 1) * S <= T * (new - S)
  BY SharesOfPending DEF AmountInv
<1>2. S \in Nat \ {0} /\ T \in Nat \ {0} /\ new \in Int
  BY <1>1 DEF AmountInv, TypeOK, Pool, PendingIsRight
<1>3. T + m >= 2
  <2>1. T + m >= InitialLiquidity
    BY InitialTokensStay
  <2>. HIDE DEF T, m
  <2>. QED
    BY <1>1, <1>2, <2>1, GenesisAssumption
<1>4. new > 0
  <2>. HIDE DEF m, S, T, new
  <2>. QED
    BY <1>1, <1>2, <1>3, InitialTokensKeepStake
<1>. HIDE DEF m, S, T, new
<1>5. [stake |-> new, tokens |-> T + m] \in Pool
  BY <1>1, <1>2, <1>3, <1>4 DEF Pool
<1>. QED
  BY <1>5 DEF m, S, T, new

\* A filled request: what the wallets get, the request had locked or the pool mints.
LEMMA IncludeKeepsAmounts ==
  ASSUME AmountInv, Include
  PROVE  TypeOK' /\ ViewIsTyped' /\ PendingIsRight' /\ TokensAreAccounted'
<1>. DEFINE p   == pending.request.pool
            m   == pending.minted
            new == [stake |-> pending.stake, tokens |-> pools[p].tokens + m]
            joined == IF pending.request.kind = "add" THEN m ELSE 0
            left   == TokensLeft(pending)
<1>1. /\ pending # NoTx
      /\ pending.ref \in Refs
      /\ pending.request = requests[pending.ref]
      /\ pending.request \in Request
      /\ pending.stake \in Int /\ pending.paid \in Int
      /\ pending.request.kind = "add" => pending.paid = m
      /\ IsFunded(pending)
  BY DEF Include, AmountInv, PendingIsRight
<1>2. /\ p \in Pools /\ m \in Int
      /\ pending.request.kind = "add" => m > 0
  BY <1>1, SharesOfPending DEF AmountInv
<1>3. new \in Pool /\ new.stake = pending.stake /\ new.tokens = pools[p].tokens + m
  BY <1>1, PoolAfterFilling
<1>4. /\ pools \in [Pools -> Pool] /\ held \in [Pools -> Nat] /\ kept \in [Pools -> Nat]
      /\ weights \in [Pools -> Nat] /\ coin \in Nat
      /\ requests = [ref \in Refs |-> requests[ref]]
  BY DEF AmountInv, TypeOK, Inv, Shape
<1>5. /\ pools' = [pools EXCEPT ![p] = new]
      /\ pools' \in [Pools -> Pool]
  <2>1. pools' = [pools EXCEPT ![p] = new]
    BY <1>1, <1>2, <1>4 DEF Include
  <2>. HIDE DEF new
  <2>. QED
    BY <1>2, <1>3, <1>4, <2>1
<1>6. /\ joined \in Nat
      /\ held' \in [Pools -> Nat]
      /\ \A q \in Pools : held'[q] = held[q] + (IF q = p THEN joined ELSE 0)
  <2>1. CASE pending.request.kind = "add"
    <3>1. held' = [held EXCEPT ![p] = held[p] + pending.paid] /\ pending.paid = m
      BY <1>1, <2>1 DEF Include
    <3>2. joined = m
      BY <2>1
    <3>. HIDE DEF m, joined
    <3>3. m \in Nat
      BY <1>2, <2>1
    <3>. QED
      BY <1>2, <1>4, <3>1, <3>2, <3>3
  <2>2. CASE pending.request.kind # "add"
    <3>1. held' = held
      BY <2>2 DEF Include
    <3>2. joined = 0
      BY <2>2
    <3>. HIDE DEF joined
    <3>. QED
      BY <1>4, <3>1, <3>2
  <2>. QED
    BY <2>1, <2>2
<1>7. /\ left \in Int
      /\ kept' \in [Pools -> Nat]
      /\ \A q \in Pools : kept'[q] = kept[q] + (IF q = p THEN left ELSE 0)
  <2>1. left \in Int
    BY <1>1, <1>2 DEF TokensLeft, Request
  <2>2. kept[p] + left >= 0
    BY <1>1 DEF IsFunded
  <2>3. kept' = [kept EXCEPT ![p] = kept[p] + left]
    BY DEF Include
  <2>. HIDE DEF left
  <2>. QED
    BY <1>2, <1>4, <2>1, <2>2, <2>3
<1>8. coin' \in Nat
  <2>1. CoinLeft(pending) \in Int
    <3>1. pools[p].stake \in Int /\ pending.request.amount \in Int
      BY <1>1, <1>2, <1>4 DEF Pool, Request
    <3>. QED
      BY <1>1, <3>1 DEF CoinLeft
  <2>2. coin + CoinLeft(pending) >= 0
    BY <1>1 DEF IsFunded
  <2>3. coin' = coin + CoinLeft(pending)
    BY DEF Include
  <2>. QED
    BY <1>4, <2>1, <2>2, <2>3
<1>9. weights' \in [Pools -> Nat]
  <2>1. weights' = [weights EXCEPT ![p] = pending.stake]
    BY <1>1 DEF Include, AmountInv, Inv, PendingFits
  <2>2. pending.stake \in Nat
    BY <1>3 DEF Pool
  <2>. QED
    BY <1>2, <1>4, <2>1, <2>2
<1>10. /\ requests' = [requests EXCEPT ![pending.ref] = Closed]
       /\ UNCHANGED <<blocks, faults>>
       /\ view' = Outdated(view)
       /\ pending' = NoTx
  BY DEF Include
<1>11. TypeOK'
  <2>1. \A ref \in Refs : requests'[ref] \in Request \cup {NoRequest, Closed}
    BY <1>1, <1>4, <1>10 DEF AmountInv, TypeOK
  <2>. QED
    BY <1>5, <1>6, <1>7, <1>8, <1>9, <1>10, <2>1 DEF AmountInv, TypeOK
<1>12. ViewIsTyped'
  BY <1>10 DEF Outdated, AmountInv, ViewIsTyped
<1>13. PendingIsRight'
  BY <1>10 DEF PendingIsRight
<1>14. TokensAreAccounted'
  <2>1. ASSUME NEW q \in Pools
        PROVE  /\ pools'[q].tokens \in Int /\ held'[q] \in Int /\ kept'[q] \in Int
               /\ pools'[q].tokens - held'[q] - kept'[q]
                    = pools[q].tokens - held[q] - kept[q]
                        - LockedBy(requests[pending.ref], q)
    <3>1. /\ pools'[q].tokens \in Int /\ held'[q] \in Int /\ kept'[q] \in Int
          /\ pools[q].tokens \in Int /\ held[q] \in Int /\ kept[q] \in Int
      BY <1>4, <1>5, <1>6, <1>7 DEF Pool
    <3>2. CASE q = p
      <4>1. pools'[q].tokens = pools[q].tokens + m
        BY <1>2, <1>3, <1>4, <1>5, <3>2
      <4>2. held'[q] = held[q] + joined /\ kept'[q] = kept[q] + left
        BY <1>6, <1>7, <3>2
      <4>3. m = joined + left - LockedBy(requests[pending.ref], q)
        <5>1. pending.request.amount \in Int
          BY <1>1 DEF Request
        <5>2. LockedBy(requests[pending.ref], q)
                = IF pending.request.kind = "remove" THEN pending.request.amount ELSE 0
          BY <1>1, <3>2 DEF LockedBy
        <5>3. pending.request.kind = "add" \/ pending.request.kind = "remove"
          BY <1>1 DEF Request, Kinds
        <5>. QED
          BY <1>2, <5>1, <5>2, <5>3 DEF TokensLeft
      <4>4. LockedBy(requests[pending.ref], q) \in Int /\ joined \in Int /\ left \in Int
        BY <1>6, <1>7, LockedByIsNat
      <4>. HIDE DEF m, joined, left
      <4>. QED
        BY <3>1, <4>1, <4>2, <4>3, <4>4
    <3>3. CASE q # p
      <4>1. pools'[q].tokens = pools[q].tokens
        BY <1>4, <1>5, <3>3
      <4>2. held'[q] = held[q] /\ kept'[q] = kept[q]
        BY <1>6, <1>7, <3>1, <3>3
      <4>3. LockedBy(requests[pending.ref], q) = 0
        BY <1>1, <3>3 DEF LockedBy
      <4>. QED
        BY <3>1, <4>1, <4>2, <4>3
    <3>. QED
      BY <3>2, <3>3
  <2>. QED
    BY <1>1, <1>4, <1>10, <2>1, ClosingAccounts DEF AmountInv
<1>. QED
  BY <1>11, <1>12, <1>13, <1>14

LEMMA InitAmounts == Init => AmountInv
<1>. SUFFICES ASSUME Init
              PROVE  AmountInv
  OBVIOUS
<1>1. \A p \in Pools : /\ GenesisPools[p] \in Pool
                       /\ GenesisPools[p].tokens \in Nat /\ GenesisPools[p].stake \in Nat
                       /\ GenesisPools[p].tokens >= InitialLiquidity
                       /\ InitialLiquidity \in Nat
  BY GenesisAssumption DEF Pool
<1>2. TypeOK
  BY <1>1, GenesisAssumption, BoundsAssumption DEF Init, TypeOK
<1>3. ViewIsTyped /\ PendingIsRight
  BY DEF Init, ViewIsTyped, PendingIsRight
<1>4. TokensAreAccounted
  <2>1. << >> \in Seq(Refs) /\ Len(<< >>) = 0
    OBVIOUS
  <2>2. IsUsed(<< >>)
    BY <2>1 DEF Init, IsUsed
  <2>3. ASSUME NEW p \in Pools
        PROVE  pools[p].tokens = InitialLiquidity + held[p] + kept[p]
                                   + Total(LockedIn(requests, << >>, p))
    <3>1. Len(LockedIn(requests, << >>, p)) = 0
      BY <2>1, LockedInIsSeq
    <3>2. Total(LockedIn(requests, << >>, p)) = 0
      BY <3>1, UptoEquations DEF Total
    <3>3. /\ pools[p].tokens = GenesisPools[p].tokens
          /\ held[p] = GenesisPools[p].tokens - InitialLiquidity
          /\ kept[p] = 0
      BY DEF Init
    <3>. QED
      BY <1>1, <3>2, <3>3
  <2>4. IsAccounted(<< >>)
    BY <2>3 DEF IsAccounted
  <2>. QED
    BY <2>1, <2>2, <2>4 DEF TokensAreAccounted
<1>. QED
  BY <1>2, <1>3, <1>4, InitInv DEF AmountInv

LEMMA NextAmounts == AmountInv /\ [Next]_vars => AmountInv'
<1>. SUFFICES ASSUME AmountInv, [Next]_vars
              PROVE  AmountInv'
  OBVIOUS
<1>1. Inv'
  BY NextInv DEF AmountInv
<1>2. TypeOK' /\ ViewIsTyped' /\ PendingIsRight' /\ TokensAreAccounted'
  <2>1. CASE UNCHANGED vars
    <3>1. UNCHANGED <<pools, weights, requests, held, kept, coin, view, pending,
                      blocks, faults>>
      BY <2>1 DEF vars
    <3>2. TypeOK' /\ ViewIsTyped'
      BY <3>1 DEF AmountInv, TypeOK, ViewIsTyped
    <3>. QED
      BY <3>1, <3>2, PendingStays, AccountsStay DEF AmountInv
  <2>2. ASSUME NEW ref \in Refs, NEW p \in Pools, NEW kind \in Kinds,
               NEW amount \in 1..MaxAmount, NEW min \in MinAmounts(amount),
               PlaceRequest(ref, [amount |-> amount, pool |-> p, kind |-> kind,
                                  min |-> min])
        PROVE  TypeOK' /\ ViewIsTyped' /\ PendingIsRight' /\ TokensAreAccounted'
    <3>1. amount \in Nat \ {0} /\ min \in Nat \ {0}
      BY MinAmountsAssumption, BoundsAssumption
    <3>2. [amount |-> amount, pool |-> p, kind |-> kind, min |-> min] \in Request
      BY <3>1 DEF Request
    <3>. QED
      BY <2>2, <3>2, PlaceKeepsAmounts
  <2>3. CASE \E ref \in Refs : CancelRequest(ref)
    BY <2>3, CancelKeepsAmounts
  <2>4. CASE StartBatch \/ Lose
    BY <2>4, QuietStepKeepsAmounts
  <2>5. CASE \E ref \in Refs : ProcessRequest(ref)
    BY <2>5, ProcessKeepsAmounts
  <2>6. CASE Include
    BY <2>6, IncludeKeepsAmounts
  <2>7. CASE \E p \in Pools, reward \in 0..MaxReward : MineBlock(p, reward)
    <3>1. 0..MaxReward \subseteq Nat
      BY BoundsAssumption
    <3>. QED
      BY <2>7, <3>1, MineKeepsAmounts
  <2>. QED
    BY <2>1, <2>2, <2>3, <2>4, <2>5, <2>6, <2>7 DEF Next
<1>. QED
  BY <1>1, <1>2 DEF AmountInv

LEMMA AmountsStayRight == Spec => []AmountInv
BY InitAmounts, NextAmounts, PTL DEF Spec

\* No pool is left without stake or tokens and no wallet is overdrawn, with
\* whatever list of stakes the filler computes (fill_requests.py:211-224): the
\* tokens that belong to nobody are never burned, whoever comes and leaves.
THEOREM FillerTypeCorrectness == Spec => []TypeOK
<1>1. AmountInv => TypeOK
  BY DEF AmountInv
<1>. QED
  BY <1>1, AmountsStayRight, PTL

\* The steps that can change a pool.
LEMMA PoolSteps ==
  ASSUME [Next]_vars
  PROVE  \/ pools' = pools
         \/ Include
         \/ \E q \in Pools, reward \in 0..MaxReward : MineBlock(q, reward)
<1>1. CASE UNCHANGED vars
  BY <1>1 DEF vars
<1>2. ASSUME NEW ref \in Refs, NEW r, PlaceRequest(ref, r)
      PROVE  pools' = pools
  BY <1>2 DEF PlaceRequest
<1>3. CASE \E ref \in Refs : CancelRequest(ref) \/ ProcessRequest(ref)
  BY <1>3 DEF CancelRequest, ProcessRequest
<1>4. CASE StartBatch \/ Lose
  BY <1>4 DEF StartBatch, Lose
<1>. QED
  BY <1>1, <1>2, <1>3, <1>4 DEF Next

\* Every step leaves the stake of a token, but for one token's worth of all of it.
LEMMA StepCostsAtMostOneToken ==
  ASSUME AmountInv, [Next]_vars, NEW p \in Pools
  PROVE  pools'[p].stake * pools[p].tokens >= pools[p].stake * (pools'[p].tokens - 1)
<1>. DEFINE S == pools[p].stake
            T == pools[p].tokens
<1>1. S \in Nat \ {0} /\ T \in Nat \ {0}
  BY DEF AmountInv, TypeOK, Pool
<1>2. ASSUME NEW m \in Int, NEW new \in Int,
             (m - 1) * S <= T * (new - S),
             pools'[p].stake = new, pools'[p].tokens = T + m
      PROVE  pools'[p].stake * T >= S * (pools'[p].tokens - 1)
  <2>. HIDE DEF S, T
  <2>1. new * T >= S * ((T + m) - 1)
    BY <1>1, <1>2, TokensKeepTheirWorth
  <2>. QED
    BY <1>2, <2>1
<1>3. ASSUME NEW reward \in Nat,
             pools'[p].stake = S + reward, pools'[p].tokens = T
      PROVE  pools'[p].stake * T >= S * (pools'[p].tokens - 1)
  <2>. HIDE DEF S, T
  <2>1. (0 - 1) * S <= T * ((S + reward) - S)
    <3>1. T * ((S + reward) - S) \in Nat /\ (0 - 1) * S <= 0
      BY <1>1
    <3>. QED
      BY <1>1, <3>1
  <2>. QED
    BY <1>1, <1>2, <1>3, <2>1
<1>4. CASE pools' = pools
  BY <1>1, <1>3, <1>4
<1>5. CASE Include
  <2>1. pools \in [Pools -> Pool] /\ pending # NoTx
    BY <1>5 DEF Include, AmountInv, TypeOK
  <2>2. CASE p = pending.request.pool
    <3>1. /\ pools'[p].stake = pending.stake
          /\ pools'[p].tokens = T + pending.minted
      BY <1>5, <2>1, <2>2 DEF Include
    <3>2. /\ pending.minted \in Int
          /\ (pending.minted - 1) * S <= T * (pending.stake - S)
      BY <2>1, <2>2, SharesOfPending DEF AmountInv
    <3>3. pending.stake \in Int
      BY <2>1 DEF AmountInv, PendingIsRight
    <3>. QED
      BY <1>2, <3>1, <3>2, <3>3
  <2>3. CASE p # pending.request.pool
    <3>1. pools'[p] = pools[p]
      BY <1>5, <2>1, <2>3 DEF Include
    <3>. QED
      BY <1>1, <1>3, <3>1
  <2>. QED
    BY <2>2, <2>3
<1>6. ASSUME NEW q \in Pools, NEW reward \in Nat, MineBlock(q, reward)
      PROVE  pools'[p].stake * T >= S * (pools'[p].tokens - 1)
  <2>1. pools \in [Pools -> Pool]
    BY DEF AmountInv, TypeOK
  <2>2. CASE p = q
    <3>1. pools'[p].stake = S + reward /\ pools'[p].tokens = T
      BY <1>6, <2>1, <2>2 DEF MineBlock, Pool
    <3>. QED
      BY <1>3, <3>1
  <2>3. CASE p # q
    <3>1. pools'[p] = pools[p]
      BY <1>6, <2>1, <2>3 DEF MineBlock
    <3>. QED
      BY <1>1, <1>3, <3>1
  <2>. QED
    BY <2>2, <2>3
<1>7. 0..MaxReward \subseteq Nat
  BY BoundsAssumption
<1>. QED
  BY <1>4, <1>5, <1>6, <1>7, PoolSteps

\* Filling requests costs those that stay in a pool at most one token's worth of
\* stake, in every step and with whatever stake the filler computed: the pool's
\* script recomputes what is minted or burned (stakepool.py:145-196).
THEOREM StayingCostsAtMostOneToken == Spec => OthersLoseAtMostOneToken
<1>1. AmountInv /\ [Next]_vars
        => [\A p \in Pools :
              pools'[p].stake * pools[p].tokens
                >= pools[p].stake * (pools'[p].tokens - 1)]_vars
  BY StepCostsAtMostOneToken
<1>. QED
  BY <1>1, AmountsStayRight, PTL DEF Spec, OthersLoseAtMostOneToken

\* An accepted transaction that is still acceptable is a step of the pool's script.
LEMMA FillingFollowsScript ==
  ASSUME AmountInv, Include, NEW p \in Pools, p = pending.request.pool,
         NEW c, c = pools'[p].stake - pools[p].stake
  PROVE  Script(p)!AddStake(c) \/ Script(p)!RemoveStake(-c)
<1>. DEFINE m == pending.minted
<1>1. /\ pending # NoTx /\ m \in Int
      /\ SharesAreRight(pending) /\ pending.stake \in Int
  BY SharesOfPending DEF AmountInv, PendingIsRight, Include
<1>2. pools \in [Pools -> Pool]
  BY DEF AmountInv, TypeOK
<1>3. /\ pools[p].stake \in Nat \ {0} /\ pools[p].tokens \in Nat \ {0}
      /\ InitialLiquidity \in Nat
  BY <1>1, <1>2, GenesisAssumption DEF Pool
<1>4. /\ pools'[p].stake = pending.stake
      /\ pools'[p].tokens = pools[p].tokens + m
  BY <1>1, <1>2 DEF Include
<1>5. pending.stake > 0
  BY <1>1, PoolAfterFilling DEF Pool
<1>6. pools[p].tokens + m >= InitialLiquidity
  BY <1>1, InitialTokensStay
<1>7. /\ m # 0
      /\ pools[p].tokens - InitialLiquidity + m >= 0
      /\ pools'[p].tokens - InitialLiquidity = pools[p].tokens - InitialLiquidity + m
  <2>1. m # 0
    BY <1>1 DEF SharesAreRight
  <2>. HIDE DEF m
  <2>. QED
    BY <1>1, <1>3, <1>4, <1>6, <2>1
<1>8. c = pending.stake - pools[p].stake
  BY <1>4
<1>9. CASE pending.request.kind = "add"
  <2>1. c > 0 /\ m = Script(p)!MintedFor(c)
    BY <1>1, <1>9, <1>8 DEF SharesAreRight
  <2>2. Script(p)!Mints(Script(p)!MintedFor(c))
    BY <1>4, <1>7, <2>1 DEF Script!Mints
  <2>3. pools'[p].stake = pools[p].stake + c
    BY <1>1, <1>3, <1>4, <1>8
  <2>. QED
    BY <1>3, <2>1, <2>2, <2>3 DEF Script!AddStake, Script!AddChecks
<1>10. CASE pending.request.kind # "add"
  <2>1. c < 0 /\ m = Script(p)!MintedForRemoval(-c)
    BY <1>1, <1>10, <1>8 DEF SharesAreRight
  <2>2. Script(p)!Mints(Script(p)!MintedForRemoval(-c))
    BY <1>4, <1>7, <2>1 DEF Script!Mints
  <2>3. /\ pools'[p].stake = pools[p].stake - (-c)
        /\ -c > 0 /\ -c <= pools[p].stake
    BY <1>1, <1>3, <1>4, <1>5, <1>8, <2>1
  <2>. QED
    BY <2>2, <2>3 DEF Script!RemoveStake, Script!RemoveChecks
<1>. QED
  BY <1>9, <1>10

\* Every step is one of StakePool for each pool, or leaves it alone.
LEMMA StepFollowsScript ==
  ASSUME AmountInv, [Next]_vars, NEW p \in Pools
  PROVE  LET gained == pools'[p].stake - pools[p].stake IN
         \/ pools'[p] = pools[p]
         \/ Script(p)!AddStake(gained)
         \/ Script(p)!RemoveStake(-gained)
         \/ MineBlock(p, gained)
<1>1. pools \in [Pools -> Pool]
  BY DEF AmountInv, TypeOK
<1>2. CASE Include
  <2>1. CASE p = pending.request.pool
    BY <1>2, <2>1, FillingFollowsScript
  <2>2. CASE p # pending.request.pool
    BY <1>1, <1>2, <2>2 DEF Include
  <2>. QED
    BY <2>1, <2>2
<1>3. ASSUME NEW q \in Pools, NEW reward \in Nat, MineBlock(q, reward)
      PROVE  \/ pools'[p] = pools[p]
             \/ MineBlock(p, pools'[p].stake - pools[p].stake)
  <2>1. CASE p = q
    <3>1. pools'[p].stake = pools[p].stake + reward /\ pools[p].stake \in Nat
      BY <1>1, <1>3, <2>1 DEF MineBlock, Pool
    <3>2. pools'[p].stake - pools[p].stake = reward
      BY <3>1
    <3>. QED
      BY <1>3, <2>1, <3>2
  <2>2. CASE p # q
    BY <1>1, <1>3, <2>2 DEF MineBlock
  <2>. QED
    BY <2>1, <2>2
<1>4. 0..MaxReward \subseteq Nat
  BY BoundsAssumption
<1>. QED
  BY <1>2, <1>3, <1>4, PoolSteps

\* A pool changes only as its own script allows, although transactions are built from
\* a list that others edit and included later: what the scripts checked when the
\* transaction was submitted is still so (fill_requests.py:204-330).
THEOREM PoolsObeyTheirScript == Spec => PoolsFollowTheirScript
<1>1. AmountInv /\ [Next]_vars
        => [\A p \in Pools :
              LET gained == pools'[p].stake - pools[p].stake IN
              \/ pools'[p] = pools[p]
              \/ Script(p)!AddStake(gained)
              \/ Script(p)!RemoveStake(-gained)
              \/ MineBlock(p, gained)]_vars
  BY StepFollowsScript
<1>. QED
  BY <1>1, AmountsStayRight, PTL DEF Spec, PoolsFollowTheirScript

=============================================================================
