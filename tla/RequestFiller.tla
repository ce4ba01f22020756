--------------------------- MODULE RequestFiller ---------------------------
(***************************************************************************)
(* Requests to join or leave stake pools, and the program that fills them. *)
(*                                                                         *)
(* A request is an output of the script stakepool_request.py.  Its owner   *)
(* places it (place_request.py) and may cancel it (cancel_request.py); the *)
(* filler (fill_requests.py) goes through the open requests in batches and *)
(* builds a transaction for each: it spends the chain, the pool's position *)
(* and the request, and the scripts of all three check it.                 *)
(*                                                                         *)
(* In a batch the filler keeps one list of stakes, the one of the chain's  *)
(* datum that it read, and edits it in place for every request, whether    *)
(* the request's transaction succeeds or not.                              *)
(***************************************************************************)
EXTENDS Integers, Functions

CONSTANTS
  Pools,             \* the pools, by their position in the chain's registry
  Refs,              \* references of request outputs, each used once
  NoRequest,         \* a reference that is not used yet
  Closed,            \* a reference that is spent
  NoView,            \* the filler sleeps between two batches
  NoTx,              \* none of the filler's transactions is on its way
  InitialLiquidity,  \* LP tokens of a pool that belong to nobody
  GenesisPools,      \* stake and LP tokens of the pools at the start
  GenesisCoin,       \* stake coin in the filler's wallet at the start
  MinAmounts(_),     \* what a request for an amount may ask for at least
  MaxAmount,         \* bound: stake coin or LP tokens in a request
  MaxReward,         \* bound: stake coin a pool gets for a block
  MaxBlocks,         \* bound: transactions of others that spend the chain
  MaxFaults          \* bound: transactions the network loses

Kinds == {"add", "remove"}

Request == [amount : Nat \ {0}, pool : Pools, kind : Kinds, min : Nat \ {0}]

Pool == [stake : Nat \ {0}, tokens : Nat \ {0}]

\* The scripts want 1000 LP tokens that belong to nobody; with one alone, rounding
\* could leave a pool without stake.
ASSUME GenesisAssumption ==
  /\ InitialLiquidity \in Nat /\ InitialLiquidity >= 2
  /\ GenesisPools \in [Pools -> Pool]
  /\ \A p \in Pools : GenesisPools[p].tokens >= InitialLiquidity
  /\ GenesisCoin \in Nat
ASSUME NamesAssumption ==
  /\ NoRequest \notin Request \cup {Closed}
  /\ Closed \notin Request
ASSUME BoundsAssumption == {MaxAmount, MaxReward, MaxBlocks, MaxFaults} \subseteq Nat
ASSUME MinAmountsAssumption ==
  \A amount \in 1..MaxAmount : MinAmounts(amount) \subseteq Nat \ {0}

VARIABLES
  pools,     \* stake and LP tokens of each pool's position
  weights,   \* the chain's registry: the stake of each pool
  requests,  \* what each reference holds
  held,      \* LP tokens of each pool in its members' wallets
  kept,      \* LP tokens of each pool in the filler's wallet
  coin,      \* stake coin in the filler's wallet
  view,      \* the filler's batch: the list of stakes, whether the chain output
             \* it belongs to is still unspent, and the requests left
  pending,   \* the filler's transaction that is on its way, or NoTx
  blocks,    \* transactions of others that spent the chain
  faults     \* transactions lost

vars == <<pools, weights, requests, held, kept, coin, view, pending, blocks, faults>>

IsOpen(ref) == requests[ref] \notin {NoRequest, Closed}
Open == {ref \in Refs : IsOpen(ref)}

\* The pool's script, without its rewards.
Script(p) == INSTANCE StakePool WITH
  GuaranteedFraction <- [numerator |-> 1, denominator |-> 1],
  MaxStake <- 0, MaxTokens <- 0, MaxRewarded <- 0,
  registered <- TRUE, stake <- pools[p].stake, all_lp_tokens <- pools[p].tokens,
  supply <- pools[p].tokens - InitialLiquidity, rewarded <- 0, credited <- 0

-----------------------------------------------------------------------------
(***************************************************************************)
(* Broken variants of the definitions, one plausible bug each.             *)
(***************************************************************************)
Bug_OnlyOneWeight(tx) == tx.weights[tx.request.pool] = tx.stake
Bug_MintNotChecked(tx) == tx.minted # 0
Bug_NoShuffle(batch) == {CHOOSE ref \in batch : TRUE}

-----------------------------------------------------------------------------
(***************************************************************************)
(* What the filler builds, from the stake in its list and the pool it sees.*)
(***************************************************************************)
NewStake(r, prev) ==
  prev + (IF r.kind = "add" THEN r.amount
          ELSE (-prev * r.amount) \div pools[r.pool].tokens)

\* LP tokens that are minted, or burned if negative.
Minted(r, prev) ==
  LET change == pools[r.pool].tokens * (NewStake(r, prev) - prev)
  IN  IF r.kind = "add" THEN change \div prev ELSE change \div prev + 1

\* The transaction for the request r at ref, with the edited list.
Built(ref, r, list) ==
  LET prev == list[r.pool]
      new  == NewStake(r, prev)
  IN  [ref     |-> ref,
       request |-> r,
       weights |-> [list EXCEPT ![r.pool] = new],
       stake   |-> new,
       minted  |-> Minted(r, prev),
       paid    |-> IF r.kind = "add" THEN Minted(r, prev) ELSE prev - new]

\* What a transaction leaves to the filler, or takes from it if negative: stake
\* coin and LP tokens that go into the transaction and to no other output.
CoinLeft(tx) ==
  IF tx.request.kind = "add"
    THEN pools[tx.request.pool].stake + tx.request.amount - tx.stake
    ELSE pools[tx.request.pool].stake - tx.stake - tx.paid

TokensLeft(tx) == IF tx.request.kind = "add" THEN 0 ELSE tx.request.amount + tx.minted

-----------------------------------------------------------------------------
(***************************************************************************)
(* What the scripts check of it.                                           *)
(***************************************************************************)
\* The chain's script: one weight changes, to the stake in the position.
ListIsUpdated(tx) == tx.weights = [weights EXCEPT ![tx.request.pool] = tx.stake]

\* The pool's script: the stake that is really added or removed is paid for.
SharesAreRight(tx) ==
  LET p == tx.request.pool
      change == tx.stake - pools[p].stake
  IN  /\ tx.minted # 0
      /\ IF tx.request.kind = "add"
           THEN change > 0 /\ tx.minted = Script(p)!MintedFor(change)
           ELSE change < 0 /\ tx.minted = Script(p)!MintedForRemoval(-change)

\* The request's script: FillRequest.
RequestIsMet(tx) == tx.paid >= tx.request.min

\* The wallet of the filler makes up the balance.
IsFunded(tx) ==
  /\ coin + CoinLeft(tx) >= 0
  /\ kept[tx.request.pool] + TokensLeft(tx) >= 0

\* A broken variant: the filler's balance is not looked at.
Bug_Unfunded(tx) == ListIsUpdated(tx) /\ SharesAreRight(tx) /\ RequestIsMet(tx)

Accepted(tx) ==
  ListIsUpdated(tx) /\ SharesAreRight(tx) /\ RequestIsMet(tx) /\ IsFunded(tx)

\* The request can be filled right now.
Fillable(ref) == IsOpen(ref) /\ Accepted(Built(ref, requests[ref], weights))

-----------------------------------------------------------------------------
Init ==
  /\ pools = GenesisPools
  /\ weights = [p \in Pools |-> GenesisPools[p].stake]
  /\ requests = [ref \in Refs |-> NoRequest]
  /\ held = [p \in Pools |-> GenesisPools[p].tokens - InitialLiquidity]
  /\ kept = [p \in Pools |-> 0]
  /\ coin = GenesisCoin
  /\ view = NoView
  /\ pending = NoTx
  /\ blocks = 0
  /\ faults = 0

\* place_request.py: the owner locks stake coin or LP tokens with the request.
PlaceRequest(ref, r) ==
  /\ requests[ref] = NoRequest
  /\ r.kind = "remove" => r.amount <= held[r.pool]
  /\ requests' = [requests EXCEPT ![ref] = r]
  /\ held' = IF r.kind = "remove" THEN [held EXCEPT ![r.pool] = @ - r.amount] ELSE held
  /\ UNCHANGED <<pools, weights, kept, coin, view, pending, blocks, faults>>

\* cancel_request.py: the request's output goes back to its owner, so that a
\* transaction on its way that spends it is void.
CancelRequest(ref) ==
  /\ IsOpen(ref)
  /\ requests' = [requests EXCEPT ![ref] = Closed]
  /\ LET r == requests[ref] IN
       held' = IF r.kind = "remove"
                 THEN [held EXCEPT ![r.pool] = @ + r.amount] ELSE held
  /\ pending' = IF pending # NoTx /\ pending.ref = ref THEN NoTx ELSE pending
  /\ UNCHANGED <<pools, weights, kept, coin, view, blocks, faults>>

\* A batch starts with the chain's datum and all open requests.
StartBatch ==
  /\ view = NoView
  /\ Open # {}
  /\ view' = [weights |-> weights, fresh |-> TRUE, batch |-> Restrict(requests, Open)]
  /\ UNCHANGED <<pools, weights, requests, held, kept, coin, pending, blocks, faults>>

\* The requests are shuffled: any of those that are left can be next.
Shuffled(batch) == batch

WithoutRef(batch, ref) == Restrict(batch, DOMAIN batch \ {ref})

\* One pass of the loop.  The list is edited before anything can fail; then the
\* transaction is built (a stake of zero in the list ends that with an error)
\* and submitted, which succeeds if the scripts accept it and what it spends is
\* there: the chain output, the request, and the wallet.
ProcessRequest(ref) ==
  /\ view # NoView
  /\ ref \in Shuffled(DOMAIN view.batch)
  /\ LET r    == view.batch[ref]
         prev == view.weights[r.pool]
         list == [view.weights EXCEPT ![r.pool] = NewStake(r, prev)]
         left == WithoutRef(view.batch, ref)
         tx   == Built(ref, r, view.weights)
     IN  /\ view' = IF DOMAIN left = {} THEN NoView
                    ELSE [view EXCEPT !.weights = list, !.batch = left]
         /\ pending' = IF /\ view.fresh
                          /\ pending = NoTx
                          /\ requests[ref] = r
                          /\ prev # 0
                          /\ Accepted(tx)
                       THEN tx ELSE pending
  /\ UNCHANGED <<pools, weights, requests, held, kept, coin, blocks, faults>>

\* The chain output that the filler has seen is spent.
Outdated(v) == IF v = NoView THEN NoView ELSE [v EXCEPT !.fresh = FALSE]

\* The ledger includes the filler's transaction.
Include ==
  /\ pending # NoTx
  /\ LET p == pending.request.pool IN
       /\ pools' = [pools EXCEPT ![p] = [stake  |-> pending.stake,
                                         tokens |-> @.tokens + pending.minted]]
       /\ held' = IF pending.request.kind = "add"
                    THEN [held EXCEPT ![p] = @ + pending.paid] ELSE held
       /\ kept' = [kept EXCEPT ![p] = @ + TokensLeft(pending)]
  /\ coin' = coin + CoinLeft(pending)
  /\ weights' = pending.weights
  /\ requests' = [requests EXCEPT ![pending.ref] = Closed]
  /\ view' = Outdated(view)
  /\ pending' = NoTx
  /\ UNCHANGED <<blocks, faults>>

\* Another transaction spends the chain: a block of the pool p, which gets a
\* reward, or one that changes no pool.
MineBlock(p, reward) ==
  /\ blocks < MaxBlocks
  /\ pools' = [pools EXCEPT ![p].stake = @ + reward]
  /\ weights' = [weights EXCEPT ![p] = @ + reward]
  /\ view' = Outdated(view)
  /\ pending' = NoTx
  /\ blocks' = blocks + 1
  /\ UNCHANGED <<requests, held, kept, coin, faults>>

\* The network drops the filler's transaction.
Lose ==
  /\ pending # NoTx
  /\ faults < MaxFaults
  /\ faults' = faults + 1
  /\ pending' = NoTx
  /\ UNCHANGED <<pools, weights, requests, held, kept, coin, view, blocks>>

Next ==
  \/ \E ref \in Refs, p \in Pools, kind \in Kinds, amount \in 1..MaxAmount :
       \E min \in MinAmounts(amount) :
         PlaceRequest(ref, [amount |-> amount, pool |-> p, kind |-> kind, min |-> min])
  \/ \E ref \in Refs : CancelRequest(ref)
  \/ StartBatch
  \/ \E ref \in Refs : ProcessRequest(ref)
  \/ Include
  \/ \E p \in Pools, reward \in 0..MaxReward : MineBlock(p, reward)
  \/ Lose

Spec == Init /\ [][Next]_vars

\* The loop goes on, and the network includes what it has accepted.  The shuffle
\* lets every request be the first of a batch time and again.
FirstOfBatch(ref) ==
  /\ view # NoView
  /\ view.batch = Restrict(requests, Open)
  /\ view.weights = weights
  /\ ProcessRequest(ref)

Fairness ==
  /\ WF_vars(StartBatch)
  /\ WF_vars(\E ref \in Refs : ProcessRequest(ref))
  /\ \A ref \in Refs : SF_vars(FirstOfBatch(ref))
  /\ WF_vars(Include)

FairSpec == Spec /\ Fairness

-----------------------------------------------------------------------------
TypeOK ==
  /\ pools \in [Pools -> Pool]
  /\ weights \in [Pools -> Nat]
  /\ \A ref \in Refs : requests[ref] \in Request \cup {NoRequest, Closed}
  /\ held \in [Pools -> Nat]
  /\ kept \in [Pools -> Nat]
  /\ coin \in Nat
  /\ blocks \in 0..MaxBlocks
  /\ faults \in 0..MaxFaults

\* The registry holds the stake of every pool, whatever lists the filler edits:
\* a transaction whose list was edited for another pool is rejected as a whole.
RegistryMatchesPools == \A p \in Pools : weights[p] = pools[p].stake

\* What the pool as it is on the ledger owes for a request.
Due(r) ==
  LET pool == pools[r.pool] IN
  IF r.kind = "add" THEN (pool.tokens * r.amount) \div pool.stake
  ELSE -((-pool.stake * r.amount) \div pool.tokens)

\* Filling requests costs those that stay in a pool at most one token's worth of
\* stake, whatever stake the filler computed with.
OthersLoseAtMostOneToken ==
  [][\A p \in Pools :
       pools'[p].stake * pools[p].tokens
         >= pools[p].stake * (pools'[p].tokens - 1)]_vars

\* Every pool obeys StakePool, the account of one pool by the checks of its script:
\* whatever happens between the building of a transaction and its inclusion, a pool
\* changes by an addition or a removal as its script has it, burning tokens of
\* members only, or by a reward (InteractWithPool) that leaves its tokens alone.
PoolsFollowTheirScript ==
  [][\A p \in Pools :
       LET gained == pools'[p].stake - pools[p].stake IN
       \/ pools'[p] = pools[p]
       \/ Script(p)!AddStake(gained)
       \/ Script(p)!RemoveStake(-gained)
       \/ MineBlock(p, gained)]_vars

\* A request that fits the pool does not wait forever, although the filler fills
\* one request of a batch at most and others may come first and fail.
FillableIsFilled == \A ref \in Refs : []<>(~ Fillable(ref))

\* stakepool.py:196: "must remove proportionally to the stake": who leaves a pool
\* gets what the pool owes for the tokens.
MembersGetTheirShare ==
  [][\A ref \in Refs :
       Include /\ pending.ref = ref => pending.paid >= Due(requests[ref])]_vars

=============================================================================
