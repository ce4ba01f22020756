# A verification project for the STEAK protocol

TLA+ modules, TLC runs and machine-checked proofs about the STEAK protocol, a
proof-of-stake chain that lives in the datum of one UTxO on Cardano
(`src/steak_protocol`). Line numbers refer to the files of that repository.

## 1. Inventory

| Component | State | Operations | Interacts with |
|---|---|---|---|
| Stake chain (`onchain/stakechain/stakechain_v0.py`, `_v1.py`, `onchain/types.py`) | `StakeChainV0State`/`V1State`: params, lists of holder weights and ids, block number/hash/slot, producer state, `skip_holders`; stake coin reserve | `RegisterStake`, `DeregisterStake`, `UpdateStake`, `MineBlockUpdateStake`, `UpgradeProtocol` | holders (same transaction), approval script, ledger time |
| Slot leader election (`compute_slot_leader`, `onchain/utils/random.py`) | none | weighted sample of the holders that are not skipped | called by the chain and by the miner |
| Stake holder position (`onchain/stakeholder/*.py`) | `StakeHolderState`: id, owner, committed hashes, aux; its stake coin; one auth NFT | update, deregister; mint/burn of the NFT | must be spent with the chain |
| Upgrade approval (`stakechain_upgrade_v0.py`, `_v0a.py`, `_v1.py`) | none: reads the hash chain of `ProducerState`s | approve an agreed proposal | the chain's `UpgradeProtocol` |
| Stake pool (`onchain/stakepool/*.py`) | `PoolState` in the aux of a position: LP shares, fees | add stake, remove stake, rewards; requests | position, chain |
| Miner (`offchain/stakechain/mine.py`, `offchain/util.py`) | an append-only file of secrets | compute leader, build, submit, wait, commit, retry | chain, position |
| Request filler (`offchain/stakepool/fill_requests.py`) | a list of weights, edited through a batch | one `UpdateStake` transaction for each open request | pool, chain, requests |
| Requests (`stakepool_request.py`, `place_request.py`, `cancel_request.py`) | an output with an amount and a minimum | place, cancel, fill | their owner, the filler |
| Values (`onchain/utils/value.py`) | none | sum, difference, comparison of nested dictionaries | every redeemer of the chain |
| Upgrade tools (`offchain/stakechain/upgrade*.py`) | none: the indexer's list of matches, anybody's among them | write a proposal, collect the votes, submit | approval script, chain |
| Validity interval arithmetic (`onchain/utils/ext_interval.py`) | none | comparison of bounds | nothing but its test |
| Airdrop, minting policies (`onchain/airdrop.py`, `stakecoin.py`, `one_shot_nft.py`) | none | redeem, close, mint once | genesis |
| Transaction builders, build scripts, key files | none | one transaction or file each | indexer, node |

What is hard here. The chain is spent by every transaction, so the ledger
serialises them, but nobody controls their order: owners edit one list by index,
registrations push entries in front, `skip_holders` counts a prefix of the moving
list, and an upgrade may come between any two of them. Time enters through
validity intervals only. Off chain, the miner persists secrets around a
submission that may be lost, and fillers work on stale views.

What makes each component correct:

* chain: list and positions describe the same holders; a late holder waits for
  its turn and keeps it; one block per slot (per slot leader interval); the
  reserve is never overdrawn; only agreed parameters come into force;
* election: the loop returns, inside the list, with chances that follow stake;
* approval: votes are consecutive and up to date; address and parameters come from one
  proposal; the value changes as agreed;
* pool: shares are worth what was paid in, rounding costs those that stay at most one
  token's worth, no sequence of requests empties a pool that holds stake;
* values: no token is lost or made up because a dictionary lacks an entry;
* miner: the secrets behind the position are never lost; a leader that stays up mines
  again and again;
* filler: whatever it submits on a stale or spoilt view leaves registry and pools in
  step, and every request that can be filled is;
* tools: what they build is what the scripts ask for; the upgrade tool finds the votes.

`PROJECT.json` lists the components with their status, and the hazards with the
line where each bites and the properties that cover it.

## 2. Modules

| Module | Role |
|---|---|
| `Election` | operators: `weighted_sample`, the slice `weights[skip:]`, `compute_slot_leader` |
| `WeightedSample` | the election as a program: one step per loop iteration, on any registry and draw |
| `StakeChain` | the chain and its positions: one action per redeemer, plus the clock |
| `StakeBallot` | abstract specification: who stands for election and who produces |
| `ChainScripts` | the three v0 scripts on arbitrary transactions; implements `StakeChain`; what the tools build |
| `ChainValue` | the value of the chain's output and the arithmetic on it |
| `ChainUpgrade` | votes, approval scripts and the upgrade tools |
| `StakePool` | one pool: stake and LP tokens in the tools' transactions, one action per redeemer of its script |
| `RequestFiller` | requests, their owners and the filler, over pools that take the steps of `StakePool` |
| `Miner` | one stake holder's mining loop, its secrets file, and the ledger around it |
| `WeightedSampleProofs`, `StakeChainProofs`, `ChainScriptsProofs`, `StakePoolProofs`, `MinerProofs`, `RequestFillerProofs` | theorems about the module in their name |
| `UpgradeProofs` | theorems about `ChainUpgrade` and `ChainValue` |
| `CommonLemmas` | what they share: arithmetic, induction on the naturals, sums of lists, list operations, the operators of `Election` |
| `MC...` | instances for TLC |

`WeightedSample`, `StakeChain` and `ChainScripts` use `Election`; `ChainScripts` instantiates
`StakeChain`, which instantiates `StakeBallot`; `RequestFiller` instantiates `StakePool`.

### StakeChain

A state is the chain's datum and stake coin, the live positions, the stake coin
outside the protocol and the ledger's clock. An action is one accepted
transaction; its guard is everything that the scripts of the transaction check.
The operators below an action follow the functions of the code: a registration
is `RegisterStake` (the branch of `validator`), with `NewRegisteredState`
(`check_correct_new_registered_state`) and `PaysRegisterFee`
(`check_correct_register_value_update`); a block is `MineBlockUpdateStake` with
`IsSlotLeader` (`check_correct_producer`), `NewMinedState`
(`check_correct_new_updated_mined_state`), `NewChainState` (`new_chain_state`)
and `InSlot` (`check_slot_of_tx`).

How the data is represented:

* Lists are sequences: index *i* of the code is *i* + 1 here. A negative
  `stake_index_in_holder_list` is `NotListed`.
* A position is a handle from `Positions`: the thread of UTxOs that carry one
  auth NFT. `check_one_stake_holder_spent`, `check_no_stake_holder_spent`, the
  mint and burn counts and `stakeholder.py:73-79` are what makes it one thread.
  The handle is free again after deregistration. Nothing in the code ties an id
  to a position except the registry, which is why `RegistryMatchesHolders` is a
  theorem and not part of the representation.
* v0 and v1 are one module. `address` says which script locks the chain and
  `params.version` which shape its parameters have: a proposal sets the two independently
  (`stakechain_upgrade_v0.py:113-119`, `_v1.py:113-119`), so that a chain under v1's script
  can have v0's parameters. That script then reads a `slot_leader_interval` that is not
  there and attaches no block (`HasInterval`), while holders can still register and leave.
  The scripts differ in `InSlot` (v0 closed bounds, one slot; v1 open lower bound, one
  slot leader interval) and `IsIntervalStart`. v0 checks the order of slots at
  `stakechain_v0.py:421-424` instead of in `new_chain_state`, to the same effect.
* The transaction's validity interval is chosen by its submitter; the ledger
  requires that it holds the current time. `InSlot` says that such an interval
  exists. The clock is discrete; `genesis_time` is 0.
* The hash that seeds the election is an arbitrary number, drawn anew for each
  block: an over-approximation that also absorbs the leader numbers
  `0..num_slot_leaders`, each of which gives another draw.
* `producer_states` is the hash chain of `ProducerState`s as a sequence, newest
  first: the hash is taken as injective. `block_number` is its length minus one.
* `upgrade_approval` is the version of the approval script. `Accepts` says which
  parameters it lets through. v0 calls `check_integrity` on the proposal
  (`stakechain_upgrade_v0.py:62`), which fails on parameters of v1's shape. v0a and v1 do
  not, and their `isinstance` compares constructor ids, which the two shapes share
  (`types.py:9`, `:36`): either shape passes. v0a wants some parameters
  (`stakechain_upgrade_v0a.py:95`), the others take `Nothing`.
* A proposal has any of the two addresses or `Nothing` and parameters of any of the two
  shapes or `Nothing`. Addresses of other scripts are left out: there the chain is no
  longer one.
* Proposals leave `slot_length`, `genesis_time` and the tokens as they are, as the
  proposal scripts do (`upgrade_proposal_v0_to_v0a.py:81-97`,
  `upgrade_proposal_v0a_to_v1.py:70-92`).
* A proposal pays stake coin in and out (`treasury`, `payout`). As in the code, an
  agreed proposal can be executed again until the next block is attached.
* Any signature a transaction needs can be obtained. Deregistering costs the
  registration fee again, as `stakechain_v1.py:626-629` has it.
* `Funded` is the ledger's own rule that no output holds a negative amount. It is
  what stops a reward, fee or payout that is not covered.

Left to other modules: that a position is one thread of UTxOs (`ChainScripts`),
committed hashes (`Miner`), ADA and other tokens (`ChainValue`), the list of earlier
states that the approval scripts are handed (`ChainUpgrade`). Left out: signatures,
sizes of datum and auxiliary data.

### StakeBallot

The promise of the chain to its holders, without lists and counters. A holder that
joins after the first block does not stand for election until a block has been
attached; a holder that stands does so until it leaves; only one that stands
produces; after a block everybody registered stands. As long as `skip_holders` is
still negative (it starts at -1000, `offchain/stakechain/init.py:177`) a new holder
stands at once; the ballot calls that enrolling, and lets it end at any time,
because in the chain it ends at the first block or with the 1000th registration
(removals do not lower a negative count). `StakeChain` implements it with
`standing <- ` the ids behind the skipped prefix, see `ImplementsBallot`.

### ChainScripts

`StakeChain` assumes that a position is one thing with one owner. On the ledger it is a
UTxO with an auth NFT, and three scripts look at each transaction: `stakechain_v0.py`
with the redeemer's branch, `stakeholder.py` for every position that is spent, and
`stakeholder_auth_nft.py` when a token is minted. `ChainScripts` has their checks one by
one (`RegisterChecks`, `DeregisterChecks`, `UpdateChecks`, `MineChecks`, `HolderScripts`,
`MintingPolicy`) and lets a transaction spend any set of outputs and make any two, with or
without tokens, at the address of the positions or elsewhere, and point the scripts at any
of them. Tokens and stake coin of a transaction are sums over finitely many outputs; they are
counted as the number of units (`SumOf`), which needs no recursion and no order.
`ImplementsChain` maps the position of an id to the output that carries a token and that id,
and says that every transaction the scripts accept together is a step of `StakeChain`, which
is what justifies the handle there.

The tools compute the next datum by code of their own. `BuiltRegistration`
(`stakeholder/init.py`), `BuiltDeregistration` (`deregister.py`) and `BuiltBlock`
(`mine.py`) are what they build, and `ToolsAreAccepted` compares it with what the scripts
ask for. The tools find the position by the id in its datum and do not look for its token;
the property takes it that they were shown the real one. They read v0 datums. The branch
for upgrades (`stakechain_v0.py:500-503`) is left to `StakeChain` and `ChainUpgrade`.

### ChainValue

A value is a function from policies to functions from names to amounts, with possibly
different domains. `AddValue`, `SubtractValue` and `EqualExceptAdaIncrease` follow
`add_value`, `subtract_value` and `check_equal_except_ada_increase` with their special
cases for empty dictionaries. The actions are the checks of the redeemers on the value of
the next output, which may be any value the ledger allows: positive amounts and an entry
for lovelace: `PayReward`, `PayFee`, `UpdateStake` and `Upgrade`. `account` is a history
variable that counts each token by itself.

### ChainUpgrade

A producer state of the chain is its number, since each contains the hash of the one
before; a proposal is an address and parameters, of which `register_fee` stands for all
those that a proposal copies. `Approves` is the loop over the submitted list, `Accepts` as
in `StakeChain`. `AgreementLength` is 7 in the tools and, with it, the length that the tool
asserts (`upgrade_v0_to_v0a.py:119`). The genesis message is `SomeOutputDatum(0)`, no
proposal and not blank. The genesis names a script of v0's parameters: `init.py:136` has
`stakechain_upgrade`, without a version, so that both v0 and v0a are initial.

`outputs` is what the indexer matches at the address of v0, newest first: the chain's
outputs, of which every transaction on the chain makes one that repeats the newest state,
and those that somebody else puts there (`PlaceOutput`), without a datum, with a datum that
is no state, with a copy of a state of the chain or with a state of its own. The loop
(`CollectedUpto`) takes no notice of auth NFTs. It ends at an output without a datum
(`NoDatum`, `upgrade_v0_to_v0a.py:67-69`) or without a message (`NoMessage`, `:75-76`),
raises at a datum it cannot read (`NoState`, `:73`), keeps repeats of the first message and
skips others (`:81-86`); then the first state is dropped (`:114`). `HasProposal` is that a
tool reads the newest message as a proposal of its own class: `upgrade_v0_to_v0a.py` and
`upgrade_v0a_to_v1.py` are the same program for the two approval scripts.

### StakePool

An action is one transaction of the tools, with any amounts that the script accepts:
`stakepool/init.py` registers a pool, `fill_requests.py` adds and removes stake, `mine.py`
moves rewards. The script's own checks are `RegisterChecks`, `AddChecks`, `RemoveChecks` and
`InteractChecks`. It takes the position from the redeemer, which names an input and an
output, and compares neither with the position's address or auth NFT
(`stakepool.py:81-91`, `:117-132`): that the two are the pool's position is for the chain's
script, whose redeemer names the same input and output in these transactions, and whose
checks are in `ChainScripts`. So the properties are claims about the tools' transactions and
not about every transaction that the pool's script accepts by itself.

A new pool holds any stake, none included: the script fixes the token count and does not
look at the stake, the tool locks `INITIAL_STAKE_POOL_LIQUIDITY` (1000,
`offchain/util.py:24`), and the comment at `stakepool.py:110-111` advises to lock none.
`Mints` is `check_mint_exactly_n_with_name`, which finds no entry in the mint for an amount
of zero; the ledger can only burn tokens that exist. The script does not look at the mint
when a pool takes part in a block (`InteractChecks`), and `InteractWithPool` mints nothing
because `mine.py` does not. LP tokens and coin outside the pool are summed up.

### RequestFiller

`PlaceRequest` and `CancelRequest` are the owners', `StartBatch` and `ProcessRequest` the
filler's. In `ProcessRequest` the list of weights is edited first, as at
`fill_requests.py:211`, on the list object of the datum that was read, and stays edited for
the rest of the batch when the request's transaction fails. `Built` is the transaction,
`Accepted` what the scripts of chain, pool and request and the ledger's balance ask of it.
The filler's wallet pays what a transaction lacks and keeps what it leaves over, which
matters after an earlier request has failed. The second attempt with an adjusted fee
(`adjust_for_wrong_fee`) is part of the submission. A pool is its place in the registry.

### Miner

The loop's program counter follows `mine()`: `Look` (chain, position, slot), `Build` (the
transaction, its scripts, the write-ahead of the rotated list), `Submit`, and `Commit` after
the wait; `Fail` is the `except` of `main`. Registration (`stakeholder/init.py`) is the
operator's, who runs it while the loop sleeps and again if it was lost. `file` holds the
lists of the append-only file, less those no transaction can bring to the ledger any more;
writing one line is atomic. The ledger side includes, drops or invalidates transactions:
whatever spends the chain makes all others void (`ChainMoves`). `Crash` keeps ledger and
file only. A tick is many ledger slots long.

Members of the chain are taken to keep the committed hashes of a position when they change
its stake, as the tools do.

## 3. Runs

| Run | Question | Instance | States |
|---|---|---|---|
| `election` | does the loop elect the right holder, with the right chance? | up to 3 holders, stakes 0..3, skip -4..2, every draw | 4104 |
| `registry` | do list, positions and ballot agree in every order of transactions? | 3 holders, 3 positions, stakes 0 and 1, 3 blocks, `skip_holders` from -2, one proposal (fee 1, at most 1 holder) | 60498 (with symmetry) |
| `upgrade` | do time and votes hold across v0, v0a, v1? | 1 holder, agreement length 2, 6 blocks, clock 0..10, v1 interval of 3 slots, proposals that change address and parameters together or apart | 371021 |
| `chain_scripts` | do three scripts that each see one transaction make a position one thread? | 3 UTxO names, 2 ids, stakes 1 and 2, 1 look-alike at a time, 1 block | 1167 (with symmetry) |
| `chain_value` | is every token accounted for? | lovelace and one policy with two names, amounts to 5, fee 1, reward of a half | 180 |
| `chain_upgrade` | do address and parameters change by consecutive votes only, and when does the tool find them? | agreement length 3, 7 producer states, 1 output beyond one for each | 6197803 |
| `stake_pool` | what is a share worth after many roundings? | 4 initial tokens, stake at the start 0..16 and at most 16, tokens to 20, guaranteed two thirds | 8537 |
| `request_filler` | do registry and pools agree, is nobody hurt, is every request served? | 2 pools, 2 requests of 1 or 2, 1 block, 1 lost transaction | 64616 |
| `miner` | are the secrets safe, does the loop recover? | lists of 1, 4 secrets, interval of 2 slots of 3 ticks, lag 1, 1 crash or lost answer, any number of lost transactions, rivals | 193096 |
| `genesis_leader` | is the first leader sampled? | as `election` | violated |
| `stall` | can somebody always be elected? | as `registry`, 2 blocks | violated |
| `filler_share` | does who leaves a pool get its share? | 1 pool with a token worth almost two coins, 2 requests | violated |

Properties of the passing runs, beside the type invariant of each:

* `LoopComputesSlotLeader`: the loop ends with the index that the closed form of
  the chain model names; the `assert False` behind it is never reached.
* `LeaderIsCandidate`: after the index is shifted back and clamped, the leader is
  in the list and not among the skipped.
* `ShareWithinOneOfStake`: the number of draws that elect a holder is its stake, give or
  take one. The tolerance is what `upto >= r` shifts (see below), which it therefore
  allows.
* `RegistryMatchesHolders`, `SkipWithinRegistry`, `StallIsForever`,
  `ImplementsBallot`: see the comments in `StakeChain`.
* `SlotHasBegun`, `NextBlockAwaitsSlot`, `NextBlockAwaitsInterval`: blocks and
  ledger time, with the exclusive bounds of v1 and upgrades in between. The last one is
  about a block that lies at the start of an interval. The block that v0 left in the middle
  of one may be followed by a v1 block sooner; of that pair only `NextBlockAwaitsSlot` speaks.
* `ParamsWereAgreed`, `UpgradePathIsFollowed`: votes are consecutive, and the way
  from v0's parameters to v1's takes two rounds of them.
* `MismatchIsForever`: once v1's script locks the chain with v0's parameters, no block is
  attached any more, and no upgrade repairs it.
* `TokensArePositions`: an auth NFT is always alone in an output at the positions'
  address, one for each listed id; `ImplementsChain`, `ToolsAreAccepted`: see above.
* `AccountIsExact`: the chain's value and the count agree token by token.
  `OnlyUpgradesLowerAda`: a value that passes for a block, a fee or an update has at least
  the lovelace of the old one, so that the tolerated difference is an increase there.
* `ChangesWereAgreed`: whatever list of states is handed in. `ToolSubmitsInTime`: the tool
  upgrades the chain exactly if the newest votes are in the matches once each and in order,
  with nothing but other messages in readable states between them (`InTime`).
* `InitialTokensAreLocked`, `StakeNeverRunsOut`, `RewardsAreShared`, `JoiningTakesNothing`,
  `ShareLosesAtMostOneToken`: token count, division by zero, the sum of many rounded
  rewards, and the stake behind a token under both kinds of rounding.
* `RegistryMatchesPools`, `OthersLoseAtMostOneToken`: hold although the filler may compute
  with a spoilt list, because the chain's script compares the whole list.
  `PoolsFollowTheirScript`: each of the pools changes by steps of `StakePool` only, and no
  removal burns more tokens than members have.
  `FillableIsFilled`: no request stays fillable for ever without being filled.
* `SecretsAreOnDisk`: also while a transaction is under way whose answer was lost, and
  after a crash at any step. `KeepsMining`: once the others leave the chain alone and the holder is leader, it attaches
  blocks for ever.

Each has a mutant in `PROJECT.json`: a `Bug_` operator of the module that stands for
a plausible mistake (forgetting the slice, the clamp or the shift; an index off by
one; a vote too few; a file that is overwritten; a batch that is not shuffled) and that
makes TLC find the property violated.

### What the violated ones show

* `SomebodyCanLead` (`stall`): after a block, a holder registers (and is skipped), then
  all older holders leave. `skip_holders` equals the number of holders,
  `weights[skip_holders:]` is empty, and by `StallIsForever` no transaction of any
  kind makes a block possible again: only mining resets the count, every
  registration raises it, and upgrades keep it. `README.md:13` and `:24` promise a
  block, or an elected leader, every 60 seconds.
* `GenesisLeaderIsSampled`: with -1000 skipped, the sampled index is moved below
  zero and clamped to 0, so the first block always belongs to the holder that
  registered last (`stakechain_v1.py:211` against the docstring at `:191`).
* `MembersGetTheirShare` (`filler_share`): the first request of a batch fails, because its
  owner has cancelled it, but has lowered the stake in the filler's list from 9 to 7
  (`fill_requests.py:211`). The next one removes stake for 2 of the pool's 5 tokens: 4 are
  due of the 9, but what they are worth is computed from the 7, so that the request is paid
  3, and the pool's output is written with 4. The pool's script accepts, since two tokens
  are what it asks for the 5 coins that really leave; the request gets its minimum, and the
  filler, who balances the transaction, keeps the other 2.

### Also noticed while modelling

These follow from the definitions named; no run is kept for them.

* Chances are off by one: `upto >= r` (`random.py:28`) with `r` from 0 gives the first
  candidate one draw more than its stake, even if it has none, and the last one less
  (`Reaches`).
* A removal whose share is a whole number of tokens burns one token too few
  (`stakepool.py:199`, `MintedForRemoval`). Members that leave in several steps can so
  take out more than they put in, down to below the stake that the comment at `:110-111`
  says can not be withdrawn. `ShareLosesAtMostOneToken` bounds it step by step.
* `place_request.py:112` asks for as many LP tokens as coins are brought. After the first
  reward a coin buys less than a token, and such a request can not be filled.
* The three approval scripts call `check_equal_except_ada_increase` with the expected
  value first (`stakechain_upgrade_v0.py:143`, `_v0a.py:138`, `_v1.py:142`), so that an
  upgrade may lower the chain's ADA by any amount and never raise it
  (`value.py:104-106`; `Upgrade` in `ChainValue`).
* The upgrade tool takes a state from each output at the address and wants exactly seven
  (`upgrade_v0_to_v0a.py:119`): a registration between two votes, an eighth vote, or an
  output of somebody else's with a copy of a vote, without a datum or with one it cannot
  read makes it fail, although the script would approve the right list. `InTime` in
  `ChainUpgrade` is when it works; the list can also be given by hand.
* A vote for v1's address that is carried out with v0's parameters leaves a chain without
  blocks (`MismatchIsForever`). The approval scripts do not compare the two, and v0a and v1
  do not look at the shape of the parameters either. The proposal tools write both together,
  but a proposal of v0's parameters that keeps the address does it when it is voted for late.
* A proposal is a copy of all parameters from the day it was written
  (`upgrade_proposal_v0_to_v0a.py:84`) and reverts what another upgrade changed meanwhile.
* An agreed payout can be claimed again until the next block (`stakechain_upgrade_v1.py:128`).
* The airdrop's redeem tool asks for the script's address without a staking part
  (`redeem.py:62`), but `init.py:85-89` locks at one with the recipient's.

### Bounds

In `registry` and `upgrade`, `MaxTime` and `MaxBlocks` cap the clock and the blocks. When
the clock has run out and nobody can pay a fee the model stops, so the chain runs do not
check deadlock; the election is a function that returns; a pool at its bounds, and owners
without a reference left for a request, stop as well. `miner` has no such end and does
check it. `GenesisSkip` is 2 (the code: 1000), so that the genesis count is used up with
three holders: both a first block before that and a first block after it occur. In `stall`
it is 6: the violation found does not come from a small genesis count. Three holders are
enough to have one skipped, one standing and one that leaves on either side of the other
two. Six blocks are four votes (two rounds of two) and two blocks under v1. Interval 3 is
the least that tells a slot inside an interval from the open bound's extra tick.

`chain_scripts`: two ids and three names of UTxOs allow two positions and a look-alike, or
a transaction that spends two and makes two; outputs can have no token, one or two (`Made`).
`chain_value`: the two policies can each be missing on either side of a sum or a
comparison, and so can each of the two names; one block, fee, payout and taking after
another reaches every amount to 5. `chain_upgrade`: with three votes
of the code's seven the two that are handed in have an order, and can be repeats; seven
producer states are two rounds of votes; one output more than one for each is enough for a
repeated vote or an output of somebody else's at any place, since each that the tool cannot
stand makes it fail by itself. v1's address with v0's parameters is reached there by an old
proposal that is voted for under v1; `upgrade` has the other ways. `stake_pool`: every stake
to begin with; four tokens instead of 1000 make the rounding as coarse as it gets; stakes and tokens that
do not divide each other are reached within three transactions. `request_filler`: a pool
whose token is worth more than a coin and one whose token is worth less; two requests are
what it takes for one to spoil the list for the other. `miner`: one secret in the list
(the code: 5) is the tightest rotation; four secrets are one in use, one under way, one
written after a crash or a lost answer and a fresh one. With fewer, or longer lists, the
model would run out of fresh secrets, which the code does not. `StepTime` lets the slot
leader interval end between any two steps.

Symmetry over holders, positions and ids in `registry` and `chain_scripts` is sound: no
constant and no property names one of them and neither run has a liveness property. `miner`
and `request_filler` use none.

### Fairness

Two modules state fairness.

* `Miner`: time passes; the loop takes its next step (it is a `while True` that catches
  every exception, `mine.py:94-112`); a process that is down is started again; the operator
  completes a registration that can be completed again and again; and of infinitely many
  transactions that can be included, not all are lost (strong, since a single one may be
  dropped or come too late). Nothing is assumed about the others on the chain: `KeepsMining`
  has their silence, and that the position leads, as its premise.
* `RequestFiller`: the filler starts batches and goes through them (its loop,
  `fill_requests.py:106-154`), an accepted transaction is included, and each request is the
  first of a batch infinitely often if it can be: `random.shuffle` (`:154`) makes this
  true with probability one. Strong fairness for being first is needed, because a request
  that fails earlier in the batch spoils the list; without the shuffle the property fails
  (its mutant).

## 4. Proofs

All theorems hold for every value of the constants that satisfies the named assumptions of
the module; no finiteness is assumed.

| Module | Theorem | Property |
|---|---|---|
| `WeightedSampleProofs` | `ElectionTypeCorrectness` | `[]TypeOK` |
| | `LoopIsClosedForm` | `[]LoopComputesSlotLeader` |
| | `LeaderIsNotSkipped` | `[]LeaderIsCandidate` |
| | `ChancesFollowStake` | `[]ShareWithinOneOfStake` |
| `StakeChainProofs` | `TypeCorrectness` | `[]TypeOK` |
| | `RegistryIsFaithful` | `[]RegistryMatchesHolders` |
| | `SkipStaysInRegistry` | `[]SkipWithinRegistry` |
| | `StallIsPermanent` | `StallIsForever` |
| | `SlotsHaveBegun` | `[]SlotHasBegun` |
| | `BlocksAwaitSlots` | `NextBlockAwaitsSlot` |
| | `BlocksAwaitIntervals` | `NextBlockAwaitsInterval` |
| | `UpgradesWereAgreed` | `[]ParamsWereAgreed` |
| | `UpgradesTakeTwoRounds` | `[]UpgradePathIsFollowed` |
| | `MismatchIsPermanent` | `MismatchIsForever` |
| | `ChainImplementsBallot` | `ImplementsBallot`: every behaviour of `StakeChain` is one of `StakeBallot` |
| `ChainScriptsProofs` | `LedgerTypeCorrectness` | `[]TypeOK` |
| | `TokensStayPositions` | `[]TokensArePositions` |
| | `ToolsStayAccepted` | `[]ToolsAreAccepted` |
| | `ScriptsImplementChain` | `ImplementsChain`: every behaviour of `ChainScripts` is one of `StakeChain` |
| `StakePoolProofs` | `PoolTypeCorrectness` | `[]TypeOK` |
| | `InitialTokensStayLocked` | `[]InitialTokensAreLocked` |
| | `StakeStays` | `StakeNeverRunsOut` |
| | `RewardsStayShared` | `[]RewardsAreShared` |
| | `JoiningIsFair` | `JoiningTakesNothing` |
| | `LeavingCostsAtMostOneToken` | `ShareLosesAtMostOneToken` |
| `MinerProofs` | `MinerTypeCorrectness` | `[]TypeOK` |
| | `SecretsStayOnDisk` | `[]SecretsAreOnDisk` |
| `RequestFillerProofs` | `FillerTypeCorrectness` | `[]TypeOK` |
| | `RegistryStaysRight` | `[]RegistryMatchesPools` |
| | `StayingCostsAtMostOneToken` | `OthersLoseAtMostOneToken` |
| | `PoolsObeyTheirScript` | `PoolsFollowTheirScript`: each pool of the filler implements `StakePool`, but for its history of rewards |
| `UpgradeProofs` | `AmountOfSum`, `AmountOfDifference` | the arithmetic of values, token by token |
| | `ValueTypeCorrectness` | `[]ValueTypeOK` |
| | `ValueStaysExact` | `[]AccountIsExact` |
| | `AdaStaysWithoutUpgrades` | `OnlyUpgradesLowerAda` |
| | `UpgradeTypeCorrectness` | `[]TypeOK` |
| | `ChangesNeedVotes` | `ChangesWereAgreed` |
| | `ToolsHaveToBeInTime` | `[]ToolSubmitsInTime` |

Assumptions on the constants worth knowing: at least two LP tokens of a pool belong to
nobody (`InitialLiquidity >= 2`; the scripts want 1000), because with a single one the
rounding of `stakepool.py:199` could leave a pool without stake; and a request's minimum is
positive, as the tool writes it (`place_request.py:112`, `:119`). `ChainScripts` assumes
nothing about how many ids, outputs or stakes there are; each single transaction is finite.

`CommonLemmas`. The sums of `weighted_sample` are recursive functions over a list of any
length. The library's theorem that `<` is well founded on the naturals gives every set of
naturals a least element (`LeastElement`), and this gives induction over a set
(`InductionOnNat`: a set that holds zero and the successor of each member holds `Nat`). With
it the recursion equations are shown to have a solution (`UptoEquations`; a recursive
function is a `CHOOSE`, of which nothing is known before), and then that sums are natural,
do not fall, and change with one summand by its difference. `SampleExists` and
`SampleIsUnique` say that the first sum to reach the draw exists, so that the `assert False`
at the end of `weighted_sample` is never reached.

`WeightedSampleProofs`. The loop invariant says that the running sum is the prefix sum at
the loop's index and that no sum before it reaches the draw. `ChancesFollowStake` shows that
the draws for which a holder is elected are an interval between two neighbouring prefix
sums, whose length is its stake but for the one draw that `upto >= r` shifts from the last
to the first, and counts it.

`StakeChainProofs`. `TypeOK` is inductive: the amounts stay natural because every action
that takes stake coin away is `Funded`, the lists because of three lemmas about
prepending, removing and replacing (`PrependProperties`, `RemoveAtProperties`,
`ReplaceAtProperties`). `RegistryMatchesHolders` is inductive together with `TypeOK`,
but none of its four parts is on its own: an edit at an index hits the right holder
because ids are distinct in the list; a registration keeps positions distinct only
because every position is listed, so that a fresh id is not held by a live
position; and the entry removed with a position is its only one because positions
are distinct. The proof also shows that a live position is always listed, so the
branch for a negative index (`stakechain_v1.py:369-374`) can not be taken by a holder
that the chain's scripts created. `SkipWithinRegistry` needs that a
registration lengthens list and skipped prefix together and that a removal shortens the
prefix when it is in it. `StallIsPermanent` follows from the same lemmas and from
`NoCandidatesNoLeader`: the total of an empty list is zero and no draw is below it.
`BlocksAwaitSlots` and `BlocksAwaitIntervals` combine the guards of the new block with
`TypeOK`: slot numbers that are different multiples of an interval are an interval apart
(`BlockIsLate`, `NextMultiple`).
`UpgradesWereAgreed` needs that a new block moves the votes of earlier blocks back by one
place unchanged (`VotesAreKept`).
`UpgradesTakeTwoRounds` rests on the integrity check of v0's approval script: parameters of
v1's shape come into force only after another approval script has, by a round of votes of
its own, and the two rounds can not share a vote, since they are for different parameters;
the genesis state, the oldest, carries none.
`MismatchIsPermanent` adds to `TypeOK` that, while script and parameters do not fit, the
newest votes agree on nothing that would bring back v0's address or v1's parameters
(`MismatchWasAgreed`). There is no other round of votes, because there is no other block:
`new_chain_state` fails (`HasInterval`).
`ChainImplementsBallot` maps every step to a step of `StakeBallot` or to a stutter. Those
that stand are the ids behind the skipped prefix; a registration shifts list and prefix
together, an edit at an index touches weights only, and what a removal takes out of the
image is one id, since ids are distinct. For a block it uses that the sampled leader is in
the image (`SlotLeaderIsCandidate`).

`ChainScriptsProofs`. A script sees one transaction and counts tokens in its inputs and
outputs. `SumIsNat`, `SumOfTwo` and `OneToken` say what a count tells: whoever counts none
sees none, and whoever counts one and has been shown a position has seen all there is. With
the fact that no token is outside the positions (`TokensAreGuarded`) each redeemer is then
translated to what it does to the positions, `PositionsBecome`: registering brings one,
deregistering takes one away, an update or a block replaces one by another with the same
id, and a transaction without the chain touches none (`RegisterEffect`, `DeregisterEffect`,
`UpdateEffect`, `PlainEffect`). None of these is a check of a single script: that no
position is spent on the side, for instance, needs the count in the chain script, the mint
in the policy, and the invariant. The inductive invariant `IInv` adds to `TypeOK` and
`TokensAreGuarded` that ids are listed once, positions are listed with their stake, listed
ids have positions, and no two positions share an id (`Registry`). An update points at an
index and at an input, and that both mean the same holder follows from the last; that a
registration with a fresh id does not give an id a second position, from the second.
`TokensArePositions` and `ToolsAreAccepted` follow from the invariant: the tools find the
first index of an id, which is its only one, and `DeregistrationsAreAccepted` uses that a
position is always listed. For `ImplementsChain` the mapping is shown to yield, for each id,
its only position (`HolderOfId`), so that `PositionsBecome` is an assignment to one entry of
`holder`; the election and the slots are the same operators on both sides (`SameElection`,
`SameSlots`).

`StakePoolProofs`. The theorems are about the tools' transactions, as the module is. The
inductive invariant is `TypeOK`, the token count and shared rewards, together with "no
tokens before the pool exists". That a pool with stake is never emptied (`StakeStays`)
follows from the token count: a removal of all stake would burn all tokens but one, and the
initial ones, of which there are at least two, can not be burned. The minting rules are
floors of quotients; `JoiningIsFair` and `LeavingCostsAtMostOneToken` bound them from above
and below by products and compare these.

`MinerProofs`. `SecretsAreOnDisk` is inductive once the attempt under way is included: a
transaction that is built and not yet submitted has its list in the file. The file only
forgets lists that neither position, nor pending transactions, nor that attempt contain.
`TypeOK` needs that the list under way and the list that the loop has read are whole lists
of hashes where the program counter says there are any.

`RequestFillerProofs`. The invariant adds to the registry that a pending transaction was
made from the weights as they are: it holds them with one change, to the stake of its pool.
Whatever spends the chain voids it, so that it is still true when it is included. Of the
filler's list of weights the invariant says nothing: its edits do not matter.
`TypeOK` asks that no pool is ever left without stake, for which the amounts have to be
followed: the tokens of a pool are the initial ones, those that members hold, those that the
filler kept and those locked in open requests, summed over the requests (`AmountInv`).
The initial ones belong to nobody and are never burned, so that no removal burns them all,
and the rounding takes less than the stake that is behind them. A pending transaction is
still acceptable when it is included (`PendingIsRight`), by the same argument as above.
`StayingCostsAtMostOneToken` compares the products that the minting rule bounds.
`PoolsObeyTheirScript` puts the two together: when a transaction is included the pool is
still the one that its script was shown, and the tokens it burns are not the initial ones.

`UpgradeProofs`. For `ChainValue`, `AmountOfSum` and `AmountOfDifference` split on which of the two
dictionaries has the policy and the name, and on the short cuts for empty ones; the
invariant follows action by action. `AdaStaysWithoutUpgrades` uses the same arithmetic for
lovelace: no reward and no fee is made of it, and the comparison of blocks, fees and updates
asks for as much as before or more.

For `ChainUpgrade`, the invariant adds to `TypeOK` that the first message is the genesis
one, which is no proposal, so that the votes do not reach below the first block, that every
match of a state of the chain carries the message of that state, and that at v0's address
the chain has v0's parameters, because no proposal has v1's without v1's address. For
`ToolsHaveToBeInTime` the equations of the loop's list are shown to have a solution
(`CollectedEquations`), as above. By induction over the matches the loop collects the first
one and then those that repeat its message, each at the place that the number of repeats
before it says (`RepeatsAreCounted`, `CollectsTheRepeats`), so that what is handed in is the
repeats in their order (`HandsTheRepeats`). Put into `Approves`, this is `InTime`.

Only model-checked:

* `KeepsMining`, `FillableIsFilled`: liveness under fairness and `ENABLED` are out of the
  prover's reach in general;
* the three properties that are violated.

## 5. Plan

Every safety property that the passing runs check is proved. What would add most now:

1. payouts of an upgrade with their destination;
2. the airdrop's scripts and tools.

## 6. Not modelled

* Validity interval arithmetic (`ext_interval.py`): nothing calls it but its own test.
* Airdrop (`onchain/airdrop.py`, `offchain/airdrop`): a side tool without lasting state
  that reads nothing of the chain, positions or pools.
* Minting policies of the stake coin and the one-shot NFT: they run once, before the
  genesis that the models start with. The auth NFT of positions is in `ChainScripts`.
* Build and publishing scripts, key files, indexer and node access, which are I/O;
  cryptography, taken as ideal; size limits of datum and auxiliary data.
* A line of the secrets file that is torn by a crash: writing one line is atomic here.
* A position whose auxiliary data is not a `PoolState`, which makes the filler's requests
  behind it in the indexer's order fail (`fill_requests.py:179`).
* Transactions other than the tools' that run the stake pool's script on an input and an
  output of another choice than the pool's position. The script does not look whether they
  are; what holds for such transactions is open here.
* Proposals with parameters that have neither of the two shapes, which v0a's and v1's
  approval scripts do not check, and with addresses that no script of the chain has.
