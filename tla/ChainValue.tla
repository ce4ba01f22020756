----------------------------- MODULE ChainValue -----------------------------
(***************************************************************************)
(* What the chain's output holds: a value, which is a dictionary from      *)
(* policies to dictionaries from token names to amounts.                   *)
(*                                                                         *)
(* The scripts compute the value that the next output must have with the   *)
(* arithmetic of onchain/utils/value.py and compare the two, entry by      *)
(* entry.  Policies and names may be missing on either side; the values on *)
(* the ledger have no amounts of zero, results of the arithmetic do.       *)
(***************************************************************************)
EXTENDS Integers, Functions

CONSTANTS
  Policies,    \* policy ids
  Names,       \* token names
  Ada,         \* the policy of lovelace, b""
  AdaName,     \* its only name, b""
  Coin,        \* the policy of the stake coin
  CoinName,    \* and its name
  Genesis,     \* the value the chain is created with
  Fee,         \* params.register_fee
  Fraction,    \* params.fraction_per_block
  Payouts,     \* payouts that blocks may agree to
  Treasuries,  \* values that blocks may agree to take in
  Nothing,     \* no payout or nothing to take in
  MaxAmount    \* bound: an amount in an output

\* Dictionaries.
NameDicts(S) == UNION {[N -> S] : N \in SUBSET Names}
ValueDicts(S) == UNION {[P -> NameDicts(S)] : P \in SUBSET Policies}

\* Values in outputs: amounts are positive, and there is an entry for lovelace.
IsLedgerValue(v) ==
  /\ Ada \in DOMAIN v
  /\ DOMAIN v[Ada] = {AdaName}
  /\ \A p \in DOMAIN v : DOMAIN v[p] # {}

LedgerValues == {v \in ValueDicts(1..MaxAmount) : IsLedgerValue(v)}

ASSUME NamesAssumption ==
  {Ada, Coin} \subseteq Policies /\ {AdaName, CoinName} \subseteq Names /\ Ada # Coin
ASSUME ParamsAssumption ==
  /\ Fee \in Nat
  /\ Fraction \in [numerator : Nat, denominator : Nat \ {0}]
  /\ MaxAmount \in Nat
ASSUME ValuesAssumption ==
  /\ Genesis \in LedgerValues
  /\ Payouts \subseteq LedgerValues \cup {Nothing}
  /\ Treasuries \subseteq LedgerValues \cup {Nothing}
  /\ Nothing \notin LedgerValues

VARIABLES
  value,    \* the value of the chain's output
  account   \* history: what each token's amount should be, counted one by one

valueVars == <<value, account>>

-----------------------------------------------------------------------------
(***************************************************************************)
(* onchain/utils/value.py.                                                 *)
(***************************************************************************)
Empty == [k \in {} |-> 0]

Get(dict, key, default) == IF key \in DOMAIN dict THEN dict[key] ELSE default

AmountOf(v, p, n) == Get(Get(v, p, Empty), n, 0)

(* One plausible bug in each definition.                                   *)
Bug_OnlyOwnKeys(a, b) == DOMAIN a
Bug_ChecksOwnEntries(a, b) ==
  \A p \in DOMAIN b \ {Ada} : \A n \in DOMAIN b[p] :
    AmountOf(a, p, n) = AmountOf(b, p, n)

\* merge_without_duplicates(a.keys(), b.keys())
Keys(a, b) == DOMAIN a \cup DOMAIN b

AddNames(a, b) ==
  IF DOMAIN a = {} THEN b
  ELSE IF DOMAIN b = {} THEN a
  ELSE [n \in Keys(a, b) |-> Get(a, n, 0) + Get(b, n, 0)]

AddValue(a, b) ==
  IF DOMAIN a = {} THEN b
  ELSE IF DOMAIN b = {} THEN a
  ELSE [p \in Keys(a, b) |-> AddNames(Get(a, p, Empty), Get(b, p, Empty))]

Negated(a) == [n \in DOMAIN a |-> -a[n]]

SubtractNames(a, b) ==
  IF DOMAIN b = {} THEN a
  ELSE IF DOMAIN a = {} THEN Negated(b)
  ELSE [n \in Keys(a, b) |-> Get(a, n, 0) - Get(b, n, 0)]

SubtractValue(a, b) ==
  IF DOMAIN b = {} THEN a
  ELSE IF DOMAIN a = {} THEN [p \in DOMAIN b |-> Negated(b[p])]
  ELSE [p \in Keys(a, b) |-> SubtractNames(Get(a, p, Empty), Get(b, p, Empty))]

\* check_equal_except_ada_increase(a, b): the comparison of all other tokens, and
\* of lovelace.
SameTokens(a, b) ==
  \A p \in Keys(a, b) \ {Ada} :
    \A n \in Keys(Get(a, p, Empty), Get(b, p, Empty)) :
      AmountOf(a, p, n) = AmountOf(b, p, n)

EnoughAda(a, b) == AmountOf(a, Ada, AdaName) >= AmountOf(b, Ada, AdaName)

EqualExceptAdaIncrease(a, b) == SameTokens(a, b) /\ EnoughAda(a, b)

-----------------------------------------------------------------------------
OneToken(p, n, amount) == [q \in {p} |-> [m \in {n} |-> amount]]

\* The bookkeeping, token by token.
Tokens == (Policies \ {Ada}) \X Names

CreditCoin(amount) == [account EXCEPT ![<<Coin, CoinName>>] = @ + amount]

\* A broken variant of UpdateStake.
Bug_ArgumentsSwapped(next) ==
  EqualExceptAdaIncrease(value, next) /\ value' = next /\ UNCHANGED account

ValueInit ==
  /\ value = Genesis
  /\ account = [t \in Tokens |-> AmountOf(Genesis, t[1], t[2])]

\* floor_fraction(scale_fraction(prev_reserve_amount, fraction_per_block))
Reward ==
  (AmountOf(value, Coin, CoinName) * Fraction.numerator) \div Fraction.denominator

\* check_correct_mine_value_update
PayReward(next) ==
  /\ EqualExceptAdaIncrease(
       next, SubtractValue(value, OneToken(Coin, CoinName, Reward)))
  /\ value' = next
  /\ account' = CreditCoin(-Reward)

\* check_correct_register_value_update: registering and deregistering pay a fee.
PayFee(next) ==
  /\ EqualExceptAdaIncrease(next, AddValue(value, OneToken(Coin, CoinName, Fee)))
  /\ value' = next
  /\ account' = CreditCoin(Fee)

\* check_correct_update_value_update
UpdateStake(next) ==
  /\ EqualExceptAdaIncrease(next, value)
  /\ value' = next
  /\ UNCHANGED account

\* The end of the upgrade scripts: the arguments of the comparison are the other
\* way round than above.
Taken(treasury) == IF treasury = Nothing THEN value ELSE AddValue(treasury, value)

AfterUpgrade(treasury, payout) ==
  IF payout = Nothing THEN Taken(treasury) ELSE SubtractValue(Taken(treasury), payout)

AmountIn(v, p, n) == IF v = Nothing THEN 0 ELSE AmountOf(v, p, n)

Upgrade(treasury, payout, next) ==
  /\ EqualExceptAdaIncrease(AfterUpgrade(treasury, payout), next)
  /\ value' = next
  /\ account' = [t \in Tokens |->
                   account[t] + AmountIn(treasury, t[1], t[2])
                     - AmountIn(payout, t[1], t[2])]

ValueNext ==
  \E next \in LedgerValues :
    \/ PayReward(next)
    \/ PayFee(next)
    \/ UpdateStake(next)
    \/ \E treasury \in Treasuries, payout \in Payouts :
         Upgrade(treasury, payout, next)

ValueSpec == ValueInit /\ [][ValueNext]_valueVars

-----------------------------------------------------------------------------
ValueTypeOK ==
  /\ value \in LedgerValues
  /\ account \in [Tokens -> 0..MaxAmount]

\* After any sequence of blocks, fees, updates, payouts and takings the chain
\* holds of every token what counting that token alone gives: no entry is lost
\* or made up because a dictionary lacks a policy or a name.  Lovelace is not
\* compared exactly.
AccountIsExact ==
  \A p \in Policies \ {Ada}, n \in Names : AmountOf(value, p, n) = account[<<p, n>>]

\* Lovelace, for which an increase is tolerated, never leaves the chain by a block, a
\* fee or an update, though their comparisons are against sums and differences with
\* stake coin and the lovelace may be missing from a dictionary.
OnlyUpgradesLowerAda ==
  [][(\E next \in LedgerValues : PayReward(next) \/ PayFee(next) \/ UpdateStake(next))
     => AmountOf(value', Ada, AdaName) >= AmountOf(value, Ada, AdaName)]_valueVars

=============================================================================
