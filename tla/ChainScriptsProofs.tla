------------------------- MODULE ChainScriptsProofs -------------------------
(***************************************************************************)
(* Theorems about ChainScripts, for every transaction: whatever finitely   *)
(* many outputs it spends and makes, whatever tokens, ids and amounts they *)
(* have, and whichever of them the redeemer points at.                     *)
(*                                                                         *)
(* Each redeemer that the scripts accept is first translated to what it    *)
(* does to the positions, PositionsBecome: the tokens that it counts leave *)
(* room for no other.  Everything else is about positions and the lists in *)
(* the chain's datum.                                                      *)
(***************************************************************************)
EXTENDS ChainScripts, CommonLemmas, FiniteSetTheorems

-----------------------------------------------------------------------------
(* Sums of amounts.                                                        *)

\* The units that SumOf counts.
Units(amounts) == UNION {{k} \X (1..amounts[k]) : k \in DOMAIN amounts}

\* Finitely many entries, all of them natural numbers.
Amounts(f) == IsFiniteSet(DOMAIN f) /\ \A k \in DOMAIN f : f[k] \in Nat

\* The units of one entry.
LEMMA UnitsOfEntry ==
  ASSUME NEW k, NEW n \in Nat
  PROVE  IsFiniteSet({k} \X (1..n)) /\ Cardinality({k} \X (1..n)) = n
<1>1. IsFiniteSet({k}) /\ Cardinality({k}) = 1
  BY FS_Singleton
<1>2. IsFiniteSet(1..n) /\ Cardinality(1..n) = n
  BY FS_Interval
<1>3. Cardinality({k} \X (1..n)) = 1 * n
  BY <1>1, <1>2, FS_Product
<1>. QED
  BY <1>1, <1>2, <1>3, FS_Product

\* Finitely many amounts have finitely many units.
LEMMA UnitsAreFinite ==
  ASSUME NEW f, Amounts(f)
  PROVE  IsFiniteSet(Units(f))
<1>. DEFINE parts == {{k} \X (1..f[k]) : k \in DOMAIN f}
            part  == [k \in DOMAIN f |-> {k} \X (1..f[k])]
<1>1. part \in Surjection(DOMAIN f, parts)
  BY DEF Surjection
<1>2. IsFiniteSet(parts)
  BY <1>1, FS_Surjection DEF Amounts
<1>3. \A T \in parts : IsFiniteSet(T)
  BY UnitsOfEntry DEF Amounts
<1>. QED
  BY <1>2, <1>3, FS_UNION DEF Units

\* A sum of natural numbers is one, and at least each of them.
LEMMA SumIsNat ==
  ASSUME NEW f, Amounts(f)
  PROVE  SumOf(f) \in Nat /\ \A k \in DOMAIN f : f[k] <= SumOf(f)
<1>1. SumOf(f) = Cardinality(Units(f))
  BY DEF SumOf, Units
<1>2. SumOf(f) \in Nat
  BY <1>1, UnitsAreFinite, FS_CardinalityType
<1>3. ASSUME NEW k \in DOMAIN f
      PROVE  f[k] <= SumOf(f)
  <2>1. {k} \X (1..f[k]) \in SUBSET Units(f)
    BY DEF Units
  <2>2. Cardinality({k} \X (1..f[k])) <= Cardinality(Units(f))
    BY <2>1, UnitsAreFinite, FS_Subset
  <2>3. Cardinality({k} \X (1..f[k])) = f[k]
    BY UnitsOfEntry DEF Amounts
  <2>. QED
    BY <1>1, <2>2, <2>3
<1>. QED
  BY <1>2, <1>3

\* Two entries count together.
LEMMA SumOfTwo ==
  ASSUME NEW f, Amounts(f), NEW k \in DOMAIN f, NEW l \in DOMAIN f, k # l
  PROVE  f[k] + f[l] <= SumOf(f)
<1>. DEFINE K == {k} \X (1..f[k])
            L == {l} \X (1..f[l])
<1>1. f[k] \in Nat /\ f[l] \in Nat
  BY DEF Amounts
<1>2. /\ IsFiniteSet(K) /\ Cardinality(K) = f[k]
      /\ IsFiniteSet(L) /\ Cardinality(L) = f[l]
  BY <1>1, UnitsOfEntry
<1>3. K \cap L = {}
  OBVIOUS
<1>4. K \cup L \in SUBSET Units(f)
  BY DEF Units
<1>. HIDE DEF K, L
<1>5. Cardinality(K \cup L) = f[k] + f[l]
  <2>1. Cardinality(K \cup L) = Cardinality(K) + Cardinality(L) - Cardinality({})
    BY <1>2, <1>3, FS_Union
  <2>. QED
    BY <1>1, <1>2, <2>1, FS_EmptySet
<1>6. Cardinality(K \cup L) <= Cardinality(Units(f))
  BY <1>4, UnitsAreFinite, FS_Subset
<1>. QED
  BY <1>5, <1>6 DEF SumOf, Units

\* A sum with at most one entry that is not zero.
LEMMA SumOfOne ==
  ASSUME NEW f, Amounts(f), NEW k \in DOMAIN f,
         \A l \in DOMAIN f \ {k} : f[l] = 0
  PROVE  SumOf(f) = f[k]
<1>1. Units(f) = {k} \X (1..f[k])
  <2>1. ASSUME NEW u \in Units(f) PROVE u \in {k} \X (1..f[k])
    <3>1. PICK l \in DOMAIN f : u \in {l} \X (1..f[l])
      BY DEF Units
    <3>2. l = k
      BY <3>1
    <3>. QED
      BY <3>1, <3>2
  <2>2. {k} \X (1..f[k]) \subseteq Units(f)
    BY DEF Units
  <2>. QED
    BY <2>1, <2>2
<1>2. Cardinality({k} \X (1..f[k])) = f[k]
  BY UnitsOfEntry DEF Amounts
<1>. QED
  BY <1>1, <1>2 DEF SumOf, Units

\* A sum without any such entry.
LEMMA SumOfNone ==
  ASSUME NEW f, \A l \in DOMAIN f : f[l] = 0
  PROVE  SumOf(f) = 0
<1>1. Units(f) = {}
  BY DEF Units
<1>. QED
  BY <1>1, FS_EmptySet DEF SumOf, Units

-----------------------------------------------------------------------------
(* Tokens in the inputs and outputs of a transaction.                      *)

\* Finitely many outputs, their amounts natural numbers.
Bundle(outputs) ==
  /\ IsFiniteSet(DOMAIN outputs)
  /\ \A k \in DOMAIN outputs : outputs[k].nft \in Nat /\ outputs[k].stake \in Nat

\* Whoever counts no token sees no output with one.
LEMMA NoToken ==
  ASSUME NEW outputs, Bundle(outputs)
  PROVE  /\ NftOf(outputs) \in Nat
         /\ NftOf(outputs) = 0 <=> \A k \in DOMAIN outputs : outputs[k].nft = 0
         /\ NftOf(outputs) = 0 => StakeOf(outputs) = 0
<1>. DEFINE f == [k \in DOMAIN outputs |-> outputs[k].nft]
            g == [k \in DOMAIN outputs |->
                    IF IsPosition(outputs[k]) THEN outputs[k].stake ELSE 0]
<1>1. /\ DOMAIN f = DOMAIN outputs
      /\ \A k \in DOMAIN outputs : f[k] = outputs[k].nft
      /\ DOMAIN g = DOMAIN outputs
      /\ \A k \in DOMAIN outputs : ~ IsPosition(outputs[k]) => g[k] = 0
  OBVIOUS
<1>2. NftOf(outputs) = SumOf(f) /\ StakeOf(outputs) = SumOf(g)
  BY DEF NftOf, StakeOf
<1>3. Amounts(f)
  BY DEF Amounts, Bundle
<1>. HIDE DEF f, g
<1>4. SumOf(f) \in Nat /\ \A k \in DOMAIN f : f[k] \in Nat /\ f[k] <= SumOf(f)
  BY <1>3, SumIsNat DEF Amounts
<1>5. SumOf(f) = 0 => \A k \in DOMAIN outputs : outputs[k].nft = 0
  BY <1>1, <1>4
<1>6. (\A k \in DOMAIN outputs : outputs[k].nft = 0) => SumOf(f) = 0
  BY <1>1, SumOfNone
<1>7. (\A k \in DOMAIN outputs : outputs[k].nft = 0) => SumOf(g) = 0
  BY <1>1, SumOfNone DEF IsPosition
<1>. QED
  BY <1>2, <1>4, <1>5, <1>6, <1>7

\* Whoever counts one token and sees a position has seen all there is.
LEMMA OneToken ==
  ASSUME NEW outputs, Bundle(outputs), NEW k \in DOMAIN outputs,
         IsPosition(outputs[k])
  PROVE  /\ NftOf(outputs) = 1 <=> \A l \in DOMAIN outputs \ {k} : outputs[l].nft = 0
         /\ NftOf(outputs) = 1 => StakeOf(outputs) = outputs[k].stake
<1>. DEFINE f == [l \in DOMAIN outputs |-> outputs[l].nft]
            g == [l \in DOMAIN outputs |->
                    IF IsPosition(outputs[l]) THEN outputs[l].stake ELSE 0]
<1>1. /\ DOMAIN f = DOMAIN outputs
      /\ \A l \in DOMAIN outputs : f[l] = outputs[l].nft
      /\ DOMAIN g = DOMAIN outputs
      /\ \A l \in DOMAIN outputs : ~ IsPosition(outputs[l]) => g[l] = 0
      /\ g[k] = outputs[k].stake
      /\ f[k] = 1
  BY DEF IsPosition
<1>2. NftOf(outputs) = SumOf(f) /\ StakeOf(outputs) = SumOf(g)
  BY DEF NftOf, StakeOf
<1>3. Amounts(f) /\ Amounts(g)
  BY DEF Amounts, Bundle
<1>. HIDE DEF f, g
<1>4. ASSUME SumOf(f) = 1, NEW l \in DOMAIN outputs \ {k}
      PROVE  outputs[l].nft = 0
  <2>1. f[k] + f[l] <= SumOf(f)
    BY <1>1, <1>3, SumOfTwo
  <2>2. f[l] \in Nat
    BY <1>1, <1>3 DEF Amounts
  <2>. QED
    BY <1>1, <1>4, <2>1, <2>2
<1>5. ASSUME \A l \in DOMAIN outputs \ {k} : outputs[l].nft = 0
      PROVE  SumOf(f) = 1 /\ SumOf(g) = outputs[k].stake
  <2>1. SumOf(f) = f[k]
    BY <1>1, <1>3, <1>5, SumOfOne
  <2>2. \A l \in DOMAIN outputs \ {k} : ~ IsPosition(outputs[l])
    BY <1>5 DEF IsPosition
  <2>3. SumOf(g) = g[k]
    BY <1>1, <1>3, <2>2, SumOfOne
  <2>. QED
    BY <1>1, <2>1, <2>3
<1>. QED
  BY <1>2, <1>4, <1>5

-----------------------------------------------------------------------------
(* What a transaction does to the positions.                               *)

\* A transaction of Transact, by the names it spends and makes.
IsTransaction(tx) ==
  /\ DOMAIN tx.inputs \in SUBSET Unspent
  /\ DOMAIN tx.outputs \in SUBSET Keys
  /\ IsFiniteSet(DOMAIN tx.inputs) /\ IsFiniteSet(DOMAIN tx.outputs)
  /\ DOMAIN tx.outputs \cap Unspent \subseteq DOMAIN tx.inputs
  /\ \A k \in DOMAIN tx.inputs : tx.inputs[k] = utxos[k]
  /\ \A k \in DOMAIN tx.outputs : tx.outputs[k] \in Outputs

\* Outputs with tokens are positions.
TokensAreGuarded == \A k \in Unspent \ Positions : utxos[k].nft = 0

\* The positions that are spent are gone, the others stay as they are, and come
\* are new.
PositionsBecome(tx, gone, come) ==
  /\ gone \subseteq Positions
  /\ Positions' = (Positions \ gone) \cup come
  /\ (Positions \ gone) \cap come = {}
  /\ \A k \in Positions \ gone : utxos'[k] = utxos[k]
  /\ \A k \in come : utxos'[k] = tx.outputs[k]

\* The inputs and the outputs can be counted.
LEMMA TransactionBundles ==
  ASSUME TypeOK, NEW tx, IsTransaction(tx)
  PROVE  Bundle(tx.inputs) /\ Bundle(tx.outputs)
<1>1. \A k \in Unspent : utxos[k] \in Outputs
  BY DEF TypeOK, Unspent
<1>2. \A o \in Outputs : o.nft \in Nat /\ o.stake \in Nat
  BY StakesAssumption DEF Outputs
<1>. QED
  BY <1>1, <1>2 DEF IsTransaction, Bundle

\* The ledger replaces what is spent by what is made.
LEMMA SettledOutputs ==
  ASSUME TypeOK, NEW tx, IsTransaction(tx), Settle(tx)
  PROVE  /\ utxos' \in [Keys -> Outputs \cup {NoOutput}]
         /\ Unspent' = (Unspent \ DOMAIN tx.inputs) \cup DOMAIN tx.outputs
         /\ \A k \in DOMAIN tx.outputs : utxos'[k] = tx.outputs[k]
         /\ \A k \in Unspent \ DOMAIN tx.inputs :
              utxos'[k] = utxos[k] /\ k \notin DOMAIN tx.outputs
<1>1. utxos' = [k \in Keys |-> IF k \in DOMAIN tx.outputs THEN tx.outputs[k]
                               ELSE IF k \in DOMAIN tx.inputs THEN NoOutput
                               ELSE utxos[k]]
  BY DEF Settle
<1>2. utxos \in [Keys -> Outputs \cup {NoOutput}]
  BY DEF TypeOK
<1>. QED
  BY <1>1, <1>2, NoOutputAssumption DEF IsTransaction, Unspent

\* Spent inputs without a token, or with the token of one position.
LEMMA SpentPositions ==
  ASSUME TypeOK, TokensAreGuarded, NEW tx, IsTransaction(tx)
  PROVE  /\ NftOf(tx.inputs) = 0 => Positions \cap DOMAIN tx.inputs = {}
         /\ \A old \in DOMAIN tx.inputs :
              NftOf(tx.inputs) = 1 /\ IsPosition(tx.inputs[old])
                => Positions \cap DOMAIN tx.inputs = {old}
<1>1. Bundle(tx.inputs)
  BY TransactionBundles
<1>2. \A k \in Positions \cap DOMAIN tx.inputs : tx.inputs[k].nft = 1
  BY DEF Positions, IsPosition, IsTransaction
<1>3. NftOf(tx.inputs) = 0 => Positions \cap DOMAIN tx.inputs = {}
  BY <1>1, <1>2, NoToken
<1>4. ASSUME NEW old \in DOMAIN tx.inputs, NftOf(tx.inputs) = 1,
             IsPosition(tx.inputs[old])
      PROVE  Positions \cap DOMAIN tx.inputs = {old}
  <2>1. \A l \in DOMAIN tx.inputs \ {old} : tx.inputs[l].nft = 0
    BY <1>1, <1>4, OneToken
  <2>2. old \in Positions
    BY <1>4 DEF Positions, IsTransaction
  <2>. QED
    BY <1>2, <2>1, <2>2
<1>. QED
  BY <1>3, <1>4

\* Outputs that bring no token, or the token of one position.
LEMMA MadePositions ==
  ASSUME TypeOK, TokensAreGuarded, NEW tx, IsTransaction(tx), Settle(tx)
  PROVE  /\ NftOf(tx.outputs) = 0
              => TokensAreGuarded'
                 /\ PositionsBecome(tx, Positions \cap DOMAIN tx.inputs, {})
         /\ \A new \in DOMAIN tx.outputs :
              NftOf(tx.outputs) = 1 /\ IsPosition(tx.outputs[new])
                => TokensAreGuarded'
                   /\ PositionsBecome(tx, Positions \cap DOMAIN tx.inputs, {new})
<1>. DEFINE made == {k \in DOMAIN tx.outputs : IsPosition(tx.outputs[k])}
            gone == Positions \cap DOMAIN tx.inputs
<1>1. Bundle(tx.outputs)
  BY TransactionBundles
<1>2. Positions' = (Positions \ gone) \cup made
  BY SettledOutputs DEF Positions, IsTransaction
<1>3. PositionsBecome(tx, gone, made)
  BY <1>2, SettledOutputs DEF PositionsBecome, Positions, IsTransaction
<1>4. ASSUME \A k \in DOMAIN tx.outputs \ made : tx.outputs[k].nft = 0
      PROVE  TokensAreGuarded'
  BY <1>2, <1>4, SettledOutputs DEF TokensAreGuarded
<1>5. ASSUME NftOf(tx.outputs) = 0
      PROVE  TokensAreGuarded' /\ PositionsBecome(tx, gone, {})
  <2>1. \A k \in DOMAIN tx.outputs : tx.outputs[k].nft = 0
    BY <1>1, <1>5, NoToken
  <2>2. made = {}
    BY <2>1 DEF IsPosition
  <2>. QED
    BY <1>3, <1>4, <2>1, <2>2
<1>6. ASSUME NEW new \in DOMAIN tx.outputs, NftOf(tx.outputs) = 1,
             IsPosition(tx.outputs[new])
      PROVE  TokensAreGuarded' /\ PositionsBecome(tx, gone, {new})
  <2>1. \A k \in DOMAIN tx.outputs \ {new} : tx.outputs[k].nft = 0
    BY <1>1, <1>6, OneToken
  <2>2. made = {new}
    BY <1>6, <2>1 DEF IsPosition
  <2>. QED
    BY <1>3, <1>4, <2>1, <2>2
<1>. QED
  BY <1>5, <1>6

-----------------------------------------------------------------------------
(* What the scripts that accept a transaction know of it together.         *)

\* Without the chain, no position is touched and no stake moves.
LEMMA PlainEffect ==
  ASSUME TypeOK, TokensAreGuarded, NEW tx, IsTransaction(tx), PlainTransaction(tx)
  PROVE  /\ TokensAreGuarded' /\ PositionsBecome(tx, {}, {})
         /\ state' = state /\ reserve' = reserve /\ wallet' = wallet
<1>1. Bundle(tx.inputs) /\ Bundle(tx.outputs)
  BY TransactionBundles
<1>2. \A k \in DOMAIN tx.inputs : tx.inputs[k].nft = 0
  <2>1. ASSUME NEW k \in DOMAIN tx.inputs PROVE tx.inputs[k].nft = 0
    <3>1. k \in Unspent /\ tx.inputs[k] = utxos[k]
      BY DEF IsTransaction
    <3>2. k \notin Positions
      BY <3>1 DEF PlainTransaction, Positions, IsPosition
    <3>. QED
      BY <3>1, <3>2 DEF TokensAreGuarded
  <2>. QED
    BY <2>1
<1>3. NftOf(tx.inputs) = 0 /\ StakeOf(tx.inputs) = 0
  BY <1>1, <1>2, NoToken
<1>4. Mint(tx) <= 0 /\ Settle(tx) /\ state' = state /\ reserve' = reserve
  BY DEF PlainTransaction
<1>5. NftOf(tx.outputs) = 0
  <2>1. NftOf(tx.outputs) \in Nat
    BY <1>1, NoToken
  <2>. QED
    BY <1>3, <1>4, <2>1 DEF Mint
<1>6. StakeOf(tx.outputs) = 0
  BY <1>1, <1>5, NoToken
<1>7. Positions \cap DOMAIN tx.inputs = {}
  BY <1>3, SpentPositions
<1>8. wallet' = wallet
  BY <1>3, <1>4, <1>6 DEF Settle, TypeOK
<1>. QED
  BY <1>4, <1>5, <1>7, <1>8, MadePositions

\* RegisterStake brings one position and spends none.
LEMMA RegisterEffect ==
  ASSUME TypeOK, TokensAreGuarded, NEW tx, IsTransaction(tx), NEW new,
         RegisterStake(tx, new)
  PROVE  /\ new \in DOMAIN tx.outputs
         /\ TokensAreGuarded' /\ PositionsBecome(tx, {}, {new})
         /\ StakeOf(tx.inputs) = 0 /\ StakeOf(tx.outputs) = tx.outputs[new].stake
<1>1. Bundle(tx.inputs) /\ Bundle(tx.outputs)
  BY TransactionBundles
<1>2. /\ new \in DOMAIN tx.outputs /\ IsPosition(tx.outputs[new])
      /\ NftOf(tx.inputs) = 0 /\ Mint(tx) = 1 /\ Settle(tx)
  BY DEF RegisterStake, RegisterChecks, ValidHolder
<1>3. NftOf(tx.outputs) = 1
  <2>1. NftOf(tx.outputs) \in Nat
    BY <1>1, NoToken
  <2>. QED
    BY <1>2, <2>1 DEF Mint
<1>4. Positions \cap DOMAIN tx.inputs = {}
  BY <1>2, SpentPositions
<1>5. StakeOf(tx.inputs) = 0 /\ StakeOf(tx.outputs) = tx.outputs[new].stake
  BY <1>1, <1>2, <1>3, NoToken, OneToken
<1>. QED
  BY <1>2, <1>3, <1>4, <1>5, MadePositions

\* DeregisterStake spends one position and brings none.
LEMMA DeregisterEffect ==
  ASSUME TypeOK, TokensAreGuarded, NEW tx, IsTransaction(tx), NEW old, NEW index,
         DeregisterStake(tx, old, index)
  PROVE  /\ old \in DOMAIN tx.inputs /\ old \in Positions
         /\ tx.inputs[old] = utxos[old]
         /\ TokensAreGuarded' /\ PositionsBecome(tx, {old}, {})
         /\ StakeOf(tx.inputs) = utxos[old].stake /\ StakeOf(tx.outputs) = 0
<1>1. Bundle(tx.inputs) /\ Bundle(tx.outputs)
  BY TransactionBundles
<1>2. /\ old \in DOMAIN tx.inputs /\ IsPosition(tx.inputs[old])
      /\ NftOf(tx.inputs) = 1 /\ Mint(tx) = -1 /\ Settle(tx)
  BY DEF DeregisterStake, DeregisterChecks, ValidHolder
<1>3. NftOf(tx.outputs) = 0
  <2>1. NftOf(tx.outputs) \in Nat
    BY <1>1, NoToken
  <2>. QED
    BY <1>2, <2>1 DEF Mint
<1>4. Positions \cap DOMAIN tx.inputs = {old}
  BY <1>2, SpentPositions
<1>5. tx.inputs[old] = utxos[old]
  BY <1>2 DEF IsTransaction
<1>6. StakeOf(tx.inputs) = utxos[old].stake /\ StakeOf(tx.outputs) = 0
  BY <1>1, <1>2, <1>3, <1>5, NoToken, OneToken
<1>. QED
  BY <1>2, <1>3, <1>4, <1>5, <1>6, MadePositions

\* UpdateStake, and a block, replace one position by one with the same id.
LEMMA UpdateEffect ==
  ASSUME TypeOK, TokensAreGuarded, NEW tx, IsTransaction(tx), NEW old, NEW new,
         NEW index, UpdateChecks(tx, old, new, index), Settle(tx)
  PROVE  /\ old \in DOMAIN tx.inputs /\ old \in Positions
         /\ tx.inputs[old] = utxos[old]
         /\ new \in DOMAIN tx.outputs
         /\ TokensAreGuarded' /\ PositionsBecome(tx, {old}, {new})
         /\ StakeOf(tx.inputs) = utxos[old].stake
         /\ StakeOf(tx.outputs) = tx.outputs[new].stake
<1>1. Bundle(tx.inputs) /\ Bundle(tx.outputs)
  BY TransactionBundles
<1>2. /\ old \in DOMAIN tx.inputs /\ IsPosition(tx.inputs[old])
      /\ new \in DOMAIN tx.outputs /\ IsPosition(tx.outputs[new])
      /\ NftOf(tx.inputs) = 1 /\ Mint(tx) = 0
  BY DEF UpdateChecks, ValidHolder
<1>3. NftOf(tx.outputs) = 1
  <2>1. NftOf(tx.outputs) \in Nat
    BY <1>1, NoToken
  <2>. QED
    BY <1>2, <2>1 DEF Mint
<1>4. Positions \cap DOMAIN tx.inputs = {old}
  BY <1>2, SpentPositions
<1>5. tx.inputs[old] = utxos[old]
  BY <1>2 DEF IsTransaction
<1>6. /\ StakeOf(tx.inputs) = utxos[old].stake
      /\ StakeOf(tx.outputs) = tx.outputs[new].stake
  BY <1>1, <1>2, <1>3, <1>5, OneToken
<1>. QED
  BY <1>2, <1>3, <1>4, <1>5, <1>6, MadePositions

-----------------------------------------------------------------------------
(* The inductive invariant.                                                *)

\* No id is listed twice; RegisterStake looks for the new one among the others.
IdsAreDistinct ==
  \A i, j \in DOMAIN state.ids : state.ids[i] = state.ids[j] => i = j

\* Each position is listed, with its stake.
PositionsAreListed ==
  \A k \in Positions : \E i \in DOMAIN state.ids :
    state.ids[i] = utxos[k].id /\ state.weights[i] = utxos[k].stake

\* Each listed id belongs to a position.
ListedArePositions ==
  \A i \in DOMAIN state.ids : \E k \in Positions : utxos[k].id = state.ids[i]

\* No two positions have the same id.
PositionsAreDistinct ==
  \A k, l \in Positions : utxos[k].id = utxos[l].id => k = l

\* The registry and the positions agree.
Registry ==
  /\ IdsAreDistinct
  /\ PositionsAreListed
  /\ ListedArePositions
  /\ PositionsAreDistinct

\* What every transaction preserves.  The scripts see one transaction only: that a
\* listed id has one position, and no other output has a token, is what lets them
\* take the position they are shown for the one that is listed.
IInv == TypeOK /\ TokensAreGuarded /\ Registry

\* A position, and the chain's datum, field by field.
LEMMA StateFields ==
  ASSUME TypeOK
  PROVE  /\ state = [ids |-> state.ids, weights |-> state.weights,
                     skip |-> state.skip, slot |-> state.slot,
                     producers |-> state.producers]
         /\ state.ids \in Seq(HolderIds) /\ state.weights \in Seq(Stakes)
         /\ state.skip \in Int /\ state.slot \in 0..MaxTime
         /\ state.producers \in Seq(HolderIds \cup {Nobody})
         /\ Len(state.ids) \in Nat /\ Len(state.weights) = Len(state.ids)
         /\ DOMAIN state.ids = 1..Len(state.ids)
         /\ DOMAIN state.weights = 1..Len(state.ids)
         /\ \A k \in Positions : utxos[k].id \in HolderIds /\ utxos[k].stake \in Stakes
<1>1. \A k \in Positions : utxos[k] \in Outputs
  BY DEF TypeOK, Positions, Unspent
<1>2. /\ state = [ids |-> state.ids, weights |-> state.weights,
                  skip |-> state.skip, slot |-> state.slot,
                  producers |-> state.producers]
      /\ state.ids \in Seq(HolderIds) /\ state.weights \in Seq(Stakes)
      /\ state.skip \in Int /\ state.slot \in 0..MaxTime
      /\ state.producers \in Seq(HolderIds \cup {Nobody})
      /\ Len(state.weights) = Len(state.ids)
  BY DEF TypeOK
<1>3. \A k \in Positions : utxos[k].id \in HolderIds /\ utxos[k].stake \in Stakes
  BY <1>1 DEF Outputs
<1>. QED
  BY <1>2, <1>3, LenProperties

\* A position that comes is listed first.
LEMMA RegisterRegistry ==
  ASSUME IInv, NEW tx, IsTransaction(tx), NEW new, RegisterStake(tx, new)
  PROVE  /\ TypeOK' /\ Registry'
<1>. DEFINE id    == tx.outputs[new].id
            stake == tx.outputs[new].stake
            n     == Len(state.ids)
<1>1. /\ new \in DOMAIN tx.outputs
      /\ PositionsBecome(tx, {}, {new})
      /\ StakeOf(tx.inputs) = 0 /\ StakeOf(tx.outputs) = stake
  BY RegisterEffect DEF IInv
<1>2. tx.outputs[new] \in Outputs
  BY <1>1 DEF IsTransaction
<1>3. id \in HolderIds /\ stake \in Stakes /\ stake \in Nat
  BY <1>2, StakesAssumption DEF Outputs
<1>4. state' = [ids |-> <<id>> \o state.ids, weights |-> <<stake>> \o state.weights,
                skip |-> state.skip + 1, slot |-> state.slot,
                producers |-> state.producers]
  <2>1. state' = [state EXCEPT !.ids = <<id>> \o @, !.weights = <<stake>> \o @,
                               !.skip = @ + 1]
    BY DEF RegisterStake, Registered
  <2>2. state = [ids |-> state.ids, weights |-> state.weights,
                 skip |-> state.skip, slot |-> state.slot,
                 producers |-> state.producers]
    BY StateFields DEF IInv
  <2>. QED
    BY <2>1, <2>2
<1>5. /\ state'.ids \in Seq(HolderIds) /\ Len(state'.ids) = n + 1
      /\ state'.ids[1] = id /\ \A i \in 1..n : state'.ids[i + 1] = state.ids[i]
  <2>1. state'.ids = <<id>> \o state.ids
    BY <1>4
  <2>2. state.ids \in Seq(HolderIds)
    BY StateFields DEF IInv
  <2>. QED
    BY ONLY <1>3, <2>1, <2>2, PrependProperties DEF n
<1>6. /\ state'.weights \in Seq(Stakes) /\ Len(state'.weights) = n + 1
      /\ state'.weights[1] = stake
      /\ \A i \in 1..n : state'.weights[i + 1] = state.weights[i]
  <2>1. state'.weights = <<stake>> \o state.weights
    BY <1>4
  <2>2. state.weights \in Seq(Stakes) /\ Len(state.weights) = n
    BY StateFields DEF IInv
  <2>. QED
    BY ONLY <1>3, <2>1, <2>2, PrependProperties
<1>7. n \in Nat /\ DOMAIN state.ids = 1..n /\ DOMAIN state'.ids = 1..(n + 1)
  BY <1>5, StateFields, LenProperties DEF IInv
<1>8. \A i \in 1..n : state.ids[i] # id
  <2>1. id \notin ToSet(state.ids)
    BY DEF RegisterStake, RegisterChecks
  <2>. QED
    BY <1>7, <2>1 DEF ToSet
<1>9. TypeOK'
  <2>1. state' \in [ids : Seq(HolderIds), weights : Seq(Stakes), skip : Int,
                    slot : 0..MaxTime, producers : Seq(HolderIds \cup {Nobody})]
    BY <1>4, <1>5, <1>6, StateFields DEF IInv
  <2>2. reserve' \in Nat
    BY ParamsAssumption DEF RegisterStake, IInv, TypeOK
  <2>3. wallet' \in Nat
    BY <1>1, <1>3, <2>2 DEF RegisterStake, Settle, IInv, TypeOK
  <2>4. utxos' \in [Keys -> Outputs \cup {NoOutput}]
    BY SettledOutputs DEF RegisterStake, IInv
  <2>5. now' \in 0..MaxTime
    BY DEF RegisterStake, Settle, IInv, TypeOK
  <2>6. Len(state'.weights) = Len(state'.ids)
    BY <1>5, <1>6
  <2>. QED
    BY <2>1, <2>2, <2>3, <2>4, <2>5, <2>6 DEF TypeOK
<1>10. \A i \in 1..(n + 1) : i # 1 => i - 1 \in 1..n /\ state'.ids[i] = state.ids[i - 1]
  <2>1. \A i \in 1..(n + 1) : i # 1 => i - 1 \in 1..n /\ (i - 1) + 1 = i
    BY <1>7
  <2>. QED
    BY <1>5, <2>1
<1>11. /\ \A k \in Positions' : k = new \/ (k \in Positions /\ utxos'[k] = utxos[k])
       /\ \A k \in Positions : k \in Positions' /\ utxos'[k] = utxos[k] /\ k # new
       /\ new \in Positions' /\ utxos'[new].id = id /\ utxos'[new].stake = stake
  BY <1>1 DEF PositionsBecome
<1>. HIDE DEF id, stake, n
<1>12. IdsAreDistinct'
  <2>1. ASSUME NEW i \in 1..(n + 1), NEW j \in 1..(n + 1), state'.ids[i] = state'.ids[j]
        PROVE  i = j
    <3>1. CASE i = 1 \/ j = 1
      BY <2>1, <3>1, <1>5, <1>8, <1>10
    <3>2. CASE i # 1 /\ j # 1
      <4>1. i - 1 = j - 1
        BY <2>1, <3>2, <1>7, <1>10 DEF IInv, Registry, IdsAreDistinct
      <4>. QED
        BY <4>1, <1>7
    <3>. QED
      BY <3>1, <3>2
  <2>. QED
    BY <2>1, <1>7 DEF IdsAreDistinct
<1>13. PositionsAreListed'
  <2>1. ASSUME NEW k \in Positions
        PROVE  \E i \in 1..(n + 1) :
                 state'.ids[i] = utxos'[k].id /\ state'.weights[i] = utxos'[k].stake
    <3>1. PICK i \in 1..n :
            state.ids[i] = utxos[k].id /\ state.weights[i] = utxos[k].stake
      BY <1>7 DEF IInv, Registry, PositionsAreListed
    <3>2. i + 1 \in 1..(n + 1)
      BY <1>7
    <3>. QED
      BY <3>1, <3>2, <1>5, <1>6, <1>11
  <2>2. 1 \in 1..(n + 1)
    BY <1>7
  <2>. QED
    BY <2>1, <2>2, <1>5, <1>6, <1>7, <1>11 DEF PositionsAreListed
<1>14. ListedArePositions'
  <2>1. ASSUME NEW i \in 1..(n + 1)
        PROVE  \E k \in Positions' : utxos'[k].id = state'.ids[i]
    <3>1. CASE i = 1
      BY <3>1, <1>5, <1>11
    <3>2. CASE i # 1
      <4>1. PICK k \in Positions : utxos[k].id = state.ids[i - 1]
        BY <3>2, <1>7, <1>10 DEF IInv, Registry, ListedArePositions
      <4>. QED
        BY <3>2, <4>1, <1>10, <1>11
    <3>. QED
      BY <3>1, <3>2
  <2>. QED
    BY <2>1, <1>7 DEF ListedArePositions
<1>15. PositionsAreDistinct'
  <2>1. \A k \in Positions : utxos[k].id # id
    BY <1>7, <1>8 DEF IInv, Registry, PositionsAreListed
  <2>. QED
    BY <2>1, <1>11 DEF IInv, Registry, PositionsAreDistinct
<1>. QED
  BY <1>9, <1>12, <1>13, <1>14, <1>15 DEF Registry

\* A position that goes is not listed any more.
LEMMA DeregisterRegistry ==
  ASSUME IInv, NEW tx, IsTransaction(tx), NEW old,
         NEW index \in -1..(Len(state.ids) - 1), DeregisterStake(tx, old, index)
  PROVE  /\ TypeOK' /\ Registry'
         /\ index >= 0 /\ state.ids[index + 1] = utxos[old].id
         /\ state' = [ids |-> RemoveAt(state.ids, index + 1),
                      weights |-> RemoveAt(state.weights, index + 1),
                      skip |-> IF index < state.skip THEN state.skip - 1
                               ELSE state.skip,
                      slot |-> state.slot, producers |-> state.producers]
<1>. DEFINE n == Len(state.ids)
            p == index + 1
<1>1. /\ old \in Positions /\ tx.inputs[old] = utxos[old]
      /\ PositionsBecome(tx, {old}, {})
      /\ StakeOf(tx.inputs) = utxos[old].stake /\ StakeOf(tx.outputs) = 0
  BY DeregisterEffect DEF IInv
<1>2. n \in Nat /\ DOMAIN state.ids = 1..n
  BY StateFields DEF IInv
<1>3. index >= 0
  <2>1. PICK i \in DOMAIN state.ids : state.ids[i] = utxos[old].id
    BY <1>1 DEF IInv, Registry, PositionsAreListed
  <2>2. utxos[old].id \in ToSet(state.ids)
    BY <2>1 DEF ToSet
  <2>. QED
    BY <1>1, <2>2 DEF DeregisterStake, DeregisterChecks
<1>4. p \in 1..n /\ state.ids[p] = utxos[old].id
  <2>1. At(state.ids, index) = tx.inputs[old].id
    BY <1>3 DEF DeregisterStake, DeregisterChecks
  <2>2. p \in 1..n
    BY <1>2, <1>3
  <2>. QED
    BY <1>1, <2>1, <2>2 DEF At
<1>5. state' = [ids |-> RemoveAt(state.ids, p), weights |-> RemoveAt(state.weights, p),
                skip |-> IF index < state.skip THEN state.skip - 1 ELSE state.skip,
                slot |-> state.slot, producers |-> state.producers]
  <2>1. state' = [state EXCEPT !.ids = RemoveAt(@, index + 1),
                               !.weights = RemoveAt(@, index + 1),
                               !.skip = IF index < @ THEN @ - 1 ELSE @]
    BY <1>3 DEF DeregisterStake, Deregistered
  <2>2. state = [ids |-> state.ids, weights |-> state.weights,
                 skip |-> state.skip, slot |-> state.slot,
                 producers |-> state.producers]
    BY StateFields DEF IInv
  <2>. QED
    BY <2>1, <2>2
<1>6. /\ state'.ids \in Seq(HolderIds) /\ Len(state'.ids) = n - 1
      /\ \A i \in 1..(n - 1) :
           state'.ids[i] = IF i < p THEN state.ids[i] ELSE state.ids[i + 1]
  BY <1>4, <1>5, RemoveAtProperties, StateFields DEF IInv
<1>7. /\ state'.weights \in Seq(Stakes) /\ Len(state'.weights) = n - 1
      /\ \A i \in 1..(n - 1) :
           state'.weights[i] = IF i < p THEN state.weights[i] ELSE state.weights[i + 1]
  <2>1. state.weights \in Seq(Stakes) /\ p \in 1..Len(state.weights)
        /\ Len(state.weights) = n
    BY <1>4, StateFields DEF IInv
  <2>2. state'.weights = RemoveAt(state.weights, p)
    BY <1>5
  <2>. HIDE DEF n, p
  <2>. QED
    BY <2>1, <2>2, RemoveAtProperties
<1>8. n - 1 \in Nat /\ DOMAIN state'.ids = 1..(n - 1)
  BY <1>2, <1>4, <1>6, LenProperties
<1>9. TypeOK'
  <2>1. state' \in [ids : Seq(HolderIds), weights : Seq(Stakes), skip : Int,
                    slot : 0..MaxTime, producers : Seq(HolderIds \cup {Nobody})]
    BY <1>5, <1>6, <1>7, StateFields DEF IInv
  <2>2. reserve' \in Nat
    BY ParamsAssumption DEF DeregisterStake, IInv, TypeOK
  <2>3. utxos[old].stake \in Nat
    BY <1>1, StateFields, StakesAssumption DEF IInv
  <2>4. wallet' \in Nat
    BY <1>1, <2>2, <2>3 DEF DeregisterStake, Settle, IInv, TypeOK
  <2>5. utxos' \in [Keys -> Outputs \cup {NoOutput}]
    BY SettledOutputs DEF DeregisterStake, IInv
  <2>6. now' \in 0..MaxTime
    BY DEF DeregisterStake, Settle, IInv, TypeOK
  <2>7. Len(state'.weights) = Len(state'.ids)
    BY <1>6, <1>7
  <2>. QED
    BY <2>1, <2>2, <2>4, <2>5, <2>6, <2>7 DEF TypeOK
<1>10. Positions' = Positions \ {old} /\ \A k \in Positions' : utxos'[k] = utxos[k]
  BY <1>1 DEF PositionsBecome
<1>. HIDE DEF n
\* Where a place of the new list was in the old one, and back.
<1>. DEFINE was(i) == IF i < p THEN i ELSE i + 1
            is(i)  == IF i < p THEN i ELSE i - 1
<1>11. \A i \in 1..(n - 1) :
         /\ was(i) \in 1..n /\ was(i) # p
         /\ state'.ids[i] = state.ids[was(i)]
         /\ state'.weights[i] = state.weights[was(i)]
  BY <1>2, <1>4, <1>6, <1>7
<1>12. \A i \in 1..n : i # p => is(i) \in 1..(n - 1) /\ was(is(i)) = i
  BY <1>2, <1>4
<1>13. \A i, j \in 1..(n - 1) : was(i) = was(j) => i = j
  BY <1>2, <1>4
<1>. HIDE DEF was, is
<1>14. IdsAreDistinct'
  <2>1. ASSUME NEW i \in 1..(n - 1), NEW j \in 1..(n - 1), state'.ids[i] = state'.ids[j]
        PROVE  i = j
    <3>1. was(i) = was(j)
      BY <1>2, <1>11, <2>1 DEF IInv, Registry, IdsAreDistinct
    <3>. QED
      BY <1>13, <3>1
  <2>. QED
    BY <1>8, <2>1 DEF IdsAreDistinct
<1>15. PositionsAreListed'
  <2>1. ASSUME NEW k \in Positions'
        PROVE  \E i \in 1..(n - 1) :
                 state'.ids[i] = utxos'[k].id /\ state'.weights[i] = utxos'[k].stake
    <3>1. k \in Positions /\ k # old /\ utxos'[k] = utxos[k]
      BY <1>10
    <3>2. PICK i \in 1..n :
            state.ids[i] = utxos[k].id /\ state.weights[i] = utxos[k].stake
      BY <1>2, <3>1 DEF IInv, Registry, PositionsAreListed
    <3>3. i # p
      BY <1>1, <1>4, <3>1, <3>2 DEF IInv, Registry, PositionsAreDistinct
    <3>. QED
      BY <1>11, <1>12, <3>1, <3>2, <3>3
  <2>. QED
    BY <1>8, <2>1 DEF PositionsAreListed
<1>16. ListedArePositions'
  <2>1. ASSUME NEW i \in 1..(n - 1)
        PROVE  \E k \in Positions' : utxos'[k].id = state'.ids[i]
    <3>1. PICK k \in Positions : utxos[k].id = state.ids[was(i)]
      BY <1>2, <1>11 DEF IInv, Registry, ListedArePositions
    <3>2. k # old
      BY <1>2, <1>4, <1>11, <3>1 DEF IInv, Registry, IdsAreDistinct
    <3>. QED
      BY <1>10, <1>11, <3>1, <3>2
  <2>. QED
    BY <1>8, <2>1 DEF ListedArePositions
<1>17. PositionsAreDistinct'
  BY <1>10 DEF IInv, Registry, PositionsAreDistinct
<1>. QED
  BY <1>3, <1>4, <1>5, <1>9, <1>14, <1>15, <1>16, <1>17 DEF Registry

\* A position that is replaced stays where it is listed, with its new stake.
LEMMA UpdateRegistry ==
  ASSUME IInv, NEW tx, IsTransaction(tx), NEW old, NEW new,
         NEW index \in -1..(Len(state.ids) - 1),
         UpdateChecks(tx, old, new, index), Settle(tx),
         state'.ids = state.ids,
         state'.weights = ReplaceAt(state.weights, index + 1, tx.outputs[new].stake)
  PROVE  /\ Registry'
         /\ index + 1 \in DOMAIN state.ids /\ state.ids[index + 1] = utxos[old].id
         /\ tx.outputs[new].id = utxos[old].id
         /\ tx.outputs[new].stake \in Stakes
         /\ state'.weights \in Seq(Stakes)
         /\ Len(state'.weights) = Len(state'.ids)
<1>. DEFINE n     == Len(state.ids)
            p     == index + 1
            stake == tx.outputs[new].stake
<1>1. /\ old \in Positions /\ tx.inputs[old] = utxos[old]
      /\ new \in DOMAIN tx.outputs
      /\ PositionsBecome(tx, {old}, {new})
  BY UpdateEffect DEF IInv
<1>2. n \in Nat /\ DOMAIN state.ids = 1..n
  BY StateFields DEF IInv
<1>3. p \in 1..n /\ state.ids[p] = utxos[old].id /\ tx.outputs[new].id = utxos[old].id
  <2>1. /\ InBounds(index) /\ At(state.ids, index) = tx.inputs[old].id
        /\ tx.inputs[old].id = tx.outputs[new].id
    BY DEF UpdateChecks
  <2>2. p \in 1..n
    BY <1>2, <2>1 DEF InBounds
  <2>. QED
    BY <1>1, <2>1, <2>2 DEF At
<1>4. tx.outputs[new] \in Outputs
  BY <1>1 DEF IsTransaction
<1>5. stake \in Stakes
  BY <1>4 DEF Outputs
<1>6. /\ state'.weights \in Seq(Stakes) /\ Len(state'.weights) = n
      /\ state'.weights[p] = stake
      /\ \A i \in 1..n : i # p => state'.weights[i] = state.weights[i]
  <2>1. state.weights \in Seq(Stakes) /\ p \in 1..Len(state.weights)
        /\ DOMAIN state.weights = 1..n /\ Len(state.weights) = n
    BY <1>3, StateFields DEF IInv
  <2>2. state'.weights \in Seq(Stakes) /\ Len(state'.weights) = n
    <3>1. ReplaceAt(state.weights, p, stake) \in Seq(Stakes)
      BY <1>5, <2>1, ReplaceAtProperties
    <3>2. Len(ReplaceAt(state.weights, p, stake)) = n
      BY <1>5, <2>1, ReplaceAtProperties
    <3>. QED
      BY <3>1, <3>2
  <2>3. state'.weights = [state.weights EXCEPT ![p] = stake]
    BY DEF ReplaceAt
  <2>. QED
    BY <1>3, <2>1, <2>2, <2>3
<1>7. /\ \A k \in Positions' : k = new \/ (k \in Positions \ {old} /\ utxos'[k] = utxos[k])
      /\ \A k \in Positions \ {old} : k \in Positions' /\ utxos'[k] = utxos[k] /\ k # new
      /\ new \in Positions' /\ utxos'[new].id = utxos[old].id /\ utxos'[new].stake = stake
  BY <1>1, <1>3 DEF PositionsBecome
<1>. HIDE DEF n, p, stake
<1>8. IdsAreDistinct'
  BY DEF IInv, Registry, IdsAreDistinct
<1>9. PositionsAreListed'
  <2>1. ASSUME NEW k \in Positions \ {old}
        PROVE  \E i \in 1..n :
                 state'.ids[i] = utxos'[k].id /\ state'.weights[i] = utxos'[k].stake
    <3>1. PICK i \in 1..n :
            state.ids[i] = utxos[k].id /\ state.weights[i] = utxos[k].stake
      BY <1>2 DEF IInv, Registry, PositionsAreListed
    <3>2. i # p
      BY <1>1, <1>3, <3>1 DEF IInv, Registry, PositionsAreDistinct
    <3>. QED
      BY <1>6, <1>7, <3>1, <3>2
  <2>. QED
    BY <2>1, <1>2, <1>3, <1>6, <1>7 DEF PositionsAreListed
<1>10. ListedArePositions'
  <2>1. ASSUME NEW i \in 1..n
        PROVE  \E k \in Positions' : utxos'[k].id = state'.ids[i]
    <3>1. PICK k \in Positions : utxos[k].id = state.ids[i]
      BY <1>2 DEF IInv, Registry, ListedArePositions
    <3>. QED
      BY <1>7, <3>1
  <2>. QED
    BY <2>1, <1>2 DEF ListedArePositions
<1>11. PositionsAreDistinct'
  <2>1. \A k \in Positions \ {old} : utxos[k].id # utxos[old].id
    BY <1>1 DEF IInv, Registry, PositionsAreDistinct
  <2>. QED
    BY <2>1, <1>7 DEF IInv, Registry, PositionsAreDistinct
<1>. QED
  BY <1>2, <1>3, <1>5, <1>6, <1>8, <1>9, <1>10, <1>11 DEF Registry, n, p, stake

\* The scripts' part of what Transact allows.
ChainTransaction(tx) ==
  \/ \E new : RegisterStake(tx, new)
  \/ \E old : \E index \in -1..(Len(state.ids) - 1) : DeregisterStake(tx, old, index)
  \/ \E old, new : \E index \in -1..(Len(state.ids) - 1) :
       UpdateStake(tx, old, new, index)
  \/ /\ Len(state.producers) - 1 < MaxBlocks
     /\ \E old, new : \E index \in -1..(Len(state.ids) - 1), leader \in Unspent,
           slot \in 0..MaxTime :
          MineBlockUpdateStake(tx, old, new, index, utxos[leader], slot)

\* A step of the ledger is one transaction.
LEMMA OneTransaction ==
  ASSUME TypeOK, Transact
  PROVE  \E tx : IsTransaction(tx) /\ (PlainTransaction(tx) \/ ChainTransaction(tx))
<1>1. PICK spent \in SUBSET Unspent, made \in SUBSET Keys :
        /\ IsFiniteSet(spent) /\ IsFiniteSet(made)
        /\ made \cap Unspent \subseteq spent
        /\ \E outputs \in [made -> Made] :
             LET tx == [inputs |-> [k \in spent |-> utxos[k]], outputs |-> outputs]
                 Indices == -1..(Len(state.ids) - 1)
             IN  \/ PlainTransaction(tx)
                 \/ /\ HolderScripts(tx)
                    /\ MintingPolicy(tx)
                    /\ \/ \E new \in made : RegisterStake(tx, new)
                       \/ \E old \in spent, index \in Indices :
                            DeregisterStake(tx, old, index)
                       \/ \E old \in spent, new \in made, index \in Indices :
                            UpdateStake(tx, old, new, index)
                       \/ /\ Len(state.producers) - 1 < MaxBlocks
                          /\ \E old \in spent, new \in made, index \in Indices,
                                leader \in Unspent, slot \in 0..MaxTime :
                               MineBlockUpdateStake(tx, old, new, index,
                                                    utxos[leader], slot)
  BY Zenon DEF Transact
<1>2. PICK outputs \in [made -> Made] :
        LET tx == [inputs |-> [k \in spent |-> utxos[k]], outputs |-> outputs] IN
        PlainTransaction(tx) \/ ChainTransaction(tx)
  BY <1>1, Zenon DEF ChainTransaction
<1>. DEFINE tx == [inputs |-> [k \in spent |-> utxos[k]], outputs |-> outputs]
<1>3. IsTransaction(tx)
  BY <1>1, MadeAssumption DEF IsTransaction
<1>. QED
  BY <1>2, <1>3

\* An update changes one weight in the chain's datum.
LEMMA UpdatedState ==
  ASSUME TypeOK, NEW index, NEW stake
  PROVE  Updated(index, stake)
           = [ids |-> state.ids,
              weights |-> ReplaceAt(state.weights, index + 1, stake),
              skip |-> state.skip, slot |-> state.slot,
              producers |-> state.producers]
<1>1. state = [ids |-> state.ids, weights |-> state.weights, skip |-> state.skip,
               slot |-> state.slot, producers |-> state.producers]
  BY StateFields
<1>2. Updated(index, stake)
        = [state EXCEPT !.weights = ReplaceAt(@, index + 1, stake)]
  BY DEF Updated
<1>. QED
  BY <1>1, <1>2

\* A block changes one weight as well, and resets the count of skipped holders.
LEMMA MinedState ==
  ASSUME TypeOK, NEW index, NEW stake, NEW slot, NEW producer
  PROVE  Mined(index, stake, slot, producer)
           = [ids |-> state.ids,
              weights |-> ReplaceAt(state.weights, index + 1, stake),
              skip |-> 0, slot |-> slot,
              producers |-> <<producer>> \o state.producers]
<1>. DEFINE updated == [ids |-> state.ids,
                        weights |-> ReplaceAt(state.weights, index + 1, stake),
                        skip |-> state.skip, slot |-> state.slot,
                        producers |-> state.producers]
<1>1. Mined(index, stake, slot, producer)
        = [updated EXCEPT !.slot = slot, !.skip = 0,
                          !.producers = <<producer>> \o @]
  BY UpdatedState DEF Mined
<1>. QED
  BY <1>1

\* UpdateStake keeps the invariant.
LEMMA UpdateKeepsInv ==
  ASSUME IInv, NEW tx, IsTransaction(tx), NEW old, NEW new,
         NEW index \in -1..(Len(state.ids) - 1), UpdateStake(tx, old, new, index)
  PROVE  IInv'
<1>1. UpdateChecks(tx, old, new, index) /\ Settle(tx) /\ reserve' = reserve
  BY DEF UpdateStake
<1>2. state' = [ids |-> state.ids,
                weights |-> ReplaceAt(state.weights, index + 1, tx.outputs[new].stake),
                skip |-> state.skip, slot |-> state.slot,
                producers |-> state.producers]
  BY UpdatedState DEF UpdateStake, IInv
<1>3. /\ state'.ids = state.ids
      /\ state'.weights = ReplaceAt(state.weights, index + 1, tx.outputs[new].stake)
  BY <1>2
<1>4. /\ old \in Positions /\ TokensAreGuarded'
      /\ StakeOf(tx.inputs) = utxos[old].stake
      /\ StakeOf(tx.outputs) = tx.outputs[new].stake
  BY <1>1, UpdateEffect DEF IInv
<1>5. /\ Registry' /\ tx.outputs[new].stake \in Stakes
      /\ state'.weights \in Seq(Stakes) /\ Len(state'.weights) = Len(state'.ids)
  BY <1>1, <1>3, UpdateRegistry
<1>6. TypeOK'
  <2>1. state' \in [ids : Seq(HolderIds), weights : Seq(Stakes), skip : Int,
                    slot : 0..MaxTime, producers : Seq(HolderIds \cup {Nobody})]
    BY <1>2, <1>5, StateFields DEF IInv
  <2>2. reserve' \in Nat
    BY <1>1 DEF IInv, TypeOK
  <2>3. utxos[old].stake \in Nat /\ tx.outputs[new].stake \in Nat
    BY <1>4, <1>5, StateFields, StakesAssumption DEF IInv
  <2>4. wallet' \in Nat
    BY <1>1, <1>4, <2>2, <2>3 DEF Settle, IInv, TypeOK
  <2>5. utxos' \in [Keys -> Outputs \cup {NoOutput}]
    BY <1>1, SettledOutputs DEF IInv
  <2>6. now' \in 0..MaxTime
    BY <1>1 DEF Settle, IInv, TypeOK
  <2>. QED
    BY <1>5, <2>1, <2>2, <2>4, <2>5, <2>6 DEF TypeOK
<1>. QED
  BY <1>4, <1>5, <1>6 DEF IInv

\* The reward of a block is a natural number.
LEMMA RewardIsNat ==
  ASSUME TypeOK
  PROVE  Reward \in Nat
<1>1. reserve \in Nat
  BY DEF TypeOK
<1>2. BlockFraction.numerator \in Nat /\ BlockFraction.denominator \in Nat \ {0}
  BY ParamsAssumption
<1>3. reserve * BlockFraction.numerator \in Nat
  BY <1>1, <1>2
<1>. QED
  BY <1>2, <1>3 DEF Reward

\* So does a block.
LEMMA MineKeepsInv ==
  ASSUME IInv, NEW tx, IsTransaction(tx), NEW old, NEW new,
         NEW index \in -1..(Len(state.ids) - 1), NEW leader \in Unspent,
         NEW slot \in 0..MaxTime,
         MineBlockUpdateStake(tx, old, new, index, utxos[leader], slot)
  PROVE  IInv'
<1>1. /\ UpdateChecks(tx, old, new, index) /\ Settle(tx)
      /\ reserve' = reserve - Reward
  BY DEF MineBlockUpdateStake, MineChecks
<1>2. state' = [ids |-> state.ids,
                weights |-> ReplaceAt(state.weights, index + 1, tx.outputs[new].stake),
                skip |-> 0, slot |-> slot,
                producers |-> <<utxos[leader].id>> \o state.producers]
  BY MinedState DEF MineBlockUpdateStake, IInv
<1>3. /\ state'.ids = state.ids
      /\ state'.weights = ReplaceAt(state.weights, index + 1, tx.outputs[new].stake)
  BY <1>2
<1>4. /\ old \in Positions /\ TokensAreGuarded'
      /\ StakeOf(tx.inputs) = utxos[old].stake
      /\ StakeOf(tx.outputs) = tx.outputs[new].stake
  BY <1>1, UpdateEffect DEF IInv
<1>5. /\ Registry' /\ tx.outputs[new].stake \in Stakes
      /\ state'.weights \in Seq(Stakes) /\ Len(state'.weights) = Len(state'.ids)
  BY <1>1, <1>3, UpdateRegistry
<1>6. TypeOK'
  <2>1. utxos[leader].id \in HolderIds
    BY DEF IInv, TypeOK, Unspent, Outputs
  <2>2. <<utxos[leader].id>> \o state.producers \in Seq(HolderIds \cup {Nobody})
    BY <2>1, PrependProperties, StateFields DEF IInv
  <2>3. state' \in [ids : Seq(HolderIds), weights : Seq(Stakes), skip : Int,
                    slot : 0..MaxTime, producers : Seq(HolderIds \cup {Nobody})]
    BY <1>2, <1>5, <2>2, StateFields DEF IInv
  <2>4. Reward \in Nat
    BY RewardIsNat DEF IInv
  <2>5. reserve' \in Nat
    BY <1>1, <2>4 DEF Settle, IInv, TypeOK
  <2>6. utxos[old].stake \in Nat /\ tx.outputs[new].stake \in Nat
    BY <1>4, <1>5, StateFields, StakesAssumption DEF IInv
  <2>7. wallet' \in Nat
    BY <1>1, <1>4, <2>5, <2>6 DEF Settle, IInv, TypeOK
  <2>8. utxos' \in [Keys -> Outputs \cup {NoOutput}]
    BY <1>1, SettledOutputs DEF IInv
  <2>9. now' \in 0..MaxTime
    BY <1>1 DEF Settle, IInv, TypeOK
  <2>. QED
    BY <1>5, <2>3, <2>5, <2>7, <2>8, <2>9 DEF TypeOK
<1>. QED
  BY <1>4, <1>5, <1>6 DEF IInv

\* Transactions without the chain leave registry and positions alone.
LEMMA PlainKeepsInv ==
  ASSUME IInv, NEW tx, IsTransaction(tx), PlainTransaction(tx)
  PROVE  IInv'
<1>1. /\ TokensAreGuarded' /\ PositionsBecome(tx, {}, {})
      /\ state' = state /\ reserve' = reserve /\ wallet' = wallet
  BY PlainEffect DEF IInv
<1>2. Positions' = Positions /\ \A k \in Positions : utxos'[k] = utxos[k]
  BY <1>1 DEF PositionsBecome
<1>3. Registry'
  BY <1>1, <1>2 DEF IInv, Registry, IdsAreDistinct, PositionsAreListed,
                    ListedArePositions, PositionsAreDistinct
<1>4. utxos' \in [Keys -> Outputs \cup {NoOutput}]
  BY SettledOutputs DEF PlainTransaction, IInv
<1>5. now' = now
  BY DEF PlainTransaction, Settle
<1>6. TypeOK'
  BY <1>1, <1>4, <1>5 DEF IInv, TypeOK
<1>. QED
  BY <1>1, <1>3, <1>6 DEF IInv

\* The invariant holds of a new chain.
LEMMA InitInv == Init => IInv
<1>. SUFFICES ASSUME Init
              PROVE  IInv
  OBVIOUS
<1>1. /\ state = [ids |-> <<>>, weights |-> <<>>, skip |-> -GenesisSkip, slot |-> 0,
                  producers |-> <<Nobody>>]
      /\ reserve = GenesisReserve
      /\ utxos = [k \in Keys |-> NoOutput]
      /\ wallet = GenesisWallet
      /\ now = 0
  BY DEF Init
<1>2. Unspent = {} /\ Positions = {} /\ DOMAIN state.ids = {}
  BY <1>1 DEF Unspent, Positions
<1>3. TypeOK
  <2>1. <<Nobody>> \in Seq(HolderIds \cup {Nobody}) /\ -GenesisSkip \in Int
    BY SkipAssumption
  <2>2. <<>> \in Seq(HolderIds) /\ <<>> \in Seq(Stakes) /\ 0 \in 0..MaxTime
    BY TimeAssumption
  <2>. QED
    BY <1>1, <2>1, <2>2, AmountsAssumption DEF TypeOK
<1>. QED
  BY <1>2, <1>3 DEF IInv, TokensAreGuarded, Registry, IdsAreDistinct,
                    PositionsAreListed, ListedArePositions, PositionsAreDistinct

\* It is inductive.
LEMMA StepInv ==
  ASSUME IInv, [Next]_vars
  PROVE  IInv'
<1>1. ASSUME UNCHANGED <<state, reserve, utxos, wallet>>, now' \in 0..MaxTime
      PROVE  IInv'
  <2>1. Unspent' = Unspent /\ Positions' = Positions
    BY <1>1 DEF Unspent, Positions
  <2>. QED
    BY <1>1, <2>1 DEF IInv, TypeOK, TokensAreGuarded, Registry, IdsAreDistinct,
                      PositionsAreListed, ListedArePositions, PositionsAreDistinct
<1>2. CASE Tick \/ UNCHANGED vars
  <2>1. now' \in 0..MaxTime
    BY <1>2, TimeAssumption DEF Tick, vars, IInv, TypeOK
  <2>. QED
    BY <1>1, <1>2, <2>1 DEF Tick, vars
<1>3. CASE Transact
  <2>1. PICK tx : /\ IsTransaction(tx)
                  /\ PlainTransaction(tx) \/ ChainTransaction(tx)
    BY <1>3, OneTransaction DEF IInv
  <2>2. CASE PlainTransaction(tx)
    BY <2>1, <2>2, PlainKeepsInv
  <2>3. ASSUME NEW new, RegisterStake(tx, new)
        PROVE  IInv'
    BY <2>1, <2>3, RegisterRegistry, RegisterEffect DEF IInv
  <2>4. ASSUME NEW old, NEW index \in -1..(Len(state.ids) - 1),
               DeregisterStake(tx, old, index)
        PROVE  IInv'
    BY <2>1, <2>4, DeregisterRegistry, DeregisterEffect DEF IInv
  <2>5. ASSUME NEW old, NEW new, NEW index \in -1..(Len(state.ids) - 1),
               UpdateStake(tx, old, new, index)
        PROVE  IInv'
    BY <2>1, <2>5, UpdateKeepsInv
  <2>6. ASSUME NEW old, NEW new, NEW index \in -1..(Len(state.ids) - 1),
               NEW leader \in Unspent, NEW slot \in 0..MaxTime,
               MineBlockUpdateStake(tx, old, new, index, utxos[leader], slot)
        PROVE  IInv'
    BY <2>1, <2>6, MineKeepsInv
  <2>. QED
    BY <2>1, <2>2, <2>3, <2>4, <2>5, <2>6 DEF ChainTransaction
<1>. QED
  BY <1>2, <1>3 DEF Next

\* Every transaction leaves a chain that is well formed, and amounts that are not
\* negative.
THEOREM LedgerTypeCorrectness == Spec => []TypeOK
<1>1. Init => IInv
  BY InitInv
<1>2. IInv /\ [Next]_vars => IInv'
  BY StepInv
<1>3. IInv => TypeOK
  BY DEF IInv
<1>. QED
  BY <1>1, <1>2, <1>3, PTL DEF Spec

\* What the scripts check of single transactions adds up: an auth NFT is in an
\* output at the address of the positions, alone, and there is exactly one such
\* output for a listed id, none for any other.
THEOREM TokensStayPositions == Spec => []TokensArePositions
<1>1. Init => IInv
  BY InitInv
<1>2. IInv /\ [Next]_vars => IInv'
  BY StepInv
<1>3. ASSUME IInv
      PROVE  TokensArePositions
  <2>1. ASSUME NEW id \in HolderIds
        PROVE  Cardinality({k \in Positions : utxos[k].id = id})
                 = Cardinality({i \in DOMAIN state.ids : state.ids[i] = id})
    <3>1. CASE \E i \in DOMAIN state.ids : state.ids[i] = id
      <4>1. PICK i \in DOMAIN state.ids : state.ids[i] = id
        BY <3>1
      <4>2. PICK k \in Positions : utxos[k].id = id
        BY <1>3, <4>1 DEF IInv, Registry, ListedArePositions
      <4>3. {j \in DOMAIN state.ids : state.ids[j] = id} = {i}
        BY <1>3, <4>1 DEF IInv, Registry, IdsAreDistinct
      <4>4. {l \in Positions : utxos[l].id = id} = {k}
        BY <1>3, <4>2 DEF IInv, Registry, PositionsAreDistinct
      <4>. QED
        BY <4>3, <4>4, FS_Singleton
    <3>2. CASE ~ \E i \in DOMAIN state.ids : state.ids[i] = id
      <4>1. {i \in DOMAIN state.ids : state.ids[i] = id} = {}
        BY <3>2
      <4>2. {k \in Positions : utxos[k].id = id} = {}
        BY <1>3, <3>2 DEF IInv, Registry, PositionsAreListed
      <4>. QED
        BY <4>1, <4>2
    <3>. QED
      BY <3>1, <3>2
  <2>. QED
    BY <1>3, <2>1 DEF TokensArePositions, IInv, TokensAreGuarded
<1>. QED
  BY <1>1, <1>2, <1>3, PTL DEF Spec

-----------------------------------------------------------------------------
(* The tools.                                                              *)

\* A transaction of one position.
LEMMA OnePosition ==
  ASSUME NEW position, IsPosition(position), position.stake \in Nat
  PROVE  /\ DOMAIN <<position>> = {1} /\ <<position>>[1] = position
         /\ NftOf(<<position>>) = 1
<1>1. DOMAIN <<position>> = {1} /\ <<position>>[1] = position
  OBVIOUS
<1>2. Bundle(<<position>>)
  <2>1. IsFiniteSet({1})
    BY FS_Singleton
  <2>2. position.nft = 1
    BY DEF IsPosition
  <2>. QED
    BY <1>1, <2>1, <2>2 DEF Bundle
<1>. QED
  BY <1>1, <1>2, OneToken

\* A side of a transaction without outputs of interest.
LEMMA NoOutputs == DOMAIN <<>> = {} /\ NftOf(<<>>) = 0
<1>1. DOMAIN <<>> = {}
  OBVIOUS
<1>2. Bundle(<<>>)
  BY <1>1, FS_EmptySet DEF Bundle
<1>. QED
  BY <1>1, <1>2, NoToken

\* The registry says where the id of a position is listed.
LEMMA PositionIndex ==
  ASSUME IInv, NEW k \in Positions
  PROVE  /\ utxos[k] \in Outputs
         /\ Index(utxos[k].id) + 1 \in DOMAIN state.ids
         /\ Index(utxos[k].id) \in 0..(Len(state.ids) - 1)
         /\ state.ids[Index(utxos[k].id) + 1] = utxos[k].id
         /\ state.weights[Index(utxos[k].id) + 1] = utxos[k].stake
<1>. DEFINE places == {i \in DOMAIN state.ids : state.ids[i] = utxos[k].id}
<1>1. PICK i \in DOMAIN state.ids :
        state.ids[i] = utxos[k].id /\ state.weights[i] = utxos[k].stake
  BY DEF IInv, Registry, PositionsAreListed
<1>2. places = {i}
  BY <1>1 DEF IInv, Registry, IdsAreDistinct
<1>3. i \in 1..Len(state.ids) /\ Len(state.ids) \in Nat
  BY StateFields DEF IInv
<1>4. Min(places) = i
  BY <1>2, <1>3 DEF Min
<1>5. Index(utxos[k].id) = i - 1 /\ (i - 1) + 1 = i
  BY <1>3, <1>4 DEF Index
<1>6. utxos[k] \in Outputs
  BY DEF IInv, TypeOK, Positions, Unspent
<1>. QED
  BY <1>1, <1>3, <1>5, <1>6

\* stakeholder/init.py
LEMMA RegistrationsAreAccepted ==
  ASSUME IInv, NEW id \in HolderIds \ ToSet(state.ids), NEW stake \in Stakes,
         Len(state.ids) < MaxHolders
  PROVE  RegistrationIsAccepted(id, stake)
<1>. DEFINE position == [nft |-> 1, id |-> id, stake |-> stake, guarded |-> TRUE]
            tx       == BuiltRegistration(id, stake)
<1>1. IsPosition(position) /\ position.stake \in Nat /\ position.nft = 1
  BY StakesAssumption DEF IsPosition
<1>2. tx.inputs = <<>> /\ tx.outputs = <<position>>
  BY DEF BuiltRegistration
<1>3. /\ tx.state = Registered(id, stake) /\ tx.reserve = reserve + RegisterFee
      /\ position.id = id
  BY DEF BuiltRegistration, Registered
<1>. HIDE DEF position, tx
<1>4. /\ DOMAIN tx.inputs = {} /\ NftOf(tx.inputs) = 0
      /\ DOMAIN tx.outputs = {1} /\ NftOf(tx.outputs) = 1
      /\ tx.outputs[1] = position
  BY <1>1, <1>2, NoOutputs, OnePosition
<1>5. Mint(tx) = 1
  BY <1>4 DEF Mint
<1>6. HolderScripts(tx)
  BY <1>4 DEF HolderScripts
<1>7. MintingPolicy(tx)
  <2>1. {o \in DOMAIN tx.outputs : tx.outputs[o].nft = 1} = {1}
    BY <1>1, <1>4
  <2>. QED
    BY <1>5, <2>1, FS_Singleton DEF MintingPolicy
<1>8. RegisterChecks(tx, 1)
  <2>1. Len(state.ids) + 1 <= MaxHolders
    BY ParamsAssumption, StateFields DEF IInv
  <2>. QED
    BY <1>1, <1>3, <1>4, <1>5, <2>1 DEF RegisterChecks, ValidHolder
<1>. QED
  BY <1>3, <1>6, <1>7, <1>8 DEF RegistrationIsAccepted, tx

\* stakeholder/deregister.py
LEMMA DeregistrationsAreAccepted ==
  ASSUME IInv, NEW k \in Positions
  PROVE  DeregistrationIsAccepted(utxos[k])
<1>. DEFINE position == utxos[k]
            index    == Index(position.id)
            tx       == BuiltDeregistration(position)
<1>1. IsPosition(position) /\ position \in Outputs
  BY PositionIndex DEF Positions
<1>2. position.stake \in Nat /\ position.nft = 1
  BY <1>1, StakesAssumption DEF Outputs, IsPosition
<1>3. /\ index \in 0..(Len(state.ids) - 1) /\ state.ids[index + 1] = position.id
      /\ Len(state.ids) \in Nat
  BY PositionIndex, StateFields DEF IInv
<1>4. /\ tx.inputs = <<position>> /\ tx.outputs = <<>> /\ tx.index = index
      /\ tx.reserve = reserve + RegisterFee
      /\ tx.state = [state EXCEPT !.ids = RemoveAt(@, index + 1),
                                  !.weights = RemoveAt(@, index + 1),
                                  !.skip = IF index < @ THEN @ - 1 ELSE @]
  BY DEF BuiltDeregistration
<1>. HIDE DEF position, index, tx
<1>5. tx.state = Deregistered(index)
  BY <1>3, <1>4 DEF Deregistered
<1>6. /\ DOMAIN tx.inputs = {1} /\ NftOf(tx.inputs) = 1 /\ tx.inputs[1] = position
      /\ DOMAIN tx.outputs = {} /\ NftOf(tx.outputs) = 0
  BY <1>1, <1>2, <1>4, NoOutputs, OnePosition
<1>7. Mint(tx) = -1
  BY <1>6 DEF Mint
<1>8. HolderScripts(tx)
  BY <1>6, <1>7 DEF HolderScripts
<1>9. MintingPolicy(tx)
  BY <1>7 DEF MintingPolicy
<1>10. DeregisterChecks(tx, 1, index)
  BY <1>1, <1>3, <1>6, <1>7 DEF DeregisterChecks, InBounds, At, ValidHolder
<1>. QED
  BY <1>4, <1>5, <1>8, <1>9, <1>10 DEF DeregistrationIsAccepted, tx, position

\* stakechain/mine.py
LEMMA BlocksAreAccepted ==
  ASSUME IInv, NEW k \in Positions, NEW slot \in (state.slot + 1)..MaxTime,
         InSlot(slot), IsSlotLeader(utxos[k].id)
  PROVE  BlockIsAccepted(utxos[k], slot)
<1>. DEFINE position == utxos[k]
            index    == Index(position.id)
            tx       == BuiltBlock(position, slot)
            after    == [position EXCEPT !.stake = @ + Reward]
<1>1. IsPosition(position) /\ position \in Outputs
  BY PositionIndex DEF Positions
<1>2. position.stake \in Nat /\ Reward \in Nat /\ position.nft = 1
  BY <1>1, StakesAssumption, RewardIsNat DEF Outputs, IsPosition, IInv
<1>3. /\ index \in 0..(Len(state.ids) - 1) /\ state.ids[index + 1] = position.id
      /\ state.weights[index + 1] = position.stake
      /\ Len(state.ids) \in Nat
  BY PositionIndex, StateFields DEF IInv
<1>4. /\ after.nft = 1 /\ after.guarded /\ after.id = position.id
      /\ after.stake = position.stake + Reward
  BY <1>1 DEF Outputs, IsPosition
<1>5. /\ tx.inputs = <<position>> /\ tx.outputs = <<after>> /\ tx.index = index
      /\ tx.reserve = reserve - Reward
      /\ tx.state = [state EXCEPT !.weights[index + 1] = @ + Reward, !.skip = 0,
                                  !.slot = slot,
                                  !.producers = <<position.id>> \o @]
  BY DEF BuiltBlock
<1>6. InSlot(slot) /\ IsSlotLeader(position.id)
  OBVIOUS
<1>. HIDE DEF position, index, tx, after
<1>7. tx.state = Mined(index, after.stake, slot, position.id)
  <2>1. state = [ids |-> state.ids, weights |-> state.weights,
                 skip |-> state.skip, slot |-> state.slot,
                 producers |-> state.producers]
    BY StateFields DEF IInv
  <2>2. tx.state = [ids |-> state.ids,
                    weights |-> [state.weights EXCEPT
                                   ![index + 1] = state.weights[index + 1] + Reward],
                    skip |-> 0, slot |-> slot,
                    producers |-> <<position.id>> \o state.producers]
    BY <1>5, <2>1
  <2>3. ReplaceAt(state.weights, index + 1, after.stake)
          = [state.weights EXCEPT
               ![index + 1] = state.weights[index + 1] + Reward]
    BY <1>3, <1>4 DEF ReplaceAt
  <2>4. Mined(index, after.stake, slot, position.id)
          = [ids |-> state.ids,
             weights |-> ReplaceAt(state.weights, index + 1, after.stake),
             skip |-> 0, slot |-> slot,
             producers |-> <<position.id>> \o state.producers]
    <3>1. TypeOK
      BY DEF IInv
    <3>. QED
      BY <3>1, MinedState
  <2>. QED
    BY <2>2, <2>3, <2>4
<1>8. IsPosition(after) /\ after.stake \in Nat
  BY <1>2, <1>4 DEF IsPosition
<1>9. /\ DOMAIN tx.inputs = {1} /\ NftOf(tx.inputs) = 1 /\ tx.inputs[1] = position
      /\ DOMAIN tx.outputs = {1} /\ NftOf(tx.outputs) = 1 /\ tx.outputs[1] = after
  BY <1>1, <1>2, <1>5, <1>8, OnePosition
<1>10. Mint(tx) = 0
  BY <1>9 DEF Mint
<1>11. HolderScripts(tx)
  BY <1>4, <1>9, <1>10 DEF HolderScripts
<1>12. MintingPolicy(tx)
  BY <1>10 DEF MintingPolicy
<1>13. UpdateChecks(tx, 1, 1, index)
  BY <1>1, <1>3, <1>4, <1>8, <1>9, <1>10 DEF UpdateChecks, InBounds, At, ValidHolder
<1>14. slot > state.slot
  BY StateFields DEF IInv
<1>15. MineChecks(tx, 1, 1, index, position, slot)
  BY <1>1, <1>6, <1>13, <1>14 DEF MineChecks, ValidHolder
<1>16. tx.outputs[1].stake = after.stake
  BY <1>9
<1>. QED
  BY <1>5, <1>7, <1>11, <1>12, <1>15, <1>16 DEF BlockIsAccepted, tx, position

\* Whatever was done before, the transactions that the tools compute on the
\* current state are accepted: a registration while there is room, the end of any
\* position, the block of whoever is elected.
THEOREM ToolsStayAccepted == Spec => []ToolsAreAccepted
<1>1. Init => IInv
  BY InitInv
<1>2. IInv /\ [Next]_vars => IInv'
  BY StepInv
<1>3. IInv => ToolsAreAccepted
  BY RegistrationsAreAccepted, DeregistrationsAreAccepted, BlocksAreAccepted
     DEF ToolsAreAccepted
<1>. QED
  BY <1>1, <1>2, <1>3, PTL DEF Spec

-----------------------------------------------------------------------------
(***************************************************************************)
(* The scripts implement StakeChain.  What a step does to the outputs is   *)
(* translated, by PositionsBecome, to what it does to the holders; the     *)
(* rest of StakeChain's actions is in the chain script.                    *)
(***************************************************************************)

\* The holder that StakeChain sees for an id is the position with it, or none.
HoldersArePositions ==
  /\ \A k \in Positions :
       /\ utxos[k].id \in HolderIds /\ utxos[k].stake \in Stakes
       /\ HolderById[utxos[k].id] = [id |-> utxos[k].id, stake |-> utxos[k].stake]
  /\ \A id \in HolderIds :
       (\A k \in Positions : utxos[k].id # id) => HolderById[id] = NoHolder

\* The mapping finds the position of an id: there is only one.
LEMMA HolderOfId == IInv => HoldersArePositions
<1>. SUFFICES ASSUME IInv
              PROVE  HoldersArePositions
  OBVIOUS
<1>1. \A k \in Positions : utxos[k].id \in HolderIds /\ utxos[k].stake \in Stakes
  BY StateFields DEF IInv
<1>2. ASSUME NEW k \in Positions
      PROVE  HolderById[utxos[k].id] = [id |-> utxos[k].id, stake |-> utxos[k].stake]
  <2>1. {l \in Positions : utxos[l].id = utxos[k].id} = {k}
    BY DEF IInv, Registry, PositionsAreDistinct
  <2>2. (CHOOSE l \in {k} : TRUE) = k
    OBVIOUS
  <2>3. HolderOf(utxos[k].id) = [id |-> utxos[k].id, stake |-> utxos[k].stake]
    BY <2>1, <2>2 DEF HolderOf
  <2>. QED
    BY <1>1, <2>3 DEF HolderById
<1>3. ASSUME NEW id \in HolderIds, \A k \in Positions : utxos[k].id # id
      PROVE  HolderById[id] = NoHolder
  <2>1. {l \in Positions : utxos[l].id = id} = {}
    BY <1>3
  <2>2. HolderOf(id) = NoHolder
    BY <2>1 DEF HolderOf
  <2>. QED
    BY <2>2 DEF HolderById
<1>. QED
  BY <1>1, <1>2, <1>3 DEF HoldersArePositions

\* It is so after a step, too.
LEMMA HolderOfIdNext == IInv' => HoldersArePositions'
BY HolderOfId, PTL

\* What becomes of the other holders.
LEMMA OthersStay ==
  ASSUME IInv, IInv', NEW tx, NEW gone, NEW come, PositionsBecome(tx, gone, come),
         NEW other \in HolderIds,
         \A k \in gone : utxos[k].id # other,
         \A k \in come : tx.outputs[k].id # other
  PROVE  HolderById'[other] = HolderById[other]
<1>1. /\ Positions' = (Positions \ gone) \cup come
      /\ \A k \in Positions \ gone : utxos'[k] = utxos[k]
      /\ \A k \in come : utxos'[k] = tx.outputs[k]
  BY DEF PositionsBecome
<1>2. HoldersArePositions /\ HoldersArePositions'
  BY HolderOfId, HolderOfIdNext
<1>3. CASE \E k \in Positions : utxos[k].id = other
  <2>1. PICK k \in Positions : utxos[k].id = other
    BY <1>3
  <2>2. k \in Positions' /\ utxos'[k] = utxos[k]
    BY <1>1, <2>1
  <2>3. HolderById[other] = [id |-> other, stake |-> utxos[k].stake]
    BY <1>2, <2>1 DEF HoldersArePositions
  <2>4. HolderById'[other] = [id |-> other, stake |-> utxos[k].stake]
    BY <1>2, <2>1, <2>2 DEF HoldersArePositions
  <2>. QED
    BY <2>3, <2>4
<1>4. CASE \A k \in Positions : utxos[k].id # other
  <2>1. \A k \in Positions' : utxos'[k].id # other
    BY <1>1, <1>4
  <2>2. HolderById[other] = NoHolder
    BY <1>2, <1>4 DEF HoldersArePositions
  <2>3. HolderById'[other] = NoHolder
    BY <1>2, <2>1 DEF HoldersArePositions
  <2>. QED
    BY <2>2, <2>3
<1>. QED
  BY <1>3, <1>4

\* The live holders of StakeChain are the ids of positions.
LEMMA LiveIds ==
  ASSUME IInv
  PROVE  Chain!Live = {utxos[k].id : k \in Positions}
<1>1. HoldersArePositions
  BY HolderOfId
<1>2. ASSUME NEW k \in Positions
      PROVE  utxos[k].id \in HolderIds /\ HolderById[utxos[k].id] # NoHolder
  <2>1. [id |-> utxos[k].id, stake |-> utxos[k].stake]
          \in [id : HolderIds, stake : Stakes]
    BY <1>1 DEF HoldersArePositions
  <2>. QED
    BY <1>1, <2>1, NoHolderAssumption DEF HoldersArePositions
<1>3. \A id \in HolderIds : HolderById[id] # NoHolder
                              => \E k \in Positions : utxos[k].id = id
  BY <1>1 DEF HoldersArePositions
<1>. QED
  BY <1>2, <1>3 DEF Chain!Live

\* Functions on HolderIds that agree are the same.
LEMMA HoldersEqual ==
  ASSUME NEW after, after = [id \in HolderIds |-> after[id]],
         \A id \in HolderIds : HolderById'[id] = after[id]
  PROVE  HolderById' = after
<1>1. HolderById' = [id \in HolderIds |-> HolderById'[id]]
  BY DEF HolderById
<1>. QED
  BY <1>1

\* A position that comes, with an id that no other has.
LEMMA HolderComes ==
  ASSUME IInv, IInv', NEW tx, NEW new, PositionsBecome(tx, {}, {new})
  PROVE  HolderById' = [HolderById EXCEPT ![tx.outputs[new].id] =
           [id |-> tx.outputs[new].id, stake |-> tx.outputs[new].stake]]
<1>. DEFINE id    == tx.outputs[new].id
            stake == tx.outputs[new].stake
            after == [HolderById EXCEPT ![id] = [id |-> id, stake |-> stake]]
<1>1. /\ new \in Positions' /\ utxos'[new].id = id /\ utxos'[new].stake = stake
  BY DEF PositionsBecome
<1>2. HolderById'[id] = [id |-> id, stake |-> stake]
  BY <1>1, HolderOfIdNext DEF HoldersArePositions
<1>3. after = [x \in HolderIds |-> after[x]]
  BY DEF HolderById
<1>4. \A x \in HolderIds : after[x] = IF x = id THEN [id |-> id, stake |-> stake]
                                      ELSE HolderById[x]
  BY DEF HolderById
<1>5. \A x \in HolderIds : x # id => HolderById'[x] = HolderById[x]
  BY OthersStay
<1>. HIDE DEF id, stake, after
<1>6. HolderById' = after
  BY <1>2, <1>3, <1>4, <1>5, HoldersEqual
<1>. QED
  BY <1>6 DEF after, id, stake

\* A position that goes.
LEMMA HolderGoes ==
  ASSUME IInv, IInv', NEW tx, NEW old \in Positions, PositionsBecome(tx, {old}, {})
  PROVE  HolderById' = [HolderById EXCEPT ![utxos[old].id] = NoHolder]
<1>. DEFINE id    == utxos[old].id
            after == [HolderById EXCEPT ![id] = NoHolder]
<1>1. \A k \in Positions' : utxos'[k].id # id
  BY DEF PositionsBecome, IInv, Registry, PositionsAreDistinct
<1>2. id \in HolderIds
  BY HolderOfId DEF HoldersArePositions
<1>3. HolderById'[id] = NoHolder
  BY <1>1, <1>2, HolderOfIdNext DEF HoldersArePositions
<1>4. after = [x \in HolderIds |-> after[x]]
  BY DEF HolderById
<1>5. \A x \in HolderIds : after[x] = IF x = id THEN NoHolder ELSE HolderById[x]
  BY DEF HolderById
<1>6. \A x \in HolderIds : x # id => HolderById'[x] = HolderById[x]
  BY OthersStay
<1>. HIDE DEF id, after
<1>7. HolderById' = after
  BY <1>3, <1>4, <1>5, <1>6, HoldersEqual
<1>. QED
  BY <1>7 DEF after, id

\* The holders, one of them with another stake.
Restaked(id, stake) == [HolderById EXCEPT ![id].stake = stake]

\* A position that is replaced by one with its id.
LEMMA HolderRestakes ==
  ASSUME IInv, IInv', NEW tx, NEW old \in Positions, NEW new,
         PositionsBecome(tx, {old}, {new}), tx.outputs[new].id = utxos[old].id
  PROVE  HolderById' = Restaked(utxos[old].id, tx.outputs[new].stake)
<1>. DEFINE id    == utxos[old].id
            stake == tx.outputs[new].stake
            after == Restaked(id, stake)
<1>1. new \in Positions' /\ utxos'[new].id = id /\ utxos'[new].stake = stake
  BY DEF PositionsBecome
<1>2. HolderById'[id] = [id |-> id, stake |-> stake]
  BY <1>1, HolderOfIdNext DEF HoldersArePositions
<1>3. id \in HolderIds /\ HolderById[id] = [id |-> id, stake |-> utxos[old].stake]
  BY HolderOfId DEF HoldersArePositions
<1>4. after = [x \in HolderIds |-> after[x]]
  BY DEF Restaked, HolderById
<1>5. \A x \in HolderIds :
        after[x] = IF x = id THEN [HolderById[id] EXCEPT !.stake = stake]
                   ELSE HolderById[x]
  BY DEF Restaked, HolderById
<1>6. \A x \in HolderIds : x # id => HolderById'[x] = HolderById[x]
  BY OthersStay
<1>. HIDE DEF id, stake, after
<1>7. [HolderById[id] EXCEPT !.stake = stake] = [id |-> id, stake |-> stake]
  BY <1>3
<1>8. HolderById' = after
  BY <1>2, <1>4, <1>5, <1>6, <1>7, HoldersEqual
<1>. QED
  BY <1>8 DEF after, id, stake

\* No position changes.
LEMMA HoldersStay ==
  ASSUME IInv, IInv', NEW tx, PositionsBecome(tx, {}, {})
  PROVE  HolderById' = HolderById
<1>1. \A x \in HolderIds : HolderById'[x] = HolderById[x]
  BY OthersStay
<1>2. HolderById = [x \in HolderIds |-> HolderById[x]]
  BY DEF HolderById
<1>. QED
  BY <1>1, <1>2, HoldersEqual

\* The blocks that StakeChain sees: their producers, without votes.
LEMMA ProducersGrow ==
  ASSUME TypeOK, NEW producer \in HolderIds,
         state'.producers = <<producer>> \o state.producers
  PROVE  /\ ProducerStates' = <<[producer |-> producer, auxiliary |-> Voteless]>>
                                \o ProducerStates
         /\ Len(ProducerStates) = Len(state.producers)
<1>. DEFINE S     == HolderIds \cup {Nobody}
            R     == [producer : S, auxiliary : {Voteless}]
            n     == Len(state.producers)
            block == [producer |-> producer, auxiliary |-> Voteless]
            after == <<block>> \o ProducerStates
<1>1. state.producers \in Seq(S) /\ n \in Nat /\ DOMAIN state.producers = 1..n
  BY StateFields, LenProperties
<1>2. \A i \in 1..n : state.producers[i] \in S
  BY <1>1, ElementOfSeq
<1>3. ProducerStates \in Seq(R) /\ Len(ProducerStates) = n
  BY <1>1, <1>2 DEF ProducerStates
<1>4. \A i \in 1..n :
        ProducerStates[i] = [producer |-> state.producers[i], auxiliary |-> Voteless]
  BY <1>1 DEF ProducerStates
<1>5. block \in R /\ producer \in S
  OBVIOUS
<1>6. /\ state'.producers \in Seq(S) /\ Len(state'.producers) = n + 1
      /\ state'.producers[1] = producer
      /\ \A i \in 1..n : state'.producers[i + 1] = state.producers[i]
  <2>. HIDE DEF S
  <2>. QED
    BY <1>1, <1>5, PrependProperties
<1>7. /\ after \in Seq(R) /\ Len(after) = n + 1 /\ after[1] = block
      /\ \A i \in 1..n : after[i + 1] = ProducerStates[i]
  <2>. HIDE DEF R, block
  <2>. QED
    BY <1>3, <1>5, PrependProperties
<1>8. DOMAIN state'.producers = 1..(n + 1)
  BY <1>6, LenProperties
<1>9. \A i \in 1..(n + 1) : state'.producers[i] \in S
  BY <1>6, ElementOfSeq
<1>10. ProducerStates' \in Seq(R) /\ Len(ProducerStates') = n + 1
  <2>1. n + 1 \in Nat
    BY <1>1
  <2>. HIDE DEF n
  <2>. QED
    BY <1>8, <1>9, <2>1 DEF ProducerStates
<1>11. \A i \in 1..(n + 1) : ProducerStates'[i]
         = [producer |-> state'.producers[i], auxiliary |-> Voteless]
  BY <1>8 DEF ProducerStates
<1>12. ASSUME NEW i \in 1..(n + 1)
       PROVE  ProducerStates'[i] = after[i]
  <2>1. CASE i = 1
    BY <2>1, <1>6, <1>7, <1>11
  <2>2. CASE i # 1
    <3>1. i - 1 \in 1..n /\ (i - 1) + 1 = i
      BY <2>2, <1>1
    <3>2. state'.producers[i] = state.producers[i - 1] /\ after[i] = ProducerStates[i - 1]
      BY <3>1, <1>6, <1>7
    <3>. HIDE DEF after, n
    <3>. QED
      BY <3>1, <3>2, <1>4, <1>11
  <2>. QED
    BY <2>1, <2>2
<1>. HIDE DEF after, R, n
<1>13. ProducerStates' = after
  BY <1>7, <1>10, <1>12, SeqEqual
<1>. QED
  BY <1>3, <1>13 DEF after, n

\* Nothing else changes them.
LEMMA ProducersStay ==
  ASSUME state'.producers = state.producers
  PROVE  ProducerStates' = ProducerStates
BY DEF ProducerStates

\* Both specifications elect and check slots alike.
LEMMA SameElection ==
  ASSUME NEW id
  PROVE  Chain!IsSlotLeader(id) <=> IsSlotLeader(id)
BY DEF Chain!IsSlotLeader, IsSlotLeader, Chain!SlotLeader, SlotLeader,
       Chain!LeaderIndex, LeaderIndex, Chain!WeightedSample, WeightedSample,
       Chain!Candidates, Candidates, Chain!Total, Total, Chain!Upto, Upto,
       Chain!Reaches, Reaches, Chain!Max, Max

\* A validity interval within a slot is one within a slot of StakeChain, where each
\* slot is an interval of its own.
LEMMA SameSlots ==
  ASSUME TypeOK, NEW slot \in 0..MaxTime, InSlot(slot)
  PROVE  Chain!InSlot(slot) /\ Chain!IsIntervalStart(slot)
<1>1. PICK lower \in 0..now, upper \in (now + 1)..(MaxTime + 1) :
        slot * SlotLength <= lower /\ upper <= (slot + 1) * SlotLength
  BY DEF InSlot
<1>2. V0Params.version = "v0" /\ V0Params.version # "v1"
  BY DEF V0Params
<1>3. (slot + 1) * SlotLength = slot * SlotLength + SlotLength
  BY TimeAssumption
<1>4. upper <= slot * SlotLength + SlotLength
  BY <1>1, <1>3
<1>. QED
  BY <1>1, <1>2, <1>4 DEF Chain!InSlot, Chain!IsIntervalStart

\* RegisterStake implements the abstract RegisterStake.
LEMMA RegisterImplements ==
  ASSUME IInv, IInv', NEW tx, IsTransaction(tx), NEW new, RegisterStake(tx, new)
  PROVE  Chain!Next
<1>. DEFINE id    == tx.outputs[new].id
            stake == tx.outputs[new].stake
<1>1. /\ new \in DOMAIN tx.outputs /\ PositionsBecome(tx, {}, {new})
      /\ StakeOf(tx.inputs) = 0 /\ StakeOf(tx.outputs) = stake
  BY RegisterEffect DEF IInv
<1>2. tx.outputs[new] \in Outputs
  BY <1>1 DEF IsTransaction
<1>3. id \in HolderIds /\ stake \in Stakes /\ stake \in Nat
  BY <1>2, StakesAssumption DEF Outputs
<1>4. /\ id \notin ToSet(state.ids) /\ Len(state.ids) + 1 <= MaxHolders
      /\ reserve' = reserve + RegisterFee /\ Settle(tx)
  BY DEF RegisterStake, RegisterChecks
<1>5. state' = [ids |-> <<id>> \o state.ids, weights |-> <<stake>> \o state.weights,
                skip |-> state.skip + 1, slot |-> state.slot,
                producers |-> state.producers]
  <2>1. state' = [state EXCEPT !.ids = <<id>> \o @, !.weights = <<stake>> \o @,
                               !.skip = @ + 1]
    BY DEF RegisterStake, Registered
  <2>2. state = [ids |-> state.ids, weights |-> state.weights,
                 skip |-> state.skip, slot |-> state.slot,
                 producers |-> state.producers]
    BY StateFields DEF IInv
  <2>. QED
    BY <2>1, <2>2
<1>6. HolderById' = [HolderById EXCEPT ![id] = [id |-> id, stake |-> stake]]
  BY <1>1, HolderComes
<1>7. wallet' = wallet - stake - RegisterFee /\ wallet' >= 0 /\ now' = now
  <2>1. /\ wallet' = wallet + 0 - stake + reserve - reserve'
        /\ wallet' >= 0 /\ now' = now
    BY <1>1, <1>4 DEF Settle
  <2>2. wallet \in Nat /\ reserve \in Nat /\ RegisterFee \in Nat
    BY ParamsAssumption DEF IInv, TypeOK
  <2>. HIDE DEF stake
  <2>. QED
    BY <1>3, <1>4, <2>1, <2>2
<1>8. id \notin Chain!Live
  <2>1. ASSUME NEW k \in Positions PROVE utxos[k].id # id
    <3>1. PICK i \in DOMAIN state.ids : state.ids[i] = utxos[k].id
      BY DEF IInv, Registry, PositionsAreListed
    <3>. QED
      BY <1>4, <3>1 DEF ToSet
  <2>. QED
    BY <2>1, LiveIds
<1>. HIDE DEF id, stake
<1>9. /\ state'.ids = <<id>> \o state.ids /\ state'.weights = <<stake>> \o state.weights
      /\ state'.skip = state.skip + 1 /\ state'.slot = state.slot
      /\ state'.producers = state.producers
  BY <1>5
<1>10. ProducerStates' = ProducerStates
  BY <1>9, ProducersStay
<1>11. /\ V0Params.register_fee = RegisterFee /\ V0Params.max_holders = MaxHolders
       /\ V0Params' = V0Params
  BY DEF V0Params
<1>12. Chain!NewRegisteredState(id, stake)
  BY <1>4, <1>9 DEF Chain!NewRegisteredState, Chain!SkipAfterRegistration,
                    Chain!ToSet, ToSet
<1>13. Chain!PaysRegisterFee /\ Chain!Funded(wallet')
  BY <1>4, <1>7, <1>11 DEF Chain!PaysRegisterFee, Chain!Funded
<1>14. Chain!RegisterStake(id, id, stake)
  BY <1>4, <1>6, <1>7, <1>8, <1>9, <1>10, <1>11, <1>12, <1>13
     DEF Chain!RegisterStake
<1>. QED
  BY <1>3, <1>14 DEF Chain!Next

\* DeregisterStake implements the abstract one, at the place where the id is.
LEMMA DeregisterImplements ==
  ASSUME IInv, IInv', NEW tx, IsTransaction(tx), NEW old,
         NEW index \in -1..(Len(state.ids) - 1), DeregisterStake(tx, old, index)
  PROVE  Chain!Next
<1>. DEFINE id    == utxos[old].id
            stake == utxos[old].stake
            place == index + 1
<1>1. /\ old \in Positions /\ PositionsBecome(tx, {old}, {})
      /\ StakeOf(tx.inputs) = stake /\ StakeOf(tx.outputs) = 0
  BY DeregisterEffect DEF IInv
<1>2. id \in HolderIds /\ stake \in Stakes /\ stake \in Nat
  BY <1>1, StateFields, StakesAssumption DEF IInv
<1>3. /\ index >= 0 /\ state.ids[place] = id
      /\ state' = [ids |-> RemoveAt(state.ids, place),
                   weights |-> RemoveAt(state.weights, place),
                   skip |-> IF index < state.skip THEN state.skip - 1
                            ELSE state.skip,
                   slot |-> state.slot, producers |-> state.producers]
  BY DeregisterRegistry
<1>4. reserve' = reserve + RegisterFee /\ Settle(tx)
  BY DEF DeregisterStake
<1>5. HolderById' = [HolderById EXCEPT ![id] = NoHolder]
  BY <1>1, HolderGoes
<1>6. wallet' = wallet + stake - RegisterFee /\ wallet' >= 0 /\ now' = now
  <2>1. /\ wallet' = wallet + stake - 0 + reserve - reserve'
        /\ wallet' >= 0 /\ now' = now
    BY <1>1, <1>4 DEF Settle
  <2>2. wallet \in Nat /\ reserve \in Nat /\ RegisterFee \in Nat
    BY ParamsAssumption DEF IInv, TypeOK
  <2>. HIDE DEF stake
  <2>. QED
    BY <1>2, <1>4, <2>1, <2>2
<1>7. id \in Chain!Live
  BY <1>1, LiveIds
<1>8. HolderById[id] = [id |-> id, stake |-> stake]
  BY <1>1, HolderOfId DEF HoldersArePositions
<1>9. place \in DOMAIN state.ids /\ place # 0 /\ (place <= state.skip) = (index < state.skip)
  BY <1>3, StateFields DEF IInv
<1>. HIDE DEF id, stake, place
<1>10. /\ state'.ids = RemoveAt(state.ids, place)
       /\ state'.weights = RemoveAt(state.weights, place)
       /\ state'.skip = IF index < state.skip THEN state.skip - 1 ELSE state.skip
       /\ state'.slot = state.slot /\ state'.producers = state.producers
  BY <1>3
<1>11. ProducerStates' = ProducerStates
  BY <1>10, ProducersStay
<1>12. V0Params.register_fee = RegisterFee /\ V0Params' = V0Params
  BY DEF V0Params
<1>13. Chain!PaysRegisterFee /\ Chain!Funded(wallet')
  BY <1>4, <1>6, <1>12 DEF Chain!PaysRegisterFee, Chain!Funded
<1>14. Chain!NewDeregisteredState(id, place)
  BY <1>3, <1>9, <1>10 DEF Chain!NewDeregisteredState, Chain!SkipAfterRemoval,
                           Chain!NotListed, Chain!RemoveAt, RemoveAt
<1>15. HolderById[id].id = id /\ HolderById[id].stake = stake
  BY <1>8
<1>16. Chain!DeregisterStake(id, place)
  BY <1>5, <1>6, <1>7, <1>10, <1>11, <1>12, <1>13, <1>14, <1>15
     DEF Chain!DeregisterStake
<1>. QED
  BY <1>2, <1>9, <1>16 DEF Chain!Next

\* What an update and a block have in common.
LEMMA RestakeImplements ==
  ASSUME IInv, IInv', NEW tx, IsTransaction(tx), NEW old, NEW new,
         NEW index \in -1..(Len(state.ids) - 1),
         UpdateChecks(tx, old, new, index), Settle(tx),
         state'.ids = state.ids,
         state'.weights = ReplaceAt(state.weights, index + 1, tx.outputs[new].stake)
  PROVE  /\ utxos[old].id \in HolderIds /\ index + 1 \in DOMAIN state.ids
         /\ tx.outputs[new].stake \in Stakes
         /\ Chain!Restake(utxos[old].id, index + 1, tx.outputs[new].stake)
         /\ HolderById[utxos[old].id].stake = utxos[old].stake
         /\ wallet' = wallet + utxos[old].stake - tx.outputs[new].stake
                        + reserve - reserve'
         /\ wallet' >= 0 /\ reserve' >= 0 /\ now' = now
<1>. DEFINE id    == utxos[old].id
            stake == tx.outputs[new].stake
            place == index + 1
<1>1. /\ old \in Positions /\ PositionsBecome(tx, {old}, {new})
      /\ StakeOf(tx.inputs) = utxos[old].stake /\ StakeOf(tx.outputs) = stake
  BY UpdateEffect DEF IInv
<1>2. /\ place \in DOMAIN state.ids /\ state.ids[place] = id
      /\ tx.outputs[new].id = id /\ stake \in Stakes
  BY UpdateRegistry
<1>3. id \in HolderIds
  BY <1>1, StateFields DEF IInv
<1>4. HolderById' = Restaked(id, stake)
  BY <1>1, <1>2, HolderRestakes
<1>5. id \in Chain!Live
  BY <1>1, LiveIds
<1>6. HolderById[id].id = id /\ HolderById[id].stake = utxos[old].stake
  <2>1. HolderById[id] = [id |-> id, stake |-> utxos[old].stake]
    BY <1>1, HolderOfId DEF HoldersArePositions
  <2>. HIDE DEF id
  <2>. QED
    BY <2>1
<1>7. /\ wallet' = wallet + utxos[old].stake - stake + reserve - reserve'
      /\ wallet' >= 0 /\ reserve' >= 0 /\ now' = now
  BY <1>1 DEF Settle
<1>8. Chain!Restake(id, place, stake)
  BY <1>2, <1>4, <1>5, <1>6
     DEF Restaked, Chain!Restake, Chain!WeightsWith, Chain!ReplaceAt, ReplaceAt
<1>. QED
  BY <1>2, <1>3, <1>6, <1>7, <1>8

\* UpdateStake implements the abstract UpdateStake.
LEMMA UpdateImplements ==
  ASSUME IInv, IInv', NEW tx, IsTransaction(tx), NEW old, NEW new,
         NEW index \in -1..(Len(state.ids) - 1), UpdateStake(tx, old, new, index)
  PROVE  Chain!Next
<1>. DEFINE id    == utxos[old].id
            stake == tx.outputs[new].stake
            place == index + 1
<1>1. UpdateChecks(tx, old, new, index) /\ Settle(tx) /\ reserve' = reserve
  BY DEF UpdateStake
<1>2. state' = [ids |-> state.ids, weights |-> ReplaceAt(state.weights, place, stake),
                skip |-> state.skip, slot |-> state.slot,
                producers |-> state.producers]
  BY UpdatedState DEF UpdateStake, IInv
<1>3. /\ state'.ids = state.ids /\ state'.weights = ReplaceAt(state.weights, place, stake)
      /\ state'.skip = state.skip /\ state'.slot = state.slot
      /\ state'.producers = state.producers
  BY <1>2
<1>4. /\ id \in HolderIds /\ place \in DOMAIN state.ids /\ stake \in Stakes
      /\ Chain!Restake(id, place, stake)
      /\ HolderById[id].stake = utxos[old].stake
      /\ wallet' = wallet + utxos[old].stake - stake + reserve - reserve'
      /\ wallet' >= 0 /\ now' = now
  BY <1>1, <1>3, RestakeImplements
<1>5. utxos[old].stake \in Nat /\ stake \in Nat
  <2>1. old \in Positions
    BY <1>1, UpdateEffect DEF IInv
  <2>. QED
    BY <1>4, <2>1, StateFields, StakesAssumption DEF IInv
<1>. HIDE DEF id, stake, place
<1>6. wallet' = wallet + HolderById[id].stake - stake
  <2>1. wallet \in Nat /\ reserve \in Nat
    BY DEF IInv, TypeOK
  <2>2. wallet' = wallet + utxos[old].stake - stake
    BY <1>1, <1>4, <1>5, <2>1
  <2>. QED
    BY <1>4, <2>2
<1>7. ProducerStates' = ProducerStates /\ V0Params' = V0Params
  BY <1>3, ProducersStay DEF V0Params
<1>8. Chain!Funded(wallet')
  BY <1>4 DEF Chain!Funded
<1>9. Chain!UpdateStake(id, place, stake)
  BY <1>1, <1>3, <1>4, <1>6, <1>7, <1>8 DEF Chain!UpdateStake
<1>. QED
  BY <1>4, <1>9 DEF Chain!Next

\* A block implements the abstract MineBlockUpdateStake.
LEMMA MineImplements ==
  ASSUME IInv, IInv', NEW tx, IsTransaction(tx), NEW old, NEW new,
         NEW index \in -1..(Len(state.ids) - 1), NEW leader \in Unspent,
         NEW slot \in 0..MaxTime, Len(state.producers) - 1 < MaxBlocks,
         MineBlockUpdateStake(tx, old, new, index, utxos[leader], slot)
  PROVE  Chain!Next
<1>. DEFINE id       == utxos[old].id
            stake    == tx.outputs[new].stake
            place    == index + 1
            producer == utxos[leader].id
<1>1. /\ UpdateChecks(tx, old, new, index) /\ Settle(tx)
      /\ reserve' = reserve - Reward
      /\ InSlot(slot) /\ slot > state.slot
      /\ ValidHolder(utxos[leader]) /\ IsSlotLeader(producer)
  BY DEF MineBlockUpdateStake, MineChecks
<1>2. state' = [ids |-> state.ids, weights |-> ReplaceAt(state.weights, place, stake),
                skip |-> 0, slot |-> slot,
                producers |-> <<producer>> \o state.producers]
  BY MinedState DEF MineBlockUpdateStake, IInv
<1>3. /\ state'.ids = state.ids /\ state'.weights = ReplaceAt(state.weights, place, stake)
      /\ state'.skip = 0 /\ state'.slot = slot
      /\ state'.producers = <<producer>> \o state.producers
  BY <1>2
<1>4. /\ id \in HolderIds /\ place \in DOMAIN state.ids /\ stake \in Stakes
      /\ Chain!Restake(id, place, stake)
      /\ HolderById[id].stake = utxos[old].stake
      /\ wallet' = wallet + utxos[old].stake - stake + reserve - reserve'
      /\ wallet' >= 0 /\ reserve' >= 0 /\ now' = now
  BY <1>1, <1>3, RestakeImplements
<1>5. utxos[old].stake \in Nat /\ stake \in Nat /\ Reward \in Nat
  <2>1. old \in Positions
    BY <1>1, UpdateEffect DEF IInv
  <2>. QED
    BY <1>4, <2>1, StateFields, StakesAssumption, RewardIsNat DEF IInv
<1>6. /\ leader \in Positions /\ producer \in HolderIds /\ producer \in Chain!Live
      /\ HolderById[producer].id = producer
  <2>1. leader \in Positions
    BY <1>1 DEF Positions, ValidHolder
  <2>2. HolderById[producer] = [id |-> producer, stake |-> utxos[leader].stake]
    BY <2>1, HolderOfId DEF HoldersArePositions
  <2>3. producer \in HolderIds
    BY <2>1, HolderOfId DEF HoldersArePositions
  <2>4. producer \in Chain!Live
    BY <2>1, LiveIds
  <2>. HIDE DEF producer
  <2>. QED
    BY <2>1, <2>2, <2>3, <2>4
<1>7. Chain!BlockReward = Reward
  BY DEF Chain!BlockReward, Reward, V0Params
<1>8. Chain!InSlot(slot) /\ Chain!IsIntervalStart(slot)
  BY <1>1, SameSlots DEF IInv
<1>9. Chain!IsSlotLeader(producer)
  BY <1>1, SameElection
<1>. HIDE DEF id, stake, place, producer
<1>10. /\ ProducerStates' = <<[producer |-> producer, auxiliary |-> Voteless]>>
                              \o ProducerStates
       /\ Len(ProducerStates) = Len(state.producers)
  BY <1>3, <1>6, ProducersGrow DEF IInv
<1>11. wallet' = wallet + HolderById[id].stake - stake + Chain!BlockReward
  <2>1. wallet \in Nat /\ reserve \in Nat
    BY DEF IInv, TypeOK
  <2>2. wallet' = wallet + utxos[old].stake - stake + Reward
    BY <1>1, <1>4, <1>5, <2>1
  <2>. QED
    BY <1>4, <1>7, <2>2
<1>12. reserve' = reserve - Chain!BlockReward
  BY <1>1, <1>7
<1>13. Chain!Funded(wallet') /\ Chain!Funded(reserve')
  BY <1>4 DEF Chain!Funded
<1>14. Chain!NewMinedState(producer, slot, Voteless)
  BY <1>1, <1>3, <1>8, <1>10
     DEF Chain!NewMinedState, Chain!NewChainState, Chain!IsLaterSlot,
         Chain!HasInterval
<1>15. V0Params' = V0Params
  BY DEF V0Params
<1>16. Chain!MineBlockUpdateStake(producer, slot, Voteless, id, place, stake)
  BY <1>4, <1>6, <1>9, <1>11, <1>12, <1>13, <1>14, <1>15
     DEF Chain!MineBlockUpdateStake
<1>17. Chain!block_number < MaxBlocks
  BY <1>10 DEF Chain!block_number
<1>18. Voteless \in {} \cup {Voteless}
  OBVIOUS
<1>. QED
  BY <1>4, <1>6, <1>16, <1>17, <1>18 DEF Chain!Next

\* Every step of the ledger is a step of StakeChain or leaves it alone.
LEMMA StepImplementsChain ==
  ASSUME IInv, IInv', [Next]_vars
  PROVE  [Chain!Next]_(Chain!vars)
<1>1. ASSUME HolderById' = HolderById, state' = state, reserve' = reserve,
             wallet' = wallet, now' = now
      PROVE  UNCHANGED Chain!vars
  <2>1. ProducerStates' = ProducerStates /\ V0Params' = V0Params
    BY <1>1, ProducersStay DEF V0Params
  <2>. QED
    BY <1>1, <2>1 DEF Chain!vars, Chain!chain, Chain!registry
<1>2. ASSUME utxos' = utxos
      PROVE  HolderById' = HolderById
  BY <1>2 DEF HolderById, HolderOf, Positions, Unspent
<1>3. CASE UNCHANGED vars
  BY <1>1, <1>2, <1>3 DEF vars
<1>4. CASE Tick
  <2>1. /\ HolderById' = HolderById /\ state' = state /\ reserve' = reserve
        /\ wallet' = wallet /\ now < MaxTime /\ now' = now + 1
    BY <1>2, <1>4 DEF Tick
  <2>2. ProducerStates' = ProducerStates /\ V0Params' = V0Params
    BY <2>1, ProducersStay DEF V0Params
  <2>3. Chain!Tick
    BY <2>1, <2>2 DEF Chain!Tick, Chain!chain, Chain!registry
  <2>. QED
    BY <2>3 DEF Chain!Next
<1>5. CASE Transact
  <2>1. PICK tx : /\ IsTransaction(tx)
                  /\ PlainTransaction(tx) \/ ChainTransaction(tx)
    BY <1>5, OneTransaction DEF IInv
  <2>2. CASE PlainTransaction(tx)
    <3>1. /\ PositionsBecome(tx, {}, {})
          /\ state' = state /\ reserve' = reserve /\ wallet' = wallet
      BY <2>1, <2>2, PlainEffect DEF IInv
    <3>2. HolderById' = HolderById
      BY <3>1, HoldersStay
    <3>3. now' = now
      BY <2>2 DEF PlainTransaction, Settle
    <3>. QED
      BY <1>1, <3>1, <3>2, <3>3
  <2>3. ASSUME NEW new, RegisterStake(tx, new)
        PROVE  Chain!Next
    BY <2>1, <2>3, RegisterImplements
  <2>4. ASSUME NEW old, NEW index \in -1..(Len(state.ids) - 1),
               DeregisterStake(tx, old, index)
        PROVE  Chain!Next
    BY <2>1, <2>4, DeregisterImplements
  <2>5. ASSUME NEW old, NEW new, NEW index \in -1..(Len(state.ids) - 1),
               UpdateStake(tx, old, new, index)
        PROVE  Chain!Next
    BY <2>1, <2>5, UpdateImplements
  <2>6. ASSUME NEW old, NEW new, NEW index \in -1..(Len(state.ids) - 1),
               NEW leader \in Unspent, NEW slot \in 0..MaxTime,
               Len(state.producers) - 1 < MaxBlocks,
               MineBlockUpdateStake(tx, old, new, index, utxos[leader], slot)
        PROVE  Chain!Next
    BY <2>1, <2>6, MineImplements
  <2>. QED
    BY <2>1, <2>2, <2>3, <2>4, <2>5, <2>6 DEF ChainTransaction
<1>. QED
  BY <1>3, <1>4, <1>5 DEF Next

\* A new chain without positions is a new StakeChain.
LEMMA InitImplementsChain == Init => Chain!Init
<1>. SUFFICES ASSUME Init
              PROVE  Chain!Init
  OBVIOUS
<1>1. /\ state = [ids |-> <<>>, weights |-> <<>>, skip |-> -GenesisSkip, slot |-> 0,
                  producers |-> <<Nobody>>]
      /\ reserve = GenesisReserve /\ wallet = GenesisWallet /\ now = 0
      /\ utxos = [k \in Keys |-> NoOutput]
  BY DEF Init
<1>2. Positions = {}
  BY <1>1 DEF Positions, Unspent
<1>3. HolderById = [p \in HolderIds |-> NoHolder]
  BY <1>2 DEF HolderById, HolderOf
<1>4. ProducerStates = <<[producer |-> Nobody, auxiliary |-> Voteless]>>
  <2>1. state.producers = <<Nobody>>
    BY <1>1
  <2>. QED
    BY <2>1 DEF ProducerStates
<1>5. Chain!Genesis
  BY <1>1, <1>4 DEF Chain!Genesis
<1>. QED
  BY <1>1, <1>3, <1>5 DEF Chain!Init

\* The scripts, none of which knows more than one transaction, implement the chain
\* in which every id has at most one position that lives as a thread of outputs:
\* whatever the transactions spend, make, mint and point at.
THEOREM ScriptsImplementChain == Spec => ImplementsChain
<1>1. Init => IInv
  BY InitInv
<1>2. IInv /\ [Next]_vars => IInv'
  BY StepInv
<1>3. IInv /\ IInv' /\ [Next]_vars => [Chain!Next]_(Chain!vars)
  BY StepImplementsChain
<1>. QED
  BY <1>1, <1>2, <1>3, InitImplementsChain, PTL DEF Spec, ImplementsChain, Chain!Spec

=============================================================================
