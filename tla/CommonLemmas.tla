---------------------------- MODULE CommonLemmas ----------------------------
(***************************************************************************)
(* Lemmas that several of the proofs use: a little arithmetic, induction   *)
(* on the natural numbers, the list operations of the registry, and what   *)
(* the operators of Election compute for lists of any length.              *)
(*                                                                         *)
(* Induction is derived from the library's theorem that < is well founded  *)
(* on Nat, which gives every set of naturals a least element.  The sums of *)
(* weighted_sample are defined by recursion, and need it.                  *)
(***************************************************************************)
EXTENDS Election, SequenceTheorems, WellFoundedInduction, TLAPS

-----------------------------------------------------------------------------
(* Arithmetic.                                                             *)

\* Division by a positive number rounds down.
LEMMA Floor ==
  ASSUME NEW a \in Int, NEW b \in Nat \ {0}
  PROVE  /\ a \div b \in Int
         /\ (a \div b) * b <= a
<1>. DEFINE q == a \div b
<1>1. q \in Int /\ a = b * q + (a % b) /\ a % b \in 0..(b - 1)
  OBVIOUS
<1>. HIDE DEF q
<1>2. b * q = q * b
  BY <1>1
<1>3. b * q \in Int
  BY <1>1
<1>4. b * q <= a
  BY <1>1, <1>3
<1>. QED
  BY <1>1, <1>2, <1>4 DEF q

\* A product with a larger factor is larger.
LEMMA TimesMonotone ==
  ASSUME NEW m \in Int, NEW n \in Int, NEW k \in Nat, m <= n
  PROVE  m * k <= n * k
<1>1. PICK d \in Nat : n = m + d
  BY n - m \in Nat
<1>2. n * k = m * k + d * k
  BY <1>1
<1>3. d * k \in Nat /\ m * k \in Int
  BY <1>1
<1>. QED
  BY <1>2, <1>3

\* A factor that appears on both sides of a product can be dropped.
LEMMA TimesCancel ==
  ASSUME NEW m \in Int, NEW n \in Int, NEW k \in Nat \ {0}, m * k <= n * k
  PROVE  m <= n
<1>1. SUFFICES ASSUME m >= n + 1 PROVE FALSE
  OBVIOUS
<1>2. (n + 1) * k <= m * k
  BY <1>1, TimesMonotone
<1>3. (n + 1) * k = n * k + k
  OBVIOUS
<1>4. n * k \in Int /\ m * k \in Int
  OBVIOUS
<1>. QED
  BY <1>2, <1>3, <1>4

-----------------------------------------------------------------------------
(* Induction.                                                              *)

\* A non-empty set of naturals has a least element.
LEMMA LeastElement ==
  ASSUME NEW S \in SUBSET Nat, S # {}
  PROVE  \E m \in S : \A n \in S : m <= n
<1>. DEFINE Less == OpToRel(<, Nat)
<1>1. IsWellFoundedOn(Less, Nat)
  BY NatLessThanWellFounded
<1>2. \A m, n \in S : n < m => <<n, m>> \in Less
  BY DEF OpToRel
<1>. HIDE DEF Less
<1>3. PICK m \in S : \A n \in S : ~ (<<n, m>> \in Less)
  BY <1>1, WFMin
<1>4. \A n \in S : ~ (n < m)
  BY <1>2, <1>3
<1>. QED
  BY <1>4

\* A set that holds zero and the successor of each of its members holds Nat.
LEMMA InductionOnNat ==
  ASSUME NEW S, 0 \in S, \A n \in Nat : n \in S => n + 1 \in S
  PROVE  Nat \subseteq S
<1>. SUFFICES ASSUME Nat \ S # {}
              PROVE  FALSE
  OBVIOUS
<1>1. PICK m \in Nat \ S : \A n \in Nat \ S : m <= n
  BY LeastElement
<1>2. m # 0 /\ m - 1 \in Nat /\ m - 1 \in S
  BY <1>1
<1>. QED
  BY <1>1, <1>2

-----------------------------------------------------------------------------
(* Sums of lists.                                                          *)

\* The sums exist: Upto is the function that its equations describe.
LEMMA UptoEquations ==
  ASSUME NEW list, Len(list) \in Nat
  PROVE  /\ Upto(list)[0] = 0
         /\ \A k \in 1..Len(list) : Upto(list)[k] = Upto(list)[k - 1] + list[k]
<1>. DEFINE Step(f, n) ==
              [k \in 0..n |-> IF k = 0 THEN 0 ELSE f[k - 1] + list[k]]
            Solvable == {n \in Nat : \E f : f = Step(f, n)}
<1>1. 0 \in Solvable
  <2>1. DEFINE f == [k \in 0..0 |-> 0]
  <2>2. f = Step(f, 0)
    OBVIOUS
  <2>. QED
    BY <2>2
<1>2. ASSUME NEW n \in Nat, n \in Solvable
      PROVE  n + 1 \in Solvable
  <2>1. PICK f : f = Step(f, n)
    BY <1>2
  <2>. DEFINE g == [k \in 0..(n + 1) |->
                      IF k <= n THEN f[k] ELSE f[n] + list[n + 1]]
  <2>2. \A k \in 0..n : f[k] = IF k = 0 THEN 0 ELSE f[k - 1] + list[k]
    BY <2>1
  <2>3. ASSUME NEW k \in 0..(n + 1)
        PROVE  g[k] = IF k = 0 THEN 0 ELSE g[k - 1] + list[k]
    BY <2>2
  <2>4. g = Step(g, n + 1)
    BY <2>3
  <2>. HIDE DEF g
  <2>. QED
    BY <2>4
<1>3. Nat \subseteq Solvable
  <2>. HIDE DEF Solvable
  <2>. QED
    BY <1>1, <1>2, InductionOnNat
<1>4. Upto(list) = CHOOSE f : f = Step(f, Len(list))
  BY DEF Upto
<1>5. Upto(list) = Step(Upto(list), Len(list))
  BY <1>3, <1>4
<1>. QED
  BY <1>5

\* A sum of stakes is a natural number.
LEMMA UptoIsNat ==
  ASSUME NEW list \in Seq(Nat), NEW k \in 0..Len(list)
  PROVE  Upto(list)[k] \in Nat
<1>. DEFINE Good == {n \in Nat : n <= Len(list) => Upto(list)[n] \in Nat}
<1>1. Len(list) \in Nat /\ \A n \in 1..Len(list) : list[n] \in Nat
  BY LenProperties, ElementOfSeq
<1>2. 0 \in Good
  BY <1>1, UptoEquations
<1>3. ASSUME NEW n \in Nat, n \in Good
      PROVE  n + 1 \in Good
  <2>. SUFFICES ASSUME n + 1 <= Len(list)
                PROVE  Upto(list)[n + 1] \in Nat
    OBVIOUS
  <2>1. Upto(list)[n + 1] = Upto(list)[n] + list[n + 1]
    BY <1>1, UptoEquations
  <2>. QED
    BY <1>1, <1>3, <2>1
<1>4. Nat \subseteq Good
  <2>. HIDE DEF Good
  <2>. QED
    BY <1>2, <1>3, InductionOnNat
<1>. QED
  BY <1>1, <1>4

\* The sums do not fall.
LEMMA UptoIsMonotone ==
  ASSUME NEW list \in Seq(Nat),
         NEW j \in 0..Len(list), NEW k \in 0..Len(list), j <= k
  PROVE  Upto(list)[j] <= Upto(list)[k]
<1>. DEFINE Good == {n \in Nat : j + n <= Len(list)
                                  => Upto(list)[j] <= Upto(list)[j + n]}
<1>1. Len(list) \in Nat /\ \A n \in 1..Len(list) : list[n] \in Nat
  BY LenProperties, ElementOfSeq
<1>2. 0 \in Good
  BY <1>1, UptoIsNat
<1>3. ASSUME NEW n \in Nat, n \in Good
      PROVE  n + 1 \in Good
  <2>. SUFFICES ASSUME j + (n + 1) <= Len(list)
                PROVE  Upto(list)[j] <= Upto(list)[j + (n + 1)]
    OBVIOUS
  <2>1. j + (n + 1) \in 1..Len(list) /\ (j + (n + 1)) - 1 = j + n
    BY <1>1
  <2>2. Upto(list)[j + (n + 1)] = Upto(list)[j + n] + list[j + (n + 1)]
    BY <1>1, <2>1, UptoEquations
  <2>3. /\ Upto(list)[j] \in Nat
        /\ Upto(list)[j + n] \in Nat
        /\ list[j + (n + 1)] \in Nat
    BY <1>1, <2>1, UptoIsNat
  <2>. QED
    BY <1>1, <1>3, <2>2, <2>3
<1>4. Nat \subseteq Good
  <2>. HIDE DEF Good
  <2>. QED
    BY <1>2, <1>3, InductionOnNat
<1>5. k - j \in Nat /\ j + (k - j) = k
  BY <1>1
<1>. QED
  BY <1>1, <1>4, <1>5

\* The sum of k stakes of at most most is at most k times most.
LEMMA UptoIsBounded ==
  ASSUME NEW most \in Nat, NEW list \in Seq(0..most), NEW k \in 0..Len(list)
  PROVE  Upto(list)[k] <= k * most
<1>. DEFINE Good == {n \in Nat : n <= Len(list) => Upto(list)[n] <= n * most}
<1>1. Len(list) \in Nat /\ \A n \in 1..Len(list) : list[n] \in 0..most
  BY LenProperties, ElementOfSeq
<1>2. list \in Seq(Nat)
  BY <1>1, Seq(Nat) = UNION {[1..n -> Nat] : n \in Nat}
<1>3. 0 \in Good
  BY <1>1, UptoEquations
<1>4. ASSUME NEW n \in Nat, n \in Good
      PROVE  n + 1 \in Good
  <2>. SUFFICES ASSUME n + 1 <= Len(list)
                PROVE  Upto(list)[n + 1] <= (n + 1) * most
    OBVIOUS
  <2>1. Upto(list)[n + 1] = Upto(list)[n] + list[n + 1]
    BY <1>1, UptoEquations
  <2>2. Upto(list)[n] \in Nat /\ list[n + 1] \in 0..most
    BY <1>1, <1>2, UptoIsNat
  <2>3. n * most \in Nat /\ (n + 1) * most = n * most + most
    OBVIOUS
  <2>. QED
    BY <1>1, <1>4, <2>1, <2>2, <2>3
<1>5. Nat \subseteq Good
  <2>. HIDE DEF Good
  <2>. QED
    BY <1>3, <1>4, InductionOnNat
<1>. QED
  BY <1>1, <1>5

\* One summand is at most the sum.
LEMMA ElementBelowTotal ==
  ASSUME NEW list \in Seq(Nat), NEW i \in 1..Len(list)
  PROVE  Total(list) \in Nat /\ list[i] <= Total(list)
<1>1. Len(list) \in Nat /\ list[i] \in Nat
  BY LenProperties, ElementOfSeq
<1>2. Upto(list)[i] = Upto(list)[i - 1] + list[i]
  BY <1>1, UptoEquations
<1>3. /\ Upto(list)[i - 1] \in Nat
      /\ Upto(list)[i] \in Nat
      /\ Total(list) \in Nat
      /\ Upto(list)[i] <= Total(list)
  BY <1>1, UptoIsNat, UptoIsMonotone DEF Total
<1>. QED
  BY <1>1, <1>2, <1>3

\* A list that differs from another in one place differs from it by as much in
\* the sum.
LEMMA TotalAfterChange ==
  ASSUME NEW old \in Seq(Nat), NEW new \in Seq(Nat), Len(new) = Len(old),
         NEW i \in 1..Len(old),
         \A k \in 1..Len(old) : k # i => new[k] = old[k]
  PROVE  Total(new) = Total(old) + new[i] - old[i]
<1>. DEFINE Shift(n) == IF i <= n THEN new[i] - old[i] ELSE 0
            Good == {n \in Nat : n <= Len(old)
                                   => Upto(new)[n] = Upto(old)[n] + Shift(n)}
<1>1. /\ Len(old) \in Nat
      /\ \A k \in 1..Len(old) : old[k] \in Nat /\ new[k] \in Nat
  BY LenProperties, ElementOfSeq
<1>2. 0 \in Good
  BY <1>1, UptoEquations
<1>3. ASSUME NEW n \in Nat, n \in Good
      PROVE  n + 1 \in Good
  <2>. SUFFICES ASSUME n + 1 <= Len(old)
                PROVE  Upto(new)[n + 1] = Upto(old)[n + 1] + Shift(n + 1)
    OBVIOUS
  <2>1. /\ Upto(old)[n + 1] = Upto(old)[n] + old[n + 1]
        /\ Upto(new)[n + 1] = Upto(new)[n] + new[n + 1]
    BY <1>1, UptoEquations
  <2>2. Upto(old)[n] \in Nat /\ Upto(new)[n] \in Nat
    BY <1>1, UptoIsNat
  <2>3. Upto(new)[n] = Upto(old)[n] + Shift(n)
    BY <1>1, <1>3
  <2>4. old[n + 1] \in Nat /\ new[n + 1] \in Nat
    BY <1>1
  <2>5. Shift(n) \in Int /\ Shift(n + 1) = Shift(n) + (new[n + 1] - old[n + 1])
    <3>1. CASE n + 1 = i
      BY <2>4, <3>1
    <3>2. CASE n + 1 # i
      <4>1. new[n + 1] = old[n + 1]
        BY <3>2
      <4>2. Shift(n) \in Int /\ Shift(n + 1) = Shift(n)
        BY <1>1, <3>2
      <4>. QED
        BY <2>4, <4>1, <4>2
    <3>. QED
      BY <3>1, <3>2
  <2>. HIDE DEF Shift
  <2>. DEFINE a == Upto(old)[n]
              b == Upto(new)[n]
              x == old[n + 1]
              y == new[n + 1]
              d == Shift(n)
  <2>6. a \in Int /\ x \in Int /\ y \in Int /\ d \in Int /\ b = a + d
    <3>1. a \in Int
      BY <2>2
    <3>2. x \in Int /\ y \in Int
      BY <2>4
    <3>3. d \in Int
      BY <2>5
    <3>4. b = a + d
      BY <2>3
    <3>. QED
      BY <3>1, <3>2, <3>3, <3>4
  <2>7. b + y = (a + x) + (d + (y - x))
    <3>. HIDE DEF a, b, x, y, d
    <3>. QED
      BY <2>6
  <2>. QED
    BY <2>1, <2>5, <2>7
<1>4. Nat \subseteq Good
  <2>. HIDE DEF Good
  <2>. QED
    BY <1>2, <1>3, InductionOnNat
<1>5. Upto(new)[Len(old)] = Upto(old)[Len(old)] + (new[i] - old[i])
  BY <1>1, <1>4
<1>6. Upto(old)[Len(old)] \in Nat
  BY <1>1, UptoIsNat
<1>. QED
  BY <1>1, <1>5, <1>6 DEF Total

\* A longer list that starts with another has its last summand more.
LEMMA TotalAfterAppend ==
  ASSUME NEW old \in Seq(Nat), NEW new \in Seq(Nat), Len(new) = Len(old) + 1,
         \A k \in 1..Len(old) : new[k] = old[k]
  PROVE  Total(new) = Total(old) + new[Len(new)]
<1>. DEFINE Good == {n \in Nat : n <= Len(old) => Upto(new)[n] = Upto(old)[n]}
<1>1. Len(old) \in Nat /\ Len(new) \in Nat
  BY LenProperties
<1>2. 0 \in Good
  BY <1>1, UptoEquations
<1>3. ASSUME NEW n \in Nat, n \in Good
      PROVE  n + 1 \in Good
  <2>. SUFFICES ASSUME n + 1 <= Len(old)
                PROVE  Upto(new)[n + 1] = Upto(old)[n + 1]
    OBVIOUS
  <2>1. n + 1 \in 1..Len(old) /\ n + 1 \in 1..Len(new) /\ (n + 1) - 1 = n
    BY <1>1
  <2>2. /\ Upto(old)[n + 1] = Upto(old)[n] + old[n + 1]
        /\ Upto(new)[n + 1] = Upto(new)[n] + new[n + 1]
    BY ONLY <1>1, <2>1, UptoEquations
  <2>. QED
    BY <1>1, <1>3, <2>1, <2>2
<1>4. Nat \subseteq Good
  <2>. HIDE DEF Good
  <2>. QED
    BY <1>2, <1>3, InductionOnNat
<1>5. Upto(new)[Len(old)] = Upto(old)[Len(old)]
  BY <1>1, <1>4
<1>6. Upto(new)[Len(new)] = Upto(new)[Len(old)] + new[Len(new)]
  BY <1>1, UptoEquations
<1>. QED
  BY <1>5, <1>6 DEF Total

-----------------------------------------------------------------------------
(* The list operations of the registry.                                    *)

\* Prepending an element, as registration does with ids and weights, shifts the
\* list by one place.
LEMMA PrependProperties ==
  ASSUME NEW S, NEW s \in Seq(S), NEW e \in S
  PROVE  /\ <<e>> \o s \in Seq(S)
         /\ Len(<<e>> \o s) = Len(s) + 1
         /\ (<<e>> \o s)[1] = e
         /\ \A i \in 1..Len(s) : (<<e>> \o s)[i + 1] = s[i]
<1>1. <<e>> \in Seq(S) /\ Len(<<e>>) = 1 /\ <<e>>[1] = e
  OBVIOUS
<1>. QED
  BY <1>1, ConcatProperties

\* remove_int_at_index and remove_bytes_at_index: the elements behind the index
\* move up by one place.
LEMMA RemoveAtProperties ==
  ASSUME NEW S, NEW s \in Seq(S), NEW k \in 1..Len(s)
  PROVE  /\ RemoveAt(s, k) \in Seq(S)
         /\ Len(RemoveAt(s, k)) = Len(s) - 1
         /\ \A i \in 1..(Len(s) - 1) :
              RemoveAt(s, k)[i] = IF i < k THEN s[i] ELSE s[i + 1]
<1>. DEFINE front == SubSeq(s, 1, k - 1)
            rest  == SubSeq(s, k + 1, Len(s))
<1>1. /\ front \in Seq(S)
      /\ Len(front) = k - 1
      /\ \A i \in 1..(k - 1) : front[i] = s[i]
  <2>1. \A i \in 1..(k - 1) : s[i] \in S
    BY ElementOfSeq
  <2>2. /\ front \in Seq(S)
        /\ Len(front) = IF 1 <= k - 1 THEN k - 1 - 1 + 1 ELSE 0
        /\ \A i \in 1..(k - 1 - 1 + 1) : front[i] = s[1 + i - 1]
    BY <2>1, SubSeqProperties, 1 \in Int, k - 1 \in Int
  <2>. QED
    BY <2>2
<1>2. /\ rest \in Seq(S)
      /\ Len(rest) = Len(s) - k
      /\ \A i \in 1..(Len(s) - k) : rest[i] = s[k + i]
  <2>1. \A i \in (k + 1)..Len(s) : s[i] \in S
    BY ElementOfSeq
  <2>2. /\ rest \in Seq(S)
        /\ Len(rest) = IF k + 1 <= Len(s) THEN Len(s) - (k + 1) + 1 ELSE 0
        /\ \A i \in 1..(Len(s) - (k + 1) + 1) : rest[i] = s[k + 1 + i - 1]
    BY <2>1, SubSeqProperties, k + 1 \in Int, Len(s) \in Int
  <2>. QED
    BY <2>2
<1>3. RemoveAt(s, k) = front \o rest
  BY DEF RemoveAt
<1>. HIDE DEF front, rest
<1>4. /\ front \o rest \in Seq(S)
      /\ Len(front \o rest) = Len(front) + Len(rest)
      /\ \A i \in 1..(Len(front) + Len(rest)) :
           (front \o rest)[i] =
             IF i <= Len(front) THEN front[i] ELSE rest[i - Len(front)]
  BY <1>1, <1>2, ConcatProperties
<1>5. Len(front) + Len(rest) = Len(s) - 1
  <2>1. k \in Int /\ Len(s) \in Int
    BY LenProperties
  <2>. QED
    BY <2>1, <1>1, <1>2
<1>6. ASSUME NEW i \in 1..(Len(s) - 1)
      PROVE  (front \o rest)[i] = IF i < k THEN s[i] ELSE s[i + 1]
  <2>1. CASE i < k
    <3>1. i \in 1..(k - 1) /\ i <= Len(front)
      BY <2>1, <1>1
    <3>. QED
      BY <2>1, <3>1, <1>1, <1>4, <1>5
  <2>2. CASE ~ (i < k)
    <3>1. i \in Int /\ k \in Int /\ ~ i <= Len(front) /\ ~ i < k
      BY <2>2, <1>1
    <3>2. (front \o rest)[i] = rest[i - (k - 1)]
      BY <3>1, <1>1, <1>4, <1>5
    <3>3. i - (k - 1) \in 1..(Len(s) - k) /\ k + (i - (k - 1)) = i + 1
      BY <2>2
    <3>4. rest[i - (k - 1)] = s[k + (i - (k - 1))]
      BY <3>3, <1>2
    <3>. QED
      BY <3>1, <3>2, <3>3, <3>4
  <2>. QED
    BY <2>1, <2>2
<1>7. Len(RemoveAt(s, k)) = Len(s) - 1
  BY <1>3, <1>4, <1>5
<1>8. \A i \in 1..(Len(s) - 1) :
        RemoveAt(s, k)[i] = IF i < k THEN s[i] ELSE s[i + 1]
  BY ONLY <1>3, <1>6
<1>. QED
  BY <1>3, <1>4, <1>7, <1>8

\* weights[:index] + [weight] + weights[index + 1:] keeps the length.
LEMMA ReplaceAtProperties ==
  ASSUME NEW S, NEW s \in Seq(S), NEW k \in 1..Len(s), NEW e \in S
  PROVE  /\ ReplaceAt(s, k, e) \in Seq(S)
         /\ Len(ReplaceAt(s, k, e)) = Len(s)
BY ExceptSeq DEF ReplaceAt

-----------------------------------------------------------------------------
(* The election.                                                           *)

\* weighted_sample returns before its assertion: the first sum that reaches the
\* random number exists, and WeightedSample is its index.
LEMMA SampleExists ==
  ASSUME NEW list \in Seq(Nat), NEW r \in 0..(Total(list) - 1)
  PROVE  /\ WeightedSample(list, r) \in 1..Len(list)
         /\ Reaches(Upto(list)[WeightedSample(list, r)], r)
         /\ \A j \in 1..(WeightedSample(list, r) - 1) : ~ Reaches(Upto(list)[j], r)
<1>. DEFINE Reaching == {k \in 1..Len(list) : Reaches(Upto(list)[k], r)}
<1>1. Len(list) \in Nat /\ Total(list) \in Nat /\ Total(list) = Upto(list)[Len(list)]
  BY LenProperties, UptoIsNat DEF Total
<1>2. Len(list) # 0
  BY <1>1, UptoEquations
<1>3. Len(list) \in Reaching
  BY <1>1, <1>2 DEF Reaches
<1>4. PICK m \in Reaching : \A n \in Reaching : m <= n
  <2>1. Reaching \in SUBSET Nat /\ Reaching # {}
    BY <1>1, <1>3
  <2>. HIDE DEF Reaching
  <2>. QED
    BY <2>1, LeastElement
<1>5. \A j \in 1..(m - 1) : ~ Reaches(Upto(list)[j], r)
  BY <1>1, <1>4
<1>. QED
  BY <1>4, <1>5 DEF WeightedSample

\* Only one index is the first to reach the random number.
LEMMA SampleIsUnique ==
  ASSUME NEW list \in Seq(Nat), NEW r \in 0..(Total(list) - 1),
         NEW k \in 1..Len(list), Reaches(Upto(list)[k], r),
         \A j \in 1..(k - 1) : ~ Reaches(Upto(list)[j], r)
  PROVE  WeightedSample(list, r) = k
<1>1. Len(list) \in Nat
  BY LenProperties
<1>. QED
  BY <1>1, SampleExists

-----------------------------------------------------------------------------
LEMMA MaxOfTwo ==
  ASSUME NEW a \in Int, NEW b \in Int
  PROVE  Max({a, b}) = IF a >= b THEN a ELSE b
<1>. DEFINE m == IF a >= b THEN a ELSE b
<1>1. m \in {a, b} /\ \A x \in {a, b} : m >= x
  OBVIOUS
<1>2. \A x \in {a, b} : (\A y \in {a, b} : x >= y) => x = m
  OBVIOUS
<1>. QED
  BY <1>1, <1>2 DEF Max

\* weights[skip:] drops some of the front of the list: the skipped holders, or
\* those that a negative count leaves over.
Dropped(list, skip) ==
  IF skip >= 0 THEN skip ELSE IF Len(list) + skip >= 0 THEN Len(list) + skip ELSE 0

LEMMA CandidatesProperties ==
  ASSUME NEW S, NEW list \in Seq(S), NEW skip \in Int, skip <= Len(list)
  PROVE  /\ Dropped(list, skip) \in 0..Len(list)
         /\ Candidates(list, skip) \in Seq(S)
         /\ Len(Candidates(list, skip)) = Len(list) - Dropped(list, skip)
         /\ \A k \in 1..(Len(list) - Dropped(list, skip)) :
              Candidates(list, skip)[k] = list[k + Dropped(list, skip)]
<1>. DEFINE d == Dropped(list, skip)
<1>1. Len(list) \in Nat
  BY LenProperties
<1>2. d \in 0..Len(list)
  BY <1>1 DEF Dropped
<1>3. Candidates(list, skip) = SubSeq(list, d + 1, Len(list))
  <2>1. d + 1 = IF skip >= 0 THEN skip + 1 ELSE Max({0, Len(list) + skip}) + 1
    BY <1>1, MaxOfTwo, Len(list) + skip \in Int, 0 \in Int DEF Dropped
  <2>. QED
    BY <2>1 DEF Candidates
<1>. HIDE DEF d
<1>4. /\ SubSeq(list, d + 1, Len(list)) \in Seq(S)
      /\ Len(SubSeq(list, d + 1, Len(list))) = Len(list) - d
      /\ \A k \in 1..(Len(list) - d) :
           SubSeq(list, d + 1, Len(list))[k] = list[k + d]
  BY <1>1, <1>2, SubSeqProperties
<1>. QED
  BY <1>2, <1>3, <1>4 DEF d

\* compute_slot_leader returns an index of the list, and never that of a skipped
\* holder.
LEMMA SlotLeaderIsCandidate ==
  ASSUME NEW weights \in Seq(Nat), NEW skip \in Int, skip <= Len(weights),
         NEW r \in 0..(Total(Candidates(weights, skip)) - 1)
  PROVE  SlotLeader(weights, skip, r) \in (Max({0, skip}) + 1)..Len(weights)
<1>. DEFINE index == WeightedSample(Candidates(weights, skip), r)
<1>1. Len(weights) \in Nat
  BY LenProperties
<1>2. /\ Candidates(weights, skip) \in Seq(Nat)
      /\ Len(Candidates(weights, skip)) = Len(weights) - Dropped(weights, skip)
      /\ Dropped(weights, skip) \in 0..Len(weights)
  BY CandidatesProperties
<1>3. index \in 1..(Len(weights) - Dropped(weights, skip))
  BY <1>2, SampleExists
<1>4. SlotLeader(weights, skip, r) = Max({1, index + skip})
  BY DEF SlotLeader, LeaderIndex
<1>5. index + skip \in Int /\ index \in Int
  BY <1>1, <1>3
<1>. HIDE DEF index
<1>6. /\ Max({1, index + skip}) = IF 1 >= index + skip THEN 1 ELSE index + skip
      /\ Max({0, skip}) = IF 0 >= skip THEN 0 ELSE skip
  BY <1>5, MaxOfTwo
<1>7. CASE skip >= 0
  BY <1>1, <1>2, <1>3, <1>4, <1>5, <1>6, <1>7 DEF Dropped
<1>8. CASE skip < 0
  BY <1>1, <1>2, <1>3, <1>4, <1>5, <1>6, <1>8 DEF Dropped
<1>. QED
  BY <1>7, <1>8

=============================================================================
