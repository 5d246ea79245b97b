----------------------------- MODULE LaneProofs -----------------------------
(***************************************************************************)
(* Proofs about Lane, for every field, curve, number of digits and sets of *)
(* keys and scalars: no digit leads an unchecked selection out of its      *)
(* table (DigitsStayInBounds), and no slot of a table and no T that was    *)
(* skipped is ever read (NothingReadUnwritten).  Then what the coordinates *)
(* stand for in the group of the curve: tables hold the multiples of their *)
(* key (TableHoldsMultiples), a ladder ends at its point                   *)
(* (LadderEndsAtItsPoint), an encoding decodes to the point it stands for  *)
(* (DecodingIsFaithful), and the scores are the verdicts of Policy on      *)
(* residues (ScoresArePolicy).                                             *)
(*                                                                         *)
(* And, over the same field, about the one inversion that a queue of       *)
(* ladder ends shares (EachScaledByItsOwn, OrdersAreTheirOwn) and the      *)
(* table of the base point (BaseEntriesAreMultiples).                      *)
(***************************************************************************)
EXTENDS Lane, WellFoundedInduction, SequenceTheorems, FiniteSetTheorems, TLAPS

-----------------------------------------------------------------------------
(***************************************************************************)
(* Recursive functions                                                     *)
(***************************************************************************)

\* A set of natural numbers that is not empty has a least element.
LEMMA HasLeast ==
    ASSUME NEW T \in SUBSET Nat, T # {}
    PROVE  \E x \in T : \A y \in T : x <= y
<1>1. PICK x \in T : \A y \in T : ~ (<<y, x>> \in OpToRel(<, Nat))
  BY NatLessThanWellFounded, WFMin
<1>2. \A y \in T : ~ (y < x)
  BY <1>1 DEF OpToRel
<1> QED BY <1>2

\* The first i values of a recursion that takes value i from an earlier one
Follows(f, i, first, earlier, step) ==
    f[0] = first /\ \A j \in 1..i : f[j] = step[j][f[earlier[j]]]

\* Such a recursion has a function.
LEMMA RecursionHasFunction ==
    ASSUME NEW V, NEW n \in Nat, NEW first \in V, NEW step \in [1..n -> [V -> V]],
           NEW earlier \in [1..n -> Nat], \A j \in 1..n : earlier[j] < j
    PROVE  \E f \in [0..n -> V] : Follows(f, n, first, earlier, step)
<1> DEFINE Good(i) == \E f \in [0..i -> V] : Follows(f, i, first, earlier, step)
           bad == {i \in 0..n : ~Good(i)}
<1>1. SUFFICES ASSUME bad # {} PROVE FALSE
  <2>1. n \in 0..n
    OBVIOUS
  <2> QED BY <2>1
<1>2. PICK i \in bad : \A k \in bad : i <= k
  <2>1. bad \in SUBSET Nat
    OBVIOUS
  <2> HIDE DEF bad
  <2> QED BY <1>1, <2>1, HasLeast
<1>3. i \in 0..n /\ ~Good(i)
  OBVIOUS
<1>4. i # 0
  <2>1. [j \in 0..0 |-> first] \in [0..0 -> V] /\ Follows([j \in 0..0 |-> first], 0, first, earlier, step)
    BY DEF Follows
  <2>2. Good(0)
    BY <2>1
  <2> QED BY <1>3, <2>2
<1>5. Good(i - 1)
  BY <1>2, <1>3, <1>4
<1>6. PICK f \in [0..(i - 1) -> V] : Follows(f, i - 1, first, earlier, step)
  BY <1>5
<1> DEFINE g == [j \in 0..i |-> IF j < i THEN f[j] ELSE step[i][f[earlier[i]]]]
<1>7. earlier[i] \in 0..(i - 1) /\ step[i] \in [V -> V]
  BY <1>3, <1>4
<1>8. g \in [0..i -> V]
  BY <1>3, <1>6, <1>7
<1>9. g[0] = first
  BY <1>3, <1>4, <1>6 DEF Follows
<1>10. ASSUME NEW j \in 1..i PROVE g[j] = step[j][g[earlier[j]]]
  <2>1. earlier[j] \in 0..(j - 1) /\ g[earlier[j]] = f[earlier[j]]
    BY <1>3
  <2>2. CASE j < i
    <3>1. j \in 1..(i - 1) /\ g[j] = f[j]
      BY <1>3, <2>2
    <3>2. f[j] = step[j][f[earlier[j]]]
      <4> HIDE DEF g
      <4> QED BY <1>6, <3>1 DEF Follows
    <3> HIDE DEF g
    <3> QED BY <2>1, <3>1, <3>2
  <2>3. CASE j = i
    BY <1>3, <2>1, <2>3
  <2>4. j < i \/ j = i
    BY <1>3
  <2> HIDE DEF g
  <2> QED BY <2>2, <2>3, <2>4
<1>11. Good(i)
  <2> HIDE DEF g
  <2> QED BY <1>8, <1>9, <1>10 DEF Follows
<1> QED BY <1>3, <1>11

\* Every value of it is in V if the first is and each follows its earlier one there.
LEMMA RecursionStaysIn ==
    ASSUME NEW V, NEW n \in Nat, NEW f, NEW earlier \in [1..n -> Nat], \A j \in 1..n : earlier[j] < j,
           f[0] \in V, \A j \in 1..n : f[earlier[j]] \in V => f[j] \in V
    PROVE  \A j \in 0..n : f[j] \in V
<1> DEFINE bad == {j \in 0..n : f[j] \notin V}
<1>1. SUFFICES ASSUME bad # {} PROVE FALSE
  OBVIOUS
<1>2. PICK j \in bad : \A k \in bad : j <= k
  <2>1. bad \in SUBSET Nat
    OBVIOUS
  <2> HIDE DEF bad
  <2> QED BY <1>1, <2>1, HasLeast
<1>3. j \in 1..n /\ f[j] \notin V
  OBVIOUS
<1>4. earlier[j] \in 0..n /\ earlier[j] < j
  BY <1>3
<1>5. f[earlier[j]] \in V
  BY <1>2, <1>3, <1>4
<1> QED BY <1>3, <1>5

LEMMA WeightIs ==
    /\ Weight[0] = 1 /\ \A i \in 0..DIGITS : Weight[i] \in Nat \ {0}
    /\ \A i \in 1..DIGITS : Weight[i] = 16 * Weight[i - 1]
<1> DEFINE V == Nat \ {0}
           earlier == [j \in 1..DIGITS |-> j - 1]
           step == [j \in 1..DIGITS |-> [v \in V |-> 16 * v]]
           IsWeight(f) == f = [i \in 0..DIGITS |-> IF i = 0 THEN 1 ELSE 16 * f[i - 1]]
<1>1. DIGITS \in Nat /\ 1 \in V
  BY Radix16Assumption
<1>2. step \in [1..DIGITS -> [V -> V]] /\ earlier \in [1..DIGITS -> Nat] /\ \A j \in 1..DIGITS : earlier[j] < j
  BY <1>1
<1>3. PICK f \in [0..DIGITS -> V] : Follows(f, DIGITS, 1, earlier, step)
  <2> HIDE DEF V, earlier, step
  <2> QED BY <1>1, <1>2, RecursionHasFunction
<1>4. ASSUME NEW i \in 0..DIGITS PROVE f[i] = IF i = 0 THEN 1 ELSE 16 * f[i - 1]
  <2>1. CASE i = 0
    BY <1>3, <2>1 DEF Follows
  <2>2. CASE i \in 1..DIGITS
    <3>1. f[i] = step[i][f[earlier[i]]]
      <4> HIDE DEF step, earlier
      <4> QED BY <1>3, <2>2 DEF Follows
    <3>2. f[i - 1] \in V /\ earlier[i] = i - 1
      BY <1>1, <1>3, <2>2
    <3> QED BY <1>1, <2>2, <3>1, <3>2
  <2> QED BY <1>1, <2>1, <2>2
<1>5. IsWeight(f)
  BY <1>3, <1>4
<1>6. IsWeight(Weight)
  BY <1>5, Zenon DEF Weight
<1>7. Weight[0] = 1 /\ \A i \in 1..DIGITS : Weight[i] = 16 * Weight[i - 1]
  BY <1>1, <1>6
<1>8. Weight[0] \in V /\ \A j \in 1..DIGITS : Weight[earlier[j]] \in V => Weight[j] \in V
  <2>1. Weight[0] \in V
    BY <1>1, <1>6
  <2>2. ASSUME NEW j \in 1..DIGITS PROVE Weight[j] = 16 * Weight[earlier[j]]
    BY <1>1, <1>6
  <2> HIDE DEF earlier
  <2> QED BY <2>1, <2>2
<1> HIDE DEF V, earlier
<1>9. \A j \in 0..DIGITS : Weight[j] \in V
  BY <1>1, <1>2, <1>8, RecursionStaysIn
<1> QED BY <1>7, <1>9 DEF V

LEMMA WeightsPositive == \A i \in 0..DIGITS : Weight[i] \in Nat \ {0}
BY WeightIs

LEMMA BiasNatural == Bias \in Nat
<1> DEFINE earlier == [j \in 1..DIGITS |-> j - 1]
           step == [j \in 1..DIGITS |-> [v \in Nat |-> v + 8 * Weight[j - 1]]]
           IsSum(f) == f = [i \in 0..DIGITS |-> IF i = 0 THEN 0 ELSE f[i - 1] + 8 * Weight[i - 1]]
           sum == CHOOSE f : IsSum(f)
<1>1. DIGITS \in Nat /\ \A j \in 1..DIGITS : Weight[j - 1] \in Nat
  BY Radix16Assumption, WeightsPositive
<1>2. /\ step \in [1..DIGITS -> [Nat -> Nat]]
      /\ earlier \in [1..DIGITS -> Nat] /\ \A j \in 1..DIGITS : earlier[j] < j
  BY <1>1
<1>3. PICK f \in [0..DIGITS -> Nat] : Follows(f, DIGITS, 0, earlier, step)
  <2> HIDE DEF earlier, step
  <2> QED BY <1>1, <1>2, RecursionHasFunction
<1>4. ASSUME NEW i \in 0..DIGITS PROVE f[i] = IF i = 0 THEN 0 ELSE f[i - 1] + 8 * Weight[i - 1]
  <2>1. CASE i = 0
    BY <1>3, <2>1 DEF Follows
  <2>2. CASE i \in 1..DIGITS
    <3>1. f[i] = step[i][f[earlier[i]]]
      <4> HIDE DEF step, earlier
      <4> QED BY <1>3, <2>2 DEF Follows
    <3>2. f[i - 1] \in Nat /\ earlier[i] = i - 1
      BY <1>1, <1>3, <2>2
    <3> QED BY <1>1, <2>2, <3>1, <3>2
  <2> QED BY <1>1, <2>1, <2>2
<1>5. IsSum(f)
  BY <1>3, <1>4
<1>6. IsSum(sum)
  BY <1>5, Zenon
<1>7. Bias = sum[DIGITS]
  BY DEF Bias
<1> HIDE DEF sum
<1>8. sum[0] \in Nat /\ \A j \in 1..DIGITS : sum[earlier[j]] \in Nat => sum[j] \in Nat
  <2>1. sum[0] = 0
    BY <1>1, <1>6
  <2>2. ASSUME NEW j \in 1..DIGITS, sum[earlier[j]] \in Nat PROVE sum[j] \in Nat
    <3>1. sum[j] = sum[j - 1] + 8 * Weight[j - 1] /\ earlier[j] = j - 1
      BY <1>1, <1>6
    <3>2. Weight[j - 1] \in Nat
      BY <1>1
    <3> QED BY <2>2, <3>1, <3>2
  <2> QED BY <2>1, <2>2
<1> HIDE DEF earlier
<1>9. \A j \in 0..DIGITS : sum[j] \in Nat
  BY <1>1, <1>2, <1>8, RecursionStaysIn
<1> QED BY <1>1, <1>7, <1>9

-----------------------------------------------------------------------------
(***************************************************************************)
(* The digits of a scalar                                                  *)
(***************************************************************************)
BalancedDigits == (-8)..7

\* Whatever the scalar, the biased digits are balanced, even where a carry out of
\* the top is lost.
LEMMA DigitsBalanced ==
    ASSUME NEW n \in Nat
    PROVE  ToRadix16(n) \in [0..(DIGITS - 1) -> BalancedDigits]
<1>1. ASSUME NEW m \in Nat, NEW w \in Nat \ {0} PROVE ((m \div w) % 16) - 8 \in BalancedDigits
  <2>1. m \div w \in Int
    BY SMT
  <2> QED BY <2>1, SMT DEF BalancedDigits
<1>2. ASSUME NEW i \in 0..(DIGITS - 1) PROVE Weight[i] \in Nat \ {0}
  BY WeightsPositive, Radix16Assumption
<1>3. n + Bias \in Nat
  BY BiasNatural
<1> QED BY <1>1, <1>2, <1>3, Zenon DEF ToRadix16

LEMMA ScalarsNatural == Scalars \subseteq Nat
BY Radix16Assumption, WeightsPositive DEF Scalars

LEMMA PairsInBounds ==
    ASSUME NEW digits \in [0..(DIGITS - 1) -> BalancedDigits], NEW pair \in 0..(DIGITS \div 2 - 1)
    PROVE  BasePairDigit(digits, pair) \in (-136)..136
<1>1. 2 * pair \in 0..(DIGITS - 1) /\ 2 * pair + 1 \in 0..(DIGITS - 1)
  BY Radix16Assumption, SMT
<1>2. digits[2 * pair] \in BalancedDigits /\ digits[2 * pair + 1] \in BalancedDigits
  BY <1>1
<1>3. ASSUME NEW low \in BalancedDigits, NEW high \in BalancedDigits
      PROVE  low + 16 * high \in (-136)..136
  BY SMT DEF BalancedDigits
<1> QED BY <1>2, <1>3 DEF BasePairDigit

-----------------------------------------------------------------------------
(***************************************************************************)
(* The field                                                               *)
(***************************************************************************)
LEMMA Residues ==
    /\ FIELD_P \in Nat /\ FIELD_P >= 5 /\ 0 \in Field /\ 1 \in Field /\ 2 \in Field /\ Field \subseteq Nat
    /\ \A n \in Int : n % FIELD_P \in Field
<1>1. FIELD_P \in Nat /\ FIELD_P >= 5
  BY EdwardsAssumption, SMT
<1>2. ASSUME NEW n \in Int, NEW m \in Nat \ {0} PROVE n % m \in 0..(m - 1)
  BY SMT
<1> QED BY <1>1, <1>2 DEF Field

LEMMA FieldClosed ==
    ASSUME NEW a \in Int, NEW b \in Int
    PROVE  Sum(a, b) \in Field /\ Difference(a, b) \in Field /\ Product(a, b) \in Field
<1>1. a + b \in Int /\ a - b \in Int /\ a * b \in Int
  OBVIOUS
<1> QED BY <1>1, Residues DEF Sum, Difference, Product

LEMMA FieldUnary ==
    ASSUME NEW a \in Int
    PROVE  Square(a) \in Field /\ Negated(a) \in Field
BY FieldClosed DEF Square, Negated

LEMMA FieldNumbers == Field \subseteq Int
BY DEF Field

\* The same for elements of the field, and its constants
LEMMA FieldOps ==
    \A a, b \in Field : /\ Sum(a, b) \in Field /\ Difference(a, b) \in Field /\ Product(a, b) \in Field
                        /\ Square(a) \in Field /\ Negated(a) \in Field
<1>1. Field \subseteq Int
  BY Residues
<1> QED BY <1>1, FieldClosed, FieldUnary

LEMMA FieldConstants == 0 \in Field /\ 1 \in Field /\ 2 \in Field /\ CURVE_D \in Field /\ TwoD \in Field
<1>1. CURVE_D \in Field
  BY EdwardsAssumption DEF Field
<1> QED BY <1>1, Residues, FieldOps DEF TwoD

\* Multiples of the modulus do not show in a residue.
LEMMA ResidueOfMultiple ==
    ASSUME NEW p \in Nat \ {0}, NEW k \in Int, NEW n \in Int
    PROVE  (k * p + n) % p = n % p
<1> DEFINE q == n \div p
           r == n % p
           q2 == (k * p + n) \div p
           r2 == (k * p + n) % p
<1>1. q \in Int /\ r \in 0..(p - 1) /\ n = q * p + r
  BY SMT
<1>2. k * p + n \in Int
  OBVIOUS
<1>3. q2 \in Int /\ r2 \in 0..(p - 1) /\ k * p + n = q2 * p + r2
  BY <1>2, SMT
<1> HIDE DEF q, r, q2, r2
<1> DEFINE d == k + q - q2
<1>4. d \in Int /\ d * p = r2 - r
  BY <1>1, <1>3, SMT
<1> HIDE DEF d
<1>5. d = 0
  <2>1. d >= 1 => d * p >= p
    BY <1>4, SMT
  <2>2. d <= -1 => d * p <= -p
    BY <1>4, SMT
  <2> QED BY <1>1, <1>3, <1>4, <2>1, <2>2, SMT
<1>6. r2 = r
  BY <1>1, <1>3, <1>4, <1>5, SMT
<1> QED BY <1>6 DEF r, r2

\* A product depends on the residues of its factors only.
LEMMA ProductOfResidues ==
    ASSUME NEW a \in Int, NEW b \in Int
    PROVE  Product(a % FIELD_P, b % FIELD_P) = Product(a, b)
<1> DEFINE p == FIELD_P
           qa == a \div p
           ra == a % p
           qb == b \div p
           rb == b % p
<1>1. p \in Nat \ {0}
  BY Residues
<1> HIDE DEF p
<1>2. ASSUME NEW n \in Int PROVE n \div p \in Int /\ n % p \in Int /\ n = (n \div p) * p + (n % p)
  BY <1>1, SMT
<1>3. qa \in Int /\ ra \in Int /\ a = qa * p + ra /\ qb \in Int /\ rb \in Int /\ b = qb * p + rb
  BY <1>2
<1> HIDE DEF qa, ra, qb, rb
<1> DEFINE k == qa * qb * p + qa * rb + qb * ra
<1>4. k \in Int /\ ra * rb \in Int /\ a * b = k * p + ra * rb
  BY <1>1, <1>3, SMT
<1> HIDE DEF k
<1>5. (a * b) % p = (ra * rb) % p
  <2> DEFINE rest == ra * rb
  <2>1. rest \in Int /\ a * b = k * p + rest
    BY <1>4
  <2> HIDE DEF rest
  <2>2. (k * p + rest) % p = rest % p
    BY <1>1, <1>4, <2>1, ResidueOfMultiple
  <2>3. (a * b) % p = rest % p
    BY <2>1, <2>2, Zenon
  <2> QED BY <2>3 DEF rest
<1> QED BY <1>5 DEF Product, p, ra, rb

\* Square and multiply stays in the field, and so does the inversion.
\* The powers of square-and-multiply, up to the n-th
ArePowers(f, a, n) ==
    /\ f \in [0..n -> Field] /\ f[0] = 1
    /\ \A i \in 1..n : f[i] = Product(Square(f[i \div 2]), IF i % 2 = 1 THEN a ELSE 1)

LEMMA PowersLeadTo ==
    ASSUME NEW a \in Int, NEW n \in Nat
    PROVE  \E f : ArePowers(f, a, n) /\ Power(a, n) = f[n]
<1> DEFINE factor(i) == IF i % 2 = 1 THEN a ELSE 1
           earlier == [j \in 1..n |-> j \div 2]
           step == [j \in 1..n |-> [v \in Field |-> Product(Square(v), factor(j))]]
           IsPower(f) == f = [i \in 0..n |-> IF i = 0 THEN 1
                                             ELSE Product(Square(f[i \div 2]), IF i % 2 = 1 THEN a ELSE 1)]
           power == CHOOSE f : IsPower(f)
<1>1. 1 \in Field /\ Field \subseteq Int
  BY Residues
<1>2. ASSUME NEW v \in Field, NEW j \in 1..n PROVE Product(Square(v), factor(j)) \in Field
  <2>1. Square(v) \in Int /\ factor(j) \in Int
    BY <1>1, FieldUnary
  <2> HIDE DEF factor
  <2> QED BY <2>1, FieldClosed
<1>3. \A j \in 1..n : j \div 2 \in 0..(j - 1)
  BY SMT
<1>4. earlier \in [1..n -> Nat] /\ \A j \in 1..n : earlier[j] < j /\ earlier[j] = j \div 2
  BY <1>3
<1>5. step \in [1..n -> [Field -> Field]]
  <2> HIDE DEF factor
  <2> QED BY <1>2
<1>6. PICK f \in [0..n -> Field] : Follows(f, n, 1, earlier, step)
  <2> HIDE DEF earlier, step
  <2> QED BY <1>1, <1>4, <1>5, RecursionHasFunction
<1>7. ASSUME NEW i \in 0..n
      PROVE  f[i] = IF i = 0 THEN 1 ELSE Product(Square(f[i \div 2]), factor(i))
  <2> HIDE DEF factor
  <2>1. CASE i = 0
    BY <1>6, <2>1 DEF Follows
  <2>2. CASE i \in 1..n
    <3>1. f[i] = step[i][f[earlier[i]]]
      <4> HIDE DEF step, earlier
      <4> QED BY <1>6, <2>2 DEF Follows
    <3>2. earlier[i] = i \div 2 /\ i \div 2 \in 0..n
      BY <1>3, <2>2
    <3>3. f[i \div 2] \in Field
      BY <1>6, <3>2
    <3> QED BY <2>2, <3>1, <3>2, <3>3
  <2> QED BY <2>1, <2>2
<1>8. IsPower(f)
  BY <1>6, <1>7
<1>9. IsPower(power)
  BY <1>8, Zenon
<1>10. Power(a, n) = power[n]
  BY DEF Power
<1> HIDE DEF power
<1>11. power[0] \in Field
  BY <1>1, <1>9
<1>12. ASSUME NEW j \in 1..n, power[earlier[j]] \in Field PROVE power[j] \in Field
  <2>1. power[j] = Product(Square(power[j \div 2]), factor(j))
    BY <1>9
  <2> HIDE DEF factor, earlier
  <2> QED BY <1>2, <1>4, <1>12, <2>1
<1> HIDE DEF earlier
<1>13. \A j \in 0..n : power[j] \in Field
  BY <1>4, <1>11, <1>12, RecursionStaysIn
<1>14. power \in [0..n -> Field] /\ power[0] = 1
  BY <1>9, <1>13
<1>15. \A i \in 1..n : power[i] = Product(Square(power[i \div 2]), IF i % 2 = 1 THEN a ELSE 1)
  BY <1>9
<1>16. ArePowers(power, a, n)
  BY <1>14, <1>15 DEF ArePowers
<1> QED BY <1>10, <1>16

LEMMA PowerInField ==
    ASSUME NEW a \in Int, NEW n \in Nat
    PROVE  Power(a, n) \in Field
<1>1. PICK f : ArePowers(f, a, n) /\ Power(a, n) = f[n]
  BY PowersLeadTo
<1> QED BY <1>1 DEF ArePowers

\* A power from the one of half the exponent
LEMMA PowerUnfolds ==
    ASSUME NEW a \in Int
    PROVE  /\ Power(a, 0) = 1
           /\ \A n \in Nat \ {0} : Power(a, n) = Product(Square(Power(a, n \div 2)), IF n % 2 = 1 THEN a ELSE 1)
<1>1. Power(a, 0) = 1
  <2>1. PICK f : ArePowers(f, a, 0) /\ Power(a, 0) = f[0]
    BY PowersLeadTo
  <2> QED BY <2>1 DEF ArePowers
<1>2. ASSUME NEW n \in Nat \ {0}
      PROVE  Power(a, n) = Product(Square(Power(a, n \div 2)), IF n % 2 = 1 THEN a ELSE 1)
  <2> DEFINE m == n \div 2
             earlier == [j \in 1..m |-> j \div 2]
  <2>1. m \in Nat /\ m \in 0..n /\ m < n /\ n \in 1..n
    BY SMT
  <2>2. PICK f : ArePowers(f, a, n) /\ Power(a, n) = f[n]
    BY PowersLeadTo
  <2>3. PICK g : ArePowers(g, a, m) /\ Power(a, m) = g[m]
    <3> HIDE DEF m
    <3> QED BY <2>1, PowersLeadTo
  <2> DEFINE alike == [j \in 0..m |-> f[j] = g[j]]
  <2>4. \A j \in 1..m : j \div 2 \in 0..(j - 1)
    BY SMT
  <2>5. earlier \in [1..m -> Nat] /\ \A j \in 1..m : earlier[j] < j /\ earlier[j] = j \div 2
    <3> HIDE DEF m
    <3> QED BY <2>1, <2>4
  <2>6. alike[0] \in {TRUE}
    <3>1. f[0] = g[0] /\ 0 \in 0..m
      <4> HIDE DEF m
      <4> QED BY <2>1, <2>2, <2>3 DEF ArePowers
    <3> HIDE DEF m
    <3> QED BY <3>1
  <2>7. ASSUME NEW j \in 1..m, alike[earlier[j]] \in {TRUE} PROVE alike[j] \in {TRUE}
    <3> DEFINE half == j \div 2
               factor == IF j % 2 = 1 THEN a ELSE 1
    <3>1. half \in 0..m /\ j \in 0..m /\ j \in 1..n /\ earlier[j] = half
      <4>1. half \in 0..(j - 1)
        BY <2>4
      <4> HIDE DEF half
      <4> QED BY <2>1, <2>4, <2>5, <4>1 DEF half
    <3>2. f[half] = g[half]
      <4> HIDE DEF half, m, earlier
      <4> QED BY <2>7, <3>1
    <3>3. f[j] = Product(Square(f[half]), factor)
      <4> HIDE DEF m
      <4> QED BY <2>2, <3>1 DEF ArePowers
    <3>4. g[j] = Product(Square(g[half]), factor)
      <4> HIDE DEF m
      <4> QED BY <2>3 DEF ArePowers
    <3>5. f[j] = g[j]
      BY <3>2, <3>3, <3>4, Zenon
    <3> HIDE DEF m
    <3> QED BY <3>1, <3>5
  <2>8. \A j \in 0..m : alike[j] \in {TRUE}
    <3> HIDE DEF m, alike, earlier
    <3> QED BY <2>1, <2>5, <2>6, <2>7, RecursionStaysIn
  <2>9. f[m] = g[m]
    <3>1. m \in 0..m
      <4> HIDE DEF m
      <4> QED BY <2>1
    <3>2. alike[m] = TRUE
      BY <2>8, <3>1, Zenon
    <3>3. alike[m] = (f[m] = g[m])
      BY <3>1, Zenon
    <3> QED BY <3>2, <3>3
  <2> DEFINE factor == IF n % 2 = 1 THEN a ELSE 1
  <2>10. f[n] = Product(Square(f[m]), factor)
    BY <2>1, <2>2 DEF ArePowers
  <2> QED BY <2>2, <2>3, <2>9, <2>10, Zenon
<1> QED BY <1>1, <1>2

LEMMA InvertedInField == ASSUME NEW a \in Int PROVE Inverted(a) \in Field
<1>1. FIELD_P - 2 \in Nat
  BY Residues
<1> QED BY <1>1, PowerInField DEF Inverted

-----------------------------------------------------------------------------
(***************************************************************************)
(* Points                                                                  *)
(***************************************************************************)
AffinePoints == [x : Field, y : Field]

LEMMA PlusCloses ==
    ASSUME NEW p \in AffinePoints, NEW q \in AffinePoints
    PROVE  Plus(p, q) \in AffinePoints
<1> DEFINE xy == Product(CURVE_D, Product(Product(p.x, q.x), Product(p.y, q.y)))
           px == Sum(Product(p.x, q.y), Product(q.x, p.y))
           py == Sum(Product(p.y, q.y), Product(p.x, q.x))
           zx == Inverted(Sum(1, xy))
           zy == Inverted(Difference(1, xy))
<1>1. p.x \in Field /\ p.y \in Field /\ q.x \in Field /\ q.y \in Field
  BY DEF AffinePoints
<1>2. xy \in Field /\ px \in Field /\ py \in Field
  BY <1>1, FieldOps, FieldConstants
<1> HIDE DEF xy, px, py
<1>3. Sum(1, xy) \in Field /\ Difference(1, xy) \in Field
  BY <1>2, FieldOps, FieldConstants
<1>4. zx \in Field /\ zy \in Field
  <2>1. Field \subseteq Int
    BY Residues
  <2> QED BY <1>3, <2>1, InvertedInField
<1> HIDE DEF zx, zy
<1>5. Product(px, zx) \in Field /\ Product(py, zy) \in Field
  BY <1>2, <1>4, FieldOps
<1>6. Plus(p, q) = [x |-> Product(px, zx), y |-> Product(py, zy)]
  BY Zenon DEF Plus, xy, px, py, zx, zy
<1> QED BY <1>5, <1>6 DEF AffinePoints

\* The multiples of a point are points, from the neutral one on.
LEMMA MultiplesInField ==
    ASSUME NEW p \in AffinePoints
    PROVE  MultiplesOf(p) \in [0..(8 * L - 1) -> AffinePoints] /\ MultiplesOf(p)[0] = Neutral
<1> DEFINE last == 8 * L - 1
<1>1. last \in Nat
  BY EdwardsAssumption
<1>2. Neutral \in AffinePoints
  BY Residues DEF Neutral, AffinePoints
<1>3. MultiplesOf(p) \in [0..last -> AffinePoints] /\ MultiplesOf(p)[0] = Neutral
  <2> DEFINE earlier == [j \in 1..last |-> IF j % 2 = 1 THEN j - 1 ELSE j \div 2]
             step == [j \in 1..last |-> [v \in AffinePoints |-> IF j % 2 = 1 THEN Plus(v, p) ELSE Plus(v, v)]]
             AreMultiples(f) == f = [i \in 0..last |-> IF i = 0 THEN Neutral
                                                       ELSE IF i % 2 = 1 THEN Plus(f[i - 1], p)
                                                       ELSE Plus(f[i \div 2], f[i \div 2])]
             multiple == CHOOSE f : AreMultiples(f)
  <2>1. \A j \in 1..last : (j - 1) \in 0..(j - 1) /\ (j \div 2) \in 0..(j - 1)
    BY <1>1, SMT
  <2>2. /\ earlier \in [1..last -> Nat] /\ \A j \in 1..last : earlier[j] < j
        /\ step \in [1..last -> [AffinePoints -> AffinePoints]]
    BY <1>1, <2>1, PlusCloses
  <2>3. PICK f \in [0..last -> AffinePoints] : Follows(f, last, Neutral, earlier, step)
    <3> HIDE DEF last, earlier, step
    <3> QED BY <1>1, <1>2, <2>2, RecursionHasFunction
  <2> HIDE DEF last
  <2>4. ASSUME NEW i \in 0..last
        PROVE  f[i] = IF i = 0 THEN Neutral
                      ELSE IF i % 2 = 1 THEN Plus(f[i - 1], p)
                      ELSE Plus(f[i \div 2], f[i \div 2])
    <3>1. CASE i = 0
      BY <2>3, <3>1 DEF Follows
    <3>2. CASE i \in 1..last
      <4>1. f[i] = step[i][f[earlier[i]]]
        <5> HIDE DEF step, earlier
        <5> QED BY <2>3, <3>2 DEF Follows
      <4>2. f[i - 1] \in AffinePoints /\ f[i \div 2] \in AffinePoints
        BY <1>1, <2>1, <2>3, <3>2
      <4>3. i % 2 = 1 => f[i] = Plus(f[i - 1], p)
        BY <3>2, <4>1, <4>2
      <4>4. i % 2 # 1 => f[i] = Plus(f[i \div 2], f[i \div 2])
        BY <3>2, <4>1, <4>2
      <4> QED BY <1>1, <3>2, <4>3, <4>4
    <3> QED BY <1>1, <3>1, <3>2
  <2>5. AreMultiples(f)
    BY <2>3, <2>4
  <2>6. AreMultiples(multiple)
    BY <2>5, Zenon
  <2>7. MultiplesOf(p) = [i \in 0..last |-> multiple[i]]
    BY Zenon DEF MultiplesOf, last
  <2> HIDE DEF multiple
  <2>8. multiple[0] \in AffinePoints /\ multiple[0] = Neutral
    BY <1>1, <1>2, <2>6
  <2>9. ASSUME NEW j \in 1..last, multiple[earlier[j]] \in AffinePoints PROVE multiple[j] \in AffinePoints
    <3>1. CASE j % 2 = 1
      <4>1. multiple[j] = Plus(multiple[j - 1], p) /\ earlier[j] = j - 1
        BY <1>1, <2>6, <3>1
      <4> QED BY <2>9, <4>1, PlusCloses
    <3>2. CASE j % 2 # 1
      <4>1. multiple[j] = Plus(multiple[j \div 2], multiple[j \div 2]) /\ earlier[j] = j \div 2
        BY <1>1, <2>6, <3>2
      <4> QED BY <2>9, <4>1, PlusCloses
    <3> QED BY <3>1, <3>2
  <2> HIDE DEF earlier
  <2>10. \A j \in 0..last : multiple[j] \in AffinePoints
    BY <1>1, <2>2, <2>8, <2>9, RecursionStaysIn
  <2>11. 0 \in 0..last
    BY <1>1
  <2> QED BY <2>7, <2>8, <2>10, <2>11
<1> QED BY <1>3

\* The multiples of the generator, all different
LEMMA GeneratedIs ==
    /\ Generated \in [0..(8 * L - 1) -> AffinePoints] /\ Generated[0] = Neutral
    /\ Cardinality({Generated[n] : n \in 0..(8 * L - 1)}) = 8 * L
<1> DEFINE g == CHOOSE p \in CurvePoints : Generates(p)
<1>1. g \in CurvePoints /\ Generates(g)
  BY GeneratorAssumption, Zenon
<1>2. Generated = MultiplesOf(g)
  BY Zenon DEF Generated
<1> HIDE DEF g
<1>3. g \in AffinePoints
  BY <1>1 DEF CurvePoints, AffinePoints
<1>4. Cardinality({Generated[n] : n \in 0..(8 * L - 1)}) = 8 * L
  BY <1>1, <1>2, Zenon DEF Generates
<1> QED BY <1>2, <1>3, <1>4, MultiplesInField

LEMMA PointsInField == ASSUME NEW n \in Int PROVE PointAt(n) \in AffinePoints
<1>1. n % (8 * L) \in 0..(8 * L - 1)
  <2>1. 8 * L \in Nat \ {0}
    BY EdwardsAssumption
  <2>2. ASSUME NEW m \in Nat \ {0} PROVE n % m \in 0..(m - 1)
    BY SMT
  <2> QED BY <2>1, <2>2
<1> QED BY <1>1, GeneratedIs DEF PointAt

\* Extended coordinates, and a point that a table holds
Coordinates  == [x : Field, y : Field, z : Field, t : Field]
CachedPoints == [yPlusX : Field, yMinusX : Field, z2 : Field, t2d : Field]
BaseEntries  == [yPlusX : Field, yMinusX : Field, t2d : Field]

\* The point that every formula ends with.  Where t is computed it is the right one.
Extended(e, f, g, h, computeT) ==
    [x |-> Product(e, f), y |-> Product(g, h), z |-> Product(f, g), t |-> IF computeT THEN Product(e, h) ELSE 0]

LEMMA ExtendedPoint ==
    ASSUME NEW e \in Field, NEW f \in Field, NEW g \in Field, NEW h \in Field, NEW computeT \in BOOLEAN
    PROVE  /\ Extended(e, f, g, h, computeT) \in Coordinates
           /\ computeT => HasT(Extended(e, f, g, h, computeT))
<1>1. /\ Product(e, f) \in Field /\ Product(g, h) \in Field /\ Product(f, g) \in Field
      /\ Product(e, h) \in Field /\ 0 \in Field
  BY FieldOps, FieldConstants
<1>2. Extended(e, f, g, h, computeT) \in Coordinates
  BY <1>1 DEF Extended, Coordinates
<1>3. ASSUME computeT PROVE HasT(Extended(e, f, g, h, computeT))
  <2> DEFINE eh == e * h
             fg == f * g
             ef == e * f
             gh == g * h
  <2>1. e \in Int /\ f \in Int /\ g \in Int /\ h \in Int
    BY Residues
  <2>2. eh \in Int /\ fg \in Int /\ ef \in Int /\ gh \in Int /\ eh * fg = ef * gh
    BY <2>1, SMT
  <2> HIDE DEF eh, fg, ef, gh
  <2>3. /\ Product(eh % FIELD_P, fg % FIELD_P) = Product(eh, fg)
        /\ Product(ef % FIELD_P, gh % FIELD_P) = Product(ef, gh)
    BY <2>2, ProductOfResidues
  <2>4. Product(eh, fg) = Product(ef, gh)
    BY <2>2 DEF Product
  <2>5. Product(Product(e, h), Product(f, g)) = Product(Product(e, f), Product(g, h))
    BY <2>3, <2>4, Zenon DEF Product, eh, fg, ef, gh
  <2> QED BY <1>3, <2>5 DEF HasT, Extended
<1> QED BY <1>2, <1>3

LEMMA DoublingCloses ==
    ASSUME NEW p \in Coordinates, NEW computeT \in BOOLEAN, NEW affineZ \in BOOLEAN
    PROVE  /\ DoubleImpl(p, computeT, affineZ) \in Coordinates
           /\ computeT => HasT(DoubleImpl(p, computeT, affineZ))
<1> DEFINE a  == Square(p.x)
           b  == Square(p.y)
           z2 == IF affineZ THEN 1 ELSE Square(p.z)
           e  == Difference(Square(Sum(p.x, p.y)), Sum(a, b))
           g  == Difference(b, a)
           f  == Difference(g, Sum(z2, z2))
           h  == Negated(Sum(a, b))
<1>1. p.x \in Field /\ p.y \in Field /\ p.z \in Field
  BY DEF Coordinates
<1>2. a \in Field /\ b \in Field /\ z2 \in Field
  BY <1>1, FieldOps, FieldConstants
<1> HIDE DEF a, b, z2
<1>3. e \in Field /\ g \in Field /\ h \in Field
  BY <1>1, <1>2, FieldOps
<1> HIDE DEF e, g, h
<1>4. f \in Field
  BY <1>2, <1>3, FieldOps
<1> HIDE DEF f
<1>5. DoubleImpl(p, computeT, affineZ) = Extended(e, f, g, h, computeT)
  BY Zenon DEF DoubleImpl, Extended, a, b, z2, e, f, g, h
<1> QED BY <1>3, <1>4, <1>5, ExtendedPoint

LEMMA AdditionCloses ==
    ASSUME NEW p \in Coordinates, NEW q \in Coordinates, NEW affineRhs \in BOOLEAN
    PROVE  AddImpl(p, q, affineRhs) \in Coordinates /\ HasT(AddImpl(p, q, affineRhs))
<1> DEFINE a == Product(Difference(p.y, p.x), Difference(q.y, q.x))
           b == Product(Sum(p.y, p.x), Sum(q.y, q.x))
           c == Product(Product(p.t, q.t), TwoD)
           d == IF affineRhs THEN Sum(p.z, p.z) ELSE Product(2, Product(p.z, q.z))
           e == Difference(b, a)
           f == Difference(d, c)
           g == Sum(d, c)
           h == Sum(b, a)
<1>1. /\ p.x \in Field /\ p.y \in Field /\ p.z \in Field /\ p.t \in Field
      /\ q.x \in Field /\ q.y \in Field /\ q.z \in Field /\ q.t \in Field
  BY DEF Coordinates
<1>2. a \in Field /\ b \in Field
  BY <1>1, FieldOps
<1>3. c \in Field
  BY <1>1, FieldOps, FieldConstants
<1>4. d \in Field
  BY <1>1, FieldOps, FieldConstants
<1> HIDE DEF a, b, c, d
<1>5. e \in Field /\ f \in Field /\ g \in Field /\ h \in Field
  BY <1>2, <1>3, <1>4, FieldOps
<1> HIDE DEF e, f, g, h
<1>6. AddImpl(p, q, affineRhs) = Extended(e, f, g, h, TRUE)
  BY Zenon DEF AddImpl, Extended, a, b, c, d, e, f, g, h
<1> QED BY <1>5, <1>6, ExtendedPoint

\* The addition of a point of a table, of a key's or of the base point's
LEMMA CachedAdditionCloses ==
    ASSUME NEW p \in Coordinates, NEW c \in CachedPoints \cup BaseEntries, NEW computeT \in BOOLEAN
    PROVE  /\ AddCached(p, c, computeT) \in Coordinates
           /\ computeT => HasT(AddCached(p, c, computeT))
<1> DEFINE a == Product(Difference(p.y, p.x), c.yMinusX)
           b == Product(Sum(p.y, p.x), c.yPlusX)
           k == Product(p.t, c.t2d)
           d == IF "z2" \in DOMAIN c THEN Product(p.z, c.z2) ELSE Sum(p.z, p.z)
           e == Difference(b, a)
           f == Difference(d, k)
           g == Sum(d, k)
           h == Sum(b, a)
<1>1. p.x \in Field /\ p.y \in Field /\ p.z \in Field /\ p.t \in Field
  BY DEF Coordinates
<1>2. /\ c.yPlusX \in Field /\ c.yMinusX \in Field /\ c.t2d \in Field
      /\ "z2" \in DOMAIN c => c.z2 \in Field
  BY DEF CachedPoints, BaseEntries
<1>3. a \in Field /\ b \in Field /\ k \in Field
  BY <1>1, <1>2, FieldOps
<1>4. d \in Field
  BY <1>1, <1>2, FieldOps
<1> HIDE DEF a, b, k, d
<1>5. e \in Field /\ f \in Field /\ g \in Field /\ h \in Field
  BY <1>3, <1>4, FieldOps
<1> HIDE DEF e, f, g, h
<1>6. AddCached(p, c, computeT) = Extended(e, f, g, h, computeT)
  BY Zenon DEF AddCached, Extended, a, b, k, d, e, f, g, h
<1> QED BY <1>5, <1>6, ExtendedPoint

LEMMA CachedCloses ==
    ASSUME NEW p \in Coordinates
    PROVE  Cached(p) \in CachedPoints /\ CachedOpposite(p) \in CachedPoints
<1>1. p.x \in Field /\ p.y \in Field /\ p.z \in Field /\ p.t \in Field
  BY DEF Coordinates
<1>2. /\ Sum(p.y, p.x) \in Field /\ Difference(p.y, p.x) \in Field /\ Sum(p.z, p.z) \in Field
      /\ Product(p.t, TwoD) \in Field
  BY <1>1, FieldOps, FieldConstants
<1>3. Negated(Product(p.t, TwoD)) \in Field
  BY <1>2, FieldOps
<1> QED BY <1>2, <1>3 DEF Cached, CachedOpposite, CachedPoints

LEMMA IdentityIsCached == CachedIdentity \in CachedPoints
BY FieldConstants DEF CachedIdentity, CachedPoints

LEMMA FromCachedCloses == ASSUME NEW c \in CachedPoints PROVE FromCachedWithoutT(c) \in Coordinates
<1>1. c.yPlusX \in Field /\ c.yMinusX \in Field /\ c.z2 \in Field
  BY DEF CachedPoints
<1>2. Difference(c.yPlusX, c.yMinusX) \in Field /\ Sum(c.yPlusX, c.yMinusX) \in Field /\ 0 \in Field
  BY <1>1, FieldOps, FieldConstants
<1> QED BY <1>1, <1>2 DEF FromCachedWithoutT, Coordinates

LEMMA BaseEntriesClose == ASSUME NEW n \in Int PROVE BaseEntry(n) \in BaseEntries
<1> DEFINE p == PointAt(8 * n)
<1>1. p \in AffinePoints
  <2>1. 8 * n \in Int
    OBVIOUS
  <2> QED BY <2>1, PointsInField
<1> HIDE DEF p
<1>2. p.x \in Field /\ p.y \in Field
  BY <1>1 DEF AffinePoints
<1>3. /\ Sum(p.y, p.x) \in Field /\ Difference(p.y, p.x) \in Field
      /\ Product(Product(p.x, p.y), TwoD) \in Field
  BY <1>2, FieldOps, FieldConstants
<1>4. BaseEntry(n) = [yPlusX |-> Sum(p.y, p.x), yMinusX |-> Difference(p.y, p.x),
                      t2d |-> Product(Product(p.x, p.y), TwoD)]
  BY Zenon DEF BaseEntry, p
<1> QED BY <1>3, <1>4 DEF BaseEntries

LEMMA MultiplesClose ==
    ASSUME NEW p \in Coordinates, NEW w \in 1..8
    PROVE  TableMultiple(p)[w] \in Coordinates
<1> DEFINE p2 == DoubleFromAffine(p)
           p3 == AddAffineRhs(p2, p)
           p4 == Double(p2)
           p5 == AddAffineRhs(p4, p)
           p6 == Double(p3)
           p7 == Add(p4, p3)
           p8 == Double(p4)
<1>1. \A q \in Coordinates : DoubleFromAffine(q) \in Coordinates /\ Double(q) \in Coordinates
  BY DoublingCloses DEF DoubleFromAffine, Double
<1>2. \A q, r \in Coordinates : AddAffineRhs(q, r) \in Coordinates /\ Add(q, r) \in Coordinates
  BY AdditionCloses DEF AddAffineRhs, Add
<1>3. p2 \in Coordinates
  BY <1>1
<1> HIDE DEF p2
<1>4. p3 \in Coordinates /\ p4 \in Coordinates
  BY <1>1, <1>2, <1>3
<1> HIDE DEF p3, p4
<1>5. p5 \in Coordinates /\ p6 \in Coordinates /\ p7 \in Coordinates /\ p8 \in Coordinates
  BY <1>1, <1>2, <1>4
<1>6. TableMultiple(p) = <<p, p2, p3, p4, p5, p6, p7, p8>>
  BY Zenon DEF TableMultiple, p2, p3, p4, p5, p6, p7, p8
<1> HIDE DEF p5, p6, p7, p8
<1> QED BY <1>3, <1>4, <1>5, <1>6

\* Whatever is decoded, garbage for a lane that is not valid, is a point's worth
\* of field elements.
LEMMA DecodingCloses ==
    ASSUME NEW bytes \in EncodedBytes
    PROVE  DecompressPoint(bytes, TRUE).point \in Coordinates
<1> DEFINE y         == bytes.y % FIELD_P
           u         == Difference(Square(y), 1)
           v         == Sum(1, Product(CURVE_D, Square(y)))
           root      == Product(u, Power(Product(u, v), (FIELD_P - 5) \div 8))
           vx2       == Product(v, Square(root))
           primary   == vx2 = u
           alternate == Sum(vx2, u) = 0
           x         == IF ~primary /\ alternate THEN Product(root, SQRT_M1) ELSE root
           signed    == IF (x % 2 = 1) # bytes.sign THEN Negated(x) ELSE x
<1>1. y \in Field
  <2>1. bytes.y \in Int
    BY DecompressAssumption DEF EncodedBytes
  <2> QED BY <2>1, Residues
<1> HIDE DEF y
<1>2. u \in Field /\ v \in Field
  BY <1>1, FieldOps, FieldConstants
<1> HIDE DEF u, v
<1>3. root \in Field
  <2>1. Product(u, v) \in Int
    <3>1. Product(u, v) \in Field
      BY <1>2, FieldOps
    <3> QED BY <3>1, FieldNumbers
  <2>2. (FIELD_P - 5) \div 8 \in Nat
    <3>1. FIELD_P - 5 \in Nat
      BY Residues
    <3> QED BY <3>1, SMT
  <2>3. Power(Product(u, v), (FIELD_P - 5) \div 8) \in Field
    BY <2>1, <2>2, PowerInField
  <2> QED BY <1>2, <2>3, FieldOps
<1> HIDE DEF root, primary, alternate
<1>4. x \in Field
  BY <1>3, FieldOps, DecompressAssumption
<1> HIDE DEF x
<1>5. signed \in Field
  BY <1>4, FieldOps
<1> HIDE DEF signed
<1> DEFINE point == [x |-> signed, y |-> y, z |-> 1, t |-> Product(signed, y)]
<1>6. point \in Coordinates
  <2>1. Product(signed, y) \in Field /\ 1 \in Field
    BY <1>1, <1>5, FieldOps, FieldConstants
  <2> QED BY <1>1, <1>5, <2>1 DEF Coordinates
<1> DEFINE valid_ == primary \/ alternate
           xZero_ == x = 0
           result == DecompressPoint(bytes, TRUE)
<1>7. result = [point |-> point, valid |-> valid_, xZero |-> xZero_]
  <2>1. Product(signed, y) = IF TRUE THEN Product(signed, y) ELSE 0
    OBVIOUS
  <2> QED BY <2>1, Zenon DEF DecompressPoint, y, u, v, root, vx2, primary, alternate, x, signed
<1> HIDE DEF point, vx2, valid_, xZero_, result
<1>8. result.point = point
  BY <1>7
<1> QED BY <1>6, <1>8 DEF result

-----------------------------------------------------------------------------
(***************************************************************************)
(* The invariant                                                           *)
(***************************************************************************)

\* The slots of the multiples written so far hold points, and all of them once
\* the table has been selected.
TableInv ==
    /\ table \in [SignedDigits -> CachedPoints \cup {Unset}]
    /\ written \in 0..8
    /\ phase = "decode" => written = 0
    /\ phase = "table" => written < 8
    /\ phase \in {"decode", "table"} => \A digit \in SignedDigits :
            -written <= digit /\ digit <= written => table[digit] \in CachedPoints
    /\ phase \notin {"decode", "table"} => table \in [SignedDigits -> CachedPoints]

DigitsInv ==
    /\ scalars.sDigits \in [0..(DIGITS - 1) -> BalancedDigits]
    /\ scalars.kDigits \in [0..(DIGITS - 1) -> BalancedDigits]

\* A T that the code computed is there, and where it is read one was.
LadderInv ==
    /\ acc \in Coordinates
    /\ index \in 0..(DIGITS - 1)
    /\ phase \notin {"double", "addBase", "subtractKey"} => index = DIGITS - 1
    /\ phase \in {"addBase", "subtractKey"} => HasT(acc)
    /\ phase = "score" /\ policy = "Zip215" => HasT(acc)

IInv ==
    /\ key \in EncodedBytes
    /\ decoded.point \in Coordinates
    /\ TableInv
    /\ DigitsInv
    /\ LadderInv

LEMMA NothingScored ==
    /\ NoPoint \in Coordinates
    /\ NoScalars.sDigits \in [0..(DIGITS - 1) -> BalancedDigits]
    /\ NoScalars.kDigits \in [0..(DIGITS - 1) -> BalancedDigits]
<1>1. NoPoint \in Coordinates
  BY FieldConstants DEF NoPoint, Coordinates
<1>2. ToRadix16(0) \in [0..(DIGITS - 1) -> BalancedDigits]
  BY DigitsBalanced
<1> QED BY <1>1, <1>2 DEF NoScalars

\* A fresh table has the identity in its middle, and nothing else.
LEMMA FreshTable ==
    /\ DecodeDestination \in [SignedDigits -> CachedPoints \cup {Unset}]
    /\ \A digit \in SignedDigits : -0 <= digit /\ digit <= 0 => DecodeDestination[digit] \in CachedPoints
BY IdentityIsCached DEF DecodeDestination, SignedDigits

LEMMA InitHolds == Init => IInv
<1> SUFFICES ASSUME Init PROVE IInv
  OBVIOUS
<1>1. key \in EncodedBytes
  BY LaneAssumption DEF Init
<1>2. TableInv
  BY FreshTable DEF Init, TableInv
<1>3. DigitsInv
  BY NothingScored DEF Init, DigitsInv
<1>4. LadderInv
  BY NothingScored, Radix16Assumption DEF Init, LadderInv
<1>5. decoded.point \in Coordinates
  BY NothingScored DEF Init
<1> QED BY <1>1, <1>2, <1>3, <1>4, <1>5 DEF IInv

LEMMA DecodeHolds == ASSUME IInv, Decode PROVE IInv'
<1>1. decoded'.point \in Coordinates
  BY DecodingCloses DEF IInv, Decode
<1>2. TableInv'
  BY DEF IInv, Decode, TableInv
<1>3. LadderInv'
  BY DEF IInv, Decode, LadderInv
<1> QED BY <1>1, <1>2, <1>3 DEF IInv, Decode, DigitsInv

\* A multiple takes the next two slots outwards.
LEMMA WriteHolds == ASSUME IInv, WriteMultiple PROVE IInv'
<1> DEFINE w == written + 1
           p == TableMultiple(decoded.point)[w]
<1>1. w \in 1..8 /\ written \in 0..7
  BY DEF IInv, TableInv, WriteMultiple
<1>2. /\ phase = "table" /\ written' = w
      /\ table' = [table EXCEPT ![w] = Cached(p), ![-w] = CachedOpposite(p)]
      /\ phase' = IF w = 8 THEN "select" ELSE "table"
  BY DEF WriteMultiple, SetMultiple
<1>3. Cached(p) \in CachedPoints /\ CachedOpposite(p) \in CachedPoints
  <2>1. p \in Coordinates
    BY <1>1, MultiplesClose DEF IInv
  <2> QED BY <2>1, CachedCloses
<1> HIDE DEF p
<1>4. /\ table \in [SignedDigits -> CachedPoints \cup {Unset}]
      /\ \A digit \in SignedDigits : -written <= digit /\ digit <= written => table[digit] \in CachedPoints
  BY <1>2 DEF IInv, TableInv
<1>5. w \in SignedDigits /\ -w \in SignedDigits
  BY <1>1 DEF SignedDigits
<1>6. table' \in [SignedDigits -> CachedPoints \cup {Unset}]
  BY <1>2, <1>3, <1>4
<1>7. ASSUME NEW digit \in SignedDigits, -w <= digit, digit <= w
      PROVE  table'[digit] \in CachedPoints
  <2>1. CASE digit = w \/ digit = -w
    BY <1>1, <1>2, <1>3, <1>4, <1>5, <2>1
  <2>2. CASE digit # w /\ digit # -w
    <3>1. -written <= digit /\ digit <= written
      BY <1>1, <1>7, <2>2 DEF SignedDigits
    <3> QED BY <1>2, <1>4, <2>2, <3>1
  <2> QED BY <2>1, <2>2
<1>8. w = 8 => table' \in [SignedDigits -> CachedPoints]
  <2> SUFFICES ASSUME w = 8 PROVE table' \in [SignedDigits -> CachedPoints]
    OBVIOUS
  <2>1. \A digit \in SignedDigits : table'[digit] \in CachedPoints
    BY <1>7 DEF SignedDigits
  <2> QED BY <1>6, <2>1
<1>9. TableInv'
  BY <1>1, <1>2, <1>6, <1>7, <1>8 DEF TableInv
<1>10. LadderInv'
  BY <1>2 DEF IInv, WriteMultiple, LadderInv
<1> QED BY <1>9, <1>10 DEF IInv, WriteMultiple, DigitsInv

LEMMA SelectHolds == ASSUME IInv, SelectTable PROVE IInv'
<1>1. table' \in [SignedDigits -> CachedPoints]
  <2>1. IdentityTable \in [SignedDigits -> CachedPoints]
    BY IdentityIsCached DEF IdentityTable
  <2>2. table \in [SignedDigits -> CachedPoints]
    BY DEF IInv, TableInv, SelectTable
  <2> QED BY <2>1, <2>2 DEF SelectTable
<1>2. table' \in [SignedDigits -> CachedPoints \cup {Unset}]
  BY <1>1
<1>3. TableInv'
  BY <1>1, <1>2 DEF IInv, TableInv, SelectTable
<1>4. LadderInv'
  BY DEF IInv, SelectTable, LadderInv
<1> QED BY <1>3, <1>4 DEF IInv, SelectTable, DigitsInv

LEMMA RecodeHolds == ASSUME IInv, Recode PROVE IInv'
<1>1. PICK s \in SignScalars, k \in Challenges :
          scalars' = [s |-> s, k |-> k, sDigits |-> ToRadix16(s), kDigits |-> ToRadix16(k)]
  BY DEF Recode
<1>2. s \in Nat /\ k \in Nat
  BY LaneAssumption, ScalarsNatural
<1>3. DigitsInv'
  BY <1>1, <1>2, DigitsBalanced DEF DigitsInv
<1>4. TableInv' /\ LadderInv'
  BY DEF IInv, Recode, TableInv, LadderInv
<1> QED BY <1>3, <1>4 DEF IInv, Recode

\* The slot that a digit of the challenge selects, the opposite one, is in the
\* table and holds a point.
LEMMA SelectedIsCached ==
    ASSUME IInv, phase \in {"load", "subtractKey"}
    PROVE  KeyEntry \in CachedPoints
<1>1. /\ scalars.kDigits \in [0..(DIGITS - 1) -> BalancedDigits] /\ index \in 0..(DIGITS - 1)
      /\ table \in [SignedDigits -> CachedPoints]
  BY DEF IInv, DigitsInv, LadderInv, TableInv
<1>2. \A digit \in BalancedDigits : -digit \in SignedDigits
  BY DEF BalancedDigits, SignedDigits
<1> QED BY <1>1, <1>2 DEF KeyEntry

LEMMA LoadHolds == ASSUME IInv, LoadTopDigit PROVE IInv'
<1>1. acc' \in Coordinates
  BY SelectedIsCached, FromCachedCloses DEF LoadTopDigit
<1>2. index' \in 0..(DIGITS - 1)
  BY Radix16Assumption DEF IInv, LadderInv, LoadTopDigit
<1>3. LadderInv'
  BY <1>1, <1>2 DEF LadderInv, LoadTopDigit
<1>4. TableInv'
  BY DEF IInv, LoadTopDigit, TableInv
<1> QED BY <1>3, <1>4 DEF IInv, LoadTopDigit, DigitsInv

\* Only the last of four doublings computes T, and the next addition reads it.
LEMMA QuadrupleHolds == ASSUME IInv, Quadruple PROVE IInv'
<1>1. \A q \in Coordinates : DoubleWithoutT(q) \in Coordinates /\ Double(q) \in Coordinates /\ HasT(Double(q))
  BY DoublingCloses DEF DoubleWithoutT, Double
<1>2. acc' \in Coordinates /\ HasT(acc')
  BY <1>1 DEF IInv, LadderInv, Quadruple, DoubleFourTimes
<1>3. HasT(acc)'
  BY <1>2 DEF HasT
<1>4. phase' \in {"addBase", "subtractKey"} /\ index' = index /\ policy' = policy
  BY DEF Quadruple
<1>5. LadderInv'
  BY <1>2, <1>3, <1>4 DEF IInv, LadderInv
<1>6. TableInv'
  BY <1>4 DEF IInv, Quadruple, TableInv
<1> QED BY <1>5, <1>6 DEF IInv, Quadruple, DigitsInv

LEMMA AddBaseHolds == ASSUME IInv, AddBasePair PROVE IInv'
<1> DEFINE n == BasePairDigit(scalars.sDigits, index \div 2)
<1>1. n \in Int
  <2>1. index \div 2 \in 0..(DIGITS \div 2 - 1)
    <3>1. index \in 0..(DIGITS - 1)
      BY DEF IInv, LadderInv
    <3> QED BY <3>1, Radix16Assumption, SMT
  <2> HIDE DEF n
  <2>2. n \in (-136)..136
    BY <2>1, PairsInBounds DEF IInv, DigitsInv, n
  <2> QED BY <2>2
<1> HIDE DEF n
<1>2. BaseEntry(n) \in CachedPoints \cup BaseEntries
  BY <1>1, BaseEntriesClose
<1>3. acc' = AddCached(acc, BaseEntry(n), TRUE) /\ acc \in Coordinates
  BY DEF IInv, LadderInv, AddBasePair, n
<1>4. acc' \in Coordinates /\ HasT(acc')
  BY <1>2, <1>3, CachedAdditionCloses
<1>5. HasT(acc)'
  BY <1>4 DEF HasT
<1>6. LadderInv'
  BY <1>4, <1>5 DEF IInv, LadderInv, AddBasePair
<1>7. TableInv'
  BY DEF IInv, AddBasePair, TableInv
<1> QED BY <1>6, <1>7 DEF IInv, AddBasePair, DigitsInv

\* The addition before the doublings leaves T out, and so does the last one for
\* the policy that does not read it.
LEMMA SubtractHolds == ASSUME IInv, SubtractKey PROVE IInv'
<1> DEFINE computeT == index = 0 /\ policy = "Zip215"
<1>1. acc' = AddCached(acc, KeyEntry, computeT) /\ acc \in Coordinates /\ computeT \in BOOLEAN
  BY DEF IInv, LadderInv, SubtractKey
<1>2. KeyEntry \in CachedPoints \cup BaseEntries
  BY SelectedIsCached DEF SubtractKey
<1> DEFINE c == computeT
<1> HIDE DEF c
<1>3. acc' \in Coordinates /\ (computeT => HasT(acc'))
  BY <1>1, <1>2, CachedAdditionCloses
<1>4. computeT => HasT(acc)'
  BY <1>3 DEF HasT
<1>5. index' \in 0..(DIGITS - 1) /\ (index = 0 => index' = DIGITS - 1)
  BY Radix16Assumption DEF IInv, LadderInv, SubtractKey
<1>6. phase' = (IF index = 0 THEN "score" ELSE "double") /\ policy' = policy
  BY DEF SubtractKey
<1>7. LadderInv'
  BY <1>3, <1>4, <1>5, <1>6 DEF LadderInv
<1>8. TableInv'
  BY <1>6 DEF IInv, SubtractKey, TableInv
<1> QED BY <1>7, <1>8 DEF IInv, SubtractKey, DigitsInv

LEMMA NextLaneHolds == ASSUME IInv, NextLane PROVE IInv'
<1>1. key' \in EncodedBytes
  BY LaneAssumption DEF NextLane
<1>2. TableInv'
  BY FreshTable DEF NextLane, TableInv
<1>3. DigitsInv'
  BY NothingScored DEF NextLane, DigitsInv
<1>4. LadderInv'
  BY NothingScored DEF IInv, NextLane, LadderInv
<1>5. decoded'.point \in Coordinates
  BY NothingScored DEF NextLane
<1> QED BY <1>1, <1>2, <1>3, <1>4, <1>5 DEF IInv

LEMMA IInvHolds == Spec => []IInv
<1>1. ASSUME IInv, [Next]_vars PROVE IInv'
  <2>1. CASE UNCHANGED vars
    BY <1>1, <2>1 DEF vars, IInv, TableInv, DigitsInv, LadderInv, HasT
  <2> QED BY <1>1, <2>1, DecodeHolds, WriteHolds, SelectHolds, RecodeHolds, LoadHolds,
             QuadrupleHolds, AddBaseHolds, SubtractHolds, NextLaneHolds DEF Next
<1> QED BY InitHolds, <1>1, PTL DEF Spec

\* For every scalar of the range, a digit of a challenge selects a slot of the
\* key's table and a pair of digits an entry of the base point's, so that the
\* selections need no check.
THEOREM DigitsStayInBounds == Spec => []SelectionsInBounds
<1>1. ASSUME IInv PROVE SelectionsInBounds
  <2>1. ASSUME NEW i \in 0..(DIGITS - 1) PROVE scalars.kDigits[i] \in SignedDigits
    <3>1. scalars.kDigits[i] \in BalancedDigits
      BY <1>1 DEF IInv, DigitsInv
    <3> QED BY <3>1 DEF BalancedDigits, SignedDigits
  <2>2. ASSUME NEW pair \in 0..(DIGITS \div 2 - 1)
        PROVE  BasePairDigit(scalars.sDigits, pair) \in (-136)..136
    BY <1>1, PairsInBounds DEF IInv, DigitsInv
  <2> QED BY <2>1, <2>2 DEF SelectionsInBounds
<1> QED BY <1>1, IInvHolds, PTL

\* For every field, curve and key, one that does not decode included: every slot
\* is written when the ladder selects from the table, and an addition or a score
\* that reads T finds it computed.
THEOREM NothingReadUnwritten == Spec => []WrittenWhenRead
<1>1. ASSUME IInv PROVE WrittenWhenRead
  <2>1. ASSUME phase \notin {"decode", "table"}, NEW digit \in SignedDigits
        PROVE  table[digit] # Unset
    <3>1. table[digit] \in CachedPoints
      BY <1>1, <2>1 DEF IInv, TableInv
    <3> QED BY <3>1, DecompressAssumption DEF CachedPoints
  <2>2. phase \in {"addBase", "subtractKey"} \/ (phase = "score" /\ policy = "Zip215") => HasT(acc)
    BY <1>1 DEF IInv, LadderInv
  <2> QED BY <2>1, <2>2 DEF WrittenWhenRead
<1> QED BY <1>1, IInvHolds, PTL

-----------------------------------------------------------------------------
(***************************************************************************)
(* The shared inversion.  SharedInversion brings the ends of the ladders   *)
(* of a queue to affine form.                                              *)
(***************************************************************************)
CONSTANT DALEK_BATCH

VARIABLES candidates, prefix, accumulator, left, encodings, smallOrder

\* Where a ladder may end: at any coordinates whose Z has an inverse.
Results == {p \in Coordinates : p.z # 0}

Inversion == INSTANCE SharedInversion

\* It has the field of Lane.
LEMMA SameField ==
    /\ Inversion!Field = Field
    /\ \A a, b : Inversion!Product(a, b) = Product(a, b)
    /\ \A a : Inversion!Inverted(a) = Inverted(a)
    /\ \A p, zinv : Inversion!CompressWithZInverse(p, zinv) = CompressWithZInverse(p, zinv)
<1>1. Inversion!Field = Field
  BY DEF Inversion!Field, Field
<1>2. \A a, b : Inversion!Product(a, b) = Product(a, b)
  BY DEF Inversion!Product, Product
<1>3. \A a : Inversion!Inverted(a) = Inverted(a)
  BY DEF Inversion!Inverted, Inverted, Inversion!Power, Power, Inversion!Square, Square,
         Inversion!Product, Product
<1>4. \A p, zinv : Inversion!CompressWithZInverse(p, zinv) = CompressWithZInverse(p, zinv)
  BY <1>2 DEF Inversion!CompressWithZInverse, CompressWithZInverse
<1> QED BY <1>1, <1>2, <1>3, <1>4

Units == Field \ {0}

LEMMA ProductCommutes == \A a, b \in Field : Product(a, b) = Product(b, a)
<1> SUFFICES ASSUME NEW a \in Field, NEW b \in Field PROVE Product(a, b) = Product(b, a)
  OBVIOUS
<1>1. a \in Int /\ b \in Int
  BY FieldNumbers
<1>2. a * b = b * a
  BY <1>1
<1> QED BY <1>2, Zenon DEF Product

LEMMA FieldIsResidues == \A a \in Field : a % FIELD_P = a
<1>1. ASSUME NEW m \in Nat \ {0}, NEW a \in 0..(m - 1) PROVE a % m = a
  BY SMT
<1> QED BY <1>1, Residues DEF Field

LEMMA ProductAssociates ==
    \A a, b, c \in Field : Product(a, Product(b, c)) = Product(Product(a, b), c)
<1> SUFFICES ASSUME NEW a \in Field, NEW b \in Field, NEW c \in Field
             PROVE  Product(a, Product(b, c)) = Product(Product(a, b), c)
  OBVIOUS
<1> DEFINE ab == a * b
           bc == b * c
<1>1. a \in Int /\ b \in Int /\ c \in Int /\ ab \in Int /\ bc \in Int
  <2>1. a \in Int /\ b \in Int /\ c \in Int
    BY FieldNumbers
  <2> QED BY <2>1
<1>2. a * bc = ab * c
  BY <1>1
<1> HIDE DEF ab, bc
<1>3. a % FIELD_P = a /\ c % FIELD_P = c
  BY FieldIsResidues
<1>4. Product(a, bc % FIELD_P) = Product(a, bc)
  BY <1>1, <1>3, ProductOfResidues
<1>5. Product(ab % FIELD_P, c) = Product(ab, c)
  BY <1>1, <1>3, ProductOfResidues
<1>6. Product(a, bc) = Product(ab, c)
  BY <1>2, Zenon DEF Product
<1> QED BY <1>4, <1>5, <1>6, Zenon DEF Product, ab, bc

LEMMA ProductOfConstants == \A a \in Field : Product(1, a) = a /\ Product(a, 1) = a /\ Product(0, a) = 0
<1> SUFFICES ASSUME NEW a \in Field PROVE Product(1, a) = a /\ Product(a, 1) = a /\ Product(0, a) = 0
  OBVIOUS
<1>1. 1 * a = a /\ a * 1 = a /\ 0 * a = 0
  BY FieldNumbers
<1>2. a % FIELD_P = a /\ 0 % FIELD_P = 0
  BY FieldIsResidues, FieldConstants
<1> QED BY <1>1, <1>2, Zenon DEF Product

\* An inverse in the field is the one that the code computes.
LEMMA InverseUnique ==
    ASSUME NEW a \in Field, NEW b \in Field, Product(a, b) = 1
    PROVE  a \in Units /\ b = Inverted(a)
<1>1. a # 0
  BY ProductOfConstants
<1> DEFINE inv == Inverted(a)
<1>2. inv \in Field /\ Product(a, inv) = 1
  BY <1>1, FieldNumbers, InvertedInField, InverseAssumption
<1> HIDE DEF inv
<1>3. Product(inv, Product(a, b)) = Product(Product(inv, a), b)
  BY <1>2, ProductAssociates
<1>4. Product(inv, a) = 1
  BY <1>2, ProductCommutes
<1>5. inv = b
  BY <1>2, <1>3, <1>4, ProductOfConstants
<1> QED BY <1>1, <1>5 DEF inv, Units

LEMMA UnitsClosed == \A a, b \in Units : Product(a, b) \in Units
<1> SUFFICES ASSUME NEW a \in Field, a # 0, NEW b \in Field, b # 0, Product(a, b) = 0 PROVE FALSE
  BY FieldOps DEF Units
<1> DEFINE inv == Inverted(a)
<1>1. inv \in Field /\ Product(a, inv) = 1
  BY FieldNumbers, InvertedInField, InverseAssumption
<1> HIDE DEF inv
<1>2. Product(inv, Product(a, b)) = Product(Product(inv, a), b)
  BY <1>1, ProductAssociates
<1>3. Product(inv, a) = 1 /\ Product(inv, 0) = 0
  BY <1>1, ProductCommutes, ProductOfConstants, FieldConstants
<1> QED BY <1>2, <1>3, ProductOfConstants

\* A step down from a product to the one without its last factor: the inverse of the
\* longer gives that of the factor and that of the shorter.
LEMMA StepDown ==
    ASSUME NEW low \in Field, NEW z \in Field, NEW inverse \in Field,
           Product(Product(low, z), inverse) = 1
    PROVE  /\ Product(low, inverse) = Inverted(z)
           /\ Product(inverse, z) \in Field /\ Product(low, Product(inverse, z)) = 1
<1> DEFINE zinv == Product(low, inverse)
<1>1. Product(low, Product(z, inverse)) = 1
  BY ProductAssociates
<1>2. Product(low, Product(inverse, z)) = 1
  BY <1>1, ProductCommutes
<1>3. Product(Product(z, low), inverse) = 1
  BY ProductCommutes
<1>4. Product(z, zinv) = 1
  BY <1>3, ProductAssociates
<1>5. zinv \in Field /\ Product(inverse, z) \in Field
  BY FieldOps
<1> HIDE DEF zinv
<1>6. zinv = Inverted(z)
  BY <1>4, <1>5, InverseUnique
<1> QED BY <1>2, <1>5, <1>6 DEF zinv

\* The products are those of the Z of the first candidates, and the accumulator is
\* the inverse of the product of those that are left.
InversionInv ==
    /\ phase \in {"queue", "up", "down", "done"}
    /\ candidates \in Seq(Results)
    /\ phase # "queue" => candidates # << >>
    /\ phase \in {"up", "down"} =>
          /\ prefix \in Seq(Units) /\ Len(prefix) \in 1..Len(candidates)
          /\ \A i \in 2..Len(prefix) : prefix[i] = Product(prefix[i - 1], candidates[i].z)
          /\ prefix[1] = candidates[1].z
          /\ DOMAIN encodings = 1..Len(candidates)
    /\ phase = "down" => /\ Len(prefix) = Len(candidates)
                         /\ left \in 1..Len(candidates)
                         /\ accumulator \in Field
                         /\ Product(prefix[left], accumulator) = 1
    /\ phase = "done" => left = 0
    /\ phase \in {"down", "done"} =>
          \A i \in (left + 1)..Len(candidates) :
              encodings[i] = CompressWithZInverse(candidates[i], Inverted(candidates[i].z))

LEMMA InversionBegins == Inversion!Init => InversionInv
BY EmptySeq DEF Inversion!Init, InversionInv

LEMMA ResultsHaveUnits == \A p \in Results : p.z \in Units
BY DEF Results, Coordinates, Units

LEMMA QueueKeeps == ASSUME InversionInv, NEW p \in Results, Inversion!Queue(p) PROVE InversionInv'
<1>1. candidates' \in Seq(Results)
  BY AppendProperties DEF InversionInv, Inversion!Queue
<1> QED BY <1>1 DEF InversionInv, Inversion!Queue

LEMMA BeginKeeps == ASSUME InversionInv, Inversion!Begin PROVE InversionInv'
<1>1. candidates \in Seq(Results) /\ candidates # << >>
  BY DEF InversionInv, Inversion!Begin
<1>2. Len(candidates) \in Nat \ {0} /\ DOMAIN candidates = 1..Len(candidates) /\ candidates[1] \in Results
  BY <1>1, LenProperties, ElementOfSeq, EmptySeq
<1>3. candidates[1].z \in Units
  BY <1>2, ResultsHaveUnits
<1>4. prefix' = <<candidates[1].z>>
  BY DEF Inversion!Begin
<1>5. prefix' \in Seq(Units) /\ Len(prefix') = 1 /\ prefix'[1] = candidates[1].z
  BY <1>3, <1>4
<1>6. /\ phase' = "up" /\ candidates' = candidates
      /\ DOMAIN encodings' = DOMAIN candidates
  BY DEF Inversion!Begin
<1>7. 2..Len(prefix') = {}
  BY <1>5
<1> QED BY <1>1, <1>2, <1>5, <1>6, <1>7 DEF InversionInv

LEMMA MultiplyKeeps == ASSUME InversionInv, Inversion!Multiply PROVE InversionInv'
<1> DEFINE n == Len(prefix)
           z == candidates[n + 1].z
           product == Product(prefix[n], z)
<1>1. /\ phase = "up" /\ candidates \in Seq(Results) /\ prefix \in Seq(Units)
      /\ Len(candidates) \in Nat /\ n \in 1..Len(candidates) /\ n < Len(candidates)
  BY LenProperties DEF InversionInv, Inversion!Multiply
<1>2. candidates[n + 1] \in Results /\ prefix[n] \in Units
  BY <1>1, ElementOfSeq
<1>3. product \in Units
  BY <1>2, ResultsHaveUnits, UnitsClosed
<1>4. prefix' = Append(prefix, product)
  BY SameField DEF Inversion!Multiply
<1> HIDE DEF product
<1>5. /\ prefix' \in Seq(Units) /\ Len(prefix') = n + 1 /\ prefix'[n + 1] = product
      /\ \A i \in 1..n : prefix'[i] = prefix[i]
  BY <1>1, <1>3, <1>4, AppendProperties
<1>6. ASSUME NEW i \in 2..(n + 1) PROVE prefix'[i] = Product(prefix'[i - 1], candidates[i].z)
  <2>1. CASE i = n + 1
    BY <1>1, <1>5, <2>1 DEF product
  <2>2. CASE i \in 2..n
    <3>1. prefix[i] = Product(prefix[i - 1], candidates[i].z)
      BY <1>1, <2>2 DEF InversionInv
    <3> QED BY <1>5, <2>2, <3>1
  <2> QED BY <1>1, <2>1, <2>2
<1>7. prefix'[1] = candidates[1].z
  BY <1>1, <1>5 DEF InversionInv
<1>8. phase' = phase /\ candidates' = candidates /\ encodings' = encodings
  BY DEF Inversion!Multiply
<1> HIDE DEF n
<1>9. Len(prefix') \in 1..Len(candidates)
  BY <1>1, <1>5
<1> QED BY <1>1, <1>5, <1>6, <1>7, <1>8, <1>9 DEF InversionInv

LEMMA InvertKeeps == ASSUME InversionInv, Inversion!Invert PROVE InversionInv'
<1> DEFINE n == Len(candidates)
<1>1. /\ n \in Nat /\ Len(prefix) = n /\ n \in 1..n /\ prefix \in Seq(Units)
  BY LenProperties DEF InversionInv, Inversion!Invert
<1>2. prefix[n] \in Units
  BY <1>1, ElementOfSeq
<1>3. accumulator' = Inverted(prefix[n]) /\ left' = n
  BY <1>1, SameField DEF Inversion!Invert
<1>4. accumulator' \in Field /\ Product(prefix[n], accumulator') = 1
  BY <1>2, <1>3, FieldNumbers, InvertedInField, InverseAssumption DEF Units
<1>5. (n + 1)..n = {}
  BY <1>1
<1>6. /\ phase = "up" /\ phase' = "down" /\ candidates' = candidates /\ prefix' = prefix
      /\ encodings' = encodings
  BY DEF Inversion!Invert
<1> QED BY <1>1, <1>3, <1>4, <1>5, <1>6 DEF InversionInv

\* The reciprocal of one Z compresses its candidate.
LEMMA CompressKeeps ==
    ASSUME InversionInv, phase = "down", NEW zinv, zinv = Inverted(candidates[left].z),
           Inversion!Compress(left, zinv), candidates' = candidates
    PROVE  /\ left' = left - 1 /\ DOMAIN encodings' = 1..Len(candidates)
           /\ \A i \in (left' + 1)..Len(candidates) :
                 encodings'[i] = CompressWithZInverse(candidates[i], Inverted(candidates[i].z))
<1>1. /\ encodings' = [encodings EXCEPT ![left] = CompressWithZInverse(candidates[left], zinv)]
      /\ left' = left - 1
  BY SameField DEF Inversion!Compress
<1>2. Len(candidates) \in Nat /\ left \in 1..Len(candidates) /\ DOMAIN encodings = 1..Len(candidates)
  BY LenProperties DEF InversionInv
<1>3. ASSUME NEW i \in left..Len(candidates)
      PROVE  encodings'[i] = CompressWithZInverse(candidates[i], Inverted(candidates[i].z))
  <2>1. CASE i = left
    BY <1>1, <1>2, <2>1
  <2>2. CASE i \in (left + 1)..Len(candidates)
    <3>1. encodings[i] = CompressWithZInverse(candidates[i], Inverted(candidates[i].z))
      BY <2>2 DEF InversionInv
    <3> QED BY <1>1, <1>2, <2>2, <3>1
  <2> QED BY <1>2, <2>1, <2>2
<1>4. left' + 1 = left
  BY <1>1, <1>2
<1> QED BY <1>1, <1>2, <1>3, <1>4

LEMMA WalkDownKeeps == ASSUME InversionInv, Inversion!WalkDown PROVE InversionInv'
<1> DEFINE n    == Len(candidates)
           z    == candidates[left].z
           low  == prefix[left - 1]
           zinv == Product(low, accumulator)
<1>1. /\ phase = "down" /\ candidates \in Seq(Results) /\ prefix \in Seq(Units)
      /\ n \in Nat /\ Len(prefix) = n /\ left \in 2..n
      /\ accumulator \in Field /\ Product(prefix[left], accumulator) = 1
  BY LenProperties DEF InversionInv, Inversion!WalkDown
<1>2. low \in Field /\ z \in Field
  <2>1. low \in Units /\ candidates[left] \in Results
    BY <1>1, ElementOfSeq
  <2> QED BY <2>1, ResultsHaveUnits DEF Units
<1>3. prefix[left] = Product(low, z)
  BY <1>1 DEF InversionInv
<1>4. zinv = Inverted(z) /\ Product(accumulator, z) \in Field /\ Product(low, Product(accumulator, z)) = 1
  <2> HIDE DEF z, low
  <2>1. Product(Product(low, z), accumulator) = 1
    BY <1>1, <1>3
  <2> QED BY <1>1, <1>2, <2>1, StepDown
<1>5. /\ Inversion!Compress(left, zinv) /\ candidates' = candidates /\ prefix' = prefix
      /\ phase' = phase /\ accumulator' = Product(accumulator, z)
  BY SameField DEF Inversion!WalkDown
<1> HIDE DEF zinv
<1>6. /\ left' = left - 1 /\ DOMAIN encodings' = 1..n
      /\ \A i \in (left' + 1)..n :
            encodings'[i] = CompressWithZInverse(candidates[i], Inverted(candidates[i].z))
  BY <1>1, <1>4, <1>5, CompressKeeps
<1>7. accumulator' \in Field /\ left' \in 1..n /\ Product(prefix[left'], accumulator') = 1
  BY <1>1, <1>4, <1>5, <1>6
<1> QED BY <1>1, <1>5, <1>6, <1>7 DEF InversionInv

LEMMA FinishKeeps == ASSUME InversionInv, Inversion!Finish PROVE InversionInv'
<1> DEFINE z == candidates[1].z
<1>1. /\ phase = "down" /\ left = 1 /\ accumulator \in Field
      /\ candidates \in Seq(Results) /\ Len(candidates) \in Nat /\ left \in 1..Len(candidates)
      /\ Product(z, accumulator) = 1
  BY LenProperties DEF InversionInv, Inversion!Finish
<1>2. z \in Field
  BY <1>1, ElementOfSeq, ResultsHaveUnits DEF Units
<1>3. accumulator = Inverted(z)
  BY <1>1, <1>2, InverseUnique
<1>4. Inversion!Compress(left, accumulator) /\ candidates' = candidates /\ phase' = "done"
  BY <1>1 DEF Inversion!Finish
<1>5. /\ left' = 0
      /\ \A i \in (left' + 1)..Len(candidates) :
            encodings'[i] = CompressWithZInverse(candidates[i], Inverted(candidates[i].z))
  BY <1>1, <1>3, <1>4, CompressKeeps
<1> QED BY <1>1, <1>4, <1>5 DEF InversionInv

\* For every field of prime order, every number of candidates and all their Z: each
\* is compressed with the reciprocal of its own Z.
THEOREM EachScaledByItsOwn == Inversion!Spec => []Inversion!EncodingsExact
<1>1. ASSUME InversionInv, [Inversion!Next]_(Inversion!vars) PROVE InversionInv'
  <2>1. CASE Inversion!Clear
    BY <2>1, EmptySeq DEF Inversion!Clear, InversionInv
  <2>2. CASE UNCHANGED Inversion!vars
    BY <1>1, <2>2 DEF Inversion!vars, InversionInv
  <2> QED BY <1>1, <2>1, <2>2, QueueKeeps, BeginKeeps, MultiplyKeeps, InvertKeeps,
             WalkDownKeeps, FinishKeeps DEF Inversion!Next
<1>2. InversionInv => Inversion!EncodingsExact
  <2>1. \A p : /\ Inversion!Affine(p).x = Product(p.x, Inverted(p.z))
               /\ Inversion!Affine(p).y = Product(p.y, Inverted(p.z))
    BY SameField DEF Inversion!Affine
  <2>2. ASSUME InversionInv, phase \in {"down", "done"}, NEW i \in (left + 1)..Len(candidates)
        PROVE  encodings[i] = [y |-> Inversion!Affine(candidates[i]).y,
                               sign |-> Inversion!Affine(candidates[i]).x % 2 = 1]
    <3>1. encodings[i] = CompressWithZInverse(candidates[i], Inverted(candidates[i].z))
      BY <2>2 DEF InversionInv
    <3> QED BY <2>1, <3>1 DEF CompressWithZInverse
  <2> QED BY <2>2 DEF Inversion!EncodingsExact
<1> QED BY InversionBegins, <1>1, <1>2, PTL DEF Inversion!Spec

-----------------------------------------------------------------------------
(***************************************************************************)
(* Integers modulo the modulus                                             *)
(***************************************************************************)
Congruent(a, b) == a % FIELD_P = b % FIELD_P

LEMMA CongruentByMultiple ==
    ASSUME NEW a \in Int, NEW b \in Int
    PROVE  Congruent(a, b) <=> \E k \in Int : a = k * FIELD_P + b
<1> DEFINE p == FIELD_P
<1>1. p \in Nat \ {0}
  BY Residues
<1>2. ASSUME NEW k \in Int, a = k * p + b PROVE Congruent(a, b)
  BY <1>1, <1>2, ResidueOfMultiple DEF Congruent
<1>3. ASSUME Congruent(a, b) PROVE \E k \in Int : a = k * p + b
  <2> HIDE DEF p
  <2>1. ASSUME NEW n \in Int PROVE n \div p \in Int /\ n % p \in Int /\ n = (n \div p) * p + (n % p)
    BY <1>1, SMT
  <2> DEFINE qa == a \div p
             qb == b \div p
             r  == a % p
  <2>2. qa \in Int /\ qb \in Int /\ r \in Int /\ a = qa * p + r /\ b = qb * p + r
    <3>1. r = b % p
      BY <1>3 DEF Congruent, p
    <3> QED BY <2>1, <3>1, Zenon
  <2> HIDE DEF qa, qb, r
  <2>3. a = (qa - qb) * p + b /\ qa - qb \in Int
    BY <1>1, <2>2, SMT
  <2> QED BY <2>3
<1> QED BY <1>2, <1>3

LEMMA CongruentOps ==
    ASSUME NEW a \in Int, NEW b \in Int, NEW c \in Int, NEW d \in Int, Congruent(a, b), Congruent(c, d)
    PROVE  Congruent(a + c, b + d) /\ Congruent(a - c, b - d) /\ Congruent(a * c, b * d)
<1> DEFINE p == FIELD_P
<1>1. p \in Int
  BY Residues
<1>2. PICK k \in Int : a = k * p + b
  BY CongruentByMultiple
<1>3. PICK m \in Int : c = m * p + d
  BY CongruentByMultiple
<1> HIDE DEF p
<1>4. /\ a + c = (k + m) * p + (b + d) /\ a - c = (k - m) * p + (b - d)
      /\ a * c = (k * m * p + k * d + b * m) * p + (b * d)
  BY <1>1, <1>2, <1>3, SMT
<1> DEFINE q == k * m * p + k * d + b * m
<1>5. k + m \in Int /\ k - m \in Int /\ q \in Int
  BY <1>1
<1> HIDE DEF q
<1>6. (a + c \in Int) /\ (a - c \in Int) /\ (a * c \in Int) /\ (b + d \in Int) /\ (b - d \in Int) /\ (b * d \in Int)
  OBVIOUS
<1>7. Congruent(a + c, b + d)
  BY <1>4, <1>5, <1>6, CongruentByMultiple DEF p
<1>8. Congruent(a - c, b - d)
  BY <1>4, <1>5, <1>6, CongruentByMultiple DEF p
<1>9. Congruent(a * c, b * d)
  <2>1. a * c = q * p + (b * d)
    BY <1>4 DEF q
  <2> QED BY <2>1, <1>5, <1>6, CongruentByMultiple DEF p
<1> QED BY <1>7, <1>8, <1>9

LEMMA CongruentEquivalence ==
    /\ \A a : Congruent(a, a)
    /\ \A a, b : Congruent(a, b) => Congruent(b, a)
    /\ \A a, b, c : Congruent(a, b) /\ Congruent(b, c) => Congruent(a, c)
BY Zenon DEF Congruent

LEMMA ResidueIsCongruent == \A a \in Int : Congruent(a % FIELD_P, a)
<1> SUFFICES ASSUME NEW a \in Int PROVE (a % FIELD_P) % FIELD_P = a % FIELD_P
  BY DEF Congruent
<1>1. a % FIELD_P \in Field
  BY Residues
<1> QED BY <1>1, FieldIsResidues

\* What an operation of the field stands for, if its operands stand for A and B
LEMMA StandFor ==
    ASSUME NEW a \in Int, NEW b \in Int, NEW A \in Int, NEW B \in Int, Congruent(a, A), Congruent(b, B)
    PROVE  /\ Congruent(Sum(a, b), A + B) /\ Congruent(Difference(a, b), A - B)
           /\ Congruent(Product(a, b), A * B)
<1>1. Congruent(a + b, A + B) /\ Congruent(a - b, A - B) /\ Congruent(a * b, A * B)
  BY CongruentOps
<1>2. (a + b \in Int) /\ (a - b \in Int) /\ (a * b \in Int)
  OBVIOUS
<1>3. /\ Congruent((a + b) % FIELD_P, a + b) /\ Congruent((a - b) % FIELD_P, a - b)
      /\ Congruent((a * b) % FIELD_P, a * b)
  BY <1>2, ResidueIsCongruent
<1> QED BY <1>1, <1>3, CongruentEquivalence, Zenon DEF Sum, Difference, Product

LEMMA CongruentInField == \A a, b \in Field : Congruent(a, b) => a = b
BY FieldIsResidues DEF Congruent

LEMMA ZeroOrUnit ==
    ASSUME NEW a \in Field, NEW A \in Int, Congruent(a, A)
    PROVE  a \in Units <=> ~Congruent(A, 0)
<1>1. a = 0 <=> Congruent(a, 0)
  BY FieldConstants, CongruentInField, CongruentEquivalence
<1>2. Congruent(a, 0) <=> Congruent(A, 0)
  BY CongruentEquivalence
<1> QED BY <1>1, <1>2 DEF Units

\* A factor that is no multiple of the modulus may be dropped.
LEMMA Cancels ==
    ASSUME NEW a \in Int, NEW b \in Int, NEW u \in Int, ~Congruent(u, 0), Congruent(a * u, b * u)
    PROVE  Congruent(a, b)
<1> DEFINE r == u % FIELD_P
           v == Inverted(r)
<1>1. r \in Field /\ Congruent(r, u)
  BY Residues, ResidueIsCongruent
<1> HIDE DEF r
<1>2. r # 0 /\ r \in Int
  BY <1>1, FieldNumbers, CongruentEquivalence
<1>3. v \in Int /\ Product(r, v) = 1
  BY <1>1, <1>2, FieldNumbers, InvertedInField, InverseAssumption
<1> HIDE DEF v
<1>4. Congruent(u * v, 1)
  <2>1. Congruent(v, v)
    BY DEF Congruent
  <2>2. Congruent(Product(r, v), u * v)
    BY <1>1, <1>2, <1>3, <2>1, StandFor
  <2> QED BY <1>3, <2>2, CongruentEquivalence
<1> DEFINE au == a * u
           bu == b * u
           uv == u * v
<1>5. au \in Int /\ bu \in Int /\ uv \in Int
  BY <1>3
<1>6. Congruent(au * v, bu * v)
  <2> HIDE DEF au, bu
  <2>1. Congruent(au, bu) /\ Congruent(v, v)
    BY DEF au, bu, Congruent
  <2> QED BY <1>3, <1>5, <2>1, CongruentOps
<1>7. Congruent(a * uv, a * 1) /\ Congruent(b * uv, b * 1)
  <2> HIDE DEF uv
  <2>1. Congruent(uv, 1) /\ Congruent(a, a) /\ Congruent(b, b)
    BY <1>4 DEF uv, Congruent
  <2> QED BY <1>5, <2>1, CongruentOps
<1>8. au * v = a * uv /\ bu * v = b * uv /\ a * 1 = a /\ b * 1 = b
  BY <1>3, SMT
<1> HIDE DEF au, bu, uv
<1> QED BY <1>6, <1>7, <1>8, CongruentEquivalence

LEMMA NoZeroDivisors ==
    ASSUME NEW a \in Int, NEW b \in Int, Congruent(a * b, 0)
    PROVE  Congruent(a, 0) \/ Congruent(b, 0)
<1> SUFFICES ASSUME ~Congruent(b, 0) PROVE Congruent(a, 0)
  OBVIOUS
<1>1. 0 * b = 0
  OBVIOUS
<1>2. Congruent(a * b, 0 * b)
  BY <1>1
<1> QED BY <1>2, Cancels

-----------------------------------------------------------------------------
(***************************************************************************)
(* The completeness of the addition                                        *)
(***************************************************************************)
\* d times a square is a square of zero only.
LEMMA DTimesSquare ==
    ASSUME NEW a \in Int, NEW u \in Int, Congruent(a * a, CURVE_D * (u * u))
    PROVE  Congruent(u, 0)
<1> SUFFICES ASSUME ~Congruent(u, 0) PROVE FALSE
  OBVIOUS
<1> DEFINE d == CURVE_D
           r == u % FIELD_P
           v == Inverted(r)
<1>1. d \in Field /\ d \in Int
  BY FieldConstants, FieldNumbers
<1>2. r \in Field /\ Congruent(r, u)
  BY Residues, ResidueIsCongruent
<1> HIDE DEF r
<1>3. r # 0 /\ r \in Int
  BY <1>2, FieldNumbers, CongruentEquivalence
<1>4. v \in Int /\ Product(r, v) = 1
  BY <1>2, <1>3, FieldNumbers, InvertedInField, InverseAssumption
<1> HIDE DEF v
<1>5. Congruent(u * v, 1)
  <2>1. Congruent(v, v)
    BY DEF Congruent
  <2>2. Congruent(Product(r, v), u * v)
    BY <1>2, <1>3, <1>4, <2>1, StandFor
  <2> QED BY <1>4, <2>2, CongruentEquivalence
<1> DEFINE s == (a * v) % FIELD_P
           av == a * v
           uv == u * v
           aa == a * a
           vv == v * v
           uu == u * u
           duu == d * uu
<1>6. av \in Int /\ uv \in Int /\ aa \in Int /\ vv \in Int /\ uu \in Int /\ duu \in Int
  BY <1>1, <1>4
<1>7. av * av = aa * vv /\ duu * vv = d * (uv * uv)
  BY <1>1, <1>4, SMT
<1>8. s = av % FIELD_P
  OBVIOUS
<1>9. Congruent(uv, 1) /\ Congruent(aa, duu)
  BY <1>5 DEF d
<1> HIDE DEF s, av, uv, aa, vv, uu, duu
<1>10. s \in Field /\ Congruent(s, av)
  BY <1>6, <1>8, Residues, ResidueIsCongruent
<1>11. Congruent(Product(s, s), av * av)
  BY <1>6, <1>10, FieldNumbers, StandFor
<1>12. Congruent(aa * vv, duu * vv)
  <2>1. Congruent(vv, vv)
    BY DEF Congruent
  <2> QED BY <1>6, <1>9, <2>1, CongruentOps
<1>13. Congruent(d * (uv * uv), d)
  <2> DEFINE ww == uv * uv
  <2>1. Congruent(d, d) /\ ww \in Int /\ d * 1 = d
    BY <1>1, <1>6 DEF Congruent
  <2>2. Congruent(ww, 1)
    <3>1. Congruent(uv * uv, 1 * 1)
      BY <1>6, <1>9, CongruentOps
    <3> QED BY <3>1
  <2> HIDE DEF ww, d
  <2>3. Congruent(d * ww, d * 1)
    BY <1>1, <2>1, <2>2, CongruentOps
  <2> QED BY <2>1, <2>3 DEF ww
<1>14. Congruent(Product(s, s), d)
  BY <1>7, <1>11, <1>12, <1>13, CongruentEquivalence
<1>15. Square(s) = d
  BY <1>1, <1>10, <1>14, FieldOps, CongruentInField DEF Square
<1> QED BY <1>10, <1>15, GroupAssumption DEF d


LEMMA CompletenessSquares ==
    ASSUME NEW x1 \in Int, NEW y1 \in Int, NEW x2 \in Int, NEW y2 \in Int, NEW j \in Int, NEW d \in Int,
           NEW e \in Int, e = d * ((x1 * x2) * (y1 * y2))
    PROVE  LET X1 == x1 * x1
               Y1 == y1 * y1
               X2 == x2 * x2
               Y2 == y2 * y2
               S1 == d * (X1 * Y1)
               S2 == d * (X2 * Y2)
               a  == y1 + e * (j * x1)
               u  == (x1 * y1) * (y2 + j * x2)
           IN  /\ S1 * S2 = e * e
               /\ a * a = (Y1 + (e * e) * (j * j) * X1) + 2 * (e * j * (x1 * y1))
               /\ d * (u * u) = S1 * (Y2 + (j * j) * X2) + 2 * (e * j * (x1 * y1))
<1>1. (d * ((x1 * x1) * (y1 * y1))) * (d * ((x2 * x2) * (y2 * y2)))
         = (d * ((x1 * x2) * (y1 * y2))) * (d * ((x1 * x2) * (y1 * y2)))
  BY SMT
<1>2. (y1 + e * (j * x1)) * (y1 + e * (j * x1))
         = (y1 * y1 + (e * e) * (j * j) * (x1 * x1)) + 2 * (e * j * (x1 * y1))
  BY SMT
<1>3. d * (((x1 * y1) * (y2 + j * x2)) * ((x1 * y1) * (y2 + j * x2)))
         = (d * ((x1 * x1) * (y1 * y1))) * (y2 * y2 + (j * j) * (x2 * x2))
              + 2 * ((d * ((x1 * x2) * (y1 * y2))) * j * (x1 * y1))
  BY SMT
<1> QED BY <1>1, <1>2, <1>3, Zenon

LEMMA CompletenessHalf ==
    ASSUME NEW x1 \in Int, NEW y1 \in Int, NEW x2 \in Int, NEW y2 \in Int, NEW j \in Int,
           Congruent(y1 * y1, (x1 * x1 + 1) + CURVE_D * ((x1 * x1) * (y1 * y1))),
           Congruent(y2 * y2, (x2 * x2 + 1) + CURVE_D * ((x2 * x2) * (y2 * y2))),
           Congruent(j * j, -1),
           NEW e \in Int, e = CURVE_D * ((x1 * x2) * (y1 * y2)), Congruent(e * e, 1)
    PROVE  Congruent((x1 * y1) * (y2 + j * x2), 0)
<1> DEFINE p  == FIELD_P
           d  == CURVE_D
           X1 == x1 * x1
           Y1 == y1 * y1
           X2 == x2 * x2
           Y2 == y2 * y2
           S1 == d * (X1 * Y1)
           S2 == d * (X2 * Y2)
           I  == j * j
           E  == e * e
           a  == y1 + e * (j * x1)
           u  == (x1 * y1) * (y2 + j * x2)
<1>1. d \in Int /\ p \in Int
  BY FieldConstants, FieldNumbers, Residues
<1>2. /\ X1 \in Int /\ Y1 \in Int /\ X2 \in Int /\ Y2 \in Int /\ S1 \in Int /\ S2 \in Int
      /\ I \in Int /\ E \in Int /\ a \in Int /\ u \in Int
  <2> HIDE DEF d
  <2> QED BY <1>1
<1>3. S1 * S2 = E
  BY <1>1, CompletenessSquares
<1>4. a * a = (Y1 + E * I * X1) + 2 * (e * j * (x1 * y1)) /\ d * (u * u) = S1 * (Y2 + I * X2) + 2 * (e * j * (x1 * y1))
  BY <1>1, CompletenessSquares
<1>5. PICK k1 \in Int : Y1 = k1 * p + (X1 + 1 + S1)
  <2> DEFINE r == (X1 + 1) + S1
  <2>1. Congruent(Y1, r) /\ r \in Int
    BY <1>2
  <2> HIDE DEF r, Y1
  <2>2. PICK k \in Int : Y1 = k * p + r
    BY <1>2, <2>1, CongruentByMultiple
  <2> QED BY <2>2 DEF r
<1>6. PICK k2 \in Int : Y2 = k2 * p + (X2 + 1 + S2)
  <2> DEFINE r == (X2 + 1) + S2
  <2>1. Congruent(Y2, r) /\ r \in Int
    BY <1>2
  <2> HIDE DEF r, Y2
  <2>2. PICK k \in Int : Y2 = k * p + r
    BY <1>2, <2>1, CongruentByMultiple
  <2> QED BY <2>2 DEF r
<1>7. PICK k3 \in Int : I = k3 * p - 1
  <2>1. Congruent(I, -1)
    OBVIOUS
  <2> HIDE DEF I
  <2>2. PICK k \in Int : I = k * p + (-1)
    BY <1>2, <2>1, CongruentByMultiple
  <2> QED BY <1>1, <2>2
<1>8. PICK k4 \in Int : E = k4 * p + 1
  <2>1. Congruent(E, 1)
    OBVIOUS
  <2> HIDE DEF E
  <2> QED BY <1>2, <2>1, CongruentByMultiple
<1> DEFINE t == 2 * (e * j * (x1 * y1))
           l == Y1 + E * I * X1
           r == S1 * (Y2 + I * X2)
<1>9. t \in Int /\ a * a = l + t /\ d * (u * u) = r + t
  BY <1>4
<1> HIDE DEF X1, Y1, X2, Y2, S1, S2, I, E, a, u, t, p
<1>10. PICK k \in Int : l = k * p + r
  <2> DEFINE k == k1 - k4 - S1 * k2 + (k3 - k4 + k4 * k3 * p) * X1 - S1 * k3 * X2
  <2>1. Y1 + E * I * X1 = k * p + S1 * (Y2 + I * X2) /\ k \in Int
    BY <1>1, <1>2, <1>3, <1>5, <1>6, <1>7, <1>8, SMT
  <2> HIDE DEF k
  <2> QED BY <2>1
<1>11. l \in Int /\ r \in Int
  BY <1>2
<1> HIDE DEF l, r
<1>12. Congruent(l, r)
  BY <1>10, <1>11, CongruentByMultiple DEF p
<1>13. Congruent(l + t, r + t)
  <2>1. Congruent(t, t)
    BY DEF Congruent
  <2> QED BY <1>9, <1>11, <1>12, <2>1, CongruentOps
<1>14. Congruent(a * a, d * (u * u))
  BY <1>9, <1>13
<1>15. Congruent(u, 0)
  BY <1>2, <1>14, DTimesSquare
<1> QED BY <1>15 DEF u

\* 2 is not zero in the field.
LEMMA TwoIsUnit == ~Congruent(2, 0) /\ ~Congruent(1, 0)
BY FieldConstants, CongruentInField

\* The denominators of a sum never vanish.
LEMMA Complete ==
    ASSUME NEW x1 \in Int, NEW y1 \in Int, NEW x2 \in Int, NEW y2 \in Int,
           Congruent(y1 * y1, (x1 * x1 + 1) + CURVE_D * ((x1 * x1) * (y1 * y1))),
           Congruent(y2 * y2, (x2 * x2 + 1) + CURVE_D * ((x2 * x2) * (y2 * y2))),
           NEW w \in Int, w = CURVE_D * ((x1 * x2) * (y1 * y2))
    PROVE  ~Congruent(1 + w, 0) /\ ~Congruent(1 - w, 0)
<1> SUFFICES ASSUME Congruent(1 + w, 0) \/ Congruent(1 - w, 0) PROVE FALSE
  OBVIOUS
<1> DEFINE d == CURVE_D
           i == SQRT_M1
<1>1. d \in Int /\ i \in Int
  BY FieldConstants, FieldNumbers, DecompressAssumption
<1>2. Congruent(i * i, -1) /\ Congruent((-i) * (-i), -1)
  <2>1. Congruent(Product(i, i), i * i)
    BY <1>1, ResidueIsCongruent DEF Product
  <2>2. Product(i, i) = FIELD_P - 1
    BY DecompressAssumption DEF Square
  <2>3. Congruent(FIELD_P - 1, -1)
    <3>1. FIELD_P - 1 = 1 * FIELD_P + (-1) /\ FIELD_P - 1 \in Int
      BY Residues
    <3> QED BY <3>1, CongruentByMultiple
  <2>4. Congruent(i * i, -1)
    BY <2>1, <2>2, <2>3, CongruentEquivalence
  <2>5. (-i) * (-i) = i * i
    BY <1>1
  <2> QED BY <2>4, <2>5
<1>3. Congruent(w * w, 1)
  <2> DEFINE m == 1 + w
             n == 1 - w
  <2>1. m \in Int /\ n \in Int /\ w * w = 1 - m * n /\ Congruent(m, m) /\ Congruent(n, n) /\ m * 0 = 0 /\ 0 * n = 0
    BY DEF Congruent
  <2> HIDE DEF m, n
  <2>2. Congruent(m, 0) \/ Congruent(n, 0)
    BY DEF m, n
  <2>3. Congruent(m * n, 0)
    <3>1. CASE Congruent(m, 0)
      <4>1. Congruent(m * n, 0 * n)
        BY <2>1, <3>1, CongruentOps
      <4> QED BY <2>1, <4>1
    <3>2. CASE Congruent(n, 0)
      <4>1. Congruent(m * n, m * 0)
        BY <2>1, <3>2, CongruentOps
      <4> QED BY <2>1, <4>1
    <3> QED BY <2>2, <3>1, <3>2
  <2> DEFINE q == m * n
  <2>4. q \in Int
    BY <2>1
  <2> HIDE DEF q
  <2>5. Congruent(1 - q, 1 - 0)
    BY <2>3, <2>4, CongruentOps DEF Congruent, q
  <2> QED BY <2>1, <2>5 DEF q
<1>4. -i \in Int
  BY <1>1
<1>5. Congruent((x1 * y1) * (y2 + i * x2), 0)
  <2> HIDE DEF i
  <2> QED BY <1>1, <1>2, <1>3, CompletenessHalf
<1>6. Congruent((x1 * y1) * (y2 + (-i) * x2), 0)
  <2> DEFINE j == -i
  <2>1. j \in Int /\ Congruent(j * j, -1)
    BY <1>2, <1>4
  <2> HIDE DEF j
  <2>2. Congruent((x1 * y1) * (y2 + j * x2), 0)
    BY <2>1, <1>3, CompletenessHalf
  <2> QED BY <2>2 DEF j
<1> HIDE DEF d, i
<1> DEFINE u1 == (x1 * y1) * (y2 + i * x2)
           u2 == (x1 * y1) * (y2 + (-i) * x2)
           dx == d * x2
<1>7. u1 \in Int /\ u2 \in Int /\ dx \in Int /\ (u1 + u2) * dx = w * 2
  <2>1. w = d * ((x1 * x2) * (y1 * y2))
    BY DEF d
  <2> QED BY <1>1, <2>1, SMT
<1>8. Congruent(u1, 0) /\ Congruent(u2, 0)
  BY <1>5, <1>6
<1> HIDE DEF u1, u2, dx
<1>9. Congruent((u1 + u2) * dx, 0)
  <2> DEFINE s == u1 + u2
  <2>1. Congruent(s, 0 + 0) /\ s \in Int /\ 0 * dx = 0 /\ Congruent(dx, dx)
    BY <1>7, <1>8, CongruentOps DEF Congruent
  <2> HIDE DEF s
  <2>2. Congruent(s * dx, 0 * dx)
    BY <1>7, <2>1, CongruentOps
  <2> QED BY <2>1, <2>2 DEF s
<1>10. Congruent(w, 0)
  BY <1>7, <1>9, TwoIsUnit, NoZeroDivisors
<1>11. Congruent(w * w, 0 * 0)
  BY <1>10, CongruentOps
<1> QED BY <1>3, <1>11, TwoIsUnit, CongruentEquivalence

-----------------------------------------------------------------------------
(***************************************************************************)
(* The group                                                               *)
(***************************************************************************)
LEMMA PeriodIs ==
    /\ 8 * L \in Nat \ {0} /\ L \in Nat \ {0} /\ L > 1
    /\ \A n \in Int : n % (8 * L) \in 0..(8 * L - 1)
    /\ \A n \in 0..(8 * L - 1) : n % (8 * L) = n
<1>1. 8 * L \in Nat \ {0} /\ L \in Nat \ {0} /\ L > 1
  BY EdwardsAssumption
<1>2. ASSUME NEW m \in Nat \ {0} PROVE (\A n \in Int : n % m \in 0..(m - 1)) /\ (\A n \in 0..(m - 1) : n % m = n)
  BY SMT
<1> QED BY <1>1, <1>2

LEMMA PointsOnCurve == ASSUME NEW n \in Int PROVE PointAt(n) \in CurvePoints /\ PointAt(n) = PointAt(n % (8 * L))
<1>1. n % (8 * L) \in 0..(8 * L - 1) /\ (n % (8 * L)) % (8 * L) = n % (8 * L)
  BY PeriodIs
<1>2. PointAt(n) = PointAt(n % (8 * L))
  BY <1>1, Zenon DEF PointAt
<1> QED BY <1>1, <1>2, GroupAssumption

LEMMA PointZero == PointAt(0) = Neutral
<1>1. 0 % (8 * L) = 0
  BY PeriodIs
<1> QED BY <1>1, GeneratedIs DEF PointAt

LEMMA PointsDiffer ==
    ASSUME NEW m \in 0..(8 * L - 1), NEW n \in 0..(8 * L - 1), PointAt(m) = PointAt(n)
    PROVE  m = n
<1> DEFINE last == 8 * L - 1
           D == 0..last
           E == D \ {n}
           image == {Generated[i] : i \in D}
<1>1. last \in Nat /\ 8 * L = last + 1
  BY PeriodIs
<1>2. Generated[m] = Generated[n]
  BY PeriodIs DEF PointAt
<1>3. Cardinality(image) = last + 1
  BY <1>1, GeneratedIs, Zenon
<1>4. IsFiniteSet(D) /\ Cardinality(D) = last + 1
  <2>1. 0 <= last /\ 0 \in Int /\ last \in Int
    BY <1>1
  <2>2. IsFiniteSet(0..last) /\ Cardinality(0..last) = IF 0 > last THEN 0 ELSE last - 0 + 1
    BY <2>1, FS_Interval
  <2> QED BY <1>1, <2>2
<1>5. IsFiniteSet(E) /\ Cardinality(E) = last
  <2>1. IsFiniteSet(D \ {n}) /\ Cardinality(D \ {n}) = IF n \in D THEN Cardinality(D) - 1 ELSE Cardinality(D)
    BY <1>4, FS_RemoveElement, Zenon
  <2> QED BY <1>1, <1>4, <2>1
<1> SUFFICES ASSUME m # n PROVE FALSE
  OBVIOUS
<1>6. image = {Generated[i] : i \in E}
  <2>1. m \in E
    OBVIOUS
  <2> QED BY <1>2, <2>1
<1> DEFINE onto == [i \in E |-> Generated[i]]
<1>7. onto \in Surjection(E, image)
  <2> HIDE DEF E, image
  <2>1. \A i \in E : Generated[i] \in image
    BY <1>6
  <2>2. \A v \in image : \E i \in E : Generated[i] = v
    BY <1>6
  <2> QED BY <2>1, <2>2 DEF Surjection
<1> HIDE DEF onto, E, image
<1>8. Cardinality(image) <= Cardinality(E)
  BY <1>5, <1>7, FS_Surjection
<1> QED BY <1>1, <1>3, <1>5, <1>8

LEMMA PointsDifferBy ==
    ASSUME NEW m \in Int, NEW n \in Int
    PROVE  PointAt(m) = PointAt(n) <=> m % (8 * L) = n % (8 * L)
<1>1. PointAt(m) = PointAt(m % (8 * L)) /\ PointAt(n) = PointAt(n % (8 * L))
  BY PointsOnCurve
<1>2. m % (8 * L) \in 0..(8 * L - 1) /\ n % (8 * L) \in 0..(8 * L - 1)
  BY PeriodIs
<1> QED BY <1>1, <1>2, PointsDiffer

LEMMA PointsAddUp ==
    ASSUME NEW m \in Int, NEW n \in Int
    PROVE  Plus(PointAt(m), PointAt(n)) = PointAt(m + n)
<1> DEFINE N == 8 * L
           a == m % N
           b == n % N
<1>1. N \in Nat \ {0} /\ a \in 0..(N - 1) /\ b \in 0..(N - 1)
  BY PeriodIs
<1>2. (a + b) % N = (m + n) % N
  <2> HIDE DEF N
  <2> DEFINE qa == m \div N
             qb == n \div N
  <2>1. qa \in Int /\ qb \in Int /\ m = qa * N + a /\ n = qb * N + b
    BY <1>1, SMT
  <2> HIDE DEF qa, qb, a, b
  <2>2. (m + n) = (qa + qb) * N + (a + b) /\ qa + qb \in Int /\ a + b \in Int
    BY <1>1, <2>1, SMT
  <2>3. ((qa + qb) * N + (a + b)) % N = (a + b) % N
    BY <1>1, <2>2, ResidueOfMultiple
  <2> QED BY <2>2, <2>3, Zenon
<1>3. PointAt(m) = PointAt(a) /\ PointAt(n) = PointAt(b)
  BY PointsOnCurve
<1>4. PointAt(m + n) = PointAt(a + b)
  BY <1>2, Zenon DEF PointAt
<1>5. Plus(PointAt(a), PointAt(b)) = PointAt(a + b)
  BY <1>1, GroupAssumption
<1> QED BY <1>3, <1>4, <1>5

-----------------------------------------------------------------------------
LEMMA CurveEquation ==
    ASSUME NEW x \in Field, NEW y \in Field
    PROVE  OnCurve(x, y) <=> Congruent(y * y, (x * x + 1) + CURVE_D * ((x * x) * (y * y)))
<1> DEFINE X == x * x
           Y == y * y
           d == CURVE_D
           S == d * (X * Y)
           l == Difference(Square(y), Square(x))
           r == Sum(1, Product(d, Product(Square(x), Square(y))))
<1>1. x \in Int /\ y \in Int /\ X \in Int /\ Y \in Int /\ d \in Int /\ S \in Int
  <2>1. x \in Int /\ y \in Int /\ d \in Int
    BY FieldNumbers, FieldConstants
  <2> HIDE DEF d
  <2> QED BY <2>1
<1>2. l \in Field /\ r \in Field /\ Square(x) \in Int /\ Square(y) \in Int
  BY FieldOps, FieldConstants, FieldNumbers
<1>3. Congruent(Square(x), X) /\ Congruent(Square(y), Y) /\ Congruent(d, d) /\ Congruent(1, 1)
  BY <1>1, ResidueIsCongruent DEF Square, Product, Congruent
<1> HIDE DEF X, Y
<1>4. Congruent(l, Y - X)
  BY <1>1, <1>2, <1>3, StandFor
<1>5. Congruent(r, 1 + S)
  <2> DEFINE xy == X * Y
             q == Product(Square(x), Square(y))
             dq == Product(d, q)
  <2>1. q \in Int
    BY <1>2, FieldClosed, FieldNumbers
  <2>2. xy \in Int
    BY <1>1
  <2>3. Congruent(q, xy)
    BY <1>1, <1>2, <1>3, StandFor
  <2> HIDE DEF q, xy
  <2>4. dq \in Int /\ Congruent(dq, d * xy)
    BY <1>1, <1>3, <2>1, <2>2, <2>3, StandFor, FieldClosed, FieldNumbers
  <2> DEFINE s == d * xy
  <2>5. s \in Int /\ S = s
    BY <1>1, <2>2 DEF xy
  <2> HIDE DEF dq, s
  <2>6. Congruent(Sum(1, dq), 1 + s)
    BY <1>3, <2>4, <2>5, StandFor DEF s
  <2> QED BY <2>5, <2>6 DEF dq, q
<1> HIDE DEF S, l, r
<1>6. OnCurve(x, y) <=> Congruent(l, r)
  <2>1. OnCurve(x, y) <=> l = r
    BY Zenon DEF OnCurve, l, r, d
  <2> QED BY <1>2, <2>1, CongruentInField, CongruentEquivalence
<1>7. Congruent(l, r) <=> Congruent(Y - X, 1 + S)
  BY <1>4, <1>5, CongruentEquivalence
<1>8. Congruent(Y - X, 1 + S) <=> Congruent(Y, (X + 1) + S)
  <2>1. Congruent(X, X) /\ (Y - X) + X = Y /\ (1 + S) + X = (X + 1) + S /\ ((X + 1) + S) - X = 1 + S
    BY <1>1 DEF Congruent
  <2> DEFINE u == Y - X
             v == 1 + S
             w == (X + 1) + S
  <2>2. u \in Int /\ v \in Int /\ w \in Int
    BY <1>1
  <2> HIDE DEF u, v, w
  <2>3. Congruent(u, v) => Congruent(u + X, v + X)
    BY <1>1, <2>1, <2>2, CongruentOps
  <2>4. Congruent(Y, w) => Congruent(Y - X, w - X)
    BY <1>1, <2>1, <2>2, CongruentOps
  <2> QED BY <2>1, <2>3, <2>4 DEF u, v, w
<1> QED BY <1>6, <1>7, <1>8 DEF X, Y, S, d

-----------------------------------------------------------------------------
(***************************************************************************)
(* The parts of a formula and the point it ends at                         *)
(***************************************************************************)
\* A quotient times its denominator
LEMMA QuotientIs ==
    ASSUME NEW n \in Field, NEW a \in Field, NEW N \in Int, NEW A \in Int,
           Congruent(n, N), Congruent(a, A), ~Congruent(A, 0)
    PROVE  /\ Product(n, Inverted(a)) \in Field
           /\ Congruent(Product(n, Inverted(a)) * A, N)
<1> DEFINE v == Inverted(a)
           q == Product(n, v)
<1>1. n \in Int /\ a \in Int /\ a # 0
  BY FieldNumbers, CongruentEquivalence
<1>2. v \in Field /\ v \in Int /\ Product(a, v) = 1
  BY <1>1, FieldNumbers, InvertedInField, InverseAssumption
<1> HIDE DEF v
<1>3. q \in Field /\ q \in Int
  BY <1>2, FieldOps, FieldNumbers
<1> HIDE DEF q
<1>4. Congruent(q, N * v)
  <2>1. Congruent(v, v)
    BY DEF Congruent
  <2> QED BY <1>1, <1>2, <2>1, StandFor DEF q
<1>5. Congruent(A * v, 1)
  <2>1. Congruent(v, v)
    BY DEF Congruent
  <2>2. Congruent(Product(a, v), A * v)
    BY <1>1, <1>2, <2>1, StandFor
  <2> QED BY <1>2, <2>2, CongruentEquivalence
<1> DEFINE Nv == N * v
           Av == A * v
<1>6. Nv \in Int /\ Av \in Int /\ Nv * A = N * Av /\ N * 1 = N
  BY <1>2
<1>7. Congruent(q, Nv) /\ Congruent(Av, 1) /\ Congruent(A, A) /\ Congruent(N, N)
  BY <1>4, <1>5 DEF Congruent
<1> HIDE DEF Nv, Av
<1>8. Congruent(q * A, Nv * A) /\ Congruent(N * Av, N * 1)
  BY <1>3, <1>6, <1>7, CongruentOps
<1> QED BY <1>3, <1>6, <1>8, CongruentEquivalence DEF q, v

\* What a sum is, without its divisions
LEMMA PlusIs ==
    ASSUME NEW p \in CurvePoints, NEW q \in CurvePoints,
           NEW w \in Int, w = CURVE_D * ((p.x * q.x) * (p.y * q.y))
    PROVE  /\ ~Congruent(1 + w, 0) /\ ~Congruent(1 - w, 0)
           /\ Plus(p, q) \in AffinePoints
           /\ Congruent(Plus(p, q).x * (1 + w), p.x * q.y + q.x * p.y)
           /\ Congruent(Plus(p, q).y * (1 - w), p.y * q.y + p.x * q.x)
<1> DEFINE xy == Product(CURVE_D, Product(Product(p.x, q.x), Product(p.y, q.y)))
           nx == Sum(Product(p.x, q.y), Product(q.x, p.y))
           ny == Sum(Product(p.y, q.y), Product(p.x, q.x))
           dx == Sum(1, xy)
           dy == Difference(1, xy)
           X1 == p.x
           Y1 == p.y
           X2 == q.x
           Y2 == q.y
           d  == CURVE_D
<1>1. X1 \in Field /\ Y1 \in Field /\ X2 \in Field /\ Y2 \in Field /\ OnCurve(X1, Y1) /\ OnCurve(X2, Y2)
  BY DEF CurvePoints
<1>2. X1 \in Int /\ Y1 \in Int /\ X2 \in Int /\ Y2 \in Int /\ d \in Int
  BY <1>1, FieldNumbers, FieldConstants
<1>3. ~Congruent(1 + w, 0) /\ ~Congruent(1 - w, 0)
  <2>1. /\ Congruent(Y1 * Y1, (X1 * X1 + 1) + CURVE_D * ((X1 * X1) * (Y1 * Y1)))
        /\ Congruent(Y2 * Y2, (X2 * X2 + 1) + CURVE_D * ((X2 * X2) * (Y2 * Y2)))
    BY <1>1, CurveEquation
  <2> HIDE DEF X1, Y1, X2, Y2
  <2>2. w = CURVE_D * ((X1 * X2) * (Y1 * Y2))
    BY DEF X1, Y1, X2, Y2
  <2> QED BY <1>2, <2>1, <2>2, Complete
<1>4. w = d * ((X1 * X2) * (Y1 * Y2))
  OBVIOUS
<1>5. xy = Product(d, Product(Product(X1, X2), Product(Y1, Y2)))
  OBVIOUS
<1>6. nx = Sum(Product(X1, Y2), Product(X2, Y1)) /\ ny = Sum(Product(Y1, Y2), Product(X1, X2))
  OBVIOUS
<1>7. Plus(p, q) = [x |-> Product(nx, Inverted(dx)), y |-> Product(ny, Inverted(dy))]
  BY Zenon DEF Plus, nx, ny, dx, dy, xy
<1> HIDE DEF xy, nx, ny, X1, Y1, X2, Y2, d
<1>8. /\ Congruent(X1, X1) /\ Congruent(X2, X2) /\ Congruent(Y1, Y1) /\ Congruent(Y2, Y2)
      /\ Congruent(d, d) /\ Congruent(1, 1)
  BY DEF Congruent
<1>9. /\ Product(X1, X2) \in Field /\ Product(Y1, Y2) \in Field /\ Product(X1, Y2) \in Field
      /\ Product(X2, Y1) \in Field
  BY <1>1, FieldOps
<1>10. /\ Congruent(Product(X1, X2), X1 * X2) /\ Congruent(Product(Y1, Y2), Y1 * Y2)
       /\ Congruent(Product(X1, Y2), X1 * Y2) /\ Congruent(Product(X2, Y1), X2 * Y1)
  BY <1>2, <1>8, StandFor
<1> DEFINE xx == X1 * X2
           yy == Y1 * Y2
           xy1 == X1 * Y2
           xy2 == X2 * Y1
           pxx == Product(X1, X2)
           pyy == Product(Y1, Y2)
           pxy == Product(X1, Y2)
           pyx == Product(X2, Y1)
<1>11. xx \in Int /\ yy \in Int /\ xy1 \in Int /\ xy2 \in Int
  BY <1>2
<1>12. pxx \in Int /\ pyy \in Int /\ pxy \in Int /\ pyx \in Int
  BY <1>9, FieldNumbers
<1>13. Congruent(pxx, xx) /\ Congruent(pyy, yy) /\ Congruent(pxy, xy1) /\ Congruent(pyx, xy2)
  BY <1>10
<1>14. w = d * (xx * yy) /\ xy = Product(d, Product(pxx, pyy)) /\ nx = Sum(pxy, pyx) /\ ny = Sum(pyy, pxx)
  BY <1>4, <1>5, <1>6
<1> HIDE DEF xx, yy, xy1, xy2, pxx, pyy, pxy, pyx
<1>15. nx \in Field /\ ny \in Field /\ Congruent(nx, xy1 + xy2) /\ Congruent(ny, yy + xx)
  BY <1>11, <1>12, <1>13, <1>14, FieldClosed, StandFor
<1>16. xy \in Field /\ xy \in Int /\ Congruent(xy, w)
  <2> DEFINE m == Product(pxx, pyy)
             M == xx * yy
  <2>1. m \in Int
    BY <1>12, FieldClosed, FieldNumbers
  <2>2. M \in Int
    BY <1>11
  <2>3. Congruent(m, M)
    BY <1>11, <1>12, <1>13, StandFor
  <2>4. xy = Product(d, m) /\ w = d * M
    BY <1>14
  <2> HIDE DEF m, M
  <2>5. Congruent(Product(d, m), d * M)
    BY <1>2, <1>8, <2>1, <2>2, <2>3, StandFor
  <2>6. Product(d, m) \in Field
    BY <1>2, <2>1, FieldClosed
  <2> QED BY <2>4, <2>5, <2>6, FieldNumbers
<1>17. dx \in Field /\ dy \in Field /\ Congruent(dx, 1 + w) /\ Congruent(dy, 1 - w)
  BY <1>8, <1>16, FieldClosed, StandFor
<1>18. 1 + w \in Int /\ 1 - w \in Int /\ xy1 + xy2 \in Int /\ yy + xx \in Int
  BY <1>11
<1> HIDE DEF dx, dy
<1>19. /\ Product(nx, Inverted(dx)) \in Field /\ Product(ny, Inverted(dy)) \in Field
       /\ Congruent(Product(nx, Inverted(dx)) * (1 + w), xy1 + xy2)
       /\ Congruent(Product(ny, Inverted(dy)) * (1 - w), yy + xx)
  BY <1>3, <1>15, <1>17, <1>18, QuotientIs
<1>20. Plus(p, q) \in AffinePoints /\ Plus(p, q).x = Product(nx, Inverted(dx)) /\ Plus(p, q).y = Product(ny, Inverted(dy))
  BY <1>7, <1>19 DEF AffinePoints
<1> QED BY <1>3, <1>19, <1>20 DEF xy1, xy2, xx, yy, X1, Y1, X2, Y2

-----------------------------------------------------------------------------
(***************************************************************************)
(* Extended coordinates of a point                                         *)
(***************************************************************************)
IsAt(p, c) == p.z \in Units /\ Congruent(p.x, c.x * p.z) /\ Congruent(p.y, c.y * p.z)

\* The T of a point
LEMMA TimesCoordinate ==
    ASSUME NEW p \in Coordinates, NEW c \in AffinePoints, IsAt(p, c), HasT(p)
    PROVE  Congruent(p.t, (c.x * c.y) * p.z)
<1> DEFINE x == p.x
           y == p.y
           z == p.z
           t == p.t
           X == c.x
           Y == c.y
<1>1. x \in Field /\ y \in Field /\ z \in Field /\ t \in Field /\ X \in Field /\ Y \in Field
  BY DEF Coordinates, AffinePoints
<1>2. x \in Int /\ y \in Int /\ z \in Int /\ t \in Int /\ X \in Int /\ Y \in Int
  BY <1>1, FieldNumbers
<1>3. ~Congruent(z, 0) /\ Congruent(x, X * z) /\ Congruent(y, Y * z) /\ Product(t, z) = Product(x, y)
  BY <1>1, CongruentInField, FieldConstants DEF IsAt, HasT, Units
<1> HIDE DEF x, y, z, t, X, Y
<1> DEFINE Xz == X * z
           Yz == Y * z
           XYz == (X * Y) * z
           tz == t * z
<1>4. Xz \in Int /\ Yz \in Int /\ XYz \in Int /\ tz \in Int /\ XYz * z = Xz * Yz
  BY <1>2
<1>5. Congruent(Product(t, z), tz)
  BY <1>2, ResidueIsCongruent, <1>4 DEF Product
<1>6. Congruent(x, Xz) /\ Congruent(y, Yz)
  BY <1>3
<1> HIDE DEF Xz, Yz, XYz
<1>7. Congruent(Product(x, y), Xz * Yz)
  BY <1>2, <1>4, <1>6, StandFor
<1>8. Congruent(t * z, XYz * z)
  BY <1>3, <1>4, <1>5, <1>7, CongruentEquivalence
<1>9. Congruent(t, XYz)
  BY <1>2, <1>3, <1>4, <1>8, Cancels
<1> QED BY <1>9 DEF XYz, X, Y, z, t

\* The affine point of coordinates, the one that they are at
LEMMA AffineIs ==
    ASSUME NEW p \in Coordinates, NEW c \in AffinePoints, IsAt(p, c)
    PROVE  Affine(p) = c
<1> DEFINE zinv == Inverted(p.z)
<1>1. /\ p.x \in Field /\ p.y \in Field /\ p.z \in Field /\ c.x \in Field /\ c.y \in Field
      /\ p.z \in Units /\ Congruent(p.x, c.x * p.z) /\ Congruent(p.y, c.y * p.z) /\ p.z \in Int
  BY FieldNumbers DEF Coordinates, AffinePoints, IsAt
<1>2. zinv \in Field
  BY <1>1, InvertedInField
<1>3. Congruent(p.z, p.z) /\ ~Congruent(p.z, 0)
  BY <1>1, ZeroOrUnit DEF Congruent
<1>4. ASSUME NEW n \in Field, NEW a \in Field, Congruent(n, a * p.z) PROVE Product(n, zinv) = a
  <2> DEFINE q == Product(n, zinv)
             z == p.z
             az == a * z
  <2>1. a \in Int /\ az \in Int
    BY <1>1, FieldNumbers
  <2>2. q \in Field /\ Congruent(q * z, az)
    <3> HIDE DEF az
    <3>1. Congruent(n, az)
      BY <1>4 DEF az
    <3> QED BY <1>1, <1>3, <2>1, <3>1, QuotientIs
  <2>3. q \in Int /\ z \in Int /\ ~Congruent(z, 0)
    BY <1>1, <1>3, <2>2, FieldNumbers
  <2>4. Congruent(q * z, a * z)
    BY <2>2
  <2> HIDE DEF q, z
  <2>5. Congruent(q, a)
    BY <2>1, <2>3, <2>4, Cancels
  <2> QED BY <2>2, <2>5, CongruentInField DEF q
<1>5. Product(p.x, zinv) = c.x /\ Product(p.y, zinv) = c.y
  BY <1>1, <1>4
<1> QED BY <1>5 DEF Affine, AffinePoints

\* The point that a formula ends with, from the quotients that its parts form
LEMMA Assembled ==
    ASSUME NEW e \in Field, NEW f \in Field, NEW g \in Field, NEW h \in Field, NEW computeT \in BOOLEAN,
           NEW c \in AffinePoints, f \in Units, g \in Units, Congruent(e, c.x * g), Congruent(h, c.y * f)
    PROVE  IsAt(Extended(e, f, g, h, computeT), c)
<1> DEFINE X == c.x
           Y == c.y
           Xg == X * g
           Yf == Y * f
           fg == f * g
           z  == Product(f, g)
           x  == Product(e, f)
           y  == Product(g, h)
<1>1. e \in Int /\ f \in Int /\ g \in Int /\ h \in Int /\ X \in Int /\ Y \in Int
  BY FieldNumbers DEF AffinePoints
<1> HIDE DEF X, Y
<1>2. Xg \in Int /\ Yf \in Int /\ fg \in Int /\ Xg * f = X * fg /\ g * Yf = Y * fg
  BY <1>1
<1>3. Congruent(e, Xg) /\ Congruent(h, Yf) /\ Congruent(f, f) /\ Congruent(g, g)
  BY DEF X, Y, Congruent
<1> HIDE DEF Xg, Yf
<1>4. Congruent(x, Xg * f) /\ Congruent(y, g * Yf) /\ Congruent(z, fg)
  BY <1>1, <1>2, <1>3, StandFor
<1>5. z \in Units /\ z \in Int
  BY UnitsClosed, FieldNumbers DEF Units
<1> HIDE DEF fg, x, y, z
<1>6. Congruent(X * z, X * fg) /\ Congruent(Y * z, Y * fg)
  <2>1. Congruent(X, X) /\ Congruent(Y, Y)
    BY DEF Congruent
  <2> QED BY <1>1, <1>2, <1>4, <1>5, <2>1, CongruentOps
<1>7. Congruent(x, X * z) /\ Congruent(y, Y * z)
  BY <1>2, <1>4, <1>6, CongruentEquivalence
<1> QED BY <1>5, <1>7 DEF IsAt, Extended, x, y, z, X, Y

\* A quotient of two numbers that were scaled alike
LEMMA ScaledAlike ==
    ASSUME NEW c \in Int, NEW N \in Int, NEW D \in Int, NEW zeta \in Int, NEW e \in Int, NEW g \in Int,
           Congruent(c * D, N), Congruent(e, N * zeta), Congruent(g, D * zeta)
    PROVE  Congruent(e, c * g)
<1> DEFINE cD == c * D
           Nz == N * zeta
           Dz == D * zeta
<1>1. cD \in Int /\ Nz \in Int /\ Dz \in Int /\ cD * zeta = c * Dz
  OBVIOUS
<1>2. Congruent(cD, N) /\ Congruent(g, Dz) /\ Congruent(e, Nz)
  OBVIOUS
<1>3. Congruent(c, c) /\ Congruent(zeta, zeta)
  BY DEF Congruent
<1> HIDE DEF cD, Dz
<1>4. Congruent(cD * zeta, N * zeta) /\ Congruent(c * g, c * Dz)
  BY <1>1, <1>2, <1>3, CongruentOps
<1> QED BY <1>1, <1>2, <1>4, CongruentEquivalence

LEMMA ProductIsUnit ==
    ASSUME NEW g \in Field, NEW A \in Int, NEW B \in Int, ~Congruent(A, 0), ~Congruent(B, 0), Congruent(g, A * B)
    PROVE  g \in Units
<1> DEFINE AB == A * B
<1>1. AB \in Int /\ ~Congruent(AB, 0) /\ Congruent(g, AB)
  BY NoZeroDivisors
<1> HIDE DEF AB
<1> QED BY <1>1, ZeroOrUnit

\* Where the parts of a formula are the numerators and the denominators of a sum,
\* scaled in pairs, its point is the sum.
LEMMA SumOf ==
    ASSUME NEW p \in CurvePoints, NEW q \in CurvePoints,
           NEW e \in Field, NEW f \in Field, NEW g \in Field, NEW h \in Field, NEW computeT \in BOOLEAN,
           NEW w \in Int, w = CURVE_D * ((p.x * q.x) * (p.y * q.y)),
           NEW zeta \in Int, NEW eta \in Int, ~Congruent(zeta, 0), ~Congruent(eta, 0),
           Congruent(e, (p.x * q.y + q.x * p.y) * zeta), Congruent(g, (1 + w) * zeta),
           Congruent(h, (p.y * q.y + p.x * q.x) * eta), Congruent(f, (1 - w) * eta)
    PROVE  IsAt(Extended(e, f, g, h, computeT), Plus(p, q))
<1> DEFINE c == Plus(p, q)
           nx == p.x * q.y + q.x * p.y
           ny == p.y * q.y + p.x * q.x
           dx == 1 + w
           dy == 1 - w
<1>1. /\ ~Congruent(dx, 0) /\ ~Congruent(dy, 0) /\ c \in AffinePoints
      /\ Congruent(c.x * dx, nx) /\ Congruent(c.y * dy, ny)
  BY PlusIs
<1>2. nx \in Int /\ ny \in Int /\ dx \in Int /\ dy \in Int
  <2>1. p.x \in Int /\ p.y \in Int /\ q.x \in Int /\ q.y \in Int
    BY FieldNumbers DEF CurvePoints
  <2> QED BY <2>1
<1>3. e \in Int /\ f \in Int /\ g \in Int /\ h \in Int /\ c.x \in Int /\ c.y \in Int
  BY <1>1, FieldNumbers DEF AffinePoints
<1>4. Congruent(e, nx * zeta) /\ Congruent(g, dx * zeta) /\ Congruent(h, ny * eta) /\ Congruent(f, dy * eta)
  OBVIOUS
<1> HIDE DEF c, nx, ny, dx, dy
<1>5. f \in Units /\ g \in Units
  BY <1>1, <1>2, <1>4, ProductIsUnit
<1>6. Congruent(e, c.x * g)
  BY <1>1, <1>2, <1>3, <1>4, ScaledAlike
<1>7. Congruent(h, c.y * f)
  BY <1>1, <1>2, <1>3, <1>4, ScaledAlike
<1> QED BY <1>1, <1>5, <1>6, <1>7, Assembled DEF c

\* The end of every addition
LEMMA AddsTo ==
    ASSUME NEW p \in CurvePoints, NEW q \in CurvePoints,
           NEW a \in Field, NEW b \in Field, NEW k \in Field, NEW d \in Field, NEW computeT \in BOOLEAN,
           NEW zeta \in Int, ~Congruent(zeta, 0),
           NEW w \in Int, w = CURVE_D * ((p.x * q.x) * (p.y * q.y)),
           Congruent(a, ((p.y - p.x) * (q.y - q.x)) * zeta), Congruent(b, ((p.y + p.x) * (q.y + q.x)) * zeta),
           Congruent(k, (2 * w) * zeta), Congruent(d, 2 * zeta)
    PROVE  IsAt(Extended(Difference(b, a), Difference(d, k), Sum(d, k), Sum(b, a), computeT), Plus(p, q))
<1> DEFINE X1 == p.x
           Y1 == p.y
           X2 == q.x
           Y2 == q.y
           A == ((Y1 - X1) * (Y2 - X2)) * zeta
           B == ((Y1 + X1) * (Y2 + X2)) * zeta
           K == (2 * w) * zeta
           D == 2 * zeta
           e == Difference(b, a)
           f == Difference(d, k)
           g == Sum(d, k)
           h == Sum(b, a)
<1>1. X1 \in Int /\ Y1 \in Int /\ X2 \in Int /\ Y2 \in Int
  BY FieldNumbers DEF CurvePoints
<1>2. Congruent(a, A) /\ Congruent(b, B) /\ Congruent(k, K) /\ Congruent(d, D)
  OBVIOUS
<1> HIDE DEF X1, Y1, X2, Y2
<1>3. A \in Int /\ B \in Int /\ K \in Int /\ D \in Int
  BY <1>1
<1>4. /\ B - A = (X1 * Y2 + X2 * Y1) * D /\ B + A = (Y1 * Y2 + X1 * X2) * D
      /\ D - K = (1 - w) * D /\ D + K = (1 + w) * D
  BY <1>1, SMT
<1>5. ~Congruent(D, 0)
  BY TwoIsUnit, NoZeroDivisors
<1> HIDE DEF A, B, K, D
<1>6. a \in Int /\ b \in Int /\ k \in Int /\ d \in Int
  BY FieldNumbers
<1>7. Congruent(e, B - A) /\ Congruent(h, B + A) /\ Congruent(f, D - K) /\ Congruent(g, D + K)
  BY <1>2, <1>3, <1>6, StandFor
<1>8. e \in Field /\ f \in Field /\ g \in Field /\ h \in Field
  BY FieldOps
<1> HIDE DEF e, f, g, h
<1>9. /\ Congruent(e, (p.x * q.y + q.x * p.y) * D) /\ Congruent(g, (1 + w) * D)
      /\ Congruent(h, (p.y * q.y + p.x * q.x) * D) /\ Congruent(f, (1 - w) * D)
  BY <1>4, <1>7, Zenon DEF X1, Y1, X2, Y2
<1>10. IsAt(Extended(e, f, g, h, computeT), Plus(p, q))
  BY <1>3, <1>5, <1>8, <1>9, SumOf
<1> QED BY <1>10 DEF e, f, g, h

-----------------------------------------------------------------------------
(***************************************************************************)
(* The formulas of the code: what each adds up or doubles                  *)
(***************************************************************************)
\* The entry of a table that holds a point, scaled
Holds(c, q, zeta) == /\ Congruent(c.yPlusX, (q.y + q.x) * zeta)
                     /\ Congruent(c.yMinusX, (q.y - q.x) * zeta)
                     /\ Congruent(c.t2d, (2 * CURVE_D) * ((q.x * q.y) * zeta))

LEMMA DifferencesAt ==
    ASSUME NEW p \in Coordinates, NEW c \in AffinePoints, IsAt(p, c)
    PROVE  /\ Congruent(Difference(p.y, p.x), (c.y - c.x) * p.z)
           /\ Congruent(Sum(p.y, p.x), (c.y + c.x) * p.z)
           /\ Congruent(Sum(p.z, p.z), 2 * p.z)
<1> DEFINE x == p.x
           y == p.y
           z == p.z
           X == c.x
           Y == c.y
           Xz == X * z
           Yz == Y * z
<1>1. x \in Int /\ y \in Int /\ z \in Int /\ X \in Int /\ Y \in Int
  BY FieldNumbers DEF Coordinates, AffinePoints
<1>2. Congruent(x, Xz) /\ Congruent(y, Yz) /\ Congruent(z, z)
  BY DEF IsAt, Congruent
<1> HIDE DEF x, y, z, X, Y
<1>3. /\ Xz \in Int /\ Yz \in Int /\ Yz - Xz = (Y - X) * z /\ Yz + Xz = (Y + X) * z /\ z + z = 2 * z
  BY <1>1
<1> HIDE DEF Xz, Yz
<1>4. Congruent(Difference(y, x), Yz - Xz) /\ Congruent(Sum(y, x), Yz + Xz) /\ Congruent(Sum(z, z), z + z)
  BY <1>1, <1>2, <1>3, StandFor
<1> QED BY <1>3, <1>4, Zenon DEF x, y, z, X, Y

LEMMA TwoDIs == Congruent(TwoD, 2 * CURVE_D)
<1> DEFINE d == CURVE_D
<1>1. d \in Int /\ Congruent(d, d)
  BY FieldConstants, FieldNumbers DEF Congruent
<1> HIDE DEF d
<1>2. Congruent(Sum(d, d), d + d) /\ d + d = 2 * d
  BY <1>1, StandFor
<1> QED BY <1>2, Zenon DEF TwoD, d

\* The points that an entry of a table stands beside
LEMMA CachedAdditionAt ==
    ASSUME NEW p \in Coordinates, NEW P \in CurvePoints, NEW Q \in CurvePoints, IsAt(p, P), HasT(p),
           NEW c \in CachedPoints \cup BaseEntries, NEW zeta \in Int, ~Congruent(zeta, 0), Holds(c, Q, zeta),
           "z2" \in DOMAIN c => Congruent(c.z2, 2 * zeta),
           "z2" \notin DOMAIN c => zeta = 1, NEW computeT \in BOOLEAN
    PROVE  IsAt(AddCached(p, c, computeT), Plus(P, Q))
<1> DEFINE X1 == P.x
           Y1 == P.y
           X2 == Q.x
           Y2 == Q.y
           z  == p.z
           D  == CURVE_D
           w  == D * ((X1 * X2) * (Y1 * Y2))
           u  == z * zeta
           minus == Difference(p.y, p.x)
           plus  == Sum(p.y, p.x)
           yPlusX  == c.yPlusX
           yMinusX == c.yMinusX
           t2d == c.t2d
           t == p.t
           a == Product(minus, yMinusX)
           b == Product(plus, yPlusX)
           k == Product(t, t2d)
           d == IF "z2" \in DOMAIN c THEN Product(p.z, c.z2) ELSE Sum(p.z, p.z)
<1>1. P \in AffinePoints /\ Q \in AffinePoints /\ X1 \in Int /\ Y1 \in Int /\ X2 \in Int /\ Y2 \in Int /\ D \in Int
  BY FieldNumbers, FieldConstants DEF CurvePoints, AffinePoints
<1>2. p.x \in Field /\ p.y \in Field /\ z \in Field /\ t \in Field /\ z \in Units /\ z \in Int
  BY FieldNumbers DEF Coordinates, IsAt
<1>3. /\ yPlusX \in Field /\ yMinusX \in Field /\ t2d \in Field
      /\ "z2" \in DOMAIN c => c.z2 \in Field
  BY DEF CachedPoints, BaseEntries
<1>4. minus \in Field /\ plus \in Field
  BY <1>2, FieldOps
<1>5. a \in Field /\ b \in Field /\ k \in Field
  <2> HIDE DEF minus, plus, yPlusX, yMinusX, t2d, t
  <2> QED BY <1>2, <1>3, <1>4, FieldOps
<1>6. d \in Field
  BY <1>2, <1>3, FieldOps
<1>7. AddCached(p, c, computeT) = Extended(Difference(b, a), Difference(d, k), Sum(d, k), Sum(b, a), computeT)
  BY Zenon DEF AddCached, Extended, a, b, k, d, minus, plus, yPlusX, yMinusX, t2d, t
<1>8. /\ Congruent(minus, (Y1 - X1) * z) /\ Congruent(plus, (Y1 + X1) * z)
      /\ Congruent(Sum(p.z, p.z), 2 * z)
  BY <1>1, DifferencesAt
<1>9. Congruent(t, (X1 * Y1) * z)
  BY <1>1, TimesCoordinate
<1>10. /\ Congruent(yPlusX, (Y2 + X2) * zeta) /\ Congruent(yMinusX, (Y2 - X2) * zeta)
       /\ Congruent(t2d, (2 * D) * ((X2 * Y2) * zeta))
  BY DEF Holds
<1>11. z \in Int /\ ~Congruent(z, 0) /\ Congruent(z, z)
  BY <1>2, FieldConstants, CongruentInField DEF Units, Congruent
<1>12. Congruent(d, 2 * u)
  <2>1. CASE "z2" \in DOMAIN c
    <3> DEFINE z2 == c.z2
               two == 2 * zeta
    <3>1. z2 \in Int
      BY <1>3, <2>1, FieldNumbers
    <3>2. two \in Int /\ z * two = 2 * u
      BY <1>11
    <3>3. Congruent(z2, two) /\ d = Product(z, z2)
      BY <2>1
    <3> HIDE DEF z2, two, d, u
    <3>4. Congruent(Product(z, z2), z * two)
      BY <1>11, <3>1, <3>2, <3>3, StandFor
    <3> QED BY <3>2, <3>3, <3>4
  <2>2. CASE "z2" \notin DOMAIN c
    <3>1. 2 * u = 2 * z /\ d = Sum(p.z, p.z)
      BY <1>11, <2>2
    <3> QED BY <1>8, <3>1
  <2> QED BY <2>1, <2>2
<1> DEFINE Am == (Y1 - X1) * z
           Ap == (Y1 + X1) * z
           T1 == (X1 * Y1) * z
           Bm == (Y2 - X2) * zeta
           Bp == (Y2 + X2) * zeta
           T2 == (2 * D) * ((X2 * Y2) * zeta)
<1>13. /\ minus \in Int /\ plus \in Int /\ yPlusX \in Int /\ yMinusX \in Int /\ t \in Int /\ t2d \in Int
  BY <1>2, <1>3, <1>4, FieldNumbers
<1>14. /\ Congruent(minus, Am) /\ Congruent(plus, Ap) /\ Congruent(t, T1)
       /\ Congruent(yMinusX, Bm) /\ Congruent(yPlusX, Bp) /\ Congruent(t2d, T2)
  BY <1>8, <1>9, <1>10
<1> HIDE DEF minus, plus, yPlusX, yMinusX, t2d, t, X1, X2, Y1, Y2, z, D, d
<1>15. Am \in Int /\ Ap \in Int /\ T1 \in Int /\ Bm \in Int /\ Bp \in Int /\ T2 \in Int /\ w \in Int /\ u \in Int
  BY <1>1, <1>11
<1>16. Am * Bm = ((Y1 - X1) * (Y2 - X2)) * u
  BY <1>1, <1>11, SMT
<1>17. Ap * Bp = ((Y1 + X1) * (Y2 + X2)) * u
  BY <1>1, <1>11, SMT
<1>18. T1 * T2 = (2 * w) * u
  BY <1>1, <1>11, SMT
<1>19. ~Congruent(u, 0)
  BY <1>11, NoZeroDivisors
<1> HIDE DEF Am, Ap, T1, Bm, Bp, T2, u
<1>20. Congruent(a, Am * Bm) /\ Congruent(b, Ap * Bp) /\ Congruent(k, T1 * T2)
  BY <1>13, <1>14, <1>15, StandFor
<1>21. w = CURVE_D * ((P.x * Q.x) * (P.y * Q.y))
  BY DEF X1, X2, Y1, Y2, D
<1> HIDE DEF w, a, b, k
<1>22. /\ Congruent(a, ((P.y - P.x) * (Q.y - Q.x)) * u) /\ Congruent(b, ((P.y + P.x) * (Q.y + Q.x)) * u)
       /\ Congruent(k, (2 * w) * u)
  BY <1>16, <1>17, <1>18, <1>20, Zenon DEF X1, X2, Y1, Y2
<1>23. IsAt(Extended(Difference(b, a), Difference(d, k), Sum(d, k), Sum(b, a), computeT), Plus(P, Q))
  BY <1>5, <1>6, <1>12, <1>15, <1>19, <1>21, <1>22, AddsTo
<1> QED BY <1>7, <1>23

LEMMA AdditionAt ==
    ASSUME NEW p \in Coordinates, NEW q \in Coordinates, NEW P \in CurvePoints, NEW Q \in CurvePoints,
           IsAt(p, P), HasT(p), IsAt(q, Q), HasT(q), NEW affineRhs \in BOOLEAN, affineRhs => q.z = 1
    PROVE  IsAt(AddImpl(p, q, affineRhs), Plus(P, Q))
<1> DEFINE X1 == P.x
           Y1 == P.y
           X2 == Q.x
           Y2 == Q.y
           z  == p.z
           zeta == q.z
           D  == CURVE_D
           w  == D * ((X1 * X2) * (Y1 * Y2))
           u  == z * zeta
           minus1 == Difference(p.y, p.x)
           plus1  == Sum(p.y, p.x)
           minus2 == Difference(q.y, q.x)
           plus2  == Sum(q.y, q.x)
           t1 == p.t
           t2 == q.t
           t  == Product(t1, t2)
           a == Product(minus1, minus2)
           b == Product(plus1, plus2)
           k == Product(t, TwoD)
           d == IF affineRhs THEN Sum(p.z, p.z) ELSE Product(2, Product(p.z, q.z))
<1>1. P \in AffinePoints /\ Q \in AffinePoints /\ X1 \in Int /\ Y1 \in Int /\ X2 \in Int /\ Y2 \in Int /\ D \in Int
  BY FieldNumbers, FieldConstants DEF CurvePoints, AffinePoints
<1>2. /\ p.x \in Field /\ p.y \in Field /\ z \in Field /\ t1 \in Field /\ z \in Units
      /\ q.x \in Field /\ q.y \in Field /\ zeta \in Field /\ t2 \in Field /\ zeta \in Units
  BY DEF Coordinates, IsAt
<1>3. minus1 \in Field /\ plus1 \in Field /\ minus2 \in Field /\ plus2 \in Field /\ t \in Field
  BY <1>2, FieldOps
<1>4. a \in Field /\ b \in Field /\ k \in Field
  <2> HIDE DEF minus1, plus1, minus2, plus2, t
  <2> QED BY <1>3, FieldOps, FieldConstants
<1>5. d \in Field
  BY <1>2, FieldOps, FieldConstants
<1>6. AddImpl(p, q, affineRhs) = Extended(Difference(b, a), Difference(d, k), Sum(d, k), Sum(b, a), TRUE)
  BY Zenon DEF AddImpl, Extended, a, b, k, d, minus1, plus1, minus2, plus2, t, t1, t2
<1>7. /\ Congruent(minus1, (Y1 - X1) * z) /\ Congruent(plus1, (Y1 + X1) * z)
      /\ Congruent(Sum(p.z, p.z), 2 * z)
      /\ Congruent(minus2, (Y2 - X2) * zeta) /\ Congruent(plus2, (Y2 + X2) * zeta)
  BY <1>1, DifferencesAt
<1>8. Congruent(t1, (X1 * Y1) * z) /\ Congruent(t2, (X2 * Y2) * zeta)
  BY <1>1, TimesCoordinate
<1>9. /\ z \in Int /\ ~Congruent(z, 0) /\ Congruent(z, z)
      /\ zeta \in Int /\ ~Congruent(zeta, 0) /\ Congruent(zeta, zeta)
  BY <1>2, FieldNumbers, FieldConstants, CongruentInField DEF Units, Congruent
<1>10. Congruent(d, 2 * u)
  <2>1. CASE ~affineRhs
    <3> DEFINE pz == Product(z, zeta)
    <3>1. d = Product(2, pz)
      BY <2>1
    <3>2. u \in Int /\ Congruent(2, 2)
      BY <1>9 DEF Congruent
    <3>3. pz \in Field /\ pz \in Int
      BY <1>2, FieldOps, FieldNumbers
    <3>4. Congruent(pz, u)
      BY <1>9, StandFor
    <3> HIDE DEF pz, u, d
    <3>5. Congruent(Product(2, pz), 2 * u)
      BY <3>2, <3>3, <3>4, StandFor
    <3> QED BY <3>1, <3>5
  <2>2. CASE affineRhs
    <3>1. 2 * u = 2 * z /\ d = Sum(p.z, p.z)
      BY <1>9, <2>2
    <3> QED BY <1>7, <3>1
  <2> QED BY <2>1, <2>2
<1> DEFINE Am == (Y1 - X1) * z
           Ap == (Y1 + X1) * z
           T1 == (X1 * Y1) * z
           Bm == (Y2 - X2) * zeta
           Bp == (Y2 + X2) * zeta
           T2 == (X2 * Y2) * zeta
           TT == T1 * T2
           DD == 2 * D
<1>11. /\ minus1 \in Int /\ plus1 \in Int /\ minus2 \in Int /\ plus2 \in Int /\ t1 \in Int /\ t2 \in Int
       /\ t \in Int /\ TwoD \in Int
  BY <1>2, <1>3, FieldNumbers, FieldConstants
<1>12. /\ Congruent(minus1, Am) /\ Congruent(plus1, Ap) /\ Congruent(t1, T1)
       /\ Congruent(minus2, Bm) /\ Congruent(plus2, Bp) /\ Congruent(t2, T2) /\ Congruent(TwoD, DD)
  BY <1>7, <1>8, TwoDIs
<1> HIDE DEF minus1, plus1, minus2, plus2, t1, t2, t, X1, X2, Y1, Y2, z, zeta, D, d
<1>13. /\ Am \in Int /\ Ap \in Int /\ T1 \in Int /\ Bm \in Int /\ Bp \in Int /\ T2 \in Int /\ DD \in Int
       /\ w \in Int /\ u \in Int /\ TT \in Int
  BY <1>1, <1>9
<1>14. Am * Bm = ((Y1 - X1) * (Y2 - X2)) * u
  BY <1>1, <1>9, SMT
<1>15. Ap * Bp = ((Y1 + X1) * (Y2 + X2)) * u
  BY <1>1, <1>9, SMT
<1>16. TT * DD = (2 * w) * u
  BY <1>1, <1>9, SMT
<1>17. ~Congruent(u, 0)
  BY <1>9, NoZeroDivisors
<1> HIDE DEF Am, Ap, T1, Bm, Bp, T2, DD, u
<1>18. Congruent(a, Am * Bm) /\ Congruent(b, Ap * Bp) /\ Congruent(t, TT)
  BY <1>11, <1>12, <1>13, StandFor DEF t
<1> HIDE DEF TT
<1>19. Congruent(k, TT * DD)
  BY <1>11, <1>12, <1>13, <1>18, StandFor
<1>20. w = CURVE_D * ((P.x * Q.x) * (P.y * Q.y))
  BY DEF X1, X2, Y1, Y2, D
<1> HIDE DEF w, a, b, k
<1>21. /\ Congruent(a, ((P.y - P.x) * (Q.y - Q.x)) * u) /\ Congruent(b, ((P.y + P.x) * (Q.y + Q.x)) * u)
       /\ Congruent(k, (2 * w) * u)
  BY <1>14, <1>15, <1>16, <1>18, <1>19, Zenon DEF X1, X2, Y1, Y2
<1>22. IsAt(Extended(Difference(b, a), Difference(d, k), Sum(d, k), Sum(b, a), TRUE), Plus(P, Q))
  BY <1>4, <1>5, <1>10, <1>13, <1>17, <1>20, <1>21, AddsTo
<1> QED BY <1>6, <1>22

\* The curve's own equation gives the denominators of a doubling.
LEMMA DoublingAt ==
    ASSUME NEW p \in Coordinates, NEW P \in CurvePoints, IsAt(p, P),
           NEW computeT \in BOOLEAN, NEW affineZ \in BOOLEAN, affineZ => p.z = 1
    PROVE  IsAt(DoubleImpl(p, computeT, affineZ), Plus(P, P))
<1> DEFINE X == P.x
           Y == P.y
           z == p.z
           x == p.x
           y == p.y
           D == CURVE_D
           w == D * ((X * X) * (Y * Y))
           u == z * z
           v == -u
           xx == Square(p.x)
           yy == Square(p.y)
           z2 == IF affineZ THEN 1 ELSE Square(p.z)
           s  == Sum(p.x, p.y)
           ss == Square(s)
           xy == Sum(xx, yy)
           zz == Sum(z2, z2)
           e  == Difference(ss, xy)
           g  == Difference(yy, xx)
           f  == Difference(g, zz)
           h  == Negated(xy)
<1>1. X \in Field /\ Y \in Field /\ X \in Int /\ Y \in Int /\ D \in Int /\ OnCurve(X, Y)
  BY FieldNumbers, FieldConstants DEF CurvePoints
<1>2. /\ x \in Field /\ y \in Field /\ z \in Field /\ z \in Units
      /\ Congruent(x, X * z) /\ Congruent(y, Y * z)
  BY DEF Coordinates, IsAt
<1>3. x \in Int /\ y \in Int /\ z \in Int /\ ~Congruent(z, 0) /\ Congruent(z, z)
  BY <1>2, FieldNumbers, FieldConstants, CongruentInField DEF Units, Congruent
<1>4. xx \in Field /\ yy \in Field /\ z2 \in Field /\ s \in Field
  BY <1>2, FieldOps, FieldConstants
<1>5. ss \in Field /\ xy \in Field /\ zz \in Field /\ g \in Field
  <2> HIDE DEF xx, yy, z2, s
  <2> QED BY <1>4, FieldOps
<1>6. e \in Field /\ f \in Field /\ h \in Field
  <2> HIDE DEF ss, xy, zz, g
  <2> QED BY <1>5, FieldOps
<1>7. DoubleImpl(p, computeT, affineZ) = Extended(e, f, g, h, computeT)
  BY Zenon DEF DoubleImpl, Extended, xx, yy, z2, s, ss, xy, zz, e, g, f, h
<1>8. Congruent(z2, u)
  <2>1. CASE affineZ
    <3>1. u = 1 /\ z2 = 1
      BY <2>1
    <3> QED BY <3>1, CongruentEquivalence
  <2>2. CASE ~affineZ
    <3>1. z2 = Product(z, z)
      BY <2>2 DEF Square
    <3>2. Congruent(Product(z, z), u)
      BY <1>3, StandFor
    <3> QED BY <3>1, <3>2
  <2> QED BY <2>1, <2>2
<1> DEFINE Xz == X * z
           Yz == Y * z
           XX == Xz * Xz
           YY == Yz * Yz
           S  == Xz + Yz
           SS == S * S
           XY == XX + YY
           ZZ == u + u
           E  == SS - XY
           G  == YY - XX
           F  == G - ZZ
           H  == 0 - XY
<1>9. /\ xx \in Int /\ yy \in Int /\ z2 \in Int /\ s \in Int /\ ss \in Int /\ xy \in Int /\ zz \in Int /\ g \in Int
  BY <1>4, <1>5, FieldNumbers
<1>10. /\ xx = Product(x, x) /\ yy = Product(y, y) /\ s = Sum(x, y) /\ ss = Product(s, s)
       /\ h = Difference(0, xy)
  BY Zenon DEF Square, Negated
<1>11. Congruent(Y * Y, (X * X + 1) + D * ((X * X) * (Y * Y)))
  BY <1>1, CurveEquation
<1> HIDE DEF X, Y, z, x, y, D, xx, yy, z2, s, h
<1>12. Xz \in Int /\ Yz \in Int /\ XX \in Int /\ YY \in Int /\ S \in Int /\ SS \in Int /\ XY \in Int /\ ZZ \in Int
  BY <1>1, <1>3
<1>13. E \in Int /\ G \in Int /\ F \in Int /\ H \in Int /\ w \in Int /\ u \in Int /\ v \in Int
  BY <1>1, <1>3
<1>14. Congruent(x, Xz) /\ Congruent(y, Yz)
  BY <1>2
<1>15. E = (X * Y + X * Y) * u
  BY <1>1, <1>3, SMT
<1>16. G = (Y * Y - X * X) * u
  BY <1>1, <1>3, SMT
<1>17. H = (Y * Y + X * X) * v
  BY <1>1, <1>3, SMT
<1>18. ~Congruent(u, 0) /\ ~Congruent(v, 0)
  <2>1. ~Congruent(u, 0)
    BY <1>3, NoZeroDivisors
  <2> HIDE DEF u
  <2>2. Congruent(v, 0) => Congruent(0 - v, 0 - 0)
    BY <1>13, CongruentOps DEF Congruent
  <2>3. 0 - v = u /\ 0 - 0 = 0
    BY <1>13
  <2> QED BY <2>1, <2>2, <2>3
<1>19. Congruent(G, (1 + w) * u)
  <2> DEFINE YYp == Y * Y
             XXp == X * X
             r == (XXp + 1) + D * (XXp * YYp)
             l == YYp - XXp
             r1 == r - XXp
  <2>1. YYp \in Int /\ XXp \in Int /\ r \in Int /\ l \in Int /\ r1 \in Int
    BY <1>1
  <2>2. Congruent(YYp, r) /\ Congruent(XXp, XXp)
    BY <1>11 DEF Congruent
  <2>3. r1 = 1 + w /\ G = l * u
    BY <1>1, <1>16
  <2> HIDE DEF YYp, XXp, r, G, w, u
  <2>4. Congruent(l, r1)
    BY <2>1, <2>2, CongruentOps
  <2>5. Congruent(u, u)
    BY DEF Congruent
  <2> HIDE DEF l, r1
  <2>6. Congruent(l * u, r1 * u)
    BY <1>13, <2>1, <2>4, <2>5, CongruentOps
  <2> QED BY <2>3, <2>6
<1> DEFINE W == (1 + w) * u
<1>20. W \in Int /\ W - ZZ = (1 - w) * v /\ Congruent(G, W)
  <2>1. w \in Int /\ u \in Int
    BY <1>13
  <2>2. W \in Int /\ W - ZZ = (1 - w) * v
    <3> HIDE DEF w, u
    <3> QED BY <2>1
  <2> QED BY <2>2, <1>19
<1> HIDE DEF Xz, Yz, W
<1>21. Congruent(xx, XX) /\ Congruent(yy, YY) /\ Congruent(s, S)
  BY <1>3, <1>10, <1>12, <1>14, StandFor
<1> HIDE DEF XX, YY, S, u
<1>22. Congruent(ss, SS) /\ Congruent(xy, XY) /\ Congruent(zz, ZZ) /\ Congruent(g, G)
  BY <1>8, <1>9, <1>10, <1>12, <1>13, <1>21, StandFor
<1> HIDE DEF SS, XY, ZZ, G, ss, xy, zz, g
<1>23. Congruent(e, E) /\ Congruent(f, F) /\ Congruent(h, H)
  <2>1. Congruent(e, E) /\ Congruent(f, F)
    BY <1>9, <1>12, <1>13, <1>22, StandFor
  <2>2. Congruent(0, 0)
    BY DEF Congruent
  <2>3. Congruent(Difference(0, xy), H)
    BY <1>9, <1>12, <1>22, <2>2, StandFor
  <2> QED BY <1>10, <2>1, <2>3
<1>24. Congruent(F, W - ZZ)
  <2>1. Congruent(ZZ, ZZ)
    BY DEF Congruent
  <2> QED BY <1>12, <1>13, <1>20, <2>1, CongruentOps
<1>25. Congruent(f, (1 - w) * v) /\ Congruent(g, (1 + w) * u)
  BY <1>20, <1>22, <1>23, <1>24, CongruentEquivalence DEF W
<1>26. w = CURVE_D * ((P.x * P.x) * (P.y * P.y))
  BY DEF X, Y, D
<1>27. Congruent(e, (X * Y + X * Y) * u) /\ Congruent(h, (Y * Y + X * X) * v)
  BY <1>15, <1>17, <1>23
<1> HIDE DEF w, e, f, g, h, E, F, H, v
<1>28. Congruent(e, (P.x * P.y + P.x * P.y) * u) /\ Congruent(h, (P.y * P.y + P.x * P.x) * v)
  BY <1>27, Zenon DEF X, Y
<1>29. IsAt(Extended(e, f, g, h, computeT), Plus(P, P))
  BY <1>5, <1>6, <1>13, <1>18, <1>25, <1>26, <1>28, SumOf
<1> QED BY <1>7, <1>29

-----------------------------------------------------------------------------
(***************************************************************************)
(* The opposite of a point                                                 *)
(***************************************************************************)
\* The opposite point on the curve
LEMMA OppositeOnCurve ==
    ASSUME NEW P \in CurvePoints
    PROVE  [x |-> Negated(P.x), y |-> P.y] \in CurvePoints
<1> DEFINE X == P.x
           Y == P.y
           D == CURVE_D
           m == Negated(X)
           XX == X * X
           YY == Y * Y
           mm == m * m
           r(a) == (a + 1) + D * (a * YY)
<1>1. X \in Field /\ Y \in Field /\ OnCurve(X, Y) /\ X \in Int /\ Y \in Int /\ D \in Int
  BY FieldNumbers, FieldConstants DEF CurvePoints
<1>2. m \in Field
  BY <1>1, FieldOps
<1>3. m \in Int /\ Congruent(m, -X)
  <2>1. Congruent(0, 0) /\ Congruent(X, X)
    BY DEF Congruent
  <2> HIDE DEF X
  <2>2. Congruent(Difference(0, X), 0 - X)
    BY <1>1, <2>1, StandFor
  <2>3. 0 - X = -X
    BY <1>1
  <2> QED BY <1>2, <2>2, <2>3, FieldNumbers DEF Negated
<1>4. Congruent(YY, r(XX))
  BY <1>1, CurveEquation
<1> HIDE DEF X, Y, m, D
<1>5. XX \in Int /\ YY \in Int /\ mm \in Int /\ (-X) * (-X) = XX /\ -X \in Int
  BY <1>1, <1>3
<1>6. Congruent(mm, XX)
  <2>1. Congruent(mm, (-X) * (-X))
    BY <1>3, <1>5, CongruentOps
  <2> QED BY <1>5, <2>1
<1>7. Congruent(r(mm), r(XX))
  <2> DEFINE a == mm * YY
             b == XX * YY
             Da == D * a
             Db == D * b
  <2>1. a \in Int /\ b \in Int /\ Da \in Int /\ Db \in Int
    BY <1>1, <1>5
  <2>2. Congruent(YY, YY) /\ Congruent(D, D) /\ Congruent(1, 1)
    BY DEF Congruent
  <2> HIDE DEF XX, YY, mm
  <2>3. Congruent(a, b)
    BY <1>5, <1>6, <2>2, CongruentOps
  <2> HIDE DEF a, b
  <2>4. Congruent(Da, Db)
    BY <1>1, <2>1, <2>2, <2>3, CongruentOps
  <2> HIDE DEF Da, Db
  <2>5. Congruent(mm + 1, XX + 1) /\ mm + 1 \in Int /\ XX + 1 \in Int
    BY <1>5, <1>6, <2>2, CongruentOps
  <2>6. Congruent((mm + 1) + Da, (XX + 1) + Db)
    BY <2>1, <2>4, <2>5, CongruentOps
  <2> QED BY <2>6 DEF Da, Db, a, b
<1>8. Congruent(YY, r(mm))
  BY <1>4, <1>7, CongruentEquivalence
<1>9. OnCurve(m, Y)
  BY <1>1, <1>2, <1>8, CurveEquation DEF D
<1> QED BY <1>1, <1>2, <1>9 DEF CurvePoints, m, X, Y

\* It is the opposite.
LEMMA OppositeIs ==
    ASSUME NEW n \in Int
    PROVE  PointAt(-n) = [x |-> Negated(PointAt(n).x), y |-> PointAt(n).y]
<1> DEFINE P == PointAt(n)
           Q == [x |-> Negated(P.x), y |-> P.y]
           X == P.x
           Y == P.y
           M == Q.x
           D == CURVE_D
           w == D * ((X * M) * (Y * Y))
           w1 == D * ((X * X) * (Y * Y))
           c == Plus(P, Q)
<1>1. P \in CurvePoints
  BY PointsOnCurve
<1>2. Q \in CurvePoints
  BY <1>1, OppositeOnCurve
<1>3. X \in Field /\ Y \in Field /\ X \in Int /\ Y \in Int /\ D \in Int /\ M \in Int /\ OnCurve(X, Y)
  BY <1>1, <1>2, FieldNumbers, FieldConstants DEF CurvePoints
<1>4. Congruent(M, -X) /\ -X \in Int
  <2>1. Congruent(0, 0) /\ Congruent(X, X)
    BY DEF Congruent
  <2>2. M = Difference(0, X)
    BY DEF Negated
  <2> HIDE DEF X, M
  <2>3. Congruent(Difference(0, X), 0 - X)
    BY <1>3, <2>1, StandFor
  <2>4. 0 - X = -X
    BY <1>3
  <2> QED BY <1>3, <2>2, <2>3, <2>4
<1>5. w \in Int /\ w1 \in Int
  BY <1>3
<1>6. /\ ~Congruent(1 + w, 0) /\ ~Congruent(1 - w, 0) /\ c \in AffinePoints
      /\ Congruent(c.x * (1 + w), X * Y + M * Y) /\ Congruent(c.y * (1 - w), Y * Y + X * M)
  <2>1. w = CURVE_D * ((P.x * Q.x) * (P.y * Q.y)) /\ Q.y = Y
    OBVIOUS
  <2> HIDE DEF w, P, Q
  <2> QED BY <1>1, <1>2, <1>5, <2>1, PlusIs
<1>7. Congruent(Y * Y, (X * X + 1) + D * ((X * X) * (Y * Y)))
  BY <1>3, CurveEquation
<1> DEFINE cx == c.x
           cy == c.y
<1>8. cx \in Field /\ cy \in Field /\ cx \in Int /\ cy \in Int
  BY <1>6, FieldNumbers DEF AffinePoints
<1>9. c = [x |-> cx, y |-> cy]
  BY <1>6 DEF AffinePoints
<1>10. Congruent(cx * (1 + w), X * Y + M * Y) /\ Congruent(cy * (1 - w), Y * Y + X * M)
  BY <1>6
<1> HIDE DEF c, cx, cy, P, Q, X, Y, M, D
<1> DEFINE XM == X * M
           XX == X * X
           MY == M * Y
           XY == X * Y
           YY == Y * Y
<1>11. XM \in Int /\ XX \in Int /\ YY \in Int /\ MY \in Int /\ XY \in Int /\ X * (-X) = -XX /\ (-X) * Y = -XY
  BY <1>3
<1>12. Congruent(XM, -XX) /\ Congruent(MY, -XY)
  <2>1. Congruent(X, X) /\ Congruent(Y, Y)
    BY DEF Congruent
  <2>2. Congruent(XM, X * (-X)) /\ Congruent(MY, (-X) * Y)
    BY <1>3, <1>4, <2>1, CongruentOps
  <2> QED BY <1>11, <2>2
<1>13. -XX \in Int /\ -XY \in Int /\ -w1 \in Int /\ XY + (-XY) = 0 /\ YY + (-XX) = YY - XX
  BY <1>5, <1>11
<1>14. Congruent(X * Y + M * Y, 0)
  <2>1. Congruent(XY, XY)
    BY DEF Congruent
  <2> HIDE DEF XY, MY
  <2>2. Congruent(XY + MY, XY + (-XY))
    BY <1>11, <1>12, <1>13, <2>1, CongruentOps
  <2>3. Congruent(XY + MY, 0)
    BY <1>13, <2>2
  <2> QED BY <2>3 DEF XY, MY
<1>15. Congruent(w, -w1)
  <2> DEFINE a == XM * YY
             b == (-XX) * YY
  <2>1. a \in Int /\ b \in Int /\ w = D * a /\ D * b = -w1
    BY <1>3, <1>11
  <2>2. Congruent(YY, YY) /\ Congruent(D, D)
    BY DEF Congruent
  <2> HIDE DEF XM, YY, XX, w, w1
  <2>3. Congruent(a, b)
    BY <1>11, <1>12, <1>13, <2>2, CongruentOps
  <2> HIDE DEF a, b
  <2>4. Congruent(D * a, D * b)
    BY <1>3, <2>1, <2>2, <2>3, CongruentOps
  <2> QED BY <2>1, <2>4
<1>16. Congruent(Y * Y + X * M, 1 - w)
  <2> DEFINE one == 1 - w
             r == (XX + 1) + w1
  <2>1. Congruent(YY, r) /\ r \in Int
    BY <1>5, <1>7, <1>11
  <2>2. Congruent(YY + XM, r + (-XX))
    <3> HIDE DEF XM, XX, YY, r
    <3> QED BY <1>11, <1>12, <1>13, <2>1, CongruentOps
  <2>3. r + (-XX) = 1 - (-w1)
    BY <1>5, <1>11
  <2>4. Congruent(1 - w, 1 - (-w1))
    <3>1. Congruent(1, 1)
      BY DEF Congruent
    <3> HIDE DEF w, w1
    <3> QED BY <1>5, <1>13, <1>15, <3>1, CongruentOps
  <2>5. Congruent(YY + XM, 1 - w)
    BY <2>2, <2>3, <2>4, CongruentEquivalence
  <2> QED BY <2>5
<1> DEFINE dx == 1 + w
           dy == 1 - w
<1>17. dx \in Int /\ dy \in Int /\ 0 * dx = 0 /\ 1 * dy = dy
  BY <1>5
<1>18. Congruent(cx * dx, 0 * dx) /\ Congruent(cy * dy, 1 * dy)
  BY <1>10, <1>14, <1>16, <1>17, CongruentEquivalence
<1>19. ~Congruent(dx, 0) /\ ~Congruent(dy, 0)
  BY <1>6
<1> HIDE DEF dx, dy
<1>20. Congruent(cx, 0) /\ Congruent(cy, 1)
  BY <1>8, <1>17, <1>18, <1>19, Cancels
<1>21. c = Neutral
  BY <1>8, <1>9, <1>20, FieldConstants, CongruentInField DEF Neutral
<1>22. PICK m \in 0..(8 * L - 1) : Q = PointAt(m)
  BY <1>2, GroupAssumption
<1>23. m \in Int
  OBVIOUS
<1>24. PointAt(n + m) = PointAt(0)
  BY <1>21, <1>22, <1>23, PointsAddUp, PointZero DEF c, P
<1>25. PointAt(-n) = PointAt(m)
  <2>1. -n \in Int /\ n + m \in Int /\ (-n) + (n + m) = m /\ (-n) + 0 = -n
    BY <1>23
  <2> DEFINE o == -n
             s == n + m
  <2>2. Plus(PointAt(o), PointAt(s)) = PointAt(o + s) /\ Plus(PointAt(o), PointAt(0)) = PointAt(o + 0)
    <3>1. o \in Int /\ s \in Int /\ 0 \in Int
      BY <2>1
    <3> HIDE DEF o, s
    <3> QED BY <3>1, PointsAddUp
  <2> QED BY <1>24, <2>1, <2>2
<1> QED BY <1>22, <1>25 DEF Q, P

-----------------------------------------------------------------------------
(***************************************************************************)
(* The entries of a table                                                  *)
(***************************************************************************)
\* An entry of a table that holds the point of residue n
IsEntry(c, n) == /\ c \in CachedPoints
                 /\ \E zeta \in Int : /\ ~Congruent(zeta, 0) /\ Holds(c, PointAt(n), zeta)
                                      /\ Congruent(c.z2, 2 * zeta)

LEMMA CachedHolds ==
    ASSUME NEW p \in Coordinates, NEW P \in AffinePoints, IsAt(p, P), HasT(p)
    PROVE  Holds(Cached(p), P, p.z) /\ Congruent(Cached(p).z2, 2 * p.z)
<1> DEFINE X == P.x
           Y == P.y
           z == p.z
           t == p.t
           D == CURVE_D
           T == (X * Y) * z
           DD == 2 * D
<1>1. X \in Int /\ Y \in Int /\ z \in Int /\ t \in Int /\ D \in Int /\ TwoD \in Int
  BY FieldNumbers, FieldConstants DEF AffinePoints, Coordinates
<1>2. Congruent(t, T) /\ Congruent(TwoD, DD)
  BY TimesCoordinate, TwoDIs
<1> HIDE DEF X, Y, z, t, D
<1>3. T \in Int /\ DD \in Int /\ T * DD = DD * T
  BY <1>1
<1> HIDE DEF T, DD
<1>4. Congruent(Product(t, TwoD), DD * T)
  BY <1>1, <1>2, <1>3, StandFor
<1>5. Congruent(Product(p.t, TwoD), (2 * CURVE_D) * ((P.x * P.y) * p.z))
  BY <1>4 DEF t, T, DD, X, Y, z, D
<1> QED BY <1>5, DifferencesAt, Zenon DEF Holds, Cached

LEMMA EntryOf ==
    ASSUME NEW p \in Coordinates, NEW n \in Int, IsAt(p, PointAt(n)), HasT(p)
    PROVE  IsEntry(Cached(p), n)
<1>1. PointAt(n) \in AffinePoints
  BY PointsInField
<1>2. p.z \in Int /\ ~Congruent(p.z, 0)
  BY FieldNumbers, FieldConstants, CongruentInField DEF IsAt, Units
<1>3. Holds(Cached(p), PointAt(n), p.z) /\ Congruent(Cached(p).z2, 2 * p.z)
  BY <1>1, CachedHolds
<1> QED BY <1>2, <1>3, CachedCloses DEF IsEntry

LEMMA OppositeEntryOf ==
    ASSUME NEW p \in Coordinates, NEW n \in Int, IsAt(p, PointAt(n)), HasT(p)
    PROVE  IsEntry(CachedOpposite(p), -n)
<1> DEFINE P == PointAt(n)
           Q == PointAt(-n)
           X == P.x
           Y == P.y
           M == Q.x
           z == p.z
           D == CURVE_D
           DD == 2 * D
           k == Product(p.t, TwoD)
           K == DD * ((X * Y) * z)
           c == CachedOpposite(p)
<1>1. P \in AffinePoints /\ Q = [x |-> Negated(X), y |-> Y]
  BY PointsInField, OppositeIs
<1>2. X \in Int /\ Y \in Int /\ z \in Int /\ ~Congruent(z, 0) /\ D \in Int
  BY <1>1, FieldNumbers, FieldConstants, CongruentInField DEF IsAt, AffinePoints, Units
<1>3. M \in Int /\ Congruent(M, 0 - X) /\ Q.y = Y
  <2>1. M = Difference(0, X) /\ Q.y = Y
    BY <1>1 DEF Negated
  <2>2. Congruent(0, 0) /\ Congruent(X, X)
    BY DEF Congruent
  <2> HIDE DEF X, M
  <2>3. Congruent(Difference(0, X), 0 - X) /\ Difference(0, X) \in Field
    BY <1>2, <2>2, StandFor, FieldClosed
  <2> QED BY <2>1, <2>3, FieldNumbers
<1>4. c \in CachedPoints
  BY CachedCloses
<1>5. c.yPlusX = Difference(p.y, p.x) /\ c.yMinusX = Sum(p.y, p.x) /\ c.z2 = Sum(p.z, p.z) /\ c.t2d = Difference(0, k)
  BY Zenon DEF CachedOpposite, Negated
<1>6. /\ Congruent(c.yPlusX, (Y - X) * z) /\ Congruent(c.yMinusX, (Y + X) * z) /\ Congruent(c.z2, 2 * z)
  BY <1>1, <1>5, DifferencesAt
<1>7. k \in Int /\ Congruent(k, K)
  <2>1. Congruent(Cached(p).t2d, (2 * CURVE_D) * ((P.x * P.y) * p.z))
    BY <1>1, CachedHolds DEF Holds
  <2>2. Cached(p).t2d = k
    BY DEF Cached
  <2>3. k \in Field
    BY <2>2, CachedCloses DEF CachedPoints
  <2> QED BY <2>1, <2>2, <2>3, FieldNumbers
<1> HIDE DEF X, Y, M, z, k, c, D
<1>8. K \in Int
  BY <1>2
<1>9. Congruent(c.t2d, 0 - K)
  <2>1. Congruent(0, 0)
    BY DEF Congruent
  <2> HIDE DEF K
  <2> QED BY <1>5, <1>7, <1>8, <2>1, StandFor
<1> DEFINE N == 0 - X
           Yp == (Y + M) * z
           Ym == (Y - M) * z
           T  == DD * ((M * Y) * z)
<1>10. N \in Int /\ (Y + N) * z = (Y - X) * z /\ (Y - N) * z = (Y + X) * z /\ DD * ((N * Y) * z) = 0 - K /\ DD \in Int
  BY <1>2, SMT
<1>11. Congruent(M, N) /\ Congruent(Y, Y) /\ Congruent(z, z) /\ Congruent(DD, DD)
  BY <1>3 DEF Congruent
<1> HIDE DEF N, DD
<1>12. Congruent(Y + M, Y + N) /\ Congruent(Y - M, Y - N) /\ Congruent(M * Y, N * Y)
  BY <1>2, <1>3, <1>10, <1>11, CongruentOps
<1> DEFINE p1 == Y + M
           p2 == Y + N
           m1 == Y - M
           m2 == Y - N
           x1 == M * Y
           x2 == N * Y
<1>13. p1 \in Int /\ p2 \in Int /\ m1 \in Int /\ m2 \in Int /\ x1 \in Int /\ x2 \in Int
  BY <1>2, <1>3, <1>10
<1> HIDE DEF p1, p2, m1, m2, x1, x2
<1>14. Congruent(p1 * z, p2 * z) /\ Congruent(m1 * z, m2 * z) /\ Congruent(x1 * z, x2 * z)
  BY <1>2, <1>11, <1>12, <1>13, CongruentOps DEF p1, p2, m1, m2, x1, x2
<1> DEFINE z1 == x1 * z
           z2 == x2 * z
<1>15. z1 \in Int /\ z2 \in Int /\ Congruent(z1, z2)
  BY <1>2, <1>13, <1>14
<1> HIDE DEF z1, z2
<1>16. Congruent(DD * z1, DD * z2)
  BY <1>10, <1>11, <1>15, CongruentOps
<1>17. Congruent(c.yPlusX, Yp) /\ Congruent(c.yMinusX, Ym) /\ Congruent(c.t2d, T)
  BY <1>6, <1>9, <1>10, <1>14, <1>16, CongruentEquivalence DEF p1, p2, m1, m2, x1, x2, z1, z2
<1>18. Holds(c, Q, z)
  BY <1>3, <1>17 DEF Holds, M, DD, D
<1> QED BY <1>2, <1>4, <1>6, <1>18 DEF IsEntry, c

LEMMA IdentityIsEntry == IsEntry(CachedIdentity, 0)
<1> DEFINE D == CURVE_D
           DD == 2 * D
<1>1. D \in Int
  BY FieldNumbers, FieldConstants
<1> HIDE DEF D
<1>2. (1 + 0) * 1 = 1 /\ (1 - 0) * 1 = 1 /\ DD * ((0 * 1) * 1) = 0 /\ 2 * 1 = 2
  BY <1>1
<1>3. Congruent(1, 1) /\ Congruent(2, 2) /\ Congruent(0, 0)
  BY DEF Congruent
<1>4. Holds(CachedIdentity, Neutral, 1) /\ Congruent(CachedIdentity.z2, 2 * 1)
  BY <1>2, <1>3 DEF Holds, CachedIdentity, Neutral, D, DD
<1> QED BY <1>4, IdentityIsCached, PointZero, TwoIsUnit DEF IsEntry

\* The coordinates of an entry are at its point.
LEMMA EntryAt ==
    ASSUME NEW c, NEW n \in Int, IsEntry(c, n)
    PROVE  /\ FromCachedWithoutT(c) \in Coordinates /\ IsAt(FromCachedWithoutT(c), PointAt(n))
           /\ c.t2d = Product(Product(CURVE_D, c.z2), Product(PointAt(n).x, PointAt(n).y))
<1> DEFINE P == PointAt(n)
           X == P.x
           Y == P.y
           D == CURVE_D
           plus  == c.yPlusX
           minus == c.yMinusX
           z2 == c.z2
<1>1. c \in CachedPoints /\ plus \in Field /\ minus \in Field /\ z2 \in Field /\ c.t2d \in Field
  BY DEF IsEntry, CachedPoints
<1>2. PICK zeta \in Int : ~Congruent(zeta, 0) /\ Holds(c, P, zeta) /\ Congruent(z2, 2 * zeta)
  BY DEF IsEntry
<1>3. P \in AffinePoints
  BY PointsInField
<1>4. /\ X \in Int /\ Y \in Int /\ X \in Field /\ Y \in Field /\ D \in Int /\ D \in Field
      /\ plus \in Int /\ minus \in Int /\ z2 \in Int
  BY <1>1, <1>3, FieldNumbers, FieldConstants DEF AffinePoints
<1>5. /\ Congruent(plus, (Y + X) * zeta) /\ Congruent(minus, (Y - X) * zeta)
      /\ Congruent(c.t2d, (2 * D) * ((X * Y) * zeta))
  BY <1>2 DEF Holds
<1> DEFINE A == (Y + X) * zeta
           B == (Y - X) * zeta
           C == (2 * D) * ((X * Y) * zeta)
           Z == 2 * zeta
<1> HIDE DEF X, Y, D, plus, minus, z2, P
<1>6. /\ A \in Int /\ B \in Int /\ C \in Int /\ Z \in Int /\ A - B = X * Z /\ A + B = Y * Z
      /\ (D * Z) * (X * Y) = C
  BY <1>4, SMT
<1>7. Congruent(plus, A) /\ Congruent(minus, B) /\ Congruent(z2, Z)
  BY <1>2, <1>5
<1>8. ~Congruent(Z, 0)
  BY <1>2, TwoIsUnit, NoZeroDivisors
<1> HIDE DEF A, B, Z, C
<1>9. Congruent(Difference(plus, minus), A - B) /\ Congruent(Sum(plus, minus), A + B)
  BY <1>4, <1>6, <1>7, StandFor
<1>10. Congruent(X, X) /\ Congruent(Y, Y) /\ Congruent(D, D)
  BY DEF Congruent
<1>11. Congruent(X * z2, X * Z) /\ Congruent(Y * z2, Y * Z)
  BY <1>4, <1>6, <1>7, <1>10, CongruentOps
<1>12. z2 \in Units
  BY <1>1, <1>6, <1>7, <1>8, ZeroOrUnit DEF z2
<1>13. /\ Congruent(Difference(plus, minus), X * z2) /\ Congruent(Sum(plus, minus), Y * z2)
  BY <1>6, <1>9, <1>11, CongruentEquivalence
<1>14. IsAt(FromCachedWithoutT(c), P)
  BY <1>12, <1>13 DEF FromCachedWithoutT, IsAt, X, Y, plus, minus, z2
<1>15. c.t2d = Product(Product(D, z2), Product(X, Y))
  <2> DEFINE dz == D * Z
             xy == X * Y
             pdz == Product(D, z2)
             pxy == Product(X, Y)
  <2>1. dz \in Int /\ xy \in Int /\ pdz \in Field /\ pxy \in Field
    <3>1. dz \in Int /\ xy \in Int
      BY <1>4, <1>6
    <3> QED BY <1>4, <3>1, FieldClosed
  <2>2. Congruent(pdz, dz) /\ Congruent(pxy, xy)
    BY <1>4, <1>6, <1>7, <1>10, StandFor
  <2>3. dz * xy = C
    BY <1>6
  <2> HIDE DEF dz, xy, pdz, pxy
  <2>4. pdz \in Int /\ pxy \in Int
    BY <2>1, FieldNumbers
  <2>5. Congruent(Product(pdz, pxy), dz * xy) /\ Product(pdz, pxy) \in Field
    BY <2>1, <2>2, <2>4, StandFor, FieldClosed
  <2>6. Congruent(c.t2d, Product(pdz, pxy))
    BY <1>5, <2>3, <2>5, CongruentEquivalence DEF C
  <2> QED BY <1>1, <2>5, <2>6, CongruentInField DEF pdz, pxy
<1> QED BY <1>1, <1>14, <1>15, FromCachedCloses DEF P, X, Y, D, z2

LEMMA AddEntryAt ==
    ASSUME NEW p \in Coordinates, NEW m \in Int, IsAt(p, PointAt(m)), HasT(p),
           NEW c, NEW n \in Int, IsEntry(c, n), NEW computeT \in BOOLEAN
    PROVE  IsAt(AddCached(p, c, computeT), PointAt(m + n))
<1>1. PointAt(m) \in CurvePoints /\ PointAt(n) \in CurvePoints
  BY PointsOnCurve
<1>2. c \in CachedPoints
  BY DEF IsEntry
<1>3. PICK zeta \in Int : ~Congruent(zeta, 0) /\ Holds(c, PointAt(n), zeta) /\ Congruent(c.z2, 2 * zeta)
  BY DEF IsEntry
<1>4. "z2" \in DOMAIN c
  BY <1>2 DEF CachedPoints
<1>5. IsAt(AddCached(p, c, computeT), Plus(PointAt(m), PointAt(n)))
  BY <1>1, <1>2, <1>3, <1>4, CachedAdditionAt
<1> QED BY <1>5, PointsAddUp

LEMMA AddBaseAt ==
    ASSUME NEW p \in Coordinates, NEW m \in Int, IsAt(p, PointAt(m)), HasT(p),
           NEW n \in Int, NEW computeT \in BOOLEAN
    PROVE  IsAt(AddCached(p, BaseEntry(n), computeT), PointAt(m + (8 * n)))
<1> DEFINE r == 8 * n
           P == PointAt(r)
           X == P.x
           Y == P.y
           D == CURVE_D
           c == BaseEntry(n)
<1>1. r \in Int
  OBVIOUS
<1>2. P \in CurvePoints /\ PointAt(m) \in CurvePoints
  BY <1>1, PointsOnCurve
<1>3. X \in Field /\ Y \in Field /\ X \in Int /\ Y \in Int /\ D \in Int
  BY <1>2, FieldNumbers, FieldConstants DEF CurvePoints
<1>4. c = [yPlusX |-> Sum(Y, X), yMinusX |-> Difference(Y, X), t2d |-> Product(Product(X, Y), TwoD)]
  BY Zenon DEF BaseEntry, r, P, X, Y
<1>5. c \in BaseEntries
  BY BaseEntriesClose
<1>6. Holds(c, P, 1)
  <2> DEFINE xy == X * Y
             pxy == Product(X, Y)
             DD == 2 * D
  <2>1. Congruent(X, X) /\ Congruent(Y, Y)
    BY DEF Congruent
  <2>2. xy \in Int /\ pxy \in Field /\ DD \in Int /\ TwoD \in Int /\ Congruent(TwoD, DD)
    BY <1>3, FieldOps, FieldNumbers, FieldConstants, TwoDIs
  <2>3. c.yPlusX = Sum(Y, X) /\ c.yMinusX = Difference(Y, X) /\ c.t2d = Product(pxy, TwoD)
    BY <1>4
  <2> HIDE DEF X, Y, DD, c
  <2>4. /\ Congruent(Sum(Y, X), Y + X) /\ Congruent(Difference(Y, X), Y - X) /\ Congruent(pxy, xy)
    BY <1>3, <2>1, StandFor
  <2>5. (Y + X) * 1 = Y + X /\ (Y - X) * 1 = Y - X /\ DD * (xy * 1) = xy * DD
    BY <1>3, <2>2
  <2> HIDE DEF xy, pxy
  <2>6. pxy \in Int
    BY <2>2, FieldNumbers
  <2>7. Congruent(Product(pxy, TwoD), xy * DD)
    BY <2>2, <2>4, <2>6, StandFor
  <2>8. /\ Congruent(c.yPlusX, (Y + X) * 1) /\ Congruent(c.yMinusX, (Y - X) * 1)
        /\ Congruent(c.t2d, DD * (xy * 1))
    BY <2>3, <2>4, <2>5, <2>7
  <2> QED BY <2>8, Zenon DEF Holds, X, Y, DD, xy, D
<1>7. "z2" \notin DOMAIN c
  BY <1>4
<1> HIDE DEF c, P, r
<1>8. IsAt(AddCached(p, c, computeT), Plus(PointAt(m), P))
  BY <1>2, <1>5, <1>6, <1>7, TwoIsUnit, CachedAdditionAt
<1>9. Plus(PointAt(m), P) = PointAt(m + r)
  BY <1>1, PointsAddUp DEF P
<1> QED BY <1>8, <1>9 DEF c, r

LEMMA DoubledAt ==
    ASSUME NEW p \in Coordinates, NEW n \in Int, IsAt(p, PointAt(n)),
           NEW computeT \in BOOLEAN, NEW affineZ \in BOOLEAN, affineZ => p.z = 1
    PROVE  IsAt(DoubleImpl(p, computeT, affineZ), PointAt(n + n))
<1>1. PointAt(n) \in CurvePoints
  BY PointsOnCurve
<1>2. IsAt(DoubleImpl(p, computeT, affineZ), Plus(PointAt(n), PointAt(n)))
  BY <1>1, DoublingAt
<1> QED BY <1>2, PointsAddUp

LEMMA AddedAt ==
    ASSUME NEW p \in Coordinates, NEW q \in Coordinates, NEW m \in Int, NEW n \in Int,
           IsAt(p, PointAt(m)), HasT(p), IsAt(q, PointAt(n)), HasT(q), NEW affineRhs \in BOOLEAN, affineRhs => q.z = 1
    PROVE  IsAt(AddImpl(p, q, affineRhs), PointAt(m + n))
<1>1. PointAt(m) \in CurvePoints /\ PointAt(n) \in CurvePoints
  BY PointsOnCurve
<1>2. IsAt(AddImpl(p, q, affineRhs), Plus(PointAt(m), PointAt(n)))
  BY <1>1, AdditionAt
<1> QED BY <1>2, PointsAddUp

LEMMA DoubledFourTimesAt ==
    ASSUME NEW p \in Coordinates, NEW n \in Int, IsAt(p, PointAt(n))
    PROVE  /\ DoubleFourTimes(p) \in Coordinates /\ HasT(DoubleFourTimes(p))
           /\ IsAt(DoubleFourTimes(p), PointAt(16 * n))
<1> DEFINE p2 == DoubleImpl(p, FALSE, FALSE)
           p4 == DoubleImpl(p2, FALSE, FALSE)
           p8 == DoubleImpl(p4, FALSE, FALSE)
           n2 == n + n
           n4 == n2 + n2
           n8 == n4 + n4
<1>1. n2 \in Int /\ n4 \in Int /\ n8 \in Int /\ n8 + n8 = 16 * n
  OBVIOUS
<1>2. p2 \in Coordinates /\ IsAt(p2, PointAt(n2))
  BY DoublingCloses, DoubledAt
<1> HIDE DEF p2, n2
<1>3. p4 \in Coordinates /\ IsAt(p4, PointAt(n4))
  BY <1>1, <1>2, DoublingCloses, DoubledAt
<1> HIDE DEF p4, n4
<1>4. p8 \in Coordinates /\ IsAt(p8, PointAt(n8))
  BY <1>1, <1>3, DoublingCloses, DoubledAt
<1> HIDE DEF p8, n8
<1> DEFINE p16 == DoubleImpl(p8, TRUE, FALSE)
<1>5. p16 \in Coordinates /\ HasT(p16) /\ IsAt(p16, PointAt(n8 + n8))
  BY <1>1, <1>4, DoublingCloses, DoubledAt
<1>6. DoubleFourTimes(p) = p16
  BY Zenon DEF DoubleFourTimes, Double, DoubleWithoutT, p2, p4, p8
<1> QED BY <1>1, <1>5, <1>6

\* Coordinates, T among them, of the point i times that of residue n
IsMultiple(q, n, i) == q \in Coordinates /\ HasT(q) /\ IsAt(q, PointAt(i * n))

LEMMA MultipleDoubles ==
    ASSUME NEW n \in Int, NEW i \in Int, NEW k \in Int, k = i + i, NEW q, IsMultiple(q, n, i)
    PROVE  IsMultiple(Double(q), n, k)
<1> DEFINE m == i * n
<1>1. m \in Int /\ m + m = k * n /\ q \in Coordinates /\ IsAt(q, PointAt(m))
  BY DEF IsMultiple
<1> HIDE DEF m
<1>2. IsAt(DoubleImpl(q, TRUE, FALSE), PointAt(m + m))
  BY <1>1, DoubledAt
<1> QED BY <1>1, <1>2, DoublingCloses DEF Double, IsMultiple

LEMMA MultiplesAdd ==
    ASSUME NEW n \in Int, NEW i \in Int, NEW j \in Int, NEW k \in Int, k = i + j,
           NEW q, NEW r, IsMultiple(q, n, i), IsMultiple(r, n, j)
    PROVE  IsMultiple(Add(q, r), n, k) /\ (r.z = 1 => IsMultiple(AddAffineRhs(q, r), n, k))
<1> DEFINE m == i * n
           o == j * n
<1>1. /\ m \in Int /\ o \in Int /\ m + o = k * n
      /\ q \in Coordinates /\ IsAt(q, PointAt(m)) /\ HasT(q)
      /\ r \in Coordinates /\ IsAt(r, PointAt(o)) /\ HasT(r)
  BY DEF IsMultiple
<1> HIDE DEF m, o
<1>2. ASSUME NEW affineRhs \in BOOLEAN, affineRhs => r.z = 1
      PROVE  IsMultiple(AddImpl(q, r, affineRhs), n, k)
  <2>1. IsAt(AddImpl(q, r, affineRhs), PointAt(m + o))
    BY <1>1, <1>2, AddedAt
  <2> QED BY <1>1, <2>1, AdditionCloses DEF IsMultiple
<1>3. IsMultiple(AddImpl(q, r, FALSE), n, k)
  BY <1>2
<1>4. ASSUME r.z = 1 PROVE IsMultiple(AddImpl(q, r, TRUE), n, k)
  BY <1>2, <1>4
<1> QED BY <1>3, <1>4 DEF Add, AddAffineRhs

\* The chain of for_each_table_multiple
LEMMA MultiplesAt ==
    ASSUME NEW p \in Coordinates, NEW n \in Int, IsAt(p, PointAt(n)), HasT(p), p.z = 1, NEW w \in 1..8
    PROVE  IsMultiple(TableMultiple(p)[w], n, w)
<1> DEFINE p2 == DoubleFromAffine(p)
           p3 == AddAffineRhs(p2, p)
           p4 == Double(p2)
           p5 == AddAffineRhs(p4, p)
           p6 == Double(p3)
           p7 == Add(p4, p3)
           p8 == Double(p4)
<1>1. IsMultiple(p, n, 1)
  <2>1. 1 * n = n
    OBVIOUS
  <2> QED BY <2>1 DEF IsMultiple
<1>2. IsMultiple(p2, n, 2)
  <2>1. IsAt(DoubleImpl(p, TRUE, TRUE), PointAt(n + n))
    BY DoubledAt
  <2>2. n + n = 2 * n
    OBVIOUS
  <2> QED BY <2>1, <2>2, DoublingCloses DEF DoubleFromAffine, IsMultiple
<1> HIDE DEF p2
<1>3. IsMultiple(p3, n, 3)
  <2>1. 3 = 2 + 1 /\ 1 \in Int /\ 2 \in Int /\ 3 \in Int
    OBVIOUS
  <2> QED BY <1>1, <1>2, <2>1, MultiplesAdd, Zenon
<1>4. IsMultiple(p4, n, 4)
  BY <1>2, MultipleDoubles
<1> HIDE DEF p3, p4
<1>5. IsMultiple(p5, n, 5)
  <2>1. 5 = 4 + 1 /\ 1 \in Int /\ 4 \in Int /\ 5 \in Int
    OBVIOUS
  <2> QED BY <1>1, <1>4, <2>1, MultiplesAdd, Zenon
<1>6. IsMultiple(p6, n, 6)
  BY <1>3, MultipleDoubles
<1>7. IsMultiple(p7, n, 7)
  BY <1>3, <1>4, MultiplesAdd
<1>8. IsMultiple(p8, n, 8)
  BY <1>4, MultipleDoubles
<1>9. TableMultiple(p) = <<p, p2, p3, p4, p5, p6, p7, p8>>
  BY Zenon DEF TableMultiple, p2, p3, p4, p5, p6, p7, p8
<1> HIDE DEF p5, p6, p7, p8
<1> QED BY <1>1, <1>2, <1>3, <1>4, <1>5, <1>6, <1>7, <1>8, <1>9

-----------------------------------------------------------------------------
(***************************************************************************)
(* Decoding                                                                *)
(***************************************************************************)
\* The steps of a decoding
DecodedY(bytes)    == bytes.y % FIELD_P
Numerator(bytes)   == Difference(Square(DecodedY(bytes)), 1)
Denominator(bytes) == Sum(1, Product(CURVE_D, Square(DecodedY(bytes))))
FirstRoot(bytes)   == Product(Numerator(bytes), Power(Product(Numerator(bytes), Denominator(bytes)), (FIELD_P - 5) \div 8))
Trial(bytes)       == Product(Denominator(bytes), Square(FirstRoot(bytes)))
RootFound(bytes)   == Trial(bytes) = Numerator(bytes) \/ Sum(Trial(bytes), Numerator(bytes)) = 0
RightRoot(bytes)   == IF Trial(bytes) # Numerator(bytes) /\ Sum(Trial(bytes), Numerator(bytes)) = 0
                      THEN Product(FirstRoot(bytes), SQRT_M1) ELSE FirstRoot(bytes)
SignedRoot(bytes)  == IF (RightRoot(bytes) % 2 = 1) # bytes.sign THEN Negated(RightRoot(bytes)) ELSE RightRoot(bytes)

LEMMA DecodingIs ==
    ASSUME NEW bytes \in EncodedBytes
    PROVE  /\ DecodedY(bytes) \in Field /\ Numerator(bytes) \in Field /\ Denominator(bytes) \in Field
           /\ FirstRoot(bytes) \in Field /\ Trial(bytes) \in Field
           /\ RightRoot(bytes) \in Field /\ SignedRoot(bytes) \in Field
           /\ \A computeT \in BOOLEAN :
                 /\ DecompressPoint(bytes, computeT).point
                       = [x |-> SignedRoot(bytes), y |-> DecodedY(bytes), z |-> 1,
                          t |-> IF computeT THEN Product(SignedRoot(bytes), DecodedY(bytes)) ELSE 0]
                 /\ DecompressPoint(bytes, computeT).valid = RootFound(bytes)
                 /\ DecompressPoint(bytes, computeT).xZero = (RightRoot(bytes) = 0)
<1>1. DecodedY(bytes) \in Field
  <2>1. bytes.y \in Int
    BY DecompressAssumption DEF EncodedBytes
  <2> QED BY <2>1, Residues DEF DecodedY
<1>2. Numerator(bytes) \in Field /\ Denominator(bytes) \in Field
  BY <1>1, FieldOps, FieldConstants DEF Numerator, Denominator
<1>3. FirstRoot(bytes) \in Field
  <2>1. Product(Numerator(bytes), Denominator(bytes)) \in Field
    BY <1>2, FieldOps
  <2>2. Product(Numerator(bytes), Denominator(bytes)) \in Int
    BY <2>1, FieldNumbers
  <2>3. (FIELD_P - 5) \div 8 \in Nat
    <3>1. FIELD_P - 5 \in Nat
      BY Residues
    <3> QED BY <3>1, SMT
  <2>4. Power(Product(Numerator(bytes), Denominator(bytes)), (FIELD_P - 5) \div 8) \in Field
    BY <2>2, <2>3, PowerInField
  <2> QED BY <1>2, <2>4, FieldOps DEF FirstRoot
<1>4. Trial(bytes) \in Field
  BY <1>2, <1>3, FieldOps DEF Trial
<1>5. RightRoot(bytes) \in Field
  BY <1>3, FieldOps, DecompressAssumption DEF RightRoot
<1>6. SignedRoot(bytes) \in Field
  BY <1>5, FieldOps DEF SignedRoot
<1> DEFINE atZero == RightRoot(bytes) = 0
           found == RootFound(bytes)
<1>7. ASSUME NEW computeT \in BOOLEAN
      PROVE  DecompressPoint(bytes, computeT)
                = [point |-> [x |-> SignedRoot(bytes), y |-> DecodedY(bytes), z |-> 1,
                              t |-> IF computeT THEN Product(SignedRoot(bytes), DecodedY(bytes)) ELSE 0],
                   valid |-> found, xZero |-> atZero]
  BY Zenon DEF DecompressPoint, DecodedY, Numerator, Denominator, FirstRoot, Trial, RootFound, RightRoot, SignedRoot
<1> HIDE DEF found, atZero
<1>8. ASSUME NEW computeT \in BOOLEAN
      PROVE  /\ DecompressPoint(bytes, computeT).point
                   = [x |-> SignedRoot(bytes), y |-> DecodedY(bytes), z |-> 1,
                      t |-> IF computeT THEN Product(SignedRoot(bytes), DecodedY(bytes)) ELSE 0]
             /\ DecompressPoint(bytes, computeT).valid = found
             /\ DecompressPoint(bytes, computeT).xZero = atZero
  <2> DEFINE point == [x |-> SignedRoot(bytes), y |-> DecodedY(bytes), z |-> 1,
                       t |-> IF computeT THEN Product(SignedRoot(bytes), DecodedY(bytes)) ELSE 0]
  <2>1. DecompressPoint(bytes, computeT) = [point |-> point, valid |-> found, xZero |-> atZero]
    BY <1>7
  <2> HIDE DEF point
  <2>2. /\ DecompressPoint(bytes, computeT).point = point
        /\ DecompressPoint(bytes, computeT).valid = found
        /\ DecompressPoint(bytes, computeT).xZero = atZero
    BY <2>1
  <2> QED BY <2>2 DEF point
<1> QED BY <1>1, <1>2, <1>3, <1>4, <1>5, <1>6, <1>8, Zenon DEF found, atZero

\* A root of the equation that a decoding solves is the x of a point.
LEMMA RootOnCurve ==
    ASSUME NEW x \in Field, NEW y \in Field
    PROVE  OnCurve(x, y) <=> Product(Sum(1, Product(CURVE_D, Square(y))), Square(x)) = Difference(Square(y), 1)
<1> DEFINE X == x * x
           Y == y * y
           d == CURVE_D
           dY == d * Y
           V == 1 + dY
           U == Y - 1
           xx == Square(x)
           yy == Square(y)
           dy == Product(d, yy)
           v == Sum(1, dy)
           u == Difference(yy, 1)
           l == Product(v, xx)
<1>1. x \in Int /\ y \in Int /\ d \in Int
  BY FieldNumbers, FieldConstants
<1>2. X \in Int /\ Y \in Int /\ dY \in Int /\ V \in Int /\ U \in Int
  <2> HIDE DEF d
  <2> QED BY <1>1
<1>3. OnCurve(x, y) <=> Congruent(Y, (X + 1) + d * (X * Y))
  BY CurveEquation
<1>4. xx \in Field /\ yy \in Field
  BY FieldOps
<1>5. dy \in Field
  <2> HIDE DEF yy
  <2> QED BY <1>4, FieldOps, FieldConstants
<1>6. v \in Field /\ u \in Field
  <2> HIDE DEF dy, yy
  <2> QED BY <1>4, <1>5, FieldOps, FieldConstants
<1>7. l \in Field
  <2> HIDE DEF v, xx
  <2> QED BY <1>4, <1>6, FieldOps
<1>8. Congruent(xx, X) /\ Congruent(yy, Y)
  BY <1>2, ResidueIsCongruent DEF Square, Product
<1>9. Congruent(d, d) /\ Congruent(1, 1) /\ Congruent(X, X) /\ Congruent(Y, Y)
  BY DEF Congruent
<1>10. xx \in Int /\ yy \in Int /\ dy \in Int /\ v \in Int /\ u \in Int /\ l \in Int
  BY <1>4, <1>5, <1>6, <1>7, FieldNumbers
<1>11. X + 1 \in Int /\ d * (X * Y) = dY * X
  <2> HIDE DEF d, X, Y
  <2> QED BY <1>1, <1>2 DEF dY
<1> HIDE DEF X, Y, d, xx, yy
<1>12. Congruent(dy, dY) /\ Congruent(u, U)
  BY <1>1, <1>2, <1>8, <1>9, <1>10, StandFor
<1> HIDE DEF dy, dY
<1>13. Congruent(v, V)
  BY <1>2, <1>9, <1>10, <1>12, StandFor
<1> HIDE DEF v, V
<1>14. Congruent(l, V * X)
  BY <1>2, <1>8, <1>10, <1>13, StandFor
<1>15. l = u <=> Congruent(V * X, U)
  BY <1>6, <1>7, <1>12, <1>14, CongruentInField, CongruentEquivalence
<1> DEFINE VX == V * X
           r == (X + 1) + d * (X * Y)
<1>16. VX \in Int /\ r \in Int /\ r = VX + 1 /\ Y = U + 1 /\ VX = r - 1
  BY <1>1, <1>2, <1>11 DEF V
<1> HIDE DEF VX, r, U
<1>17. Congruent(VX, U) => Congruent(VX + 1, U + 1)
  BY <1>2, <1>9, <1>16, CongruentOps
<1>18. Congruent(Y, r) => Congruent(r - 1, Y - 1)
  <2>1. Congruent(Y, r) => Congruent(r, Y)
    BY CongruentEquivalence
  <2> QED BY <1>2, <1>9, <1>16, <2>1, CongruentOps
<1>19. Congruent(VX, U) <=> Congruent(Y, r)
  BY <1>16, <1>17, <1>18, CongruentEquivalence DEF U
<1>20. l = u <=> OnCurve(x, y)
  BY <1>3, <1>15, <1>19 DEF VX, r
<1> QED BY <1>20 DEF l, u, v, dy, yy, xx, d

\* The square of an element and of its opposite
LEMMA OppositeSquare == ASSUME NEW a \in Field PROVE Square(Negated(a)) = Square(a)
<1> DEFINE m == Negated(a)
<1>1. a \in Int /\ m \in Field
  BY FieldNumbers, FieldOps
<1>2. Congruent(m, 0 - a)
  <2>1. Congruent(0, 0) /\ Congruent(a, a)
    BY DEF Congruent
  <2>2. Congruent(Difference(0, a), 0 - a)
    BY <1>1, <2>1, StandFor
  <2> QED BY <2>2 DEF Negated
<1> HIDE DEF m
<1>3. m \in Int /\ 0 - a \in Int /\ (0 - a) * (0 - a) = a * a
  BY <1>1, FieldNumbers
<1>4. Congruent(Product(m, m), (0 - a) * (0 - a))
  BY <1>2, <1>3, StandFor
<1>5. Congruent(Product(a, a), a * a)
  <2>1. Congruent(a, a)
    BY DEF Congruent
  <2> QED BY <1>1, <2>1, StandFor
<1>6. Product(m, m) \in Field /\ Product(a, a) \in Field
  BY <1>1, FieldOps
<1>7. Product(m, m) = Product(a, a)
  BY <1>3, <1>4, <1>5, <1>6, CongruentInField, CongruentEquivalence
<1> QED BY <1>7, Zenon DEF Square, m

\* A valid decoding is on the curve.
LEMMA DecodingOnCurve ==
    ASSUME NEW bytes \in EncodedBytes, RootFound(bytes)
    PROVE  OnCurve(SignedRoot(bytes), DecodedY(bytes))
<1> DEFINE u == Numerator(bytes)
           v == Denominator(bytes)
           r == FirstRoot(bytes)
           t == Trial(bytes)
           x == RightRoot(bytes)
<1>1. u \in Field /\ v \in Field /\ r \in Field /\ t \in Field /\ x \in Field /\ DecodedY(bytes) \in Field /\ SignedRoot(bytes) \in Field
  BY DecodingIs
<1>2. t = Product(v, Square(r))
  BY Zenon DEF Trial
<1>3. Product(v, Square(x)) = u
  <2>1. CASE t = u
    BY <1>2, <2>1 DEF RightRoot
  <2>2. CASE t # u
    <3>1. Sum(t, u) = 0 /\ x = Product(r, SQRT_M1)
      BY <2>2 DEF RootFound, RightRoot
    <3> DEFINE i == SQRT_M1
               rr == r * r
               ri == r * i
               vrr == v * rr
               vxx == v * Square(x)
    <3>2. i \in Field /\ i \in Int /\ Congruent(i * i, -1)
      <4>1. i \in Field /\ i \in Int
        BY DecompressAssumption, FieldNumbers
      <4>2. Congruent(Product(i, i), i * i)
        BY <4>1, ResidueIsCongruent DEF Product
      <4>3. Product(i, i) = FIELD_P - 1
        BY DecompressAssumption DEF Square
      <4>4. Congruent(FIELD_P - 1, -1)
        <5>1. FIELD_P - 1 = 1 * FIELD_P + (-1) /\ FIELD_P - 1 \in Int
          BY Residues
        <5> QED BY <5>1, CongruentByMultiple
      <4> QED BY <4>1, <4>2, <4>3, <4>4, CongruentEquivalence
    <3>3. u \in Int /\ v \in Int /\ r \in Int /\ t \in Int /\ x \in Int
      BY <1>1, FieldNumbers
    <3> HIDE DEF u, v, r, t, x, i
    <3>4. rr \in Int /\ ri \in Int /\ vrr \in Int /\ ri * ri = rr * (i * i) /\ rr * (-1) = -rr /\ v * (-rr) = -vrr /\ -rr \in Int
      BY <3>2, <3>3
    <3>5. Congruent(r, r) /\ Congruent(i, i) /\ Congruent(v, v)
      BY DEF Congruent
    <3>6. Congruent(x, ri) /\ Congruent(Square(r), rr)
      <4>1. Congruent(Product(r, i), ri) /\ Congruent(Product(r, r), rr)
        BY <3>2, <3>3, <3>5, StandFor
      <4>2. x = Product(r, i) /\ Square(r) = Product(r, r)
        BY <3>1, Zenon DEF i, Square
      <4> QED BY <4>1, <4>2, Zenon
    <3> HIDE DEF rr, ri
    <3>7. Congruent(Square(x), ri * ri)
      BY <3>3, <3>4, <3>6, StandFor DEF Square
    <3>8. Congruent(ri * ri, -rr)
      <4> DEFINE ii == i * i
      <4>1. ii \in Int /\ Congruent(ii, -1) /\ ri * ri = rr * ii /\ Congruent(rr, rr)
        BY <3>2, <3>4 DEF Congruent
      <4> HIDE DEF ii
      <4>2. Congruent(rr * ii, rr * (-1))
        BY <3>4, <4>1, CongruentOps
      <4> QED BY <3>4, <4>1, <4>2
    <3>9. Congruent(Square(x), -rr) /\ Square(x) \in Field /\ Square(x) \in Int /\ Square(r) \in Int
      <4>1. Square(x) \in Field /\ Square(r) \in Field
        BY <1>1, FieldOps DEF r, x
      <4> QED BY <3>7, <3>8, <4>1, FieldNumbers, CongruentEquivalence
    <3>10. Congruent(Product(v, Square(x)), v * (-rr)) /\ Congruent(Product(v, Square(r)), v * rr)
      BY <3>3, <3>4, <3>5, <3>6, <3>9, StandFor
    <3>11. Congruent(t + u, 0)
      <4>1. t + u \in Int
        BY <3>3
      <4>2. Congruent(Sum(t, u), t + u)
        BY <4>1, ResidueIsCongruent DEF Sum
      <4> QED BY <3>1, <4>2, CongruentEquivalence
    <3>12. Congruent(t, vrr)
      BY <1>2, <3>10
    <3> HIDE DEF vrr
    <3>13. Congruent(u, -vrr)
      <4> DEFINE s == t + u
      <4>1. s \in Int /\ Congruent(s, 0) /\ s - t = u /\ 0 - vrr = -vrr
        BY <3>3, <3>4, <3>11
      <4> HIDE DEF s
      <4>2. Congruent(s - t, 0 - vrr)
        BY <3>3, <3>4, <3>12, <4>1, CongruentOps
      <4> QED BY <4>1, <4>2
    <3>14. Product(v, Square(x)) \in Field
      BY <3>3, <3>9, FieldClosed
    <3>15. Congruent(Product(v, Square(x)), u)
      BY <3>4, <3>10, <3>13, CongruentEquivalence
    <3> QED BY <1>1, <3>14, <3>15, CongruentInField DEF u
  <2> QED BY <2>1, <2>2
<1>4. Square(SignedRoot(bytes)) = Square(x)
  BY <1>1, OppositeSquare DEF SignedRoot
<1>5. Product(v, Square(SignedRoot(bytes))) = u
  BY <1>3, <1>4
<1> QED BY <1>1, <1>5, RootOnCurve, Zenon DEF Numerator, Denominator

-----------------------------------------------------------------------------
(***************************************************************************)
(* The key, its residue, and the digits of a scalar                        *)
(***************************************************************************)
LEMMA ResidueIs ==
    ASSUME NEW c \in CurvePoints
    PROVE  ResidueOf(c) \in 0..(8 * L - 1) /\ PointAt(ResidueOf(c)) = c
<1>1. PICK m \in 0..(8 * L - 1) : PointAt(m) = c
  BY GroupAssumption
<1>2. Generated[m] = c
  BY <1>1, PeriodIs DEF PointAt
<1>3. ResidueOf(c) \in 0..(8 * L - 1) /\ Generated[ResidueOf(c)] = c
  BY <1>2, Zenon DEF ResidueOf
<1>4. ResidueOf(c) % (8 * L) = ResidueOf(c)
  BY <1>3, PeriodIs
<1> QED BY <1>3, <1>4 DEF PointAt

\* A valid decoding is a point of the curve in affine form, with its T.
LEMMA DecodedAt ==
    ASSUME NEW bytes \in EncodedBytes, RootFound(bytes)
    PROVE  LET p == DecompressPoint(bytes, TRUE).point
               c == [x |-> SignedRoot(bytes), y |-> DecodedY(bytes)]
           IN  c \in CurvePoints /\ p \in Coordinates /\ IsAt(p, c) /\ HasT(p) /\ p.z = 1 /\ Affine(p) = c
<1> DEFINE p == DecompressPoint(bytes, TRUE).point
           x == SignedRoot(bytes)
           y == DecodedY(bytes)
           c == [x |-> x, y |-> y]
<1>1. x \in Field /\ y \in Field /\ p = [x |-> x, y |-> y, z |-> 1, t |-> Product(x, y)]
  BY DecodingIs
<1>2. OnCurve(x, y)
  BY DecodingOnCurve
<1>3. c \in CurvePoints /\ c \in AffinePoints
  BY <1>1, <1>2 DEF CurvePoints, AffinePoints
<1>4. p \in Coordinates
  BY DecodingCloses
<1> HIDE DEF x, y, p
<1>5. p.z = 1 /\ p.x = x /\ p.y = y /\ p.t = Product(x, y) /\ c.x = x /\ c.y = y
  <2> DEFINE t == Product(x, y)
  <2> HIDE DEF t
  <2>1. p = [x |-> x, y |-> y, z |-> 1, t |-> t]
    BY <1>1 DEF t
  <2>2. p.z = 1 /\ p.x = x /\ p.y = y /\ p.t = t
    BY <2>1
  <2> QED BY <2>2 DEF t
<1>6. x * 1 = x /\ y * 1 = y
  <2>1. x \in Int /\ y \in Int
    BY <1>1, FieldNumbers
  <2> QED BY <2>1
<1>7. IsAt(p, c)
  <2>1. Congruent(x, x * 1) /\ Congruent(y, y * 1) /\ 1 \in Units
    BY <1>6, FieldConstants, CongruentEquivalence DEF Units
  <2> QED BY <1>5, <2>1 DEF IsAt
<1>8. HasT(p)
  BY <1>1, <1>5, FieldOps, ProductOfConstants DEF HasT
<1>9. Affine(p) = c
  BY <1>3, <1>4, <1>7, AffineIs
<1> QED BY <1>3, <1>4, <1>5, <1>7, <1>8, <1>9 DEF p, x, y

\* The residue of a decoded key, or the neutral one's
ResidueHeld(d) == IF d.valid THEN ResidueOf(Affine(d.point)) ELSE 0

LEMMA KeyAt ==
    ASSUME NEW bytes \in EncodedBytes, DecompressPoint(bytes, TRUE).valid
    PROVE  LET d == DecompressPoint(bytes, TRUE)
           IN  /\ ResidueHeld(d) \in Int /\ d.point \in Coordinates
               /\ IsAt(d.point, PointAt(ResidueHeld(d))) /\ HasT(d.point) /\ d.point.z = 1
<1> DEFINE c == [x |-> SignedRoot(bytes), y |-> DecodedY(bytes)]
           d == DecompressPoint(bytes, TRUE)
<1>1. RootFound(bytes)
  BY DecodingIs
<1>2. /\ c \in CurvePoints /\ d.point \in Coordinates /\ IsAt(d.point, c)
      /\ HasT(d.point) /\ d.point.z = 1 /\ Affine(d.point) = c
  BY <1>1, DecodedAt
<1>3. ResidueHeld(d) = ResidueOf(c)
  BY <1>2 DEF ResidueHeld
<1> HIDE DEF c, d
<1>4. ResidueHeld(d) \in 0..(8 * L - 1) /\ PointAt(ResidueHeld(d)) = c
  BY <1>2, <1>3, ResidueIs
<1>5. ResidueHeld(d) \in Int
  BY <1>4
<1> QED BY <1>2, <1>4, <1>5, Zenon DEF d

-----------------------------------------------------------------------------
(***************************************************************************)
(* What the digits of a scalar add up to                                   *)
(***************************************************************************)

\* The bias of the digits below one
BiasBelow[i \in 0..DIGITS] == IF i = 0 THEN 0 ELSE BiasBelow[i - 1] + 8 * Weight[i - 1]

LEMMA BiasBelowIs ==
    /\ BiasBelow[0] = 0 /\ Bias = BiasBelow[DIGITS]
    /\ \A i \in 0..DIGITS : BiasBelow[i] \in Nat /\ BiasBelow[i] <= Weight[i]
    /\ \A i \in 1..DIGITS : BiasBelow[i] = BiasBelow[i - 1] + 8 * Weight[i - 1]
<1> DEFINE earlier == [j \in 1..DIGITS |-> j - 1]
           step == [j \in 1..DIGITS |-> [v \in Nat |-> v + 8 * Weight[j - 1]]]
           IsSum(f) == f = [i \in 0..DIGITS |-> IF i = 0 THEN 0 ELSE f[i - 1] + 8 * Weight[i - 1]]
<1>1. DIGITS \in Nat /\ \A j \in 1..DIGITS : Weight[j - 1] \in Nat
  BY Radix16Assumption, WeightsPositive
<1>2. /\ step \in [1..DIGITS -> [Nat -> Nat]]
      /\ earlier \in [1..DIGITS -> Nat] /\ \A j \in 1..DIGITS : earlier[j] < j
  BY <1>1
<1>3. PICK f \in [0..DIGITS -> Nat] : Follows(f, DIGITS, 0, earlier, step)
  <2> HIDE DEF earlier, step
  <2> QED BY <1>1, <1>2, RecursionHasFunction
<1>4. ASSUME NEW i \in 0..DIGITS PROVE f[i] = IF i = 0 THEN 0 ELSE f[i - 1] + 8 * Weight[i - 1]
  <2>1. CASE i = 0
    BY <1>3, <2>1 DEF Follows
  <2>2. CASE i \in 1..DIGITS
    <3>1. f[i] = step[i][f[earlier[i]]]
      <4> HIDE DEF step, earlier
      <4> QED BY <1>3, <2>2 DEF Follows
    <3>2. f[i - 1] \in Nat /\ earlier[i] = i - 1
      BY <1>1, <1>3, <2>2
    <3> QED BY <1>1, <2>2, <3>1, <3>2
  <2> QED BY <1>1, <2>1, <2>2
<1>5. IsSum(f)
  BY <1>3, <1>4
<1>6. IsSum(BiasBelow)
  BY <1>5, Zenon DEF BiasBelow
<1>7. Bias = BiasBelow[DIGITS]
  BY Zenon DEF Bias, BiasBelow
<1>8. BiasBelow[0] = 0 /\ \A i \in 1..DIGITS : BiasBelow[i] = BiasBelow[i - 1] + 8 * Weight[i - 1]
  BY <1>1, <1>6
<1> DEFINE V == {i \in 0..DIGITS : BiasBelow[i] \in Nat /\ BiasBelow[i] <= Weight[i]}
           id == [i \in 0..DIGITS |-> i]
<1>9. \A i \in 0..DIGITS : id[i] \in V
  <2>1. id[0] \in V
    BY <1>1, <1>8, WeightsPositive
  <2>2. ASSUME NEW j \in 1..DIGITS, id[earlier[j]] \in V PROVE id[j] \in V
    <3>1. BiasBelow[j - 1] \in Nat /\ BiasBelow[j - 1] <= Weight[j - 1] /\ j - 1 \in 0..DIGITS
      BY <1>1, <2>2
    <3>2. Weight[j - 1] \in Nat /\ Weight[j] = 16 * Weight[j - 1]
      BY <1>1, <3>1, WeightIs
    <3>3. BiasBelow[j] = BiasBelow[j - 1] + 8 * Weight[j - 1]
      BY <1>8
    <3> QED BY <3>1, <3>2, <3>3
  <2> HIDE DEF id, V, earlier
  <2> QED BY <1>1, <1>2, <2>1, <2>2, RecursionStaysIn
<1>10. ASSUME NEW i \in 0..DIGITS PROVE BiasBelow[i] \in Nat /\ BiasBelow[i] <= Weight[i]
  BY <1>9
<1> QED BY <1>7, <1>8, <1>10

\* What the digits of a number from digit i on add up to, in units of that digit
IsUpper(h, n, i) == h * Weight[i] + (((n + Bias) % Weight[i]) - BiasBelow[i]) = n

\* Above the top digit nothing is left, for a scalar of the range.
LEMMA NothingAbove == \A n \in Scalars : IsUpper(0, n, DIGITS)
<1> SUFFICES ASSUME NEW n \in Scalars PROVE IsUpper(0, n, DIGITS)
  OBVIOUS
<1> DEFINE top == DIGITS - 1
           w == Weight[top]
<1>1. top \in 0..DIGITS /\ DIGITS \in 0..DIGITS /\ DIGITS \in 1..DIGITS
  BY Radix16Assumption
<1>2. w \in Nat /\ w > 0 /\ Weight[DIGITS] = 16 * w
  BY <1>1, WeightIs, WeightsPositive
<1>3. BiasBelow[top] \in Nat /\ BiasBelow[top] <= w /\ Bias = BiasBelow[top] + 8 * w /\ Bias = BiasBelow[DIGITS]
  BY <1>1, BiasBelowIs
<1>4. n \in 0..(2 * w - 1)
  BY DEF Scalars
<1>5. ASSUME NEW m \in Nat \ {0}, NEW k \in 0..(m - 1) PROVE k % m = k
  BY <1>5, SMT
<1> HIDE DEF w
<1>6. n + Bias \in 0..(16 * w - 1) /\ 16 * w \in Nat \ {0}
  BY <1>2, <1>3, <1>4
<1>7. (n + Bias) % Weight[DIGITS] = n + Bias
  BY <1>2, <1>5, <1>6
<1>8. 0 * Weight[DIGITS] = 0
  BY <1>2
<1>9. 0 + ((n + Bias) - Bias) = n
  BY <1>4, BiasNatural
<1> QED BY <1>3, <1>7, <1>8, <1>9, Zenon DEF IsUpper

\* A digit more
LEMMA UpperWithDigit ==
    ASSUME NEW n \in Nat, NEW i \in 0..(DIGITS - 1), NEW h \in Int, IsUpper(h, n, i + 1)
    PROVE  IsUpper(16 * h + ToRadix16(n)[i], n, i)
<1> DEFINE w == Weight[i]
           m == n + Bias
           q == m \div w
           r == m % w
           d == q % 16
           e == q \div 16
<1>1. i \in 0..DIGITS /\ i + 1 \in 1..DIGITS /\ (i + 1) - 1 = i
  BY Radix16Assumption
<1>2. w \in Nat \ {0} /\ Weight[i + 1] = 16 * w
  BY <1>1, WeightIs, WeightsPositive
<1>3. BiasBelow[i + 1] = BiasBelow[i] + 8 * w /\ BiasBelow[i] \in Nat
  BY <1>1, BiasBelowIs
<1>4. m \in Nat
  BY BiasNatural
<1>5. ToRadix16(n)[i] = d - 8
  BY DEF ToRadix16
<1> HIDE DEF w, m
<1>6. q \in Nat /\ r \in 0..(w - 1) /\ m = q * w + r
  BY <1>2, <1>4, SMT
<1> HIDE DEF q, r
<1>7. d \in 0..15 /\ e \in Int /\ q = e * 16 + d
  BY <1>6, SMT
<1> HIDE DEF d, e
<1>8. m % (16 * w) = d * w + r
  <2> DEFINE W == 16 * w
             k == d * w + r
  <2>1. W \in Nat \ {0} /\ k \in 0..(W - 1) /\ m = e * W + k
    <3>1. d * w >= 0 /\ d * w <= 15 * w
      BY <1>2, <1>7, SMT
    <3>2. m = e * (16 * w) + (d * w + r)
      BY <1>2, <1>6, <1>7, SMT
    <3> QED BY <1>2, <1>6, <1>7, <3>1, <3>2, SMT
  <2> HIDE DEF W, k
  <2>2. k % W = k
    BY <2>1, SMT
  <2>3. (e * W + k) % W = k % W
    <3>1. e \in Int /\ k \in Int
      BY <1>7, <2>1
    <3> QED BY <2>1, <3>1, ResidueOfMultiple
  <2> QED BY <2>1, <2>2, <2>3 DEF W, k
<1>9. h * (16 * w) + ((d * w + r) - (BiasBelow[i] + 8 * w)) = n
  BY <1>2, <1>3, <1>8 DEF IsUpper, m
<1>10. (16 * h + (d - 8)) * w + (r - BiasBelow[i]) = n
  BY <1>2, <1>3, <1>6, <1>7, <1>9, SMT
<1> QED BY <1>5, <1>10 DEF IsUpper, w, m, r

\* All digits together are the number.
LEMMA UpperOfAll == ASSUME NEW n \in Nat, NEW h \in Int, IsUpper(h, n, 0) PROVE h = n
<1>1. 0 \in 0..DIGITS
  BY Radix16Assumption
<1>2. Weight[0] = 1 /\ BiasBelow[0] = 0
  BY WeightIs, BiasBelowIs
<1>3. n + Bias \in Nat
  BY BiasNatural
<1>4. (n + Bias) % 1 = 0
  BY <1>3, SMT
<1> QED BY <1>2, <1>4 DEF IsUpper

-----------------------------------------------------------------------------
(***************************************************************************)
(* The invariant that the values of the lane keep                          *)
(***************************************************************************)
KeyInv == /\ phase = "decode" => ~decoded.valid
          /\ phase # "decode" => decoded = DecompressPoint(key, TRUE)

\* The slots written so far hold the multiples of the key, and all of them do once
\* the table has been selected.
EntriesInv ==
    /\ table[0] = CachedIdentity
    /\ phase = "select" => written = 8
    /\ phase \in {"table", "select"} /\ decoded.valid =>
          \A digit \in SignedDigits :
              -written <= digit /\ digit <= written => IsEntry(table[digit], digit * ResidueHeld(decoded))
    /\ phase \notin {"decode", "table", "select"} =>
          \A digit \in SignedDigits : IsEntry(table[digit], digit * ResidueHeld(decoded))

\* The part of s that the ladder has added when it comes to digit i: at an even one
\* all from there on, at an odd one those above, the pair of i being added later.
IsBasePart(h, s, i) == IF i % 2 = 0 THEN IsUpper(h, s, i) ELSE \E u \in Int : h = 16 * u /\ IsUpper(u, s, i + 1)

\* What the accumulator has become, before and after it was doubled for digit i,
\* and at the end
BeforeDigit(a, s, k, K, i) ==
    \E hs, hk \in Int : /\ IsBasePart(hs, s, i + 1) /\ IsUpper(hk, k, i + 1)
                        /\ IsAt(a, PointAt((8 * hs) - (hk * K)))
BeforeBase(a, s, k, K, i) ==
    \E hs, hk \in Int : /\ IsBasePart(hs, s, i + 1) /\ IsUpper(hk, k, i + 1)
                        /\ IsAt(a, PointAt(16 * ((8 * hs) - (hk * K))))
BeforeKey(a, s, k, K, i) ==
    \E hs, hk \in Int : /\ IsBasePart(hs, s, i) /\ IsUpper(hk, k, i + 1)
                        /\ IsAt(a, PointAt((8 * hs) - ((16 * hk) * K)))

ProgressInv ==
    /\ phase \notin {"decode", "table", "select", "recode"} =>
          /\ scalars.s \in Scalars /\ scalars.k \in Scalars
          /\ scalars.sDigits = ToRadix16(scalars.s) /\ scalars.kDigits = ToRadix16(scalars.k)
    /\ phase = "double" => BeforeDigit(acc, scalars.s, scalars.k, ResidueHeld(decoded), index)
    /\ phase = "addBase" => /\ index % 2 = 0
                            /\ BeforeBase(acc, scalars.s, scalars.k, ResidueHeld(decoded), index)
    /\ phase = "subtractKey" => BeforeKey(acc, scalars.s, scalars.k, ResidueHeld(decoded), index)
    /\ phase = "score" => IsAt(acc, PointAt((8 * scalars.s) - (scalars.k * ResidueHeld(decoded))))

ExactInv == KeyInv /\ EntriesInv /\ ProgressInv

LEMMA InitExact == Init => ExactInv
<1>1. DecodeDestination[0] = CachedIdentity
  BY DEF DecodeDestination, SignedDigits
<1> QED BY <1>1 DEF Init, ExactInv, KeyInv, EntriesInv, ProgressInv

LEMMA DecodeExact == ASSUME IInv, ExactInv, Decode PROVE ExactInv'
<1> DEFINE d == DecompressPoint(key, TRUE)
           K == ResidueHeld(d)
<1>1. /\ phase = "decode" /\ phase' = "table" /\ decoded' = d /\ key' = key /\ table' = table
      /\ written = 0 /\ written' = 0 /\ key \in EncodedBytes /\ table[0] = CachedIdentity
  BY DEF Decode, IInv, TableInv, ExactInv, EntriesInv
<1>2. KeyInv'
  BY <1>1 DEF KeyInv
<1>3. d.valid => IsEntry(table[0], 0 * K)
  <2> SUFFICES ASSUME d.valid PROVE IsEntry(table[0], 0 * K)
    OBVIOUS
  <2>1. K \in Int
    BY <1>1, KeyAt
  <2> HIDE DEF K
  <2>2. 0 * K = 0
    BY <2>1
  <2> QED BY <1>1, <2>2, IdentityIsEntry
<1>4. \A digit \in SignedDigits : -0 <= digit /\ digit <= 0 => digit = 0
  BY DEF SignedDigits
<1>5. EntriesInv'
  BY <1>1, <1>3, <1>4 DEF EntriesInv
<1>6. ProgressInv'
  BY <1>1 DEF ProgressInv
<1> QED BY <1>2, <1>5, <1>6 DEF ExactInv

LEMMA WriteExact == ASSUME IInv, ExactInv, WriteMultiple PROVE ExactInv'
<1> DEFINE w == written + 1
           p == TableMultiple(decoded.point)[w]
           K == ResidueHeld(decoded)
<1>1. w \in 1..8 /\ written \in 0..7 /\ table \in [SignedDigits -> CachedPoints \cup {Unset}]
  BY DEF IInv, TableInv, WriteMultiple
<1>2. /\ phase = "table" /\ written' = w /\ decoded' = decoded /\ key' = key
      /\ table' = [table EXCEPT ![w] = Cached(p), ![-w] = CachedOpposite(p)]
      /\ phase' = IF w = 8 THEN "select" ELSE "table"
  BY DEF WriteMultiple, SetMultiple
<1>3. w \in SignedDigits /\ -w \in SignedDigits /\ 0 \in SignedDigits
  BY <1>1 DEF SignedDigits
<1>4. KeyInv'
  BY <1>2 DEF ExactInv, KeyInv
<1>5. ProgressInv'
  BY <1>2 DEF ProgressInv
<1>6. table[0] = CachedIdentity /\ table'[0] = CachedIdentity
  <2> HIDE DEF p
  <2> QED BY <1>1, <1>2, <1>3 DEF ExactInv, EntriesInv
<1>7. ASSUME decoded.valid PROVE IsEntry(Cached(p), w * K) /\ IsEntry(CachedOpposite(p), (-w) * K)
  <2>1. /\ K \in Int /\ decoded.point \in Coordinates /\ IsAt(decoded.point, PointAt(K))
        /\ HasT(decoded.point) /\ decoded.point.z = 1
    <3>1. decoded = DecompressPoint(key, TRUE) /\ key \in EncodedBytes
      BY <1>2 DEF ExactInv, KeyInv, IInv
    <3> HIDE DEF K
    <3>2. K = ResidueHeld(DecompressPoint(key, TRUE))
      BY <3>1 DEF K
    <3> QED BY <1>7, <3>1, <3>2, KeyAt
  <2> HIDE DEF K, w
  <2>2. IsMultiple(p, K, w)
    BY <1>1, <2>1, MultiplesAt
  <2> HIDE DEF p
  <2> DEFINE n == w * K
  <2>3. n \in Int /\ (-w) * K = -n
    <3>1. w \in Int
      BY <1>1
    <3> QED BY <2>1, <3>1
  <2>4. p \in Coordinates /\ HasT(p) /\ IsAt(p, PointAt(n))
    BY <2>2 DEF IsMultiple
  <2> HIDE DEF n
  <2>5. IsEntry(Cached(p), n) /\ IsEntry(CachedOpposite(p), -n)
    BY <2>3, <2>4, EntryOf, OppositeEntryOf
  <2> QED BY <2>3, <2>5 DEF n
<1>8. ASSUME decoded.valid, NEW digit \in SignedDigits, -w <= digit, digit <= w
      PROVE  IsEntry(table'[digit], digit * K)
  <2> HIDE DEF p, K
  <2>1. CASE digit = w
    <3>1. table'[w] = Cached(p)
      BY <1>1, <1>2, <1>3
    <3> QED BY <1>7, <1>8, <2>1, <3>1
  <2>2. CASE digit = -w
    <3>1. table'[-w] = CachedOpposite(p)
      BY <1>1, <1>2, <1>3
    <3> QED BY <1>7, <1>8, <2>2, <3>1
  <2>3. CASE digit # w /\ digit # -w
    <3>1. -written <= digit /\ digit <= written
      BY <1>1, <1>8, <2>3 DEF SignedDigits
    <3>2. table'[digit] = table[digit]
      BY <1>1, <1>2, <2>3
    <3>3. IsEntry(table[digit], digit * K)
      BY <1>2, <1>8, <3>1 DEF ExactInv, EntriesInv, K
    <3> QED BY <3>2, <3>3
  <2> QED BY <2>1, <2>2, <2>3
<1>9. EntriesInv'
  <2> HIDE DEF p
  <2> QED BY <1>2, <1>6, <1>8 DEF EntriesInv
<1> QED BY <1>4, <1>5, <1>9 DEF ExactInv

\* A lane whose key did not decode runs on the table of the neutral point.
LEMMA SelectExact == ASSUME IInv, ExactInv, SelectTable PROVE ExactInv'
<1> DEFINE K == ResidueHeld(decoded)
<1>1. /\ phase = "select" /\ phase' = "recode" /\ decoded' = decoded /\ key' = key
      /\ table' = IF decoded.valid THEN table ELSE IdentityTable
  BY DEF SelectTable
<1>2. KeyInv' /\ ProgressInv'
  BY <1>1 DEF ExactInv, KeyInv, ProgressInv
<1>3. \A digit \in SignedDigits : IsEntry(table'[digit], digit * K)
  <2>1. CASE decoded.valid
    <3>1. \A digit \in SignedDigits : -8 <= digit /\ digit <= 8
      BY DEF SignedDigits
    <3> QED BY <1>1, <2>1, <3>1 DEF ExactInv, EntriesInv
  <2>2. CASE ~decoded.valid
    <3>1. K = 0 /\ \A digit \in SignedDigits : digit * 0 = 0
      BY <2>2 DEF ResidueHeld, SignedDigits
    <3>2. \A digit \in SignedDigits : table'[digit] = CachedIdentity
      BY <1>1, <2>2 DEF IdentityTable
    <3> HIDE DEF K
    <3> QED BY <3>1, <3>2, IdentityIsEntry
  <2> QED BY <2>1, <2>2
<1>4. table'[0] = CachedIdentity
  BY <1>1 DEF ExactInv, EntriesInv, IdentityTable, SignedDigits
<1>5. EntriesInv'
  BY <1>1, <1>3, <1>4 DEF EntriesInv
<1> QED BY <1>2, <1>5 DEF ExactInv

LEMMA RecodeExact == ASSUME IInv, ExactInv, Recode PROVE ExactInv'
<1>1. PICK s \in SignScalars, k \in Challenges :
          scalars' = [s |-> s, k |-> k, sDigits |-> ToRadix16(s), kDigits |-> ToRadix16(k)]
  BY DEF Recode
<1>2. s \in Scalars /\ k \in Scalars
  BY LaneAssumption
<1>3. KeyInv' /\ EntriesInv'
  BY DEF Recode, ExactInv, KeyInv, EntriesInv
<1>4. /\ scalars'.s = s /\ scalars'.k = k /\ scalars'.sDigits = ToRadix16(s) /\ scalars'.kDigits = ToRadix16(k)
  BY <1>1
<1>5. ProgressInv'
  BY <1>2, <1>4 DEF Recode, ProgressInv
<1> QED BY <1>3, <1>5 DEF ExactInv

-----------------------------------------------------------------------------
(***************************************************************************)
(* Every step keeps the invariant                                          *)
(***************************************************************************)
\* What the ladder has when it runs
LEMMA LadderHas ==
    ASSUME IInv, ExactInv, phase \in {"load", "double", "addBase", "subtractKey"}
    PROVE  /\ scalars.s \in Scalars /\ scalars.k \in Scalars /\ scalars.s \in Nat /\ scalars.k \in Nat
           /\ scalars.sDigits = ToRadix16(scalars.s) /\ scalars.kDigits = ToRadix16(scalars.k)
           /\ ResidueHeld(decoded) \in Int
           /\ index \in 0..(DIGITS - 1) /\ acc \in Coordinates
           /\ DIGITS \in Nat /\ DIGITS >= 4 /\ DIGITS % 2 = 0
           /\ \A i \in 0..(DIGITS - 1) : ToRadix16(scalars.s)[i] \in Int /\ ToRadix16(scalars.k)[i] \in BalancedDigits
<1>1. /\ scalars.s \in Scalars /\ scalars.k \in Scalars
      /\ scalars.sDigits = ToRadix16(scalars.s) /\ scalars.kDigits = ToRadix16(scalars.k)
  BY DEF ExactInv, ProgressInv
<1>2. scalars.s \in Nat /\ scalars.k \in Nat
  BY <1>1, ScalarsNatural
<1>3. ResidueHeld(decoded) \in Int
  <2>1. decoded = DecompressPoint(key, TRUE) /\ key \in EncodedBytes
    BY DEF ExactInv, KeyInv, IInv
  <2>2. CASE decoded.valid
    BY <2>1, <2>2, KeyAt
  <2>3. CASE ~decoded.valid
    BY <2>3 DEF ResidueHeld
  <2> QED BY <2>2, <2>3
<1>4. index \in 0..(DIGITS - 1) /\ acc \in Coordinates
  BY DEF IInv, LadderInv
<1>5. \A i \in 0..(DIGITS - 1) : ToRadix16(scalars.s)[i] \in BalancedDigits /\ ToRadix16(scalars.k)[i] \in BalancedDigits
  BY <1>2, DigitsBalanced
<1>6. BalancedDigits \subseteq Int
  BY DEF BalancedDigits
<1> QED BY <1>1, <1>2, <1>3, <1>4, <1>5, <1>6, Radix16Assumption

\* The entry that the digit selects, of the opposite multiple
LEMMA SelectedEntry ==
    ASSUME IInv, ExactInv, phase \in {"load", "subtractKey"}
    PROVE  IsEntry(KeyEntry, (-(ToRadix16(scalars.k)[index])) * ResidueHeld(decoded))
<1> DEFINE d == ToRadix16(scalars.k)[index]
<1>1. d \in BalancedDigits /\ scalars.kDigits = ToRadix16(scalars.k)
  BY LadderHas
<1>2. -d \in SignedDigits
  BY <1>1 DEF BalancedDigits, SignedDigits
<1>3. KeyEntry = table[-d]
  BY <1>1 DEF KeyEntry
<1> HIDE DEF d
<1>4. IsEntry(table[-d], (-d) * ResidueHeld(decoded))
  BY <1>2 DEF ExactInv, EntriesInv
<1> QED BY <1>3, <1>4 DEF d

LEMMA LoadExact == ASSUME IInv, ExactInv, LoadTopDigit PROVE ExactInv'
<1> DEFINE s == scalars.s
           k == scalars.k
           K == ResidueHeld(decoded)
           d == ToRadix16(k)[index]
           n == (-d) * K
<1>1. /\ phase = "load" /\ phase' = "double" /\ acc' = FromCachedWithoutT(KeyEntry) /\ index' = index - 1
      /\ decoded' = decoded /\ key' = key /\ table' = table /\ scalars' = scalars
  BY DEF LoadTopDigit
<1>2. /\ s \in Scalars /\ k \in Scalars /\ k \in Nat /\ K \in Int /\ d \in BalancedDigits /\ d \in Int
      /\ DIGITS \in Nat /\ DIGITS >= 4 /\ DIGITS % 2 = 0
  <2>1. BalancedDigits \subseteq Int
    BY DEF BalancedDigits
  <2> QED BY <1>1, <2>1, LadderHas
<1>3. index = DIGITS - 1
  BY <1>1 DEF IInv, LadderInv
<1>4. KeyInv' /\ EntriesInv'
  BY <1>1 DEF ExactInv, KeyInv, EntriesInv
<1>5. IsEntry(KeyEntry, n)
  BY <1>1, SelectedEntry
<1> HIDE DEF s, k, K, d, n
<1>6. n \in Int
  BY <1>2 DEF n
<1>7. IsAt(acc', PointAt(n))
  BY <1>1, <1>5, <1>6, EntryAt
<1>8. IsBasePart(0, s, DIGITS - 1)
  <2>1. (DIGITS - 1) % 2 # 0 /\ (DIGITS - 1) + 1 = DIGITS /\ 0 = 16 * 0
    BY <1>2, SMT
  <2>2. IsUpper(0, s, DIGITS)
    BY <1>2, NothingAbove
  <2>3. \E u \in Int : 0 = 16 * u /\ IsUpper(u, s, (DIGITS - 1) + 1)
    BY <2>1, <2>2
  <2> QED BY <2>1, <2>3, Zenon DEF IsBasePart
<1>9. IsUpper(d, k, DIGITS - 1)
  <2>1. IsUpper(0, k, (DIGITS - 1) + 1)
    <3>1. (DIGITS - 1) + 1 = DIGITS
      BY <1>2
    <3> QED BY <1>2, <3>1, NothingAbove
  <2>2. DIGITS - 1 \in 0..(DIGITS - 1)
    BY <1>2
  <2>3. IsUpper(16 * 0 + ToRadix16(k)[DIGITS - 1], k, DIGITS - 1)
    BY <1>2, <2>1, <2>2, UpperWithDigit
  <2>4. 16 * 0 + ToRadix16(k)[DIGITS - 1] = d
    <3>1. d = ToRadix16(k)[DIGITS - 1]
      BY <1>3 DEF d
    <3> QED BY <1>2, <3>1
  <2> QED BY <2>3, <2>4
<1>10. (8 * 0) - (d * K) = n
  BY <1>2 DEF n
<1>11. index' + 1 = DIGITS - 1
  BY <1>1, <1>2, <1>3
<1>12. BeforeDigit(acc', s, k, K, index')
  <2>1. /\ IsBasePart(0, s, index' + 1) /\ IsUpper(d, k, index' + 1)
        /\ IsAt(acc', PointAt((8 * 0) - (d * K)))
    BY <1>7, <1>8, <1>9, <1>10, <1>11
  <2>2. 0 \in Int
    OBVIOUS
  <2> QED BY <1>2, <2>1, <2>2, Zenon DEF BeforeDigit
<1>13. ProgressInv'
  <2>1. scalars.sDigits = ToRadix16(s) /\ scalars.kDigits = ToRadix16(k)
    BY <1>1, LadderHas DEF s, k
  <2> QED BY <1>1, <1>2, <1>12, <2>1 DEF ProgressInv, s, k, K
<1> QED BY <1>4, <1>13 DEF ExactInv

LEMMA QuadrupleExact == ASSUME IInv, ExactInv, Quadruple PROVE ExactInv'
<1> DEFINE s == scalars.s
           k == scalars.k
           K == ResidueHeld(decoded)
<1>1. /\ phase = "double" /\ acc' = DoubleFourTimes(acc) /\ index' = index
      /\ phase' = (IF index % 2 = 0 THEN "addBase" ELSE "subtractKey")
      /\ decoded' = decoded /\ key' = key /\ table' = table /\ scalars' = scalars
  BY DEF Quadruple
<1>2. s \in Scalars /\ k \in Scalars /\ K \in Int /\ index \in 0..(DIGITS - 1) /\ acc \in Coordinates
  BY <1>1, LadderHas
<1>3. KeyInv' /\ EntriesInv'
  BY <1>1 DEF ExactInv, KeyInv, EntriesInv
<1>4. BeforeDigit(acc, s, k, K, index)
  BY <1>1 DEF ExactInv, ProgressInv
<1>5. scalars.sDigits = ToRadix16(s) /\ scalars.kDigits = ToRadix16(k)
  BY <1>1, LadderHas
<1> HIDE DEF s, k, K
<1>6. PICK hs \in Int, hk \in Int : /\ IsBasePart(hs, s, index + 1) /\ IsUpper(hk, k, index + 1)
                                    /\ IsAt(acc, PointAt((8 * hs) - (hk * K)))
  BY <1>4, Zenon DEF BeforeDigit
<1> DEFINE n == (8 * hs) - (hk * K)
<1>7. n \in Int
  BY <1>2
<1> HIDE DEF n
<1>8. IsAt(acc', PointAt(16 * n))
  <2>1. IsAt(acc, PointAt(n))
    BY <1>6 DEF n
  <2> QED BY <1>1, <1>2, <1>7, <2>1, DoubledFourTimesAt
<1>9. ASSUME index % 2 = 0 PROVE BeforeBase(acc', s, k, K, index)
  BY <1>6, <1>8, Zenon DEF BeforeBase, n
<1>10. ASSUME index % 2 # 0 PROVE BeforeKey(acc', s, k, K, index)
  <2>1. (index + 1) % 2 = 0
    BY <1>2, <1>10, SMT
  <2>2. IsUpper(hs, s, index + 1)
    BY <1>6, <2>1, Zenon DEF IsBasePart
  <2> DEFINE h == 16 * hs
  <2>3. h \in Int /\ IsBasePart(h, s, index)
    <3>1. h \in Int
      OBVIOUS
    <3>2. \E u \in Int : h = 16 * u /\ IsUpper(u, s, index + 1)
      BY <1>6, <2>2
    <3> QED BY <1>10, <3>1, <3>2, Zenon DEF IsBasePart
  <2>4. 16 * n = (8 * h) - ((16 * hk) * K)
    BY <1>2 DEF n
  <2> HIDE DEF h
  <2>5. IsAt(acc', PointAt((8 * h) - ((16 * hk) * K)))
    BY <1>8, <2>4
  <2> QED BY <1>6, <2>3, <2>5, Zenon DEF BeforeKey
<1>11. ProgressInv'
  BY <1>1, <1>2, <1>5, <1>9, <1>10 DEF ProgressInv, s, k, K
<1> QED BY <1>3, <1>11 DEF ExactInv

LEMMA AddBaseExact == ASSUME IInv, ExactInv, AddBasePair PROVE ExactInv'
<1> DEFINE s == scalars.s
           k == scalars.k
           K == ResidueHeld(decoded)
           n == BasePairDigit(scalars.sDigits, index \div 2)
           low  == ToRadix16(s)[index]
           high == ToRadix16(s)[index + 1]
<1>1. /\ phase = "addBase" /\ phase' = "subtractKey" /\ acc' = AddCached(acc, BaseEntry(n), TRUE) /\ index' = index
      /\ decoded' = decoded /\ key' = key /\ table' = table /\ scalars' = scalars
  BY DEF AddBasePair
<1>2. /\ s \in Scalars /\ s \in Nat /\ k \in Scalars /\ K \in Int /\ index \in 0..(DIGITS - 1) /\ acc \in Coordinates
      /\ DIGITS \in Nat /\ DIGITS % 2 = 0 /\ \A i \in 0..(DIGITS - 1) : ToRadix16(s)[i] \in Int
  BY <1>1, LadderHas
<1>3. KeyInv' /\ EntriesInv'
  BY <1>1 DEF ExactInv, KeyInv, EntriesInv
<1>4. index % 2 = 0 /\ BeforeBase(acc, s, k, K, index) /\ HasT(acc)
  BY <1>1 DEF ExactInv, ProgressInv, IInv, LadderInv
<1>5. scalars.sDigits = ToRadix16(s) /\ scalars.kDigits = ToRadix16(k)
  BY <1>1, LadderHas
<1>6. index + 1 \in 0..(DIGITS - 1) /\ 2 * (index \div 2) = index /\ (index + 1) % 2 # 0
  BY <1>2, <1>4, SMT
<1>7. n = low + 16 * high /\ low \in Int /\ high \in Int
  <2>1. n = ToRadix16(s)[2 * (index \div 2)] + 16 * ToRadix16(s)[2 * (index \div 2) + 1]
    BY <1>5 DEF BasePairDigit
  <2> QED BY <1>2, <1>6, <2>1
<1>8. n \in Int
  <2> HIDE DEF n, low, high
  <2> QED BY <1>7
<1> HIDE DEF s, k, K, n, low, high
<1>9. PICK hs \in Int, hk \in Int : /\ IsBasePart(hs, s, index + 1) /\ IsUpper(hk, k, index + 1)
                                    /\ IsAt(acc, PointAt(16 * ((8 * hs) - (hk * K))))
  BY <1>4, Zenon DEF BeforeBase
<1>10. PICK u \in Int : hs = 16 * u /\ IsUpper(u, s, (index + 1) + 1)
  BY <1>6, <1>9, Zenon DEF IsBasePart
<1> DEFINE v == 16 * u + high
           h == 16 * v + low
<1>11. v \in Int /\ h \in Int /\ h = (16 * hs) + n
  BY <1>7, <1>10
<1>12. IsUpper(v, s, index + 1)
  BY <1>2, <1>6, <1>10, UpperWithDigit DEF high
<1>13. IsUpper(h, s, index)
  <2> HIDE DEF v
  <2> QED BY <1>2, <1>11, <1>12, UpperWithDigit DEF low
<1> HIDE DEF v, h
<1>14. IsBasePart(h, s, index)
  BY <1>4, <1>13, Zenon DEF IsBasePart
<1> DEFINE m == 16 * ((8 * hs) - (hk * K))
<1>15. m \in Int /\ m + (8 * n) = (8 * h) - ((16 * hk) * K)
  BY <1>2, <1>8, <1>11
<1>16. IsAt(acc, PointAt(m))
  BY <1>9
<1> HIDE DEF m
<1>17. IsAt(acc', PointAt(m + (8 * n)))
  BY <1>1, <1>2, <1>4, <1>8, <1>15, <1>16, AddBaseAt
<1>18. BeforeKey(acc', s, k, K, index)
  <2>1. IsAt(acc', PointAt((8 * h) - ((16 * hk) * K)))
    BY <1>15, <1>17
  <2> QED BY <1>9, <1>11, <1>14, <2>1, Zenon DEF BeforeKey
<1>19. ProgressInv'
  BY <1>1, <1>2, <1>5, <1>18 DEF ProgressInv, s, k, K
<1> QED BY <1>3, <1>19 DEF ExactInv

LEMMA SubtractExact == ASSUME IInv, ExactInv, SubtractKey PROVE ExactInv'
<1> DEFINE s == scalars.s
           k == scalars.k
           K == ResidueHeld(decoded)
           d == ToRadix16(k)[index]
           o == (-d) * K
           computeT == index = 0 /\ policy = "Zip215"
<1>1. /\ phase = "subtractKey" /\ acc' = AddCached(acc, KeyEntry, computeT)
      /\ index' = (IF index = 0 THEN DIGITS - 1 ELSE index - 1)
      /\ phase' = (IF index = 0 THEN "score" ELSE "double")
      /\ decoded' = decoded /\ key' = key /\ table' = table /\ scalars' = scalars /\ computeT \in BOOLEAN
  BY DEF SubtractKey
<1>2. /\ s \in Scalars /\ s \in Nat /\ k \in Scalars /\ k \in Nat /\ K \in Int /\ index \in 0..(DIGITS - 1)
      /\ acc \in Coordinates /\ d \in BalancedDigits
  BY <1>1, LadderHas
<1>3. KeyInv' /\ EntriesInv'
  BY <1>1 DEF ExactInv, KeyInv, EntriesInv
<1>4. BeforeKey(acc, s, k, K, index) /\ HasT(acc)
  BY <1>1 DEF ExactInv, ProgressInv, IInv, LadderInv
<1>5. scalars.sDigits = ToRadix16(s) /\ scalars.kDigits = ToRadix16(k)
  BY <1>1, LadderHas
<1>6. IsEntry(KeyEntry, o)
  BY <1>1, SelectedEntry
<1> DEFINE e == KeyEntry
           t == computeT
<1> HIDE DEF s, k, K, d, o, e, t
<1>7. d \in Int /\ o \in Int
  <2>1. d \in Int
    BY <1>2 DEF BalancedDigits
  <2> QED BY <1>2, <2>1 DEF o
<1>8. PICK hs \in Int, hk \in Int : /\ IsBasePart(hs, s, index) /\ IsUpper(hk, k, index + 1)
                                    /\ IsAt(acc, PointAt((8 * hs) - ((16 * hk) * K)))
  BY <1>4, Zenon DEF BeforeKey
<1> DEFINE m == (8 * hs) - ((16 * hk) * K)
           h == 16 * hk + d
<1>9. m \in Int /\ h \in Int /\ m + o = (8 * hs) - (h * K)
  BY <1>2, <1>7 DEF o
<1>10. IsUpper(h, k, index)
  BY <1>2, <1>8, UpperWithDigit DEF d
<1>11. IsAt(acc, PointAt(m))
  BY <1>8
<1> HIDE DEF m, h
<1>12. IsAt(acc', PointAt(m + o))
  <2>1. acc' = AddCached(acc, e, t) /\ t \in BOOLEAN /\ IsEntry(e, o)
    BY <1>1, <1>6 DEF e, t
  <2>2. IsAt(AddCached(acc, e, t), PointAt(m + o))
    BY <1>2, <1>4, <1>7, <1>9, <1>11, <2>1, AddEntryAt
  <2> QED BY <2>1, <2>2
<1>13. IsAt(acc', PointAt((8 * hs) - (h * K)))
  BY <1>9, <1>12
<1>14. ASSUME index # 0 PROVE BeforeDigit(acc', s, k, K, index')
  <2>1. index' + 1 = index
    BY <1>1, <1>2, <1>14
  <2>2. IsBasePart(hs, s, index' + 1) /\ IsUpper(h, k, index' + 1)
    BY <1>8, <1>10, <2>1
  <2> QED BY <1>8, <1>9, <1>13, <2>2, Zenon DEF BeforeDigit
<1>15. ASSUME index = 0 PROVE IsAt(acc', PointAt((8 * s) - (k * K)))
  <2>1. 0 % 2 = 0
    OBVIOUS
  <2>2. IsUpper(hs, s, 0) /\ IsUpper(h, k, 0)
    BY <1>8, <1>10, <1>15, <2>1, Zenon DEF IsBasePart
  <2>3. hs = s /\ h = k
    BY <1>2, <1>8, <1>9, <2>2, UpperOfAll
  <2> QED BY <1>13, <2>3
<1>16. ProgressInv'
  BY <1>1, <1>2, <1>5, <1>14, <1>15 DEF ProgressInv, s, k, K
<1> QED BY <1>3, <1>16 DEF ExactInv

LEMMA NextLaneExact == ASSUME NextLane PROVE ExactInv'
<1>1. DecodeDestination[0] = CachedIdentity
  BY DEF DecodeDestination, SignedDigits
<1>2. phase' = "decode" /\ ~decoded'.valid /\ table' = DecodeDestination
  BY DEF NextLane
<1> QED BY <1>1, <1>2 DEF ExactInv, KeyInv, EntriesInv, ProgressInv

LEMMA ExactInvHolds == Spec => [](IInv /\ ExactInv)
<1>1. ASSUME IInv, ExactInv, [Next]_vars PROVE ExactInv'
  <2>1. CASE UNCHANGED vars
    BY <1>1, <2>1 DEF vars, ExactInv, KeyInv, EntriesInv, ProgressInv
  <2> QED BY <1>1, <2>1, DecodeExact, WriteExact, SelectExact, RecodeExact, LoadExact,
             QuadrupleExact, AddBaseExact, SubtractExact, NextLaneExact DEF Next
<1> QED BY InitExact, IInvHolds, <1>1, PTL DEF Spec

\* For every field, curve and key: the table that the ladder selects from holds in
\* every slot the multiple of the key of that digit, no Z of it zero.
THEOREM TableHoldsMultiples == Spec => []TableExact
<1>1. ASSUME IInv, ExactInv PROVE TableExact
  <2> DEFINE K == ResidueHeld(decoded)
  <2>1. SUFFICES ASSUME phase = "recode", NEW digit \in SignedDigits
                 PROVE  LET c == table[digit]
                            p == PointAt(digit * K)
                            e == FromCachedWithoutT(c)
                        IN  /\ c.z2 # 0 /\ Affine(e) = p
                            /\ c.t2d = Product(Product(CURVE_D, c.z2), Product(p.x, p.y))
    BY Zenon DEF TableExact, KeyResidue, ResidueHeld
  <2> DEFINE c == table[digit]
             n == digit * K
             e == FromCachedWithoutT(c)
  <2>2. IsEntry(c, n)
    BY <1>1, <2>1 DEF ExactInv, EntriesInv
  <2>3. n \in Int
    <3>1. K \in Int
      <4>1. decoded = DecompressPoint(key, TRUE) /\ key \in EncodedBytes
        BY <1>1, <2>1 DEF ExactInv, KeyInv, IInv
      <4>2. CASE decoded.valid
        BY <4>1, <4>2, KeyAt
      <4>3. CASE ~decoded.valid
        BY <4>3 DEF ResidueHeld
      <4> QED BY <4>2, <4>3
    <3> HIDE DEF K
    <3> QED BY <3>1 DEF SignedDigits
  <2> HIDE DEF c, n
  <2>4. /\ e \in Coordinates /\ IsAt(e, PointAt(n))
        /\ c.t2d = Product(Product(CURVE_D, c.z2), Product(PointAt(n).x, PointAt(n).y))
    BY <2>2, <2>3, EntryAt
  <2>5. e.z = c.z2
    BY DEF FromCachedWithoutT
  <2> HIDE DEF e
  <2>6. c.z2 # 0
    BY <2>4, <2>5 DEF IsAt, Units
  <2>7. Affine(e) = PointAt(n)
    BY <2>3, <2>4, PointsInField, AffineIs
  <2> QED BY <2>4, <2>6, <2>7 DEF c, n, e
<1> QED BY <1>1, ExactInvHolds, PTL

LEMMA EndIsInt ==
    ASSUME IInv, ExactInv, phase = "score"
    PROVE  (8 * scalars.s) - (scalars.k * ResidueHeld(decoded)) \in Int
<1>1. scalars.s \in Int /\ scalars.k \in Int
  <2>1. scalars.s \in Scalars /\ scalars.k \in Scalars
    BY Zenon DEF ExactInv, ProgressInv
  <2>2. scalars.s \in Nat /\ scalars.k \in Nat
    BY <2>1, ScalarsNatural
  <2> QED BY <2>2
<1>2. ResidueHeld(decoded) \in Int
  <2>1. decoded = DecompressPoint(key, TRUE) /\ key \in EncodedBytes
    BY DEF ExactInv, KeyInv, IInv
  <2>2. CASE decoded.valid
    BY <2>1, <2>2, KeyAt
  <2>3. CASE ~decoded.valid
    BY <2>3 DEF ResidueHeld
  <2> QED BY <2>2, <2>3
<1> QED BY <1>1, <1>2

\* For every field, curve, key and all scalars of the range: the ladder ends at
\* [s]B - [k]A and at no Z that is zero, whatever points it comes past.
THEOREM LadderEndsAtItsPoint == Spec => []LadderExact
<1>1. ASSUME IInv, ExactInv PROVE LadderExact
  <2> DEFINE n == (8 * scalars.s) - (scalars.k * ResidueHeld(decoded))
  <2>1. SUFFICES ASSUME phase = "score" PROVE acc.z # 0 /\ Affine(acc) = PointAt(n)
    BY Zenon DEF LadderExact, KeyResidue, ResidueHeld
  <2>2. IsAt(acc, PointAt(n)) /\ acc \in Coordinates
    BY <1>1, <2>1 DEF ExactInv, ProgressInv, IInv, LadderInv
  <2>3. n \in Int
    BY <1>1, <2>1, EndIsInt
  <2> HIDE DEF n
  <2> QED BY <2>2, <2>3, PointsInField, AffineIs DEF IsAt, Units
<1> QED BY <1>1, ExactInvHolds, PTL

-----------------------------------------------------------------------------
(***************************************************************************)
(* Every y of the curve decodes                                            *)
(***************************************************************************)
LEMMA SquareOfProduct == \A a, b \in Field : Square(Product(a, b)) = Product(Square(a), Square(b))
<1> SUFFICES ASSUME NEW a \in Field, NEW b \in Field PROVE Square(Product(a, b)) = Product(Square(a), Square(b))
  OBVIOUS
<1> DEFINE c == Product(a, b)
           aa == Product(a, a)
           bb == Product(b, b)
<1>1. c \in Field /\ aa \in Field /\ bb \in Field /\ Product(b, c) \in Field
  BY FieldOps
<1>2. Product(b, c) = Product(a, bb)
  <2>1. Product(b, c) = Product(c, b)
    BY <1>1, ProductCommutes
  <2>2. Product(a, Product(b, b)) = Product(Product(a, b), b)
    BY ProductAssociates
  <2> QED BY <2>1, <2>2
<1>3. Product(c, c) = Product(a, Product(b, c))
  <2> HIDE DEF c
  <2>1. Product(a, Product(b, c)) = Product(Product(a, b), c)
    BY <1>1, ProductAssociates
  <2> QED BY <2>1 DEF c
<1>4. Product(a, Product(a, bb)) = Product(aa, bb)
  <2> HIDE DEF bb
  <2> QED BY <1>1, ProductAssociates
<1> QED BY <1>2, <1>3, <1>4 DEF Square

LEMMA SquareOfPower == ASSUME NEW a \in Field, NEW n \in Nat PROVE Power(Square(a), n) = Square(Power(a, n))
<1> DEFINE s == Square(a)
           bad == {m \in Nat : Power(s, m) # Square(Power(a, m))}
<1>1. SUFFICES ASSUME bad # {} PROVE FALSE
  OBVIOUS
<1>2. a \in Int /\ s \in Int /\ s \in Field
  <2>1. s \in Field
    BY FieldOps
  <2> QED BY <2>1, FieldNumbers
<1> HIDE DEF s
<1>3. PICK m \in bad : \A k \in bad : m <= k
  <2>1. bad \in SUBSET Nat
    OBVIOUS
  <2> HIDE DEF bad
  <2> QED BY <1>1, <2>1, HasLeast
<1> DEFINE half == m \div 2
           q == Power(a, half)
           fa == IF m % 2 = 1 THEN a ELSE 1
           fs == IF m % 2 = 1 THEN s ELSE 1
<1>4. m \in Nat /\ Power(s, m) # Square(Power(a, m))
  BY <1>3
<1>5. m # 0
  <2>1. Power(s, 0) = 1 /\ Power(a, 0) = 1
    BY <1>2, PowerUnfolds
  <2>2. Square(1) = 1
    BY FieldConstants, ProductOfConstants DEF Square
  <2> QED BY <1>4, <2>1, <2>2
<1>6. half \in Nat /\ half < m
  BY <1>4, <1>5, SMT
<1>7. Power(s, half) = Square(q)
  <2> HIDE DEF half
  <2>1. half \notin bad
    BY <1>3, <1>4, <1>6
  <2> QED BY <1>6, <2>1
<1>8. Power(s, m) = Product(Square(Power(s, half)), fs)
  BY <1>2, <1>4, <1>5, PowerUnfolds
<1>9. Power(a, m) = Product(Square(q), fa)
  BY <1>2, <1>4, <1>5, PowerUnfolds
<1>10. q \in Field /\ fa \in Field
  <2> HIDE DEF half
  <2>1. q \in Field
    BY <1>2, <1>6, PowerInField
  <2> QED BY <2>1, FieldConstants
<1>11. fs = Square(fa)
  <2>1. Square(1) = 1
    BY FieldConstants, ProductOfConstants DEF Square
  <2> QED BY <2>1 DEF s
<1> HIDE DEF fs, fa, q, half
<1>12. Square(Power(a, m)) = Product(Square(Square(q)), Square(fa))
  <2>1. Square(q) \in Field
    BY <1>10, FieldOps
  <2> QED BY <1>9, <1>10, <2>1, SquareOfProduct
<1> QED BY <1>4, <1>7, <1>8, <1>11, <1>12

\* One has two square roots.
LEMMA RootsOfOne == \A z \in Field : Square(z) = 1 => z = 1 \/ Congruent(z, -1)
<1> SUFFICES ASSUME NEW z \in Field, Square(z) = 1 PROVE z = 1 \/ Congruent(z, -1)
  OBVIOUS
<1> DEFINE zz == z * z
           m == z - 1
           n == z + 1
<1>1. z \in Int
  BY FieldNumbers
<1>2. zz \in Int /\ m \in Int /\ n \in Int /\ m * n = zz - 1 /\ m + 1 = z /\ n - 1 = z
  BY <1>1
<1>3. Congruent(zz, 1)
  <2>1. Congruent(Product(z, z), zz)
    BY <1>2, ResidueIsCongruent DEF Product
  <2>2. Product(z, z) = 1
    BY DEF Square
  <2> QED BY <2>1, <2>2, CongruentEquivalence
<1> HIDE DEF zz, m, n
<1>4. Congruent(1, 1)
  BY DEF Congruent
<1>5. Congruent(zz - 1, 1 - 1)
  BY <1>2, <1>3, <1>4, CongruentOps
<1>6. Congruent(m, 0) \/ Congruent(n, 0)
  <2>1. Congruent(m * n, 0)
    BY <1>2, <1>5
  <2> QED BY <1>2, <2>1, NoZeroDivisors
<1>7. CASE Congruent(m, 0)
  <2>1. Congruent(m + 1, 0 + 1)
    BY <1>2, <1>4, <1>7, CongruentOps
  <2>2. Congruent(z, 1)
    BY <1>2, <2>1
  <2> QED BY <2>2, CongruentInField, FieldConstants
<1>8. CASE Congruent(n, 0)
  <2>1. Congruent(n - 1, 0 - 1)
    BY <1>2, <1>4, <1>8, CongruentOps
  <2> QED BY <1>2, <2>1
<1> QED BY <1>6, <1>7, <1>8

\* The exponent (p - 5) / 8 of a square, squared once more, is a root of one but
\* for the square it lacks.
LEMMA FourthRootOfOne ==
    ASSUME NEW w \in Units
    PROVE  LET power == Power(Square(w), (FIELD_P - 5) \div 8)
           IN  power \in Field /\ Square(Product(Square(w), Square(power))) = 1
<1> DEFINE k == (FIELD_P - 5) \div 8
           t == Power(w, k)
           T == Power(Square(w), k)
           s == Square(w)
<1>1. w \in Field /\ w \in Int /\ w # 0
  BY FieldNumbers DEF Units
<1>2. k \in Nat /\ FIELD_P - 2 = (8 * k) + 3
  <2>1. FIELD_P \in Nat /\ FIELD_P >= 5 /\ FIELD_P % 8 = 5
    BY Residues, EdwardsAssumption
  <2> QED BY <2>1, SMT
<1> HIDE DEF k
<1>3. t \in Field /\ T = Square(t) /\ T \in Field
  <2>1. t \in Field
    BY <1>1, <1>2, PowerInField
  <2>2. T = Square(t)
    BY <1>1, <1>2, SquareOfPower
  <2> QED BY <2>1, <2>2, FieldOps
<1> DEFINE four == Product(Square(T), w)
           inverse == Product(Square(four), w)
<1>4. Inverted(w) = inverse
  <2> DEFINE n8 == (8 * k) + 3
             n4 == (4 * k) + 1
             n2 == 2 * k
  <2>1. /\ n8 \in Nat \ {0} /\ n8 \div 2 = n4 /\ n8 % 2 = 1
        /\ n4 \in Nat \ {0} /\ n4 \div 2 = n2 /\ n4 % 2 = 1
        /\ n2 \in Nat /\ n2 \div 2 = k /\ n2 % 2 = 0
    BY <1>2, SMT
  <2> HIDE DEF n8, n4, n2
  <2>2. Power(w, n8) = Product(Square(Power(w, n4)), w)
    BY <1>1, <2>1, PowerUnfolds
  <2>3. Power(w, n4) = Product(Square(Power(w, n2)), w)
    BY <1>1, <2>1, PowerUnfolds
  <2>4. Power(w, n2) = T
    <3>1. CASE n2 = 0
      <4>1. k = 0
        BY <1>2, <3>1 DEF n2
      <4>2. T = 1 /\ Power(w, n2) = 1
        <5>1. Square(w) \in Field /\ Square(w) \in Int
          BY <1>1, FieldOps, FieldNumbers
        <5> QED BY <1>1, <3>1, <4>1, <5>1, PowerUnfolds
      <4> QED BY <4>2
    <3>2. CASE n2 # 0
      <4>1. Power(w, n2) = Product(Square(t), 1)
        BY <1>1, <2>1, <3>2, PowerUnfolds
      <4> QED BY <1>3, <4>1, ProductOfConstants
    <3> QED BY <3>1, <3>2
  <2>5. Inverted(w) = Power(w, n8)
    BY <1>2 DEF Inverted, n8
  <2> QED BY <2>2, <2>3, <2>4, <2>5
<1>5. Product(w, inverse) = 1
  BY <1>1, <1>4, InverseAssumption
<1> HIDE DEF T, t
<1>6. s \in Field /\ Square(T) \in Field /\ four \in Field
  <2>1. s \in Field /\ Square(T) \in Field
    BY <1>1, <1>3, FieldOps
  <2> QED BY <1>1, <2>1, FieldOps
<1>7. inverse \in Field
  <2> HIDE DEF four
  <2>1. Square(four) \in Field
    BY <1>6, FieldOps
  <2> QED BY <1>1, <2>1, FieldOps
<1> DEFINE z == Product(s, Square(T))
           ww == w * w
           A == T * T
           AW == A * w
           B == AW * AW
           BW == B * w
           Z == ww * A
<1>8. z \in Field /\ Square(z) \in Field
  <2>1. z \in Field
    <3> HIDE DEF s
    <3> QED BY <1>6, FieldOps
  <2> HIDE DEF z
  <2> QED BY <2>1, FieldOps
<1>9. T \in Int /\ s \in Int /\ Square(T) \in Int /\ four \in Int /\ inverse \in Int /\ Square(four) \in Int /\ z \in Int
  <2>1. Square(four) \in Field
    <3> HIDE DEF four
    <3> QED BY <1>6, FieldOps
  <2> QED BY <1>3, <1>6, <1>7, <1>8, <2>1, FieldNumbers
<1>10. ww \in Int /\ A \in Int /\ AW \in Int /\ B \in Int /\ BW \in Int /\ Z \in Int /\ Z * Z = w * BW
  BY <1>1, <1>9
<1>11. Congruent(w, w) /\ Congruent(T, T)
  BY DEF Congruent
<1>12. Congruent(s, ww) /\ Congruent(Square(T), A)
  BY <1>1, <1>9, <1>11, StandFor DEF Square
<1> HIDE DEF s, ww, A
<1>13. Congruent(four, AW) /\ Congruent(z, Z)
  BY <1>1, <1>9, <1>10, <1>11, <1>12, StandFor
<1> HIDE DEF four, z, AW, Z
<1>14. Congruent(Square(four), B) /\ Congruent(Square(z), Z * Z)
  BY <1>9, <1>10, <1>13, StandFor DEF Square
<1> HIDE DEF B
<1>15. Congruent(inverse, BW)
  BY <1>1, <1>9, <1>10, <1>11, <1>14, StandFor
<1> HIDE DEF inverse, BW
<1>16. Congruent(Product(w, inverse), w * BW)
  BY <1>1, <1>9, <1>10, <1>11, <1>15, StandFor
<1>17. Congruent(Square(z), 1)
  BY <1>5, <1>10, <1>14, <1>16, CongruentEquivalence
<1>18. Square(z) = 1
  BY <1>8, <1>17, CongruentInField, FieldConstants
<1> QED BY <1>3, <1>18 DEF z, s, T, k

\* A y that a point of the curve has decodes, whatever its sign.
LEMMA RootExists ==
    ASSUME NEW bytes \in EncodedBytes, NEW c \in CurvePoints, c.y = DecodedY(bytes)
    PROVE  RootFound(bytes)
<1> DEFINE u == Numerator(bytes)
           v == Denominator(bytes)
           x == c.x
           w == Product(v, x)
           T == Power(Product(u, v), (FIELD_P - 5) \div 8)
           r == Product(u, T)
           z == Product(Square(w), Square(T))
<1>1. u \in Field /\ v \in Field /\ x \in Field /\ DecodedY(bytes) \in Field /\ OnCurve(x, DecodedY(bytes))
  <2>1. u \in Field /\ v \in Field /\ DecodedY(bytes) \in Field
    BY DecodingIs
  <2> QED BY <2>1 DEF CurvePoints
<1>2. Product(v, Square(x)) = u
  BY <1>1, RootOnCurve, Zenon DEF Numerator, Denominator
<1>3. FirstRoot(bytes) = r /\ Trial(bytes) = Product(v, Square(r))
  BY Zenon DEF FirstRoot, Trial
<1> HIDE DEF u, v, x
<1>4. w \in Field /\ Product(w, x) = u /\ Product(u, v) = Square(w)
  <2>1. w \in Field
    BY <1>1, FieldOps
  <2>2. Product(w, x) = u
    <3>1. Product(v, Product(x, x)) = Product(Product(v, x), x)
      BY <1>1, ProductAssociates
    <3> QED BY <1>2, <3>1 DEF Square
  <2>3. Product(u, v) = Product(w, w)
    <3> HIDE DEF w
    <3>1. Product(Product(w, x), v) = Product(w, Product(x, v))
      BY <1>1, <2>1, ProductAssociates
    <3>2. Product(x, v) = w
      BY <1>1, ProductCommutes DEF w
    <3> QED BY <2>2, <3>1, <3>2
  <2> QED BY <2>1, <2>2, <2>3 DEF Square
<1>5. CASE w = 0
  <2>1. u = 0 /\ r = 0
    <3>1. u = 0
      BY <1>1, <1>4, <1>5, ProductOfConstants
    <3>2. T \in Field
      <4>1. T = Power(Product(u, v), (FIELD_P - 5) \div 8) /\ Product(u, v) \in Int
        BY <1>1, FieldOps, FieldNumbers
      <4>2. (FIELD_P - 5) \div 8 \in Nat
        <5>1. FIELD_P - 5 \in Nat
          BY Residues
        <5> QED BY <5>1, SMT
      <4> QED BY <4>1, <4>2, PowerInField
    <3> QED BY <3>1, <3>2, ProductOfConstants
  <2>2. Square(0) = 0 /\ Product(v, 0) = 0
    BY <1>1, FieldConstants, ProductOfConstants, ProductCommutes DEF Square
  <2>3. Trial(bytes) = u
    BY <1>3, <2>1, <2>2
  <2> QED BY <2>3 DEF RootFound, u
<1>6. CASE w # 0
  <2>1. w \in Units
    BY <1>4, <1>6 DEF Units
  <2>2. T \in Field /\ Square(z) = 1
    <3> HIDE DEF w
    <3>1. T = Power(Square(w), (FIELD_P - 5) \div 8)
      BY <1>4
    <3> QED BY <2>1, <3>1, FourthRootOfOne
  <2> HIDE DEF T
  <2>3. Square(w) \in Field /\ Square(T) \in Field /\ r \in Field /\ z \in Field /\ Square(r) \in Field /\ Trial(bytes) \in Field
    <3> HIDE DEF w
    <3>1. Square(w) \in Field /\ Square(T) \in Field /\ r \in Field
      BY <1>1, <1>4, <2>2, FieldOps
    <3>2. z \in Field
      BY <3>1, FieldOps
    <3>3. Square(r) \in Field
      <4> HIDE DEF r
      <4> QED BY <3>1, FieldOps
    <3> QED BY <3>1, <3>2, <3>3, DecodingIs
  <2> DEFINE W == Square(w)
             Q == Square(T)
  <2>4. Trial(bytes) = Product(u, z)
    <3>1. Square(r) = Product(Product(u, u), Q)
      BY <1>1, <2>2, SquareOfProduct DEF Square
    <3> DEFINE uu == Product(u, u)
    <3>2. uu \in Field /\ Q \in Field /\ W \in Field
      BY <1>1, <2>3, FieldOps
    <3>3. Product(v, uu) = Product(u, W)
      <4>1. Product(v, Product(u, u)) = Product(Product(v, u), u)
        BY <1>1, ProductAssociates
      <4>2. Product(v, u) = W
        BY <1>1, <1>4, ProductCommutes
      <4>3. Product(W, u) = Product(u, W)
        BY <1>1, <3>2, ProductCommutes
      <4> QED BY <4>1, <4>2, <4>3
    <3> HIDE DEF uu, Q, W
    <3>4. Product(v, Product(uu, Q)) = Product(Product(v, uu), Q)
      BY <1>1, <3>2, ProductAssociates
    <3>5. Product(Product(u, W), Q) = Product(u, Product(W, Q))
      BY <1>1, <3>2, ProductAssociates
    <3>6. Product(W, Q) = z
      BY DEF W, Q
    <3> QED BY <1>3, <3>1, <3>3, <3>4, <3>5, <3>6 DEF uu
  <2> HIDE DEF z
  <2>5. CASE z = 1
    <3>1. Product(u, 1) = u
      BY <1>1, ProductOfConstants
    <3> QED BY <2>4, <2>5, <3>1 DEF RootFound, u
  <2>6. CASE Congruent(z, -1)
    <3> DEFINE t == Trial(bytes)
    <3>1. u \in Int /\ z \in Int /\ t \in Int /\ t + u \in Int /\ u * (-1) = -u /\ -u \in Int /\ (-u) + u = 0
      <4>1. u \in Int /\ z \in Int /\ t \in Int
        BY <1>1, <2>3, FieldNumbers
      <4> HIDE DEF t
      <4> QED BY <4>1
    <3>2. Congruent(u, u)
      BY DEF Congruent
    <3> HIDE DEF t
    <3>3. Congruent(Product(u, z), u * (-1))
      BY <2>6, <3>1, <3>2, StandFor
    <3>4. Congruent(t, -u)
      BY <2>4, <3>1, <3>3 DEF t
    <3>5. Congruent(Sum(t, u), (-u) + u)
      BY <3>1, <3>2, <3>4, StandFor
    <3>6. Sum(t, u) \in Field
      BY <3>1, FieldClosed
    <3>7. Sum(t, u) = 0
      BY <3>1, <3>5, <3>6, CongruentInField, FieldConstants
    <3> QED BY <3>7 DEF RootFound, u, t
  <2> QED BY <2>2, <2>3, <2>5, <2>6, RootsOfOne
<1> QED BY <1>5, <1>6

-----------------------------------------------------------------------------
(***************************************************************************)
(* The sign of a decoding                                                  *)
(***************************************************************************)
\* Of an element and its opposite one is odd, for the modulus is.
LEMMA OppositeDiffers ==
    /\ Negated(0) = 0
    /\ \A a \in Units : Negated(a) \in Units /\ Negated(a) # a /\ (Negated(a) % 2 = 1 <=> a % 2 # 1)
<1> DEFINE p == FIELD_P
<1>1. p \in Nat /\ p >= 5 /\ p % 2 = 1
  <2>1. p \in Nat /\ p >= 5 /\ p % 8 = 5
    BY Residues, EdwardsAssumption
  <2> HIDE DEF p
  <2> QED BY <2>1, SMT
<1>2. Negated(0) = 0
  <2>1. 0 % p = 0
    BY FieldIsResidues, FieldConstants
  <2> QED BY <2>1 DEF Negated, Difference
<1>3. ASSUME NEW a \in Units
      PROVE  Negated(a) \in Units /\ Negated(a) # a /\ (Negated(a) % 2 = 1 <=> a % 2 # 1)
  <2>1. a \in 1..(p - 1)
    BY DEF Units, Field
  <2> DEFINE m == p - a
  <2>2. m \in Field /\ m \in Int /\ m \in 1..(p - 1) /\ 0 - a = (-1) * p + m
    BY <1>1, <2>1 DEF Field
  <2>3. Negated(a) = m
    <3>1. (0 - a) % p = ((-1) * p + m) % p
      BY <2>2
    <3>4. p \in Nat \ {0} /\ -1 \in Int
      BY <1>1
    <3> HIDE DEF m, p
    <3>2. ((-1) * p + m) % p = m % p
      BY <2>2, <3>4, ResidueOfMultiple
    <3>3. m % p = m
      BY <2>2, FieldIsResidues DEF p
    <3> QED BY <3>1, <3>2, <3>3 DEF Negated, Difference, p
  <2> HIDE DEF p
  <2>4. m # a /\ (m % 2 = 1 <=> a % 2 # 1)
    BY <1>1, <2>1, SMT
  <2>5. m \in Units
    BY <2>2 DEF Units
  <2> QED BY <2>3, <2>4, <2>5
<1> QED BY <1>2, <1>3

\* The root with the sign asked for, unless it is zero
LEMMA SignIs ==
    ASSUME NEW bytes \in EncodedBytes
    PROVE  /\ SignedRoot(bytes) = 0 <=> RightRoot(bytes) = 0
           /\ SignedRoot(bytes) # 0 => (SignedRoot(bytes) % 2 = 1 <=> bytes.sign)
<1> DEFINE x == RightRoot(bytes)
           s == SignedRoot(bytes)
<1>1. x \in Field /\ bytes.sign \in BOOLEAN
  BY DecodingIs DEF EncodedBytes
<1>2. s = IF (x % 2 = 1) # bytes.sign THEN Negated(x) ELSE x
  BY Zenon DEF SignedRoot
<1> HIDE DEF x, s
<1>3. CASE x = 0
  <2>1. s = 0
    BY <1>2, <1>3, OppositeDiffers
  <2> QED BY <1>3, <2>1 DEF x, s
<1>4. CASE x # 0
  <2>1. x \in Units
    BY <1>1, <1>4 DEF Units
  <2>2. Negated(x) \in Units /\ (Negated(x) % 2 = 1 <=> x % 2 # 1)
    BY <2>1, OppositeDiffers
  <2>3. s # 0
    BY <1>2, <1>4, <2>2 DEF Units
  <2>4. s % 2 = 1 <=> bytes.sign
    BY <1>1, <1>2, <2>2
  <2> QED BY <1>4, <2>3, <2>4 DEF x, s
<1> QED BY <1>3, <1>4

\* The y of canonical bytes
LEMMA CanonicalIs == \A bytes \in EncodedBytes : HasCanonicalY(bytes) <=> DecodedY(bytes) = bytes.y
<1> SUFFICES ASSUME NEW bytes \in EncodedBytes PROVE HasCanonicalY(bytes) <=> DecodedY(bytes) = bytes.y
  OBVIOUS
<1>1. bytes.y \in Nat /\ DecodedY(bytes) \in Field
  <2>1. bytes.y \in 0..(Y_LIMIT - 1)
    BY DEF EncodedBytes
  <2> QED BY <2>1, DecodingIs, DecompressAssumption
<1>2. ASSUME bytes.y < FIELD_P PROVE DecodedY(bytes) = bytes.y
  <2>1. bytes.y \in Field
    BY <1>1, <1>2, Residues DEF Field
  <2> QED BY <2>1, FieldIsResidues DEF DecodedY
<1>3. ASSUME DecodedY(bytes) = bytes.y PROVE bytes.y < FIELD_P
  BY <1>1, <1>3, Residues DEF Field
<1> QED BY <1>2, <1>3 DEF HasCanonicalY

LEMMA EncodingsEqual ==
    ASSUME NEW y, NEW odd \in BOOLEAN, NEW bytes \in EncodedBytes
    PROVE  [y |-> y, sign |-> odd] = bytes <=> y = bytes.y /\ (odd <=> bytes.sign)
<1>1. bytes = [y |-> bytes.y, sign |-> bytes.sign] /\ bytes.sign \in BOOLEAN
  BY DEF EncodedBytes
<1> DEFINE b == bytes.y
           s == bytes.sign
<1>2. bytes = [y |-> b, sign |-> s] /\ s \in BOOLEAN
  BY <1>1
<1> HIDE DEF b, s
<1>3. [y |-> y, sign |-> odd] = [y |-> b, sign |-> s] <=> y = b /\ odd = s
  OBVIOUS
<1>4. odd = s <=> (odd <=> s)
  BY <1>2
<1> QED BY <1>2, <1>3, <1>4 DEF b, s

\* For every field, curve and encoding: what decodes is what a point of the curve
\* has for a y, with the sign asked for, and only the canonical encoding without a
\* negative zero comes back.
THEOREM DecodingIsFaithful == Spec => []DecodeFaithful
<1>1. ASSUME IInv, ExactInv PROVE DecodeFaithful
  <2> DEFINE d == DecompressPoint(key, TRUE)
             x == SignedRoot(key)
             y == DecodedY(key)
             p == d.point
  <2>1. SUFFICES ASSUME phase = "table"
                 PROVE  /\ d.valid <=> \E c \in CurvePoints : c.y = key.y % FIELD_P
                        /\ d.valid =>
                              /\ OnCurve(p.x, p.y) /\ p.z = 1 /\ HasT(p)
                              /\ p.y = key.y % FIELD_P
                              /\ p.x = 0 \/ (p.x % 2 = 1 <=> key.sign)
                              /\ (CompressWithZInverse(p, 1) = key)
                                    <=> (HasCanonicalY(key) /\ ~(d.xZero /\ key.sign))
    <3>1. phase = "table" => decoded = d
      BY <1>1 DEF ExactInv, KeyInv
    <3> QED BY <3>1, Zenon DEF DecodeFaithful
  <2>2. key \in EncodedBytes
    BY <1>1 DEF IInv
  <2>3. /\ x \in Field /\ y \in Field /\ d.valid = RootFound(key) /\ d.xZero = (RightRoot(key) = 0)
        /\ y = key.y % FIELD_P
    BY <2>2, DecodingIs DEF DecodedY
  <2>4. p = [x |-> x, y |-> y, z |-> 1, t |-> Product(x, y)]
    BY <2>2, DecodingIs
  <2> HIDE DEF d
  <2>5. p.x = x /\ p.y = y /\ p.z = 1
    <3> DEFINE t == Product(x, y)
    <3> HIDE DEF t, x, y
    <3>1. p = [x |-> x, y |-> y, z |-> 1, t |-> t]
      BY <2>4 DEF t
    <3> QED BY <3>1
  <2>6. ASSUME NEW c \in CurvePoints, c.y = key.y % FIELD_P PROVE RootFound(key)
    BY <2>2, <2>3, <2>6, RootExists
  <2>7. ASSUME RootFound(key)
        PROVE  /\ [x |-> x, y |-> y] \in CurvePoints /\ OnCurve(x, y) /\ HasT(p)
               /\ x = 0 \/ (x % 2 = 1 <=> key.sign)
               /\ (CompressWithZInverse(p, 1) = key) <=> (HasCanonicalY(key) /\ ~(d.xZero /\ key.sign))
    <3>1. [x |-> x, y |-> y] \in CurvePoints /\ HasT(p)
      BY <2>2, <2>7, DecodedAt DEF d
    <3>2. OnCurve(x, y)
      BY <2>2, <2>7, DecodingOnCurve
    <3>3. x = 0 \/ (x % 2 = 1 <=> key.sign)
      BY <2>2, SignIs
    <3>4. x = 0 <=> d.xZero
      BY <2>2, <2>3, SignIs
    <3> DEFINE odd == x % 2 = 1
    <3>5. CompressWithZInverse(p, 1) = [y |-> y, sign |-> odd]
      <4>1. Product(p.y, 1) = y /\ Product(p.x, 1) = x
        BY <2>3, <2>5, ProductOfConstants
      <4> QED BY <4>1 DEF CompressWithZInverse
    <3>6. x = 0 => ~odd
      BY SMT
    <3>7. odd \in BOOLEAN
      OBVIOUS
    <3> HIDE DEF odd
    <3>8. CompressWithZInverse(p, 1) = key <=> y = key.y /\ (odd <=> key.sign)
      BY <2>2, <3>5, <3>7, EncodingsEqual
    <3>9. y = key.y <=> HasCanonicalY(key)
      BY <2>2, CanonicalIs
    <3>10. (odd <=> key.sign) <=> ~(d.xZero /\ key.sign)
      BY <3>3, <3>4, <3>6 DEF odd
    <3> QED BY <3>1, <3>2, <3>3, <3>8, <3>9, <3>10
  <2>8. RootFound(key) => \E c \in CurvePoints : c.y = key.y % FIELD_P
    <3> DEFINE c == [x |-> x, y |-> y]
    <3>1. c.y = y
      OBVIOUS
    <3> HIDE DEF c
    <3> QED BY <2>3, <2>7, <3>1 DEF c
  <2> QED BY <2>3, <2>5, <2>6, <2>7, <2>8, Zenon
<1> QED BY <1>1, ExactInvHolds, PTL

-----------------------------------------------------------------------------
(***************************************************************************)
(* The points of small order                                               *)
(***************************************************************************)
LEMMA ZeroModulo == ASSUME NEW m \in Nat \ {0}, NEW a \in Int PROVE a % m = 0 <=> \E k \in Int : a = k * m
<1>1. ASSUME a % m = 0 PROVE \E k \in Int : a = k * m
  <2>1. a \div m \in Int /\ a = (m * (a \div m)) + (a % m)
    BY SMT
  <2> DEFINE k == a \div m
  <2>2. k \in Int /\ a = k * m
    BY <1>1, <2>1
  <2> QED BY <2>2
<1>2. ASSUME NEW k \in Int, a = k * m PROVE a % m = 0
  <2>1. ((k * m) + 0) % m = 0 % m
    BY ResidueOfMultiple
  <2> DEFINE km == k * m
  <2>2. km \in Int /\ km + 0 = km
    OBVIOUS
  <2>3. 0 % m = 0
    BY SMT
  <2> QED BY <1>2, <2>1, <2>2, <2>3
<1> QED BY <1>1, <1>2

LEMMA NeutralAt == ASSUME NEW n \in Int PROVE PointAt(n) = Neutral <=> n % (8 * L) = 0
<1>1. PointAt(n) = PointAt(0) <=> n % (8 * L) = 0 % (8 * L)
  BY PointsDifferBy
<1>2. 0 % (8 * L) = 0
  <2>1. 0 \in 0..(8 * L - 1)
    BY PeriodIs
  <2> QED BY <2>1, PeriodIs
<1> QED BY <1>1, <1>2, PointZero

\* A point is its own opposite if its x is zero.
LEMMA XZeroAt == ASSUME NEW n \in Int PROVE PointAt(n).x = 0 <=> n % (8 * L) \in {0, 4 * L}
<1> DEFINE m == 8 * L
           r == n % m
           P == PointAt(r)
<1>1. m \in Nat \ {0} /\ L \in Nat \ {0} /\ r \in 0..(m - 1)
  BY PeriodIs
<1>2. PointAt(n) = P /\ P \in CurvePoints
  <2>1. r \in Int
    <3> HIDE DEF m, r
    <3> QED BY <1>1
  <2> QED BY <2>1, PointsOnCurve
<1>3. P.x \in Field
  BY <1>2 DEF CurvePoints
<1>4. CASE r = 0
  <2>1. P = Neutral
    BY <1>4, PointZero
  <2>2. Neutral.x = 0
    BY DEF Neutral
  <2> QED BY <1>2, <1>4, <2>1, <2>2
<1>5. CASE r # 0
  <2> DEFINE o == m - r
  <2>1. o \in 0..(m - 1) /\ o \in Int /\ r \in Int /\ -r \in Int /\ -r = ((-1) * m) + o /\ (o = r <=> r = 4 * L)
    <3> HIDE DEF r
    <3> QED BY <1>1, <1>5
  <2>2. PointAt(-r) = PointAt(o)
    <3> HIDE DEF m, r, o
    <3>3. -1 \in Int
      OBVIOUS
    <3>1. (((-1) * m) + o) % m = o % m
      BY <1>1, <2>1, <3>3, ResidueOfMultiple
    <3>2. (-r) % m = o % m
      BY <2>1, <3>1
    <3> QED BY <2>1, <3>2, PointsDifferBy DEF m
  <2>3. PointAt(-r) = [x |-> Negated(P.x), y |-> P.y]
    BY <2>1, OppositeIs
  <2> HIDE DEF o
  <2>4. PointAt(o) = P <=> o = r
    <3> HIDE DEF r
    <3> QED BY <1>1, <2>1, PointsDiffer
  <2>5. [x |-> Negated(P.x), y |-> P.y] = P <=> Negated(P.x) = P.x
    <3> DEFINE X == P.x
               Y == P.y
               N == Negated(X)
    <3>1. P = [x |-> X, y |-> Y]
      BY <1>2 DEF CurvePoints
    <3> HIDE DEF X, Y, N, P
    <3>2. [x |-> N, y |-> Y] = P <=> N = X
      BY <3>1
    <3> QED BY <3>2 DEF X, Y, N
  <2>6. Negated(P.x) = P.x <=> P.x = 0
    BY <1>3, OppositeDiffers DEF Units
  <2> HIDE DEF r, P, m
  <2> QED BY <1>2, <1>5, <2>1, <2>2, <2>3, <2>4, <2>5, <2>6 DEF m, r
<1> QED BY <1>4, <1>5

\* Twice a point has the x zero if one coordinate of the point is.
LEMMA ProductZeroAt ==
    ASSUME NEW n \in Int
    PROVE  Congruent(PointAt(n).x * PointAt(n).y, 0) <=> PointAt(n + n).x = 0
<1> DEFINE P == PointAt(n)
           X == P.x
           Y == P.y
           w == CURVE_D * ((X * X) * (Y * Y))
           Q == PointAt(n + n)
           x == Q.x
           xy == X * Y
           l == x * (1 + w)
<1>1. P \in CurvePoints /\ Q = Plus(P, P)
  BY PointsOnCurve, PointsAddUp
<1>2. X \in Int /\ Y \in Int /\ CURVE_D \in Int
  <2>1. X \in Field /\ Y \in Field
    BY <1>1 DEF CurvePoints
  <2> QED BY <2>1, FieldNumbers, FieldConstants
<1>3. w \in Int /\ xy \in Int /\ X * Y + X * Y = 2 * xy
  <2> HIDE DEF X, Y
  <2> QED BY <1>2
<1>4. Q \in AffinePoints /\ ~Congruent(1 + w, 0) /\ Congruent(l, X * Y + X * Y)
  <2> HIDE DEF P
  <2> QED BY <1>1, <1>3, PlusIs
<1>5. x \in Field /\ x \in Int
  <2>1. x \in Field
    BY <1>4 DEF AffinePoints
  <2> QED BY <2>1, FieldNumbers
<1> HIDE DEF P, X, Y, w, Q, x, xy
<1>6. l \in Int /\ 1 + w \in Int /\ 0 * (1 + w) = 0 /\ 0 * 2 = 0 /\ 2 * xy = xy * 2
  BY <1>3, <1>5
<1>7. Congruent(l, 2 * xy)
  BY <1>3, <1>4
<1>8. ASSUME Congruent(xy, 0) PROVE x = 0
  <2>1. Congruent(2, 2)
    BY DEF Congruent
  <2>2. Congruent(xy * 2, 0 * 2)
    BY <1>3, <1>8, <2>1, CongruentOps
  <2>3. Congruent(l, 0)
    BY <1>6, <1>7, <2>2, CongruentEquivalence
  <2>4. Congruent(x, 0)
    BY <1>4, <1>5, <1>6, <2>3, NoZeroDivisors
  <2> QED BY <1>5, <2>4, CongruentInField, FieldConstants
<1>9. ASSUME x = 0 PROVE Congruent(xy, 0)
  <2>1. l = 0
    BY <1>6, <1>9
  <2>2. Congruent(2 * xy, 0)
    BY <1>7, <2>1, CongruentEquivalence
  <2> QED BY <1>3, <2>2, NoZeroDivisors, TwoIsUnit
<1> QED BY <1>8, <1>9 DEF xy, X, Y, x, Q, P

\* equals_affine_lanes compares points.
LEMMA EqualsAffineIs ==
    ASSUME NEW p \in Coordinates, NEW c \in AffinePoints, IsAt(p, c), NEW r, r.x \in Field, r.y \in Field
    PROVE  EqualsAffine(p, r) <=> r.x = c.x /\ r.y = c.y
<1> DEFINE z == p.z
<1>1. z \in Field /\ z \in Int /\ ~Congruent(z, 0) /\ p.x \in Field /\ p.y \in Field /\ c.x \in Field /\ c.y \in Field
  <2>1. z \in Units /\ p.x \in Field /\ p.y \in Field /\ c.x \in Field /\ c.y \in Field
    BY DEF IsAt, Coordinates, AffinePoints
  <2>2. z \in Field /\ z \in Int
    BY <2>1, FieldNumbers DEF Units
  <2>3. Congruent(z, z)
    BY DEF Congruent
  <2> QED BY <2>1, <2>2, <2>3, ZeroOrUnit
<1> HIDE DEF z
<1>2. ASSUME NEW a \in Field, NEW b \in Field, NEW d \in Field, Congruent(d, b * z)
      PROVE  d = Product(a, z) <=> a = b
  <2>1. a \in Int /\ b \in Int /\ d \in Int /\ a * z \in Int /\ b * z \in Int
    <3>1. a \in Int /\ b \in Int /\ d \in Int
      BY FieldNumbers
    <3> QED BY <1>1, <3>1
  <2>2. Product(a, z) \in Field /\ Congruent(Product(a, z), a * z)
    BY <1>1, <2>1, FieldClosed, ResidueIsCongruent DEF Product
  <2>3. ASSUME a = b PROVE d = Product(a, z)
    <3>1. Congruent(d, a * z)
      BY <1>2, <2>3
    <3> QED BY <2>2, <3>1, CongruentEquivalence, CongruentInField
  <2>4. ASSUME d = Product(a, z) PROVE a = b
    <3>1. Congruent(a * z, b * z)
      BY <1>2, <2>2, <2>4, CongruentEquivalence
    <3>2. Congruent(a, b)
      BY <1>1, <2>1, <3>1, Cancels
    <3> QED BY <3>2, CongruentInField
  <2> QED BY <2>3, <2>4
<1>3. Congruent(p.x, c.x * z) /\ Congruent(p.y, c.y * z)
  BY DEF IsAt, z
<1>4. p.x = Product(r.x, z) <=> r.x = c.x
  BY <1>1, <1>2, <1>3
<1>5. p.y = Product(r.y, z) <=> r.y = c.y
  BY <1>1, <1>2, <1>3
<1> QED BY <1>4, <1>5 DEF EqualsAffine, z

\* is_small_order_lanes finds out whether eight times the point is the neutral one.
LEMMA SmallOrderIs ==
    ASSUME NEW p \in Coordinates, NEW n \in Int, IsAt(p, PointAt(n))
    PROVE  IsSmallOrderPoint(p) <=> (8 * n) % (8 * L) = 0
<1> DEFINE p2 == DoubleWithoutT(p)
           p4 == DoubleWithoutT(p2)
           p8 == DoubleWithoutT(p4)
<1>1. ASSUME NEW q \in Coordinates, NEW m \in Int, IsAt(q, PointAt(m))
      PROVE  DoubleWithoutT(q) \in Coordinates /\ IsAt(DoubleWithoutT(q), PointAt(m + m))
  BY <1>1, DoublingCloses, DoubledAt DEF DoubleWithoutT
<1>2. p2 \in Coordinates /\ IsAt(p2, PointAt(n + n))
  BY <1>1
<1> HIDE DEF p2
<1> DEFINE n2 == n + n
           n4 == n2 + n2
           n8 == n4 + n4
<1>3. n2 \in Int /\ n4 \in Int /\ n8 \in Int /\ n8 = 8 * n
  OBVIOUS
<1> HIDE DEF n2
<1>4. p4 \in Coordinates /\ IsAt(p4, PointAt(n4))
  BY <1>1, <1>2, <1>3 DEF n2
<1> HIDE DEF n4, p4
<1>5. p8 \in Coordinates /\ IsAt(p8, PointAt(n8))
  BY <1>1, <1>3, <1>4
<1> HIDE DEF n8, p8
<1>6. IsSmallOrderPoint(p) <=> p8.x = 0 /\ p8.y = p8.z
  BY Zenon DEF IsSmallOrderPoint, p8, p4, p2
<1>7. EqualsAffine(p8, Neutral) <=> p8.x = 0 /\ p8.y = p8.z
  <2>1. p8.z \in Field
    BY <1>5 DEF Coordinates
  <2>2. Product(0, p8.z) = 0 /\ Product(1, p8.z) = p8.z /\ Neutral.x = 0 /\ Neutral.y = 1
    BY <2>1, ProductOfConstants DEF Neutral
  <2> QED BY <2>2 DEF EqualsAffine
<1> DEFINE c == PointAt(n8)
<1>8. c \in AffinePoints
  BY <1>3, PointsInField
<1>9. Neutral.x = 0 /\ Neutral.y = 1 /\ Neutral.x \in Field /\ Neutral.y \in Field
  BY FieldConstants DEF Neutral
<1>10. EqualsAffine(p8, Neutral) <=> Neutral.x = c.x /\ Neutral.y = c.y
  <2> HIDE DEF c
  <2>1. IsAt(p8, c)
    BY <1>5 DEF c
  <2> QED BY <1>5, <1>8, <1>9, <2>1, EqualsAffineIs
<1>11. Neutral.x = c.x /\ Neutral.y = c.y <=> c = Neutral
  <2> HIDE DEF c
  <2> QED BY <1>8, <1>9 DEF AffinePoints, Neutral
<1>12. c = Neutral <=> n8 % (8 * L) = 0
  BY <1>3, NeutralAt
<1> QED BY <1>3, <1>6, <1>7, <1>10, <1>11, <1>12

-----------------------------------------------------------------------------
(***************************************************************************)
(* The check for equality up to torsion                                    *)
(***************************************************************************)
LEMMA NegatedIs == \A a \in Field : Negated(a) \in Field /\ Negated(a) \in Int /\ Congruent(Negated(a), -a)
<1> SUFFICES ASSUME NEW a \in Field PROVE Negated(a) \in Field /\ Negated(a) \in Int /\ Congruent(Negated(a), -a)
  OBVIOUS
<1>1. a \in Int /\ 0 - a \in Int /\ 0 - a = -a
  BY FieldNumbers
<1>2. Negated(a) \in Field
  BY FieldOps
<1>3. Congruent((0 - a) % FIELD_P, 0 - a)
  BY <1>1, ResidueIsCongruent
<1> QED BY <1>1, <1>2, <1>3, FieldNumbers DEF Negated, Difference

\* Adding an opposite is subtracting.
LEMMA OppositeOperand ==
    /\ \A a, b \in Field : Difference(a, Negated(b)) = Sum(a, b) /\ Sum(a, Negated(b)) = Difference(a, b)
    /\ \A a, b \in Field : Product(a, Negated(b)) = Negated(Product(a, b)) /\ Product(Negated(b), a) = Negated(Product(b, a))
<1>1. ASSUME NEW a \in Field, NEW b \in Field
      PROVE  /\ Difference(a, Negated(b)) = Sum(a, b) /\ Sum(a, Negated(b)) = Difference(a, b)
             /\ Product(a, Negated(b)) = Negated(Product(a, b))
  <2> DEFINE n == Negated(b)
             ab == a * b
             q == Product(a, b)
  <2>1. n \in Field /\ n \in Int /\ Congruent(n, -b)
    BY NegatedIs
  <2>2. a \in Int /\ b \in Int /\ ab \in Int /\ -ab \in Int /\ -b \in Int /\ a - (-b) = a + b /\ a + (-b) = a - b /\ a * (-b) = -ab
    <3>1. a \in Int /\ b \in Int
      BY FieldNumbers
    <3> QED BY <3>1
  <2> HIDE DEF n, ab
  <2>3. Congruent(a, a) /\ Congruent(b, b)
    BY DEF Congruent
  <2>4. Congruent(Difference(a, n), a - (-b)) /\ Congruent(Sum(a, n), a + (-b)) /\ Congruent(Product(a, n), a * (-b))
    BY <2>1, <2>2, <2>3, StandFor
  <2>5. Congruent(Sum(a, b), a + b) /\ Congruent(Difference(a, b), a - b) /\ Congruent(q, a * b)
    BY <2>2, <2>3, StandFor
  <2>6. /\ Difference(a, n) \in Field /\ Sum(a, n) \in Field /\ Product(a, n) \in Field
        /\ Sum(a, b) \in Field /\ Difference(a, b) \in Field /\ q \in Field
    BY <2>1, FieldOps
  <2>7. Difference(a, n) = Sum(a, b)
    BY <2>2, <2>4, <2>5, <2>6, CongruentEquivalence, CongruentInField
  <2>8. Sum(a, n) = Difference(a, b)
    BY <2>2, <2>4, <2>5, <2>6, CongruentEquivalence, CongruentInField
  <2> HIDE DEF q
  <2>9. Negated(q) \in Field /\ Congruent(Negated(q), -q) /\ q \in Int
    BY <2>6, NegatedIs, FieldNumbers
  <2>10. Congruent(-q, -ab)
    <3>1. Congruent(0, 0) /\ Congruent(q, ab)
      BY <2>5, CongruentEquivalence DEF ab
    <3>2. Congruent(0 - q, 0 - ab)
      BY <2>2, <2>9, <3>1, CongruentOps
    <3>3. 0 - q = -q /\ 0 - ab = -ab
      BY <2>2, <2>9
    <3> QED BY <3>2, <3>3
  <2>11. Product(a, n) = Negated(q)
    <3>1. Congruent(Product(a, n), -ab)
      BY <2>2, <2>4
    <3>2. Congruent(-ab, Negated(q))
      BY <2>9, <2>10, CongruentEquivalence
    <3>3. Congruent(Product(a, n), Negated(q))
      BY <3>1, <3>2, CongruentEquivalence
    <3> QED BY <2>6, <2>9, <3>3, CongruentInField
  <2> QED BY <2>7, <2>8, <2>11 DEF n, q
<1>2. ASSUME NEW a \in Field, NEW b \in Field PROVE Product(Negated(b), a) = Negated(Product(b, a))
  <2>1. Negated(b) \in Field
    BY NegatedIs
  <2>2. Product(Negated(b), a) = Product(a, Negated(b)) /\ Product(b, a) = Product(a, b)
    BY <2>1, ProductCommutes
  <2> QED BY <1>1, <2>2
<1> QED BY <1>1, <1>2

Opposite(q) == [x |-> Negated(q.x), y |-> q.y, z |-> q.z, t |-> Negated(q.t)]

LEMMA OppositeAt ==
    ASSUME NEW q \in Coordinates, NEW n \in Int, IsAt(q, PointAt(n)), HasT(q)
    PROVE  Opposite(q) \in Coordinates /\ IsAt(Opposite(q), PointAt(-n)) /\ HasT(Opposite(q)) /\ Opposite(q).z = q.z
<1> DEFINE P == PointAt(n)
           X == P.x
           Y == P.y
           x == q.x
           y == q.y
           z == q.z
           t == q.t
           nx == Negated(x)
           nt == Negated(t)
           nX == Negated(X)
           o == [x |-> nx, y |-> y, z |-> z, t |-> nt]
           Xz == X * z
<1>1. x \in Field /\ y \in Field /\ z \in Field /\ t \in Field /\ X \in Field /\ Y \in Field
  BY PointsInField DEF Coordinates, AffinePoints
<1>2. PointAt(-n) = [x |-> nX, y |-> Y]
  BY OppositeIs
<1>3. z \in Units /\ Congruent(x, Xz) /\ Congruent(y, Y * z) /\ Product(t, z) = Product(x, y)
  BY DEF IsAt, HasT
<1> HIDE DEF P, X, Y, x, y, z, t
<1>4. /\ nx \in Field /\ nt \in Field /\ nX \in Field /\ nX \in Int /\ Congruent(nX, -X) /\ Congruent(nx, -x)
  BY <1>1, NegatedIs
<1> HIDE DEF nx, nt, nX
<1>5. o \in Coordinates /\ o.x = nx /\ o.y = y /\ o.z = z /\ o.t = nt
  BY <1>1, <1>4 DEF Coordinates
<1>6. x \in Int /\ X \in Int /\ z \in Int /\ Xz \in Int /\ -X \in Int /\ -x \in Int /\ (-X) * z = -Xz /\ 0 - x = -x /\ 0 - Xz = -Xz
  <2>1. x \in Int /\ X \in Int /\ z \in Int
    BY <1>1, FieldNumbers
  <2> QED BY <2>1
<1> DEFINE nXz == nX * z
<1>7. nXz \in Int
  BY <1>4, <1>6
<1>8. Congruent(nx, nXz)
  <2>1. Congruent(z, z) /\ Congruent(0, 0)
    BY DEF Congruent
  <2>2. Congruent(nXz, (-X) * z)
    BY <1>4, <1>6, <2>1, CongruentOps
  <2> HIDE DEF Xz
  <2>3. Congruent(0 - x, 0 - Xz)
    BY <1>3, <1>6, <2>1, CongruentOps
  <2>4. Congruent(-x, -Xz) /\ Congruent(nXz, -Xz)
    BY <1>6, <2>2, <2>3
  <2> QED BY <1>4, <2>4, CongruentEquivalence
<1> HIDE DEF o
<1>9. IsAt(o, [x |-> nX, y |-> Y])
  BY <1>3, <1>5, <1>8 DEF IsAt
<1>10. Product(nt, z) = Product(nx, y)
  <2>1. Product(nt, z) = Negated(Product(t, z)) /\ Product(nx, y) = Negated(Product(x, y))
    BY <1>1, OppositeOperand DEF nt, nx
  <2> QED BY <1>3, <2>1
<1>11. HasT(o)
  BY <1>5, <1>10 DEF HasT
<1>12. o = Opposite(q)
  BY Zenon DEF o, Opposite, nx, nt, x, y, z, t
<1> QED BY <1>2, <1>5, <1>9, <1>11, <1>12 DEF z

\* The check adds the opposite, doubles, and looks at the T.
LEMMA TorsionCheckIs ==
    ASSUME NEW p \in Coordinates, NEW r \in Coordinates
    PROVE  SubtractAffineAndCheck8Torsion(p, r) <=> Double(AddAffineRhs(p, Opposite(r))).t = 0
<1> DEFINE o == Opposite(r)
           a == Product(Difference(p.y, p.x), Sum(r.y, r.x))
           b == Product(Sum(p.y, p.x), Difference(r.y, r.x))
           c == Product(Product(p.t, r.t), TwoD)
           d == Sum(p.z, p.z)
           e == Difference(b, a)
           f == Sum(d, c)
           g == Difference(d, c)
           h == Sum(b, a)
           s == AddAffineRhs(p, o)
<1>1. /\ p.x \in Field /\ p.y \in Field /\ p.z \in Field /\ p.t \in Field
      /\ r.x \in Field /\ r.y \in Field /\ r.t \in Field
  BY DEF Coordinates
<1>2. o.x = Negated(r.x) /\ o.y = r.y /\ o.t = Negated(r.t)
  BY DEF Opposite
<1> HIDE DEF o
<1>3. Difference(o.y, o.x) = Sum(r.y, r.x) /\ Sum(o.y, o.x) = Difference(r.y, r.x)
  BY <1>1, <1>2, OppositeOperand
<1>4. d \in Field /\ c \in Field
  <2>1. d \in Field /\ Product(p.t, r.t) \in Field
    BY <1>1, FieldOps
  <2> HIDE DEF d
  <2> QED BY <2>1, FieldOps, FieldConstants
<1>5. Product(Product(p.t, o.t), TwoD) = Negated(c)
  <2> DEFINE tt == Product(p.t, r.t)
  <2>3. Product(p.t, Negated(r.t)) = Negated(tt)
    BY <1>1, OppositeOperand
  <2>1. Product(p.t, o.t) = Negated(tt) /\ tt \in Field
    BY <1>1, <1>2, <2>3, FieldOps
  <2> HIDE DEF tt
  <2>2. Product(Negated(tt), TwoD) = Negated(Product(tt, TwoD))
    BY <2>1, FieldConstants, OppositeOperand
  <2> QED BY <2>1, <2>2 DEF tt
<1> HIDE DEF c, d
<1>6. Difference(d, Negated(c)) = f /\ Sum(d, Negated(c)) = g
  BY <1>4, OppositeOperand
<1>7. s.x = Product(e, f) /\ s.y = Product(g, h)
  <2> DEFINE a1 == Product(Difference(p.y, p.x), Difference(o.y, o.x))
             b1 == Product(Sum(p.y, p.x), Sum(o.y, o.x))
             c1 == Product(Product(p.t, o.t), TwoD)
  <2>1. a1 = a /\ b1 = b /\ c1 = Negated(c)
    BY <1>3, <1>5
  <2>2. s = [x |-> Product(Difference(b1, a1), Difference(d, c1)), y |-> Product(Sum(d, c1), Sum(b1, a1)),
             z |-> Product(Difference(d, c1), Sum(d, c1)), t |-> Product(Difference(b1, a1), Sum(b1, a1))]
    BY Zenon DEF AddAffineRhs, AddImpl, d
  <2> HIDE DEF a1, b1, c1, a, b
  <2>3. s.x = Product(Difference(b1, a1), Difference(d, c1)) /\ s.y = Product(Sum(d, c1), Sum(b1, a1))
    BY <2>2
  <2> QED BY <1>6, <2>1, <2>3
<1> HIDE DEF s
<1> DEFINE x == Product(e, f)
           y == Product(g, h)
           xx == Square(x)
           yy == Square(y)
           e2 == Difference(Square(Sum(x, y)), Sum(xx, yy))
           h2 == Negated(Sum(xx, yy))
<1>8. SubtractAffineAndCheck8Torsion(p, r) <=> Product(e2, h2) = 0
  BY Zenon DEF SubtractAffineAndCheck8Torsion, c, d
<1> HIDE DEF e, f, g, h
<1>9. Double(s).t = Product(e2, h2)
  <2>1. Square(s.x) = xx /\ Square(s.y) = yy /\ Sum(s.x, s.y) = Sum(x, y)
    BY <1>7
  <2> DEFINE e3 == Difference(Square(Sum(s.x, s.y)), Sum(Square(s.x), Square(s.y)))
             h3 == Negated(Sum(Square(s.x), Square(s.y)))
  <2>2. e3 = e2 /\ h3 = h2
    <3> HIDE DEF x, y, xx, yy
    <3> QED BY <2>1
  <2> HIDE DEF e2, h2
  <2>3. Double(s).t = Product(e3, h3)
    BY DEF Double, DoubleImpl
  <2> QED BY <2>2, <2>3
<1> QED BY <1>8, <1>9 DEF s, o

LEMMA FourTimes == ASSUME NEW k \in Int PROVE (4 * k) % (8 * L) \in {0, 4 * L} <=> (8 * k) % (8 * L) = 0
<1> DEFINE m == 8 * L
           k4 == 4 * k
           k8 == 8 * k
           r == k4 % m
           q == k4 \div m
<1>1. m \in Nat \ {0} /\ L \in Nat \ {0} /\ k4 \in Int /\ k8 \in Int /\ 2 * k4 = k8
  BY PeriodIs
<1>2. q \in Int /\ r \in Int /\ k4 = (m * q) + r
  <2> HIDE DEF m, k4
  <2> QED BY <1>1, SMT
<1>3. k8 % m = 0 <=> \E j \in Int : k8 = j * m
  <2> HIDE DEF m, k8
  <2> QED BY <1>1, ZeroModulo
<1>4. ASSUME r \in {0, 4 * L} PROVE \E j \in Int : k8 = j * m
  <2>1. CASE r = 0
    <3> HIDE DEF q, r
    <3>1. 2 * q \in Int /\ k8 = (2 * q) * m
      <4> DEFINE mq == m * q
      <4>1. mq \in Int /\ (2 * q) * m = 2 * mq
        BY <1>1, <1>2
      <4> HIDE DEF mq, m, k4, k8
      <4> QED BY <1>1, <1>2, <2>1, <4>1 DEF mq
    <3> QED BY <3>1
  <2>2. CASE r = 4 * L
    <3> HIDE DEF q, r
    <3>1. (2 * q) + 1 \in Int /\ k8 = ((2 * q) + 1) * m
      <4> DEFINE mq == m * q
      <4>1. mq \in Int /\ ((2 * q) + 1) * m = (2 * mq) + m /\ 2 * r = m /\ m \in Int
        BY <1>1, <1>2, <2>2
      <4> HIDE DEF mq, m, k4, k8
      <4> QED BY <1>1, <1>2, <4>1 DEF mq
    <3> QED BY <3>1
  <2> QED BY <1>4, <2>1, <2>2
<1>5. ASSUME NEW j \in Int, k8 = j * m PROVE r \in {0, 4 * L}
  <2> DEFINE jL == j * L
  <2>1. jL \in Int /\ k = jL
    BY <1>1, <1>5
  <2>2. PICK i \in Int : j = 2 * i \/ j = (2 * i) + 1
    <3>1. j \div 2 \in Int /\ (j = 2 * (j \div 2) \/ j = (2 * (j \div 2)) + 1)
      BY SMT
    <3> QED BY <3>1
  <2> DEFINE h == 4 * L
             im == i * m
  <2>3. h \in 0..(m - 1) /\ 0 \in 0..(m - 1) /\ h \in Int /\ im \in Int /\ im + 0 = im
    BY <1>1
  <2>4. k4 = im + 0 \/ k4 = im + h
    <3> DEFINE iL == i * L
    <3>1. iL \in Int /\ im = 8 * iL /\ (jL = 2 * iL \/ jL = (2 * iL) + L)
      BY <1>1, <2>2
    <3> HIDE DEF im, jL, iL, m
    <3> QED BY <1>1, <2>1, <3>1
  <2>5. r = 0 % m \/ r = h % m
    <3>1. ((i * m) + 0) % m = 0 % m /\ ((i * m) + h) % m = h % m
      <4> HIDE DEF m, h
      <4>1. ((i * m) + h) % m = h % m
        BY <1>1, <2>3, ResidueOfMultiple
      <4> DEFINE nil == 0
      <4>2. nil \in Int
        BY <2>3
      <4> HIDE DEF nil
      <4>3. ((i * m) + nil) % m = nil % m
        BY <1>1, <4>2, ResidueOfMultiple
      <4> QED BY <4>1, <4>3 DEF nil
    <3> HIDE DEF m, h, k4
    <3> QED BY <2>4, <3>1
  <2>6. 0 % m = 0 /\ h % m = h
    <3> HIDE DEF h
    <3> QED BY <2>3, PeriodIs
  <2> QED BY <2>5, <2>6
<1> QED BY <1>3, <1>4, <1>5

\* subtract_affine_and_check_8_torsion: eight times the difference is the neutral one.
LEMMA TorsionIs ==
    ASSUME NEW p \in Coordinates, NEW r \in Coordinates, NEW m \in Int, NEW n \in Int,
           IsAt(p, PointAt(m)), HasT(p), IsAt(r, PointAt(n)), HasT(r), r.z = 1
    PROVE  SubtractAffineAndCheck8Torsion(p, r) <=> (8 * (m - n)) % (8 * L) = 0
<1> DEFINE o == Opposite(r)
           s == AddAffineRhs(p, o)
           D == Double(s)
           k == m - n
           k2 == k + k
           k4 == k2 + k2
           c == PointAt(k2)
<1>1. o \in Coordinates /\ IsAt(o, PointAt(-n)) /\ HasT(o) /\ o.z = 1
  BY OppositeAt
<1>2. k \in Int /\ k2 \in Int /\ k4 \in Int /\ m + (-n) = k /\ k4 = 4 * k /\ -n \in Int
  OBVIOUS
<1> HIDE DEF o, k
<1>3. s \in Coordinates /\ IsAt(s, PointAt(k))
  <2>1. AddImpl(p, o, TRUE) \in Coordinates
    BY <1>1, AdditionCloses
  <2>2. IsAt(AddImpl(p, o, TRUE), PointAt(m + (-n)))
    BY <1>1, <1>2, AddedAt
  <2> QED BY <1>2, <2>1, <2>2 DEF AddAffineRhs
<1> HIDE DEF s
<1>4. D \in Coordinates /\ HasT(D) /\ IsAt(D, c)
  <2>1. DoubleImpl(s, TRUE, FALSE) \in Coordinates /\ HasT(DoubleImpl(s, TRUE, FALSE))
    BY <1>3, DoublingCloses
  <2>2. IsAt(DoubleImpl(s, TRUE, FALSE), PointAt(k + k))
    BY <1>2, <1>3, DoubledAt
  <2> QED BY <2>1, <2>2 DEF Double
<1> HIDE DEF D
<1>5. c \in AffinePoints
  <2> HIDE DEF k2
  <2> QED BY <1>2, PointsInField
<1> DEFINE xy == c.x * c.y
<1>6. Congruent(D.t, xy * D.z)
  <2> HIDE DEF c
  <2> QED BY <1>4, <1>5, TimesCoordinate
<1>7. xy \in Int /\ D.t \in Field /\ D.t \in Int /\ D.z \in Int /\ ~Congruent(D.z, 0)
  <2>1. c.x \in Field /\ c.y \in Field /\ D.t \in Field /\ D.z \in Field /\ D.z \in Units
    <3> HIDE DEF c
    <3> QED BY <1>4, <1>5 DEF AffinePoints, Coordinates, IsAt
  <2>2. c.x \in Int /\ c.y \in Int /\ D.t \in Int /\ D.z \in Int
    BY <2>1, FieldNumbers
  <2>3. Congruent(D.z, D.z)
    BY DEF Congruent
  <2> HIDE DEF c
  <2> QED BY <2>1, <2>2, <2>3, ZeroOrUnit
<1> HIDE DEF xy
<1> DEFINE xyz == xy * D.z
<1>8. xyz \in Int
  BY <1>7
<1>9. D.t = 0 <=> Congruent(xy, 0)
  <2>1. ASSUME D.t = 0 PROVE Congruent(xy, 0)
    <3>1. Congruent(xy * D.z, 0)
      BY <1>6, <2>1, CongruentEquivalence
    <3> QED BY <1>7, <3>1, NoZeroDivisors
  <2>2. ASSUME Congruent(xy, 0) PROVE D.t = 0
    <3> DEFINE nil == 0
    <3>1. Congruent(D.z, D.z) /\ nil * D.z = 0 /\ nil \in Int /\ Congruent(xy, nil)
      BY <1>7, <2>2 DEF Congruent
    <3> HIDE DEF nil
    <3>2. Congruent(xy * D.z, nil * D.z)
      BY <1>7, <3>1, CongruentOps
    <3>3. Congruent(D.t, 0)
      BY <1>6, <3>1, <3>2, CongruentEquivalence
    <3> QED BY <1>7, <3>3, CongruentInField, FieldConstants
  <2> QED BY <2>1, <2>2
<1>10. Congruent(xy, 0) <=> PointAt(k4).x = 0
  <2> HIDE DEF k2
  <2> QED BY <1>2, ProductZeroAt DEF xy
<1>11. PointAt(k4).x = 0 <=> k4 % (8 * L) \in {0, 4 * L}
  <2> HIDE DEF k4
  <2> QED BY <1>2, XZeroAt
<1>12. k4 % (8 * L) \in {0, 4 * L} <=> (8 * k) % (8 * L) = 0
  <2> HIDE DEF k4
  <2> QED BY <1>2, FourTimes
<1>13. SubtractAffineAndCheck8Torsion(p, r) <=> D.t = 0
  BY TorsionCheckIs DEF D, s, o
<1> QED BY <1>9, <1>10, <1>11, <1>12, <1>13 DEF k

-----------------------------------------------------------------------------
(***************************************************************************)
(* The verdicts                                                            *)
(***************************************************************************)
\* The residue of what bytes decode to
ResidueDecoded(r) == ResidueOf([x |-> SignedRoot(r), y |-> DecodedY(r)])

LEMMA EncodingIs ==
    ASSUME NEW r \in EncodedBytes
    PROVE  LET e == EncodingOf[r]
           IN  /\ e.onCurve <=> RootFound(r)
               /\ e.canonicalY <=> HasCanonicalY(r)
               /\ RootFound(r) =>
                     e = [onCurve |-> TRUE, point |-> ResidueDecoded(r), canonicalY |-> HasCanonicalY(r),
                          signBit |-> IF RightRoot(r) = 0 THEN r.sign ELSE LanePolicy!XIsOdd(ResidueDecoded(r))]
<1> DEFINE R == DecompressPoint(r, TRUE)
           n == ResidueOf([x |-> R.point.x, y |-> R.point.y])
           canonical == HasCanonicalY(r)
           e == EncodingOf[r]
           odd == LanePolicy!XIsOdd(n)
           x == SignedRoot(r)
           y == DecodedY(r)
           t == Product(x, y)
<1>1. R.point = [x |-> x, y |-> y, z |-> 1, t |-> t] /\ R.valid = RootFound(r) /\ R.xZero = (RightRoot(r) = 0)
  BY DecodingIs
<1>2. e = IF R.valid
          THEN [onCurve |-> TRUE, point |-> n, canonicalY |-> canonical, signBit |-> IF R.xZero THEN r.sign ELSE odd]
          ELSE [onCurve |-> FALSE, point |-> 0, canonicalY |-> canonical, signBit |-> r.sign]
  BY Zenon DEF EncodingOf
<1> HIDE DEF e, odd, canonical, R, x, y, t
<1>3. R.point.x = x /\ R.point.y = y
  BY <1>1
<1>4. n = ResidueDecoded(r)
  BY <1>3 DEF ResidueDecoded, x, y
<1>5. odd = LanePolicy!XIsOdd(ResidueDecoded(r))
  BY <1>4 DEF odd
<1> HIDE DEF n
<1>6. CASE RootFound(r)
  <2> DEFINE sign == IF R.xZero THEN r.sign ELSE odd
  <2>1. e = [onCurve |-> TRUE, point |-> n, canonicalY |-> canonical, signBit |-> sign]
    BY <1>1, <1>2, <1>6
  <2>2. sign = IF RightRoot(r) = 0 THEN r.sign ELSE odd
    BY <1>1
  <2> HIDE DEF sign
  <2>3. e.onCurve = TRUE /\ e.canonicalY = canonical
    BY <2>1
  <2>4. e = [onCurve |-> TRUE, point |-> ResidueDecoded(r), canonicalY |-> HasCanonicalY(r),
             signBit |-> IF RightRoot(r) = 0 THEN r.sign ELSE LanePolicy!XIsOdd(ResidueDecoded(r))]
    BY <1>4, <1>5, <2>1, <2>2, Zenon DEF canonical
  <2> QED BY <1>6, <2>3, <2>4, Zenon DEF e, canonical
<1>7. CASE ~RootFound(r)
  <2> DEFINE sign == r.sign
  <2>1. e = [onCurve |-> FALSE, point |-> 0, canonicalY |-> canonical, signBit |-> sign]
    BY <1>1, <1>2, <1>7
  <2> HIDE DEF sign
  <2>2. e.onCurve = FALSE /\ e.canonicalY = canonical
    BY <2>1
  <2> QED BY <1>7, <2>2, Zenon DEF e, canonical
<1> QED BY <1>6, <1>7

\* What a ladder ended at, as a residue
EndsAt(p) == acc \in Coordinates /\ p \in 0..(8 * L - 1) /\ IsAt(acc, PointAt(p))

LEMMA EndsWhere ==
    ASSUME NEW n \in Int, acc \in Coordinates, IsAt(acc, PointAt(n))
    PROVE  EndsAt(ResidueOf(Affine(acc))) /\ Affine(acc) = PointAt(n)
<1> DEFINE c == PointAt(n)
<1>1. c \in CurvePoints /\ c \in AffinePoints
  BY PointsOnCurve, PointsInField
<1> HIDE DEF c
<1>2. Affine(acc) = c
  BY <1>1, AffineIs DEF c
<1>3. ResidueOf(c) \in 0..(8 * L - 1) /\ PointAt(ResidueOf(c)) = c
  BY <1>1, ResidueIs
<1> QED BY <1>2, <1>3 DEF EndsAt, c

\* The residue of a decoded R, and what the tests of its point come to
LEMMA DecodedResidue ==
    ASSUME NEW r \in EncodedBytes, RootFound(r)
    PROVE  LET n == ResidueDecoded(r)
               q == DecompressPoint(r, TRUE).point
           IN  /\ n \in 0..(8 * L - 1) /\ n \in Int
               /\ PointAt(n) = [x |-> SignedRoot(r), y |-> DecodedY(r)]
               /\ q \in Coordinates /\ IsAt(q, PointAt(n)) /\ HasT(q) /\ q.z = 1
               /\ RightRoot(r) = 0 <=> n \in {0, 4 * L}
<1> DEFINE n == ResidueDecoded(r)
           q == DecompressPoint(r, TRUE).point
           c == [x |-> SignedRoot(r), y |-> DecodedY(r)]
<1>1. c \in CurvePoints /\ q \in Coordinates /\ IsAt(q, c) /\ HasT(q) /\ q.z = 1
  BY DecodedAt
<1>2. c.x = SignedRoot(r)
  OBVIOUS
<1> HIDE DEF c
<1>3. n \in 0..(8 * L - 1) /\ PointAt(n) = c
  BY <1>1, ResidueIs DEF ResidueDecoded, c
<1>4. n \in Int
  BY <1>3
<1> HIDE DEF n
<1>5. n % (8 * L) = n
  BY <1>3, PeriodIs
<1>6. c.x = 0 <=> n \in {0, 4 * L}
  BY <1>3, <1>4, <1>5, XZeroAt
<1>7. SignedRoot(r) = 0 <=> RightRoot(r) = 0
  BY SignIs
<1> QED BY <1>1, <1>2, <1>3, <1>4, <1>6, <1>7 DEF n, c

LEMMA Zip215IsPolicy ==
    ASSUME NEW p, EndsAt(p), HasT(acc), NEW r \in EncodedBytes
    PROVE  Zip215Verdict(r) = LanePolicy!ScoreZip215(p, EncodingOf[r], valid)
<1> DEFINE q == DecompressPoint(r, TRUE).point
           n == ResidueDecoded(r)
           e == EncodingOf[r]
           torsion == SubtractAffineAndCheck8Torsion(acc, q)
           equal == LanePolicy!EqualUpToTorsion(p, e.point)
<1>1. Zip215Verdict(r) <=> torsion /\ valid /\ RootFound(r)
  BY DecodingIs DEF Zip215Verdict
<1>2. LanePolicy!ScoreZip215(p, e, valid) <=> equal /\ valid /\ RootFound(r)
  BY EncodingIs DEF LanePolicy!ScoreZip215, LanePolicy!zip215_lane_accepts
<1>3. ASSUME RootFound(r) PROVE torsion <=> equal
  <2>1. n \in Int /\ q \in Coordinates /\ IsAt(q, PointAt(n)) /\ HasT(q) /\ q.z = 1
    BY <1>3, DecodedResidue
  <2>2. e.point = n
    <3> DEFINE canonical == HasCanonicalY(r)
               sign == IF RightRoot(r) = 0 THEN r.sign ELSE LanePolicy!XIsOdd(ResidueDecoded(r))
    <3>1. e = [onCurve |-> TRUE, point |-> n, canonicalY |-> canonical, signBit |-> sign]
      BY <1>3, EncodingIs
    <3> HIDE DEF e, canonical, sign, n
    <3> QED BY <3>1
  <2> HIDE DEF n, q, e
  <2>3. p \in Int /\ acc \in Coordinates /\ IsAt(acc, PointAt(p))
    BY DEF EndsAt
  <2>4. torsion <=> (8 * (p - n)) % (8 * L) = 0
    BY <2>1, <2>3, TorsionIs
  <2> DEFINE m == 8 * L
             d == p - n
  <2>5. equal <=> (8 * (d % m)) % m = 0
    BY <2>2 DEF LanePolicy!EqualUpToTorsion, LanePolicy!IsSmallOrder, LanePolicy!Multiple, LanePolicy!Minus,
                LanePolicy!Order, LanePolicy!Identity
  <2>6. (8 * (d % m)) % m = (8 * d) % m
    <3> DEFINE a == d \div m
               b == d % m
    <3>1. m \in Nat \ {0} /\ d \in Int
      BY <2>1, <2>3, PeriodIs
    <3> HIDE DEF m, d
    <3>2. a \in Int /\ b \in Int /\ d = (m * a) + b
      BY <3>1, SMT
    <3> HIDE DEF a, b
    <3>3. 8 * d = ((8 * a) * m) + (8 * b) /\ 8 * a \in Int /\ 8 * b \in Int
      <4> DEFINE ma == m * a
      <4>1. ma \in Int /\ (8 * a) * m = 8 * ma
        BY <3>1, <3>2
      <4> HIDE DEF ma
      <4> QED BY <3>1, <3>2, <4>1 DEF ma
    <3>4. (((8 * a) * m) + (8 * b)) % m = (8 * b) % m
      BY <3>1, <3>3, ResidueOfMultiple
    <3> QED BY <3>3, <3>4 DEF b
  <2> HIDE DEF m
  <2>7. (8 * d) % m = 0 <=> torsion
    BY <2>4 DEF m
  <2> QED BY <2>5, <2>6, <2>7
<1> HIDE DEF torsion, equal, e
<1>4. (Zip215Verdict(r) <=> LanePolicy!ScoreZip215(p, e, valid))
  BY <1>1, <1>2, <1>3
<1> DEFINE a == Zip215Verdict(r)
           b == LanePolicy!ScoreZip215(p, e, valid)
<1>5. a \in BOOLEAN /\ b \in BOOLEAN
  BY DEF Zip215Verdict, LanePolicy!ScoreZip215, LanePolicy!zip215_lane_accepts
<1> HIDE DEF a, b
<1>6. a = b
  BY <1>4, <1>5 DEF a, b
<1> QED BY <1>6 DEF a, b, e

LEMMA FieldsDecoded ==
    ASSUME NEW r \in EncodedBytes, RootFound(r)
    PROVE  LET e == EncodingOf[r]
           IN  /\ e.onCurve = TRUE /\ e.point = ResidueDecoded(r) /\ e.canonicalY = HasCanonicalY(r)
               /\ e.signBit = IF RightRoot(r) = 0 THEN r.sign ELSE LanePolicy!XIsOdd(ResidueDecoded(r))
<1> DEFINE e == EncodingOf[r]
           n == ResidueDecoded(r)
           canonical == HasCanonicalY(r)
           sign == IF RightRoot(r) = 0 THEN r.sign ELSE LanePolicy!XIsOdd(ResidueDecoded(r))
<1>1. e = [onCurve |-> TRUE, point |-> n, canonicalY |-> canonical, signBit |-> sign]
  BY EncodingIs
<1> HIDE DEF e, n, canonical, sign
<1>2. e.onCurve = TRUE /\ e.point = n /\ e.canonicalY = canonical /\ e.signBit = sign
  BY <1>1
<1> QED BY <1>2, Zenon DEF e, n, canonical, sign

\* The denominator of a decoding is never zero: d times a square is not -1.
LEMMA DenominatorIsUnit == \A y \in Field : Sum(1, Product(CURVE_D, Square(y))) # 0
<1> SUFFICES ASSUME NEW y \in Field, Sum(1, Product(CURVE_D, Square(y))) = 0 PROVE FALSE
  OBVIOUS
<1> DEFINE d == CURVE_D
           i == SQRT_M1
           ii == i * i
           w == y * y
           dw == d * w
           q == Product(d, Square(y))
<1>1. y \in Int /\ d \in Int /\ i \in Int /\ i \in Field /\ d \in Field
  BY FieldNumbers, FieldConstants, DecompressAssumption
<1>2. ii \in Int /\ w \in Int /\ dw \in Int /\ 1 + dw \in Int /\ (1 + dw) - 1 = dw
  <2> HIDE DEF d, i
  <2> QED BY <1>1
<1>3. Congruent(ii, -1)
  <2>1. Congruent(Product(i, i), ii)
    BY <1>2, ResidueIsCongruent DEF Product
  <2>2. Product(i, i) = FIELD_P - 1
    BY DecompressAssumption DEF Square
  <2>3. Congruent(FIELD_P - 1, -1)
    <3>1. FIELD_P - 1 = 1 * FIELD_P + (-1) /\ FIELD_P - 1 \in Int
      BY Residues
    <3> QED BY <3>1, CongruentByMultiple
  <2> QED BY <2>1, <2>2, <2>3, CongruentEquivalence
<1>4. Square(y) \in Field /\ Congruent(Square(y), w)
  <2>1. Congruent(Product(y, y), w)
    BY <1>2, ResidueIsCongruent DEF Product
  <2> QED BY <2>1, FieldOps DEF Square
<1>5. Square(y) \in Int /\ Congruent(d, d) /\ Congruent(1, 1)
  BY <1>4, FieldNumbers, CongruentEquivalence
<1> HIDE DEF d, i, ii, w
<1>6. Congruent(q, dw)
  BY <1>1, <1>2, <1>4, <1>5, StandFor
<1>7. q \in Int
  BY <1>1, <1>4, FieldOps, FieldNumbers
<1> HIDE DEF q, dw
<1>8. Congruent(Sum(1, q), 1 + dw)
  BY <1>2, <1>5, <1>6, <1>7, StandFor
<1>9. Congruent(1 + dw, 0)
  BY <1>8, CongruentEquivalence DEF q, d
<1>10. Congruent(dw, -1)
  <2>1. Congruent((1 + dw) - 1, 0 - 1)
    BY <1>2, <1>5, <1>9, CongruentOps
  <2> QED BY <1>2, <2>1
<1>11. Congruent(ii, dw)
  BY <1>3, <1>10, CongruentEquivalence
<1>12. Congruent(y, 0)
  BY <1>1, <1>11, DTimesSquare DEF ii, dw, w, d
<1>13. Congruent(w, 0)
  <2>1. Congruent(y * y, 0 * 0)
    BY <1>1, <1>12, CongruentOps
  <2> QED BY <2>1 DEF w
<1> DEFINE nil == 0
<1>14. Congruent(w, nil) /\ nil \in Int /\ d * nil = 0
  BY <1>1, <1>13
<1> HIDE DEF nil
<1>15. Congruent(dw, d * nil)
  BY <1>1, <1>2, <1>5, <1>14, CongruentOps DEF dw
<1>16. Congruent(-1, 0)
  BY <1>10, <1>14, <1>15, CongruentEquivalence
<1>17. Congruent(0, 1)
  <2>1. Congruent((-1) + 1, 0 + 1)
    BY <1>5, <1>16, CongruentOps
  <2> QED BY <2>1
<1> QED BY <1>17, TwoIsUnit, CongruentEquivalence

\* Points of one y have the same x, or opposite ones.
LEMMA SameY ==
    ASSUME NEW a \in Field, NEW b \in Field, NEW y \in Field, OnCurve(a, y), OnCurve(b, y)
    PROVE  a = b \/ a = Negated(b)
<1> DEFINE v == Sum(1, Product(CURVE_D, Square(y)))
           u == Difference(Square(y), 1)
<1>1. Product(v, Square(a)) = u /\ Product(v, Square(b)) = u
  BY RootOnCurve
<1>2. Square(a) = Square(b)
  <2> DEFINE w == y * y
             dw == CURVE_D * w
  <2>1. v \in Field /\ Square(a) \in Field /\ Square(b) \in Field
    <3>1. Square(y) \in Field
      BY FieldOps
    <3>2. Product(CURVE_D, Square(y)) \in Field
      BY <3>1, FieldOps, FieldConstants
    <3> QED BY <3>2, FieldOps, FieldConstants
  <2>2. y \in Int /\ CURVE_D \in Int /\ w \in Int /\ dw \in Int
    BY FieldNumbers, FieldConstants
  <2>3. ~Congruent(v, 0)
    <3> HIDE DEF v
    <3>1. v # 0
      BY DenominatorIsUnit DEF v
    <3> QED BY <2>1, <3>1, CongruentInField, FieldConstants
  <2> HIDE DEF v, u
  <2> DEFINE A == Square(a)
             B == Square(b)
  <2>4. v \in Int /\ A \in Int /\ B \in Int /\ v * A \in Int /\ v * B \in Int /\ v * A = A * v /\ v * B = B * v
    <3>1. v \in Int /\ A \in Int /\ B \in Int
      BY <2>1, FieldNumbers
    <3> HIDE DEF A, B
    <3> QED BY <3>1
  <2> HIDE DEF A, B
  <2>5. Congruent(v * A, v * B)
    <3>1. Congruent(Product(v, A), v * A) /\ Congruent(Product(v, B), v * B)
      BY <2>4, ResidueIsCongruent DEF Product
    <3>2. Product(v, A) = Product(v, B)
      BY <1>1 DEF A, B
    <3> QED BY <3>1, <3>2, CongruentEquivalence
  <2>6. Congruent(A * v, B * v)
    BY <2>4, <2>5
  <2>7. Congruent(A, B)
    BY <2>3, <2>4, <2>6, Cancels
  <2> QED BY <2>1, <2>7, CongruentInField DEF A, B
<1> HIDE DEF u, v
<1> DEFINE m == a - b
           n == a + b
           aa == a * a
           bb == b * b
<1>3. a \in Int /\ b \in Int
  BY FieldNumbers
<1>4. m \in Int /\ n \in Int /\ aa \in Int /\ bb \in Int /\ m * n = aa - bb /\ m + b = a /\ n - b = a /\ 0 + b = b /\ 0 - b = -b /\ bb - bb = 0
  BY <1>3
<1>5. Congruent(aa, bb)
  <2>1. Congruent(Product(a, a), aa) /\ Congruent(Product(b, b), bb)
    BY <1>4, ResidueIsCongruent DEF Product
  <2>2. Product(a, a) = Product(b, b)
    BY <1>2 DEF Square
  <2> QED BY <2>1, <2>2, CongruentEquivalence
<1>6. Congruent(b, b) /\ Congruent(bb, bb)
  BY DEF Congruent
<1> HIDE DEF m, n, aa, bb
<1>7. Congruent(m, 0) \/ Congruent(n, 0)
  <2>1. Congruent(aa - bb, bb - bb)
    BY <1>4, <1>5, <1>6, CongruentOps
  <2>2. Congruent(m * n, 0)
    BY <1>4, <2>1
  <2> QED BY <1>4, <2>2, NoZeroDivisors
<1>8. CASE Congruent(m, 0)
  <2>1. Congruent(m + b, 0 + b)
    BY <1>3, <1>4, <1>6, <1>8, CongruentOps
  <2>2. Congruent(a, b)
    BY <1>4, <2>1
  <2> QED BY <2>2, CongruentInField
<1>9. CASE Congruent(n, 0)
  <2>1. Congruent(n - b, 0 - b)
    BY <1>3, <1>4, <1>6, <1>9, CongruentOps
  <2>2. Congruent(a, -b)
    BY <1>4, <2>1
  <2>3. Negated(b) \in Field /\ Congruent(Negated(b), -b)
    BY NegatedIs
  <2> QED BY <2>2, <2>3, CongruentEquivalence, CongruentInField
<1> QED BY <1>7, <1>8, <1>9

\* Two points of the curve are one if their residues are.
LEMMA SameResidue ==
    ASSUME NEW m \in 0..(8 * L - 1), NEW n \in 0..(8 * L - 1)
    PROVE  m = n <=> PointAt(m).x = PointAt(n).x /\ PointAt(m).y = PointAt(n).y
<1>1. PointAt(m) \in AffinePoints /\ PointAt(n) \in AffinePoints
  <2>1. m \in Int /\ n \in Int
    OBVIOUS
  <2> QED BY <2>1, PointsInField
<1>2. PointAt(m) = PointAt(n) <=> PointAt(m).x = PointAt(n).x /\ PointAt(m).y = PointAt(n).y
  BY <1>1 DEF AffinePoints
<1> QED BY <1>2, PointsDiffer

LEMMA DalekIsPolicy ==
    ASSUME NEW p, EndsAt(p), NEW r \in EncodedBytes
    PROVE  DalekVerdict(r) = LanePolicy!ScoreDalek(p, EncodingOf[r], valid)
<1> DEFINE R == DecompressPoint(r, FALSE)
           q == R.point
           x == SignedRoot(r)
           y == DecodedY(r)
           n == ResidueDecoded(r)
           e == EncodingOf[r]
           equal == EqualsAffine(acc, q)
           small == IsSmallOrderPoint(q)
           canonical == HasCanonicalY(r)
<1>1. /\ q = [x |-> x, y |-> y, z |-> 1, t |-> 0] /\ R.valid = RootFound(r) /\ R.xZero = (RightRoot(r) = 0)
      /\ x \in Field /\ y \in Field
  BY DecodingIs
<1>2. DalekVerdict(r) <=> equal /\ valid /\ RootFound(r) /\ canonical /\ ~(RightRoot(r) = 0 /\ r.sign) /\ ~small
  <2> HIDE DEF equal, small, canonical
  <2>1. DalekVerdict(r) <=> equal /\ valid /\ R.valid /\ canonical /\ ~(R.xZero /\ r.sign) /\ ~small
    BY Zenon DEF DalekVerdict, equal, small, canonical
  <2> HIDE DEF R
  <2> QED BY <1>1, <2>1 DEF R
<1> DEFINE policySmall == LanePolicy!IsSmallOrder(e.point)
           policyZero == LanePolicy!XIsZero(e.point)
<1>3. LanePolicy!ScoreDalek(p, e, valid)
        <=> p = e.point /\ valid /\ e.onCurve /\ e.canonicalY /\ ~(policyZero /\ e.signBit) /\ ~policySmall
  BY Zenon DEF LanePolicy!ScoreDalek
<1>4. e.onCurve <=> RootFound(r)
  BY EncodingIs
<1>5. ASSUME RootFound(r)
      PROVE  /\ equal <=> p = e.point
             /\ canonical <=> e.canonicalY
             /\ RightRoot(r) = 0 /\ r.sign <=> policyZero /\ e.signBit
             /\ small <=> policySmall
  <2>1. /\ e.point = n /\ e.canonicalY = canonical
        /\ e.signBit = IF RightRoot(r) = 0 THEN r.sign ELSE LanePolicy!XIsOdd(n)
    BY <1>5, FieldsDecoded
  <2> DEFINE c == [x |-> x, y |-> y]
  <2>2. n \in 0..(8 * L - 1) /\ n \in Int /\ PointAt(n) = c /\ (RightRoot(r) = 0 <=> n \in {0, 4 * L})
    BY <1>5, DecodedResidue
  <2>3. q.x = x /\ q.y = y /\ q.z = 1 /\ c.x = x /\ c.y = y
    <3> HIDE DEF x, y, q
    <3> QED BY <1>1
  <2>4. q \in Coordinates
    <3>1. 1 \in Field /\ 0 \in Field
      BY FieldConstants
    <3> HIDE DEF x, y, q
    <3> QED BY <1>1, <3>1 DEF Coordinates
  <2> HIDE DEF R, x, y, n, c, e, canonical
  <2>5. equal <=> p = e.point
    <3>1. p \in 0..(8 * L - 1) /\ p \in Int /\ acc \in Coordinates /\ IsAt(acc, PointAt(p))
      BY DEF EndsAt
    <3>2. PointAt(p) \in AffinePoints
      BY <3>1, PointsInField
    <3>3. equal <=> q.x = PointAt(p).x /\ q.y = PointAt(p).y
      BY <1>1, <2>3, <3>1, <3>2, EqualsAffineIs
    <3>4. p = n <=> PointAt(p).x = PointAt(n).x /\ PointAt(p).y = PointAt(n).y
      BY <2>2, <3>1, SameResidue
    <3> HIDE DEF equal
    <3> QED BY <2>1, <2>2, <2>3, <3>3, <3>4
  <2>6. RightRoot(r) = 0 /\ r.sign <=> policyZero /\ e.signBit
    BY <2>1, <2>2 DEF LanePolicy!XIsZero
  <2>7. small <=> policySmall
    <3>1. IsAt(q, PointAt(n))
      <4>1. x * 1 = x /\ y * 1 = y
        <5>1. x \in Int /\ y \in Int
          BY <1>1, FieldNumbers
        <5> QED BY <5>1
      <4>2. Congruent(x, x * 1) /\ Congruent(y, y * 1) /\ 1 \in Units
        BY <4>1, FieldConstants, CongruentEquivalence DEF Units
      <4> QED BY <2>2, <2>3, <4>2 DEF IsAt
    <3>2. small <=> (8 * n) % (8 * L) = 0
      BY <2>2, <2>4, <3>1, SmallOrderIs
    <3>3. policySmall <=> (8 * n) % (8 * L) = 0
      BY <2>1 DEF LanePolicy!IsSmallOrder, LanePolicy!Multiple, LanePolicy!Order, LanePolicy!Identity
    <3> QED BY <3>2, <3>3
  <2> QED BY <2>1, <2>5, <2>6, <2>7
<1> DEFINE a == DalekVerdict(r)
           b == LanePolicy!ScoreDalek(p, e, valid)
<1>6. a <=> b
  <2> HIDE DEF equal, small, canonical, policySmall, policyZero, e
  <2> QED BY <1>2, <1>3, <1>4, <1>5
<1>7. a \in BOOLEAN /\ b \in BOOLEAN
  BY DEF DalekVerdict, LanePolicy!ScoreDalek
<1> HIDE DEF a, b
<1>8. a = b
  BY <1>6, <1>7
<1> QED BY <1>8 DEF a, b

\* flush_dalek_queue compares bytes, and finds equal what is the one canonical
\* encoding of the point.
LEMMA QueuedIsPolicy ==
    ASSUME NEW p, EndsAt(p), NEW r \in EncodedBytes
    PROVE  DalekQueuedVerdict(r) = LanePolicy!FlushDalek(p, EncodingOf[r], valid)
<1> DEFINE e == EncodingOf[r]
           n == ResidueDecoded(r)
           P == PointAt(p)
           X == P.x
           Y == P.y
           odd == X % 2 = 1
           same == CompressWithZInverse(acc, Inverted(acc.z)) = r
           small == IsSmallOrderPoint(acc)
           policySame == LanePolicy!Compressed(p) = e
           policySmall == LanePolicy!IsSmallOrder(p)
<1>1. p \in 0..(8 * L - 1) /\ p \in Int /\ acc \in Coordinates /\ IsAt(acc, P)
  BY DEF EndsAt
<1>2. P \in CurvePoints /\ P \in AffinePoints /\ X \in Field /\ Y \in Field
  <2>1. P \in CurvePoints /\ P \in AffinePoints
    BY <1>1, PointsOnCurve, PointsInField
  <2> QED BY <2>1 DEF AffinePoints
<1>3. small <=> policySmall
  <2>1. small <=> (8 * p) % (8 * L) = 0
    BY <1>1, SmallOrderIs
  <2> QED BY <2>1 DEF LanePolicy!IsSmallOrder, LanePolicy!Multiple, LanePolicy!Order, LanePolicy!Identity
<1>4. CompressWithZInverse(acc, Inverted(acc.z)) = [y |-> Y, sign |-> odd]
  <2> DEFINE zinv == Inverted(acc.z)
             x == Product(acc.x, zinv)
             y == Product(acc.y, zinv)
  <2>1. Affine(acc) = P
    <3> HIDE DEF P
    <3> QED BY <1>1, <1>2, AffineIs
  <2>2. Affine(acc) = [x |-> x, y |-> y]
    BY Zenon DEF Affine
  <2> HIDE DEF x, y, P
  <2>3. x = X /\ y = Y
    BY <2>1, <2>2
  <2>4. CompressWithZInverse(acc, zinv) = [y |-> y, sign |-> x % 2 = 1]
    BY Zenon DEF CompressWithZInverse, x, y
  <2> HIDE DEF zinv
  <2>5. CompressWithZInverse(acc, zinv) = [y |-> Y, sign |-> odd]
    BY <2>3, <2>4
  <2> QED BY <2>5 DEF zinv
<1>5. odd \in BOOLEAN /\ (X = 0 => ~odd)
  BY SMT
<1>6. same <=> Y = r.y /\ (odd <=> r.sign)
  <2> HIDE DEF odd, Y
  <2> QED BY <1>4, <1>5, EncodingsEqual
<1>7. policySame <=> /\ RootFound(r) /\ e.point = p /\ HasCanonicalY(r)
                     /\ e.signBit = LanePolicy!XIsOdd(p)
  <2> DEFINE compressed == LanePolicy!Compressed(p)
             oddp == LanePolicy!XIsOdd(p)
  <2>1. compressed = [onCurve |-> TRUE, point |-> p, signBit |-> oddp, canonicalY |-> TRUE]
    BY Zenon DEF LanePolicy!Compressed
  <2> HIDE DEF compressed, oddp
  <2>2. compressed.onCurve = TRUE /\ compressed.point = p /\ compressed.signBit = oddp /\ compressed.canonicalY = TRUE
    BY <2>1
  <2>3. CASE RootFound(r)
    <3> DEFINE canonical == HasCanonicalY(r)
               sign == IF RightRoot(r) = 0 THEN r.sign ELSE LanePolicy!XIsOdd(ResidueDecoded(r))
    <3>1. e = [onCurve |-> TRUE, point |-> n, canonicalY |-> canonical, signBit |-> sign]
      BY <2>3, EncodingIs
    <3>2. canonical \in BOOLEAN
      BY DEF HasCanonicalY
    <3> HIDE DEF e, n, canonical, sign
    <3>3. e.onCurve = TRUE /\ e.point = n /\ e.signBit = sign /\ e.canonicalY = canonical
      BY <3>1
    <3>4. compressed = e <=> p = n /\ oddp = sign /\ canonical = TRUE
      BY <2>1, <3>1
    <3>5. compressed = e <=> e.point = p /\ canonical /\ e.signBit = oddp
      BY <3>2, <3>3, <3>4
    <3> QED BY <2>3, <3>5 DEF canonical, compressed, oddp, e
  <2>4. CASE ~RootFound(r)
    <3>1. ~e.onCurve
      BY <2>4, EncodingIs
    <3>2. compressed # e
      BY <2>2, <3>1
    <3> QED BY <2>4, <3>2 DEF compressed
  <2> QED BY <2>3, <2>4
<1> DEFINE c == [x |-> SignedRoot(r), y |-> DecodedY(r)]
<1>8. p % (8 * L) = p /\ (X = 0 <=> p \in {0, 4 * L})
  <2>1. p % (8 * L) = p
    BY <1>1, PeriodIs
  <2>2. X = 0 <=> p % (8 * L) \in {0, 4 * L}
    BY <1>1, XZeroAt
  <2> HIDE DEF X
  <2> QED BY <2>1, <2>2
<1>9. ASSUME RootFound(r)
      PROVE  /\ e.point = p <=> (SignedRoot(r) = X /\ DecodedY(r) = Y)
             /\ e.signBit = IF RightRoot(r) = 0 THEN r.sign ELSE LanePolicy!XIsOdd(e.point)
             /\ (RightRoot(r) = 0 <=> SignedRoot(r) = 0)
             /\ (SignedRoot(r) # 0 => (SignedRoot(r) % 2 = 1 <=> r.sign))
  <2>1. n \in 0..(8 * L - 1) /\ PointAt(n) = c
    BY <1>9, DecodedResidue
  <2>2. e.point = n /\ e.signBit = IF RightRoot(r) = 0 THEN r.sign ELSE LanePolicy!XIsOdd(n)
    BY <1>9, FieldsDecoded
  <2>3. c.x = SignedRoot(r) /\ c.y = DecodedY(r)
    OBVIOUS
  <2> HIDE DEF c, n
  <2>4. n = p <=> PointAt(n).x = PointAt(p).x /\ PointAt(n).y = PointAt(p).y
    BY <1>1, <2>1, SameResidue
  <2>5. n = p <=> SignedRoot(r) = X /\ DecodedY(r) = Y
    BY <2>1, <2>3, <2>4
  <2>6. e.point = p <=> SignedRoot(r) = X /\ DecodedY(r) = Y
    <3> HIDE DEF e, X, Y
    <3> QED BY <2>2, <2>5
  <2>7. e.signBit = IF RightRoot(r) = 0 THEN r.sign ELSE LanePolicy!XIsOdd(e.point)
    <3> HIDE DEF e
    <3> QED BY <2>2
  <2> QED BY <2>6, <2>7, SignIs
<1>10. ASSUME policySame PROVE same
  <2>1. RootFound(r) /\ e.point = p /\ HasCanonicalY(r) /\ e.signBit = LanePolicy!XIsOdd(p)
    BY <1>7, <1>10
  <2>2. Y = r.y /\ SignedRoot(r) = X
    BY <1>9, <2>1, CanonicalIs
  <2>3. r.sign \in BOOLEAN
    BY DEF EncodedBytes
  <2>4. CASE X = 0
    <3>1. p \in {0, 4 * L} /\ RightRoot(r) = 0
      BY <1>8, <1>9, <2>1, <2>2, <2>4
    <3>2. LanePolicy!XIsOdd(p) = FALSE
      BY <3>1, PeriodIs DEF LanePolicy!XIsOdd
    <3>3. r.sign = FALSE
      BY <1>9, <2>1, <3>1, <3>2
    <3> QED BY <1>5, <1>6, <2>2, <2>4, <3>3
  <2>5. CASE X # 0
    <3>1. odd <=> r.sign
      BY <1>9, <2>1, <2>2, <2>5
    <3> HIDE DEF same, odd
    <3> QED BY <1>6, <2>2, <3>1
  <2> QED BY <2>4, <2>5
<1>11. ASSUME same PROVE policySame
  <2>1. Y = r.y /\ (odd <=> r.sign) /\ r.sign \in BOOLEAN
    BY <1>6, <1>11 DEF EncodedBytes
  <2>2. DecodedY(r) = Y /\ HasCanonicalY(r)
    <3>1. r.y % FIELD_P = r.y
      <4> HIDE DEF Y
      <4> QED BY <1>2, <2>1, FieldIsResidues
    <3> QED BY <2>1, <3>1, CanonicalIs DEF DecodedY
  <2>3. RootFound(r)
    <3> HIDE DEF P
    <3> QED BY <1>2, <2>2, RootExists
  <2>4. SignedRoot(r) = X
    <3> DEFINE s == SignedRoot(r)
    <3>1. s \in Field
      BY DecodingIs
    <3>2. c \in CurvePoints /\ c = [x |-> s, y |-> Y]
      BY <2>2, <2>3, DecodedAt
    <3>3. s = X \/ s = Negated(X)
      <4>1. OnCurve(s, Y) /\ OnCurve(X, Y)
        <5>1. OnCurve(s, Y)
          BY <2>2, <2>3, DecodingOnCurve
        <5> QED BY <1>2, <5>1 DEF CurvePoints
      <4> HIDE DEF s, X, Y
      <4> QED BY <1>2, <3>1, <4>1, SameY
    <3>4. s # 0 => (s % 2 = 1 <=> r.sign)
      BY <1>9, <2>3
    <3> HIDE DEF s
    <3>5. CASE X = 0
      <4> HIDE DEF X
      <4>1. Negated(X) = 0
        BY <3>5, OppositeDiffers
      <4> QED BY <3>3, <3>5, <4>1 DEF s
    <3>6. CASE X # 0 /\ s # X
      <4>1. X \in Units
        BY <1>2, <3>6 DEF Units
      <4> HIDE DEF X
      <4>2. s = Negated(X) /\ s \in Units /\ (s % 2 = 1 <=> X % 2 # 1)
        BY <3>3, <3>6, <4>1, OppositeDiffers
      <4>3. s # 0
        BY <4>2 DEF Units
      <4> QED BY <2>1, <3>4, <4>2, <4>3
    <3> QED BY <3>5, <3>6 DEF s
  <2>5. e.point = p
    BY <1>9, <2>2, <2>3, <2>4
  <2>6. e.signBit = LanePolicy!XIsOdd(p)
    <3>1. CASE X = 0
      <4>1. p \in {0, 4 * L} /\ RightRoot(r) = 0
        BY <1>8, <1>9, <2>3, <2>4, <3>1
      <4>2. LanePolicy!XIsOdd(p) = FALSE
        BY <4>1, PeriodIs DEF LanePolicy!XIsOdd
      <4>3. r.sign = FALSE
        BY <1>5, <2>1, <3>1
      <4> QED BY <1>9, <2>3, <4>1, <4>2, <4>3
    <3>2. CASE X # 0
      BY <1>9, <2>3, <2>4, <2>5, <3>2
    <3> QED BY <3>1, <3>2
  <2> HIDE DEF policySame, e
  <2> QED BY <1>7, <2>2, <2>3, <2>5, <2>6
<1> DEFINE a == DalekQueuedVerdict(r)
           b == LanePolicy!FlushDalek(p, e, valid)
<1>12. (a <=> same /\ valid /\ ~small) /\ (b <=> policySame /\ valid /\ ~policySmall)
  BY Zenon DEF DalekQueuedVerdict, LanePolicy!FlushDalek
<1>13. a \in BOOLEAN /\ b \in BOOLEAN
  BY DEF DalekQueuedVerdict, LanePolicy!FlushDalek
<1> HIDE DEF a, b, same, small, policySame, policySmall
<1>14. a = b
  BY <1>3, <1>10, <1>11, <1>12, <1>13
<1> QED BY <1>14 DEF a, b

\* For every field, curve, lane and encoding of R: the coordinates and the bytes
\* come to the verdicts of Policy on the group, by each of the three ways to score.
THEOREM ScoresArePolicy == Spec => []VerdictsOfPolicy
<1>1. ASSUME IInv, ExactInv PROVE VerdictsOfPolicy
  <2> DEFINE n == (8 * scalars.s) - (scalars.k * ResidueHeld(decoded))
             p == ResidueOf(Affine(acc))
  <2>1. SUFFICES ASSUME phase = "score", NEW r \in EncodedBytes
                 PROVE  IF policy = "Zip215"
                        THEN Zip215Verdict(r) = LanePolicy!ScoreZip215(p, EncodingOf[r], valid)
                        ELSE /\ DalekVerdict(r) = LanePolicy!ScoreDalek(p, EncodingOf[r], valid)
                             /\ DalekQueuedVerdict(r) = LanePolicy!FlushDalek(p, EncodingOf[r], valid)
    BY Zenon DEF VerdictsOfPolicy
  <2>2. IsAt(acc, PointAt(n)) /\ acc \in Coordinates
    BY <1>1, <2>1 DEF ExactInv, ProgressInv, IInv, LadderInv
  <2>3. n \in Int
    BY <1>1, <2>1, EndIsInt
  <2> HIDE DEF n
  <2>4. EndsAt(p)
    BY <2>2, <2>3, EndsWhere
  <2>5. policy = "Zip215" => HasT(acc)
    BY <1>1, <2>1 DEF IInv, LadderInv
  <2> HIDE DEF p
  <2> QED BY <2>1, <2>4, <2>5, Zip215IsPolicy, DalekIsPolicy, QueuedIsPolicy, Zenon
<1> QED BY <1>1, ExactInvHolds, PTL

-----------------------------------------------------------------------------
(***************************************************************************)
(* The orders of the queued ends.  A ladder ends at coordinates of a point *)
(* of the curve (LadderEndsAtItsPoint).                                    *)
(***************************************************************************)
PointResults == {p \in Results : Affine(p) \in CurvePoints}

Ends == INSTANCE SharedInversion WITH Results <- PointResults

\* It has the curve of Lane.
LEMMA SameCurve ==
    /\ \A p : Ends!IsSmallOrderPoint(p) <=> IsSmallOrderPoint(p)
    /\ \A p : Ends!Affine(p) = Affine(p)
    /\ \A p : Ends!ResidueOf(p) = ResidueOf(p)
<1>1. \A p : Ends!DoubleWithoutT(p) = DoubleWithoutT(p)
  <2>1. \A p, computeT, affineZ : Ends!DoubleImpl(p, computeT, affineZ) = DoubleImpl(p, computeT, affineZ)
    BY Zenon DEF Ends!DoubleImpl, DoubleImpl, Ends!Negated, Negated, Ends!Difference, Difference,
                 Ends!Square, Square, Ends!Product, Product, Ends!Sum, Sum
  <2> QED BY <2>1, Zenon DEF Ends!DoubleWithoutT, DoubleWithoutT
<1>2. \A p : Ends!IsSmallOrderPoint(p) <=> IsSmallOrderPoint(p)
  BY <1>1, Zenon DEF Ends!IsSmallOrderPoint, IsSmallOrderPoint
<1>3. \A p : Ends!Affine(p) = Affine(p)
  BY DEF Ends!Affine, Affine, Ends!Inverted, Inverted, Ends!Power, Power, Ends!Square, Square,
         Ends!Product, Product
<1>4. Ends!CurvePoints = CurvePoints
  BY DEF Ends!CurvePoints, CurvePoints, Ends!OnCurve, OnCurve, Ends!Field, Field,
         Ends!Difference, Difference, Ends!Square, Square, Ends!Product, Product, Ends!Sum, Sum
<1>5. \A p : Ends!MultiplesOf(p) = MultiplesOf(p)
  BY DEF Ends!MultiplesOf, MultiplesOf, Ends!Neutral, Neutral, Ends!Plus, Plus,
         Ends!Inverted, Inverted, Ends!Power, Power,
         Ends!Difference, Difference, Ends!Square, Square, Ends!Product, Product, Ends!Sum, Sum
<1>6. \A p : Ends!Generates(p) <=> Generates(p)
  <2>1. \A S : Ends!Cardinality(S) = Cardinality(S)
    BY DEF Ends!Cardinality, Cardinality
  <2> QED BY <1>5, <2>1 DEF Ends!Generates, Generates
<1>7. Ends!Generated = Generated
  <2>1. (CHOOSE p \in Ends!CurvePoints : Ends!Generates(p)) = (CHOOSE p \in CurvePoints : Generates(p))
    BY <1>4, <1>6
  <2> QED BY <1>5, <2>1 DEF Ends!Generated, Generated
<1>8. \A p : Ends!ResidueOf(p) = ResidueOf(p)
  BY <1>7 DEF Ends!ResidueOf, ResidueOf
<1> QED BY <1>2, <1>3, <1>8

\* Coordinates with a Z are at their affine point.
LEMMA AtAffine == ASSUME NEW p \in Results PROVE Affine(p) \in AffinePoints /\ IsAt(p, Affine(p))
<1> DEFINE z == p.z
           v == Inverted(z)
<1>1. p \in Coordinates /\ z \in Units /\ z \in Field /\ z \in Int
  BY ResultsHaveUnits, FieldNumbers DEF Results, Units
<1>2. ~Congruent(z, 0)
  BY <1>1, FieldConstants, CongruentInField DEF Units
<1>3. ASSUME NEW a \in Field PROVE Product(a, v) \in Field /\ Congruent(a, Product(a, v) * z)
  <2>1. a \in Int /\ Congruent(a, a) /\ Congruent(z, z)
    BY FieldNumbers DEF Congruent
  <2> HIDE DEF z
  <2>2. Product(a, v) \in Field /\ Congruent(Product(a, v) * z, a)
    BY <1>1, <1>2, <2>1, QuotientIs
  <2> DEFINE b == Product(a, v)
  <2>3. b \in Int
    BY <2>2, FieldNumbers
  <2> HIDE DEF b, v
  <2>4. b * z \in Int
    BY <1>1, <2>3
  <2>5. Congruent(b * z, a)
    BY <2>2 DEF b
  <2>6. Congruent(a, b * z)
    BY <2>1, <2>4, <2>5, CongruentEquivalence
  <2> QED BY <2>2, <2>6 DEF b
<1>4. p.x \in Field /\ p.y \in Field
  BY <1>1 DEF Coordinates
<1>5. Affine(p) = [x |-> Product(p.x, v), y |-> Product(p.y, v)]
  BY DEF Affine
<1> HIDE DEF v, z
<1>6. Affine(p) \in AffinePoints
  BY <1>3, <1>4, <1>5 DEF AffinePoints
<1>7. Affine(p).x = Product(p.x, v) /\ Affine(p).y = Product(p.y, v)
  BY <1>5
<1>8. Congruent(p.x, Affine(p).x * z) /\ Congruent(p.y, Affine(p).y * z)
  BY <1>3, <1>4, <1>7
<1> QED BY <1>1, <1>6, <1>8 DEF IsAt, z

LEMMA EightTimes == ASSUME NEW n \in Int PROVE (8 * n) % (8 * L) = 0 <=> n % L = 0
<1>1. 8 * L \in Nat \ {0} /\ L \in Nat \ {0} /\ L \in Int
  BY PeriodIs
<1>2. 8 * n \in Int
  OBVIOUS
<1>3. (8 * n) % (8 * L) = 0 <=> \E k \in Int : 8 * n = k * (8 * L)
  <2> DEFINE a == 8 * n
             m == 8 * L
  <2> HIDE DEF a, m
  <2>1. a % m = 0 <=> \E k \in Int : a = k * m
    BY <1>1, <1>2, ZeroModulo DEF a, m
  <2> QED BY <2>1 DEF a, m
<1>4. n % L = 0 <=> \E k \in Int : n = k * L
  BY <1>1, ZeroModulo
<1>5. ASSUME NEW k \in Int PROVE 8 * n = k * (8 * L) <=> n = k * L
  <2> DEFINE kL == k * L
  <2>1. kL \in Int /\ k * (8 * L) = 8 * kL
    BY <1>1
  <2> HIDE DEF kL
  <2>2. 8 * n = 8 * kL <=> n = kL
    BY <2>1
  <2> QED BY <2>1, <2>2 DEF kL
<1> QED BY <1>3, <1>4, <1>5

LEMMA OrderIs == ASSUME NEW p \in PointResults PROVE IsSmallOrderPoint(p) <=> ResidueOf(Affine(p)) % L = 0
<1> DEFINE c == Affine(p)
           n == ResidueOf(c)
<1>1. p \in Results /\ p \in Coordinates /\ c \in CurvePoints
  BY DEF PointResults, Results
<1>2. IsAt(p, c)
  BY <1>1, AtAffine
<1> HIDE DEF c
<1>3. n \in 0..(8 * L - 1) /\ PointAt(n) = c
  BY <1>1, ResidueIs
<1> HIDE DEF n
<1>4. n \in Int /\ IsAt(p, PointAt(n))
  BY <1>2, <1>3
<1>5. IsSmallOrderPoint(p) <=> (8 * n) % (8 * L) = 0
  BY <1>1, <1>4, SmallOrderIs
<1> QED BY <1>4, <1>5, EightTimes DEF c, n

\* Each verdict so far is that of its own candidate.
OrdersInv ==
    /\ phase \in {"queue", "up", "down", "done"}
    /\ candidates \in Seq(PointResults)
    /\ phase # "queue" => candidates # << >>
    /\ phase \in {"up", "down", "done"} => DOMAIN smallOrder = 1..Len(candidates)
    /\ phase = "down" => left \in 1..Len(candidates)
    /\ phase = "done" => left = 0
    /\ phase \in {"down", "done"} =>
          \A i \in (left + 1)..Len(candidates) : smallOrder[i] = IsSmallOrderPoint(candidates[i])

LEMMA CompressTells ==
    ASSUME OrdersInv, phase = "down", NEW zinv, Ends!Compress(left, zinv), candidates' = candidates
    PROVE  /\ left' = left - 1 /\ DOMAIN smallOrder' = 1..Len(candidates)
           /\ \A i \in (left' + 1)..Len(candidates) : smallOrder'[i] = IsSmallOrderPoint(candidates[i])
<1> DEFINE verdict(i) == IsSmallOrderPoint(candidates[i])
<1>1. smallOrder' = [smallOrder EXCEPT ![left] = verdict(left)] /\ left' = left - 1
  <2>1. Ends!IsSmallOrderPoint(candidates[left]) = IsSmallOrderPoint(candidates[left])
    <3>1. Ends!IsSmallOrderPoint(candidates[left]) <=> IsSmallOrderPoint(candidates[left])
      BY SameCurve
    <3> QED BY <3>1 DEF Ends!IsSmallOrderPoint, IsSmallOrderPoint
  <2> QED BY <2>1 DEF Ends!Compress
<1>2. Len(candidates) \in Nat /\ left \in 1..Len(candidates) /\ DOMAIN smallOrder = 1..Len(candidates)
  BY LenProperties DEF OrdersInv
<1>3. \A i \in (left + 1)..Len(candidates) : smallOrder[i] = verdict(i)
  BY DEF OrdersInv
<1> HIDE DEF verdict
<1>4. ASSUME NEW i \in left..Len(candidates) PROVE smallOrder'[i] = verdict(i)
  <2>1. CASE i = left
    BY <1>1, <1>2, <2>1
  <2>2. CASE i \in (left + 1)..Len(candidates)
    BY <1>1, <1>2, <1>3, <2>2
  <2> QED BY <1>2, <2>1, <2>2
<1>5. left' + 1 = left
  BY <1>1, <1>2
<1> QED BY <1>1, <1>2, <1>4, <1>5 DEF verdict

LEMMA OrdersBegin == Ends!Init => OrdersInv
BY EmptySeq DEF Ends!Init, OrdersInv

LEMMA OrdersKept == ASSUME OrdersInv, [Ends!Next]_(Ends!vars) PROVE OrdersInv'
<1>1. ASSUME NEW p \in PointResults, Ends!Queue(p) PROVE OrdersInv'
  <2>1. candidates' \in Seq(PointResults)
    BY <1>1, AppendProperties DEF OrdersInv, Ends!Queue
  <2> QED BY <1>1, <2>1 DEF OrdersInv, Ends!Queue
<1>2. CASE Ends!Begin
  <2>1. candidates \in Seq(PointResults) /\ candidates # << >>
    BY <1>2 DEF OrdersInv, Ends!Begin
  <2>2. DOMAIN candidates = 1..Len(candidates)
    BY <2>1, LenProperties
  <2>3. DOMAIN smallOrder' = 1..Len(candidates)
    BY <1>2, <2>2 DEF Ends!Begin
  <2> QED BY <1>2, <2>1, <2>3 DEF Ends!Begin, OrdersInv
<1>3. CASE Ends!Multiply
  BY <1>3 DEF OrdersInv, Ends!Multiply
<1>4. CASE Ends!Invert
  <2> DEFINE n == Len(candidates)
  <2>1. n \in Nat /\ n # 0
    BY <1>4, LenProperties, EmptySeq DEF OrdersInv, Ends!Invert
  <2>2. left' = n /\ n \in 1..n /\ (n + 1)..n = {}
    BY <1>4, <2>1 DEF Ends!Invert
  <2> QED BY <1>4, <2>2 DEF Ends!Invert, OrdersInv
<1>5. CASE Ends!WalkDown
  <2>1. /\ phase = "down" /\ phase' = "down" /\ candidates' = candidates /\ left > 1
        /\ \E zinv : Ends!Compress(left, zinv)
    BY <1>5 DEF Ends!WalkDown
  <2>2. /\ left' = left - 1 /\ DOMAIN smallOrder' = 1..Len(candidates)
        /\ \A i \in (left' + 1)..Len(candidates) : smallOrder'[i] = IsSmallOrderPoint(candidates[i])
    BY <2>1, CompressTells
  <2>3. left' \in 1..Len(candidates)
    BY <2>1, <2>2, LenProperties DEF OrdersInv
  <2> QED BY <2>1, <2>2, <2>3 DEF OrdersInv
<1>6. CASE Ends!Finish
  <2>1. /\ phase = "down" /\ phase' = "done" /\ candidates' = candidates /\ left = 1
        /\ \E zinv : Ends!Compress(left, zinv)
    BY <1>6 DEF Ends!Finish
  <2>2. /\ left' = 0 /\ DOMAIN smallOrder' = 1..Len(candidates)
        /\ \A i \in (left' + 1)..Len(candidates) : smallOrder'[i] = IsSmallOrderPoint(candidates[i])
    BY <2>1, CompressTells
  <2> QED BY <2>1, <2>2 DEF OrdersInv
<1>7. CASE Ends!Clear
  BY <1>7, EmptySeq DEF Ends!Clear, OrdersInv
<1>8. CASE UNCHANGED Ends!vars
  BY <1>8 DEF Ends!vars, OrdersInv
<1> QED BY <1>1, <1>2, <1>3, <1>4, <1>5, <1>6, <1>7, <1>8 DEF Ends!Next

\* For every field, curve and queue of ends of ladders: the verdict on the order of
\* each is that of its own point, eight times which is neutral if its residue is a
\* multiple of L.
THEOREM OrdersAreTheirOwn == Ends!Spec => []Ends!OrdersExact
<1>1. OrdersInv => Ends!OrdersExact
  <2>1. ASSUME OrdersInv, phase \in {"down", "done"}, NEW i \in (left + 1)..Len(candidates)
        PROVE  smallOrder[i] <=> Ends!ResidueOf(Ends!Affine(candidates[i])) % L = 0
    <3>1. i \in 1..Len(candidates) /\ candidates \in Seq(PointResults)
      BY <2>1, LenProperties DEF OrdersInv
    <3>2. candidates[i] \in PointResults
      BY <3>1, ElementOfSeq
    <3>3. smallOrder[i] = IsSmallOrderPoint(candidates[i])
      BY <2>1 DEF OrdersInv
    <3>4. Ends!ResidueOf(Ends!Affine(candidates[i])) = ResidueOf(Affine(candidates[i]))
      BY SameCurve
    <3> QED BY <3>2, <3>3, <3>4, OrderIs
  <2> QED BY <2>1 DEF Ends!OrdersExact
<1> QED BY OrdersBegin, OrdersKept, <1>1, PTL DEF Ends!Spec

-----------------------------------------------------------------------------
(***************************************************************************)
(* The table of the base point, of any point of the curve                  *)
(***************************************************************************)
CONSTANT BASEPOINT_TABLE_SIZE

VARIABLES basepoint, points, inverseZ, entries

Base == INSTANCE BasepointTable WITH BasePoints <- CurvePoints

LEMMA SameAdditions ==
    /\ \A p, q, affineRhs : Base!AddImpl(p, q, affineRhs) = AddImpl(p, q, affineRhs)
    /\ \A p, computeT, affineZ : Base!DoubleImpl(p, computeT, affineZ) = DoubleImpl(p, computeT, affineZ)
<1>1. \A p, q, affineRhs : Base!AddImpl(p, q, affineRhs) = AddImpl(p, q, affineRhs)
  <2> TAKE p, q, affineRhs
  <2> DEFINE a == Product(Difference(p.y, p.x), Difference(q.y, q.x))
             b == Product(Sum(p.y, p.x), Sum(q.y, q.x))
             c == Product(Product(p.t, q.t), TwoD)
             d == IF affineRhs THEN Sum(p.z, p.z) ELSE Product(2, Product(p.z, q.z))
             A == Base!Product(Base!Difference(p.y, p.x), Base!Difference(q.y, q.x))
             B == Base!Product(Base!Sum(p.y, p.x), Base!Sum(q.y, q.x))
             C == Base!Product(Base!Product(p.t, q.t), Base!TwoD)
             D == IF affineRhs THEN Base!Sum(p.z, p.z) ELSE Base!Product(2, Base!Product(p.z, q.z))
  <2>1. A = a /\ B = b
    BY Zenon DEF Base!Difference, Difference, Base!Product, Product, Base!Sum, Sum
  <2>2. C = c /\ D = d
    BY Zenon DEF Base!TwoD, TwoD, Base!Product, Product, Base!Sum, Sum
  <2> DEFINE e == Difference(b, a)
             f == Difference(d, c)
             g == Sum(d, c)
             h == Sum(b, a)
             E == Base!Difference(B, A)
             F == Base!Difference(D, C)
             G == Base!Sum(D, C)
             H == Base!Sum(B, A)
  <2>3. E = e /\ F = f /\ G = g /\ H = h
    <3> HIDE DEF a, b, c, d, A, B, C, D
    <3> QED BY <2>1, <2>2, Zenon DEF Base!Difference, Difference, Base!Sum, Sum
  <2>4. AddImpl(p, q, affineRhs) = [x |-> Product(e, f), y |-> Product(g, h), z |-> Product(f, g),
                                    t |-> Product(e, h)]
    BY Zenon DEF AddImpl
  <2>5. Base!AddImpl(p, q, affineRhs) = [x |-> Base!Product(E, F), y |-> Base!Product(G, H),
                                         z |-> Base!Product(F, G), t |-> Base!Product(E, H)]
    BY Zenon DEF Base!AddImpl
  <2> HIDE DEF e, f, g, h, E, F, G, H
  <2> QED BY <2>3, <2>4, <2>5, Zenon DEF Base!Product, Product
<1>2. \A p, computeT, affineZ : Base!DoubleImpl(p, computeT, affineZ) = DoubleImpl(p, computeT, affineZ)
  BY Zenon DEF Base!DoubleImpl, DoubleImpl, Base!Negated, Negated, Base!Difference, Difference,
               Base!Square, Square, Base!Product, Product, Base!Sum, Sum
<1> QED BY <1>1, <1>2

\* Its first block is what for_each_table_multiple computes for a key.
LEMMA SameBlock ==
    /\ \A p, q : Base!Add(p, q) = Add(p, q)
    /\ \A b : Base!FirstBlock(b) = TableMultiple(b)
<1>1. \A p, q : Base!Add(p, q) = Add(p, q) /\ Base!AddAffineRhs(p, q) = AddAffineRhs(p, q)
  BY SameAdditions DEF Base!Add, Add, Base!AddAffineRhs, AddAffineRhs
<1>2. \A p : Base!Double(p) = Double(p) /\ Base!DoubleFromAffine(p) = DoubleFromAffine(p)
  BY SameAdditions DEF Base!Double, Double, Base!DoubleFromAffine, DoubleFromAffine
<1>3. ASSUME NEW b PROVE Base!FirstBlock(b) = TableMultiple(b)
  BY <1>1, <1>2 DEF Base!FirstBlock, TableMultiple
<1> QED BY <1>1, <1>3

LEMMA SameOperations ==
    /\ \A a, b : Base!Product(a, b) = Product(a, b)
    /\ \A a, b : Base!Sum(a, b) = Sum(a, b)
    /\ \A a, b : Base!Difference(a, b) = Difference(a, b)
    /\ \A a : Base!Negated(a) = Negated(a)
    /\ \A a : Base!Inverted(a) = Inverted(a)
    /\ Base!TwoD = TwoD
<1>1. \A a, b : Base!Product(a, b) = Product(a, b)
  BY DEF Base!Product, Product
<1>2. \A a, b : Base!Sum(a, b) = Sum(a, b)
  BY DEF Base!Sum, Sum
<1>3. \A a, b : Base!Difference(a, b) = Difference(a, b)
  BY DEF Base!Difference, Difference
<1>4. \A a : Base!Negated(a) = Negated(a)
  BY <1>3 DEF Base!Negated, Negated
<1>5. \A a : Base!Inverted(a) = Inverted(a)
  BY DEF Base!Inverted, Inverted, Base!Power, Power, Base!Square, Square, Base!Product, Product
<1>6. Base!TwoD = TwoD
  BY <1>2 DEF Base!TwoD, TwoD
<1> QED BY <1>1, <1>2, <1>3, <1>4, <1>5, <1>6

\* The residue of the point whose multiples the table holds
Held == ResidueOf(Affine(basepoint))

LEMMA SameMultiples == \A n : Base!Multiple(n) = PointAt(n * Held)
<1>1. \A p : Base!Affine(p) = Affine(p)
  BY SameOperations DEF Base!Affine, Affine
<1>2. Base!CurvePoints = CurvePoints
  BY DEF Base!CurvePoints, CurvePoints, Base!OnCurve, OnCurve, Base!Field, Field,
         Base!Difference, Difference, Base!Square, Square, Base!Product, Product, Base!Sum, Sum
<1>3. \A p : Base!MultiplesOf(p) = MultiplesOf(p)
  BY DEF Base!MultiplesOf, MultiplesOf, Base!Neutral, Neutral, Base!Plus, Plus,
         Base!Inverted, Inverted, Base!Power, Power,
         Base!Difference, Difference, Base!Square, Square, Base!Product, Product, Base!Sum, Sum
<1>4. \A p : Base!Generates(p) <=> Generates(p)
  <2>1. \A S : Base!Cardinality(S) = Cardinality(S)
    BY DEF Base!Cardinality, Cardinality
  <2> QED BY <1>3, <2>1 DEF Base!Generates, Generates
<1>5. Base!Generated = Generated
  <2>1. (CHOOSE p \in Base!CurvePoints : Base!Generates(p)) = (CHOOSE p \in CurvePoints : Generates(p))
    BY <1>2, <1>4
  <2> QED BY <1>3, <2>1 DEF Base!Generated, Generated
<1>6. \A p : Base!ResidueOf(p) = ResidueOf(p)
  BY <1>5 DEF Base!ResidueOf, ResidueOf
<1>7. Base!ResidueOf(Base!Affine(basepoint)) = Held
  BY <1>1, <1>6 DEF Held
<1> QED BY <1>5, <1>7 DEF Base!Multiple, Base!PointAt, PointAt

\* What the affine table holds of a point, and of its opposite
AffineEntry(p) == [yPlusX |-> Sum(p.y, p.x), yMinusX |-> Difference(p.y, p.x),
                   t2d |-> Product(Product(p.x, p.y), TwoD)]

LEMMA OppositeAffineEntry ==
    ASSUME NEW n \in Int
    PROVE  LET p == PointAt(n)
           IN  AffineEntry(PointAt(-n)) = [yPlusX |-> Difference(p.y, p.x), yMinusX |-> Sum(p.y, p.x),
                                           t2d |-> Negated(Product(Product(p.x, p.y), TwoD))]
<1> DEFINE p == PointAt(n)
           q == PointAt(-n)
           xy == Product(p.x, p.y)
<1>1. p.x \in Field /\ p.y \in Field /\ q.x = Negated(p.x) /\ q.y = p.y
  <2>1. p \in AffinePoints
    BY PointsInField
  <2>2. q = [x |-> Negated(p.x), y |-> p.y]
    BY OppositeIs
  <2> HIDE DEF p, q
  <2> QED BY <2>1, <2>2 DEF AffinePoints
<1> HIDE DEF p, q
<1>2. Sum(p.y, Negated(p.x)) = Difference(p.y, p.x) /\ Difference(p.y, Negated(p.x)) = Sum(p.y, p.x)
  BY <1>1, OppositeOperand
<1>3. xy \in Field /\ TwoD \in Field
  BY <1>1, FieldOps, FieldConstants
<1>4. Product(Negated(p.x), p.y) = Negated(xy)
  BY <1>1, OppositeOperand
<1> HIDE DEF xy
<1>5. Product(Negated(xy), TwoD) = Negated(Product(xy, TwoD))
  BY <1>3, OppositeOperand
<1>6. AffineEntry(q) = [yPlusX |-> Difference(p.y, p.x), yMinusX |-> Sum(p.y, p.x),
                        t2d |-> Negated(Product(xy, TwoD))]
  BY <1>1, <1>2, <1>4, <1>5 DEF AffineEntry
<1> QED BY <1>6 DEF p, q, xy

LEMMA NeutralAffineEntry == AffineEntry(PointAt(0)) = [yPlusX |-> 1, yMinusX |-> 1, t2d |-> 0]
<1>1. Sum(1, 0) = 1 /\ Difference(1, 0) = 1
  <2>1. 1 % FIELD_P = 1 /\ 1 + 0 = 1 /\ 1 - 0 = 1
    BY FieldConstants, FieldIsResidues
  <2> QED BY <2>1, Zenon DEF Sum, Difference
<1>2. Product(Product(0, 1), TwoD) = 0
  BY ProductOfConstants, FieldConstants
<1>3. PointAt(0).x = 0 /\ PointAt(0).y = 1
  BY PointZero DEF Neutral
<1> QED BY <1>1, <1>2, <1>3 DEF AffineEntry

\* How multiple n is found in the blocks
LEMMA SlotIs ==
    ASSUME NEW n \in 1..BASEPOINT_TABLE_SIZE, BASEPOINT_TABLE_SIZE \in Nat, BASEPOINT_TABLE_SIZE % 8 = 0
    PROVE  LET block == ((n - 1) \div 8) + 1
               lane  == ((n - 1) % 8) + 1
           IN  /\ block \in 1..(BASEPOINT_TABLE_SIZE \div 8) /\ lane \in 1..8
               /\ n = (8 * (block - 1)) + lane
BY SMT

Blocks == BASEPOINT_TABLE_SIZE \div 8

Zs == [1..8 -> Field]

TableSizeAllowed == BASEPOINT_TABLE_SIZE \in Nat \ {0} /\ BASEPOINT_TABLE_SIZE % 8 = 0

\* Each block holds the next eight multiples.
IsBlock(block, i) == \A lane \in 1..8 : IsMultiple(block[lane], Held, (8 * (i - 1)) + lane)

BlocksInv ==
    /\ Held \in Int /\ IsMultiple(basepoint, Held, 1) /\ basepoint.z = 1
    /\ points \in Seq([1..8 -> Coordinates]) /\ Len(points) <= Blocks
    /\ \A i \in 1..Len(points) : IsBlock(points[i], i)

\* What inverseZ holds of a block: the product of the Z up to it, then the reciprocal
IsProduct(i) ==
    \A lane \in 1..8 :
        /\ inverseZ[i][lane] \in Units
        /\ inverseZ[i][lane] = IF i = 1 THEN points[1][lane].z
                               ELSE Product(inverseZ[i - 1][lane], points[i][lane].z)

IsReciprocal(i) == \A lane \in 1..8 : inverseZ[i][lane] = Inverted(points[i][lane].z)

ProductsInv ==
    /\ phase \in {"blocks", "down", "entries", "done"}
    /\ inverseZ \in Seq(Zs) /\ Len(inverseZ) <= Blocks
    /\ phase # "blocks" \/ Len(inverseZ) # 0 => Len(points) = Blocks
    /\ phase # "blocks" => Len(inverseZ) = Blocks
    /\ phase = "blocks" => \A i \in 1..Len(inverseZ) : IsProduct(i)
    /\ phase = "down" => /\ left \in 1..Blocks /\ accumulator \in Zs
                         /\ \A lane \in 1..8 : Product(inverseZ[left][lane], accumulator[lane]) = 1
                         /\ \A i \in 1..left : IsProduct(i)
                         /\ \A i \in (left + 1)..Blocks : IsReciprocal(i)
    /\ phase \in {"entries", "done"} => \A i \in 1..Blocks : IsReciprocal(i)

FilledInv ==
    phase = "done" => \A d \in (-BASEPOINT_TABLE_SIZE)..BASEPOINT_TABLE_SIZE :
                         entries[d] = AffineEntry(PointAt(d * Held))

BaseInv == BlocksInv /\ ProductsInv /\ FilledInv

LEMMA BlocksNatural == ASSUME TableSizeAllowed PROVE Blocks \in Nat \ {0} /\ Base!BLOCKS = Blocks
<1>1. ASSUME NEW s \in Nat \ {0}, s % 8 = 0 PROVE s \div 8 \in Nat \ {0}
  <2> DEFINE q == s \div 8
  <2>1. q \in Int /\ s = (8 * q) + (s % 8)
    BY SMT
  <2> HIDE DEF q
  <2>2. q \in Nat \ {0}
    BY <1>1, <2>1
  <2> QED BY <2>2 DEF q
<1> QED BY <1>1 DEF TableSizeAllowed, Blocks, Base!BLOCKS, Base!LANES

LEMMA MultiplesHaveUnits ==
    ASSUME NEW q, NEW n, NEW i, IsMultiple(q, n, i)
    PROVE  q \in Coordinates /\ q.z \in Units /\ q.z \in Field
BY DEF IsMultiple, IsAt, Units

\* The base point, extended
LEMMA BaseBegins == ASSUME TableSizeAllowed, Base!Init PROVE BaseInv
<1>1. PICK p \in CurvePoints : basepoint = [x |-> p.x, y |-> p.y, z |-> 1, t |-> Product(p.x, p.y)]
  BY SameOperations DEF Base!Init
<1>2. p \in AffinePoints /\ p.x \in Field /\ p.y \in Field
  BY DEF CurvePoints, AffinePoints
<1>3. basepoint \in Coordinates /\ basepoint.z = 1 /\ basepoint.x = p.x /\ basepoint.y = p.y
  BY <1>1, <1>2, FieldOps, FieldConstants DEF Coordinates
<1>4. HasT(basepoint)
  <2>1. Product(basepoint.t, 1) = basepoint.t /\ basepoint.t = Product(p.x, p.y)
    BY <1>1, <1>2, FieldOps, ProductOfConstants
  <2> QED BY <1>3, <2>1 DEF HasT
<1>5. IsAt(basepoint, p)
  <2>1. 1 \in Units
    BY FieldConstants DEF Units
  <2>2. p.x * 1 = p.x /\ p.y * 1 = p.y
    <3>1. ASSUME NEW a \in Field PROVE a * 1 = a
      BY FieldNumbers
    <3> QED BY <1>2, <3>1
  <2> QED BY <1>3, <2>1, <2>2, CongruentEquivalence DEF IsAt
<1>6. Affine(basepoint) = p
  BY <1>2, <1>3, <1>5, AffineIs
<1>7. Held \in Int /\ PointAt(Held) = p
  <2>1. Held \in 0..(8 * L - 1) /\ PointAt(Held) = p
    BY <1>6, ResidueIs DEF Held
  <2> QED BY <2>1
<1>8. 1 * Held = Held
  BY <1>7
<1>9. IsMultiple(basepoint, Held, 1)
  BY <1>3, <1>4, <1>5, <1>7, <1>8 DEF IsMultiple
<1>10. /\ points = << >> /\ inverseZ = << >> /\ phase = "blocks"
  BY DEF Base!Init
<1>11. BlocksInv
  <2>1. points \in Seq([1..8 -> Coordinates]) /\ Len(points) = 0 /\ 0 <= Blocks /\ 1..0 = {}
    BY <1>10, EmptySeq, BlocksNatural
  <2> QED BY <1>3, <1>7, <1>9, <2>1 DEF BlocksInv
<1>12. ProductsInv
  <2>1. inverseZ \in Seq(Zs) /\ Len(inverseZ) = 0 /\ 0 <= Blocks /\ 1..0 = {}
    BY <1>10, EmptySeq, BlocksNatural
  <2> QED BY <1>10, <2>1 DEF ProductsInv
<1> QED BY <1>10, <1>11, <1>12 DEF BaseInv, FilledInv

\* The next block: the first one, or the one before plus [8]B
LEMMA NextBlockIs ==
    ASSUME BlocksInv, NEW block,
           block = IF points = << >> THEN TableMultiple(basepoint)
                   ELSE [lane \in 1..8 |-> Add(points[Len(points)][lane], TableMultiple(basepoint)[8])]
    PROVE  block \in [1..8 -> Coordinates] /\ IsBlock(block, Len(points) + 1)
<1> DEFINE n == Len(points)
           eight == TableMultiple(basepoint)[8]
<1>1. /\ points \in Seq([1..8 -> Coordinates]) /\ n \in Nat
      /\ Held \in Int /\ IsMultiple(basepoint, Held, 1) /\ basepoint.z = 1
  BY LenProperties DEF BlocksInv
<1>2. ASSUME NEW lane \in 1..8 PROVE IsMultiple(TableMultiple(basepoint)[lane], Held, lane)
  <2>1. 1 * Held = Held
    BY <1>1
  <2>2. basepoint \in Coordinates /\ HasT(basepoint) /\ IsAt(basepoint, PointAt(Held))
    BY <1>1, <2>1 DEF IsMultiple
  <2> QED BY <1>1, <2>2, MultiplesAt
<1>3. CASE points = << >>
  <2>1. n = 0
    BY <1>3, EmptySeq
  <2>2. ASSUME NEW lane \in 1..8 PROVE (8 * ((n + 1) - 1)) + lane = lane
    BY <2>1
  <2>3. block = TableMultiple(basepoint)
    BY <1>3
  <2>4. IsBlock(block, n + 1)
    BY <1>2, <2>2, <2>3 DEF IsBlock
  <2>5. DOMAIN TableMultiple(basepoint) = 1..8 /\ TableMultiple(basepoint) = [lane \in 1..8 |-> TableMultiple(basepoint)[lane]]
    <3>1. ASSUME NEW a, NEW b, NEW c, NEW d, NEW e, NEW f, NEW g, NEW h
          PROVE  /\ DOMAIN <<a, b, c, d, e, f, g, h>> = 1..8
                 /\ <<a, b, c, d, e, f, g, h>> = [lane \in 1..8 |-> <<a, b, c, d, e, f, g, h>>[lane]]
      OBVIOUS
    <3> QED BY <3>1, Zenon DEF TableMultiple
  <2>6. \A lane \in 1..8 : TableMultiple(basepoint)[lane] \in Coordinates
    BY <1>2 DEF IsMultiple
  <2> QED BY <2>3, <2>4, <2>5, <2>6
<1>4. CASE points # << >>
  <2>1. n \in 1..n /\ n # 0
    BY <1>1, <1>4, EmptySeq
  <2>2. IsBlock(points[n], n)
    BY <2>1 DEF BlocksInv
  <2>3. IsMultiple(eight, Held, 8)
    BY <1>2
  <2> HIDE DEF eight
  <2>4. ASSUME NEW lane \in 1..8
        PROVE  IsMultiple(Add(points[n][lane], eight), Held, (8 * ((n + 1) - 1)) + lane)
    <3> DEFINE i == (8 * (n - 1)) + lane
               k == (8 * ((n + 1) - 1)) + lane
    <3>1. i \in Int /\ k \in Int /\ 8 \in Int /\ k = i + 8
      BY <1>1
    <3>2. IsMultiple(points[n][lane], Held, i)
      BY <2>2 DEF IsBlock
    <3> HIDE DEF i, k, n
    <3>3. IsMultiple(Add(points[n][lane], eight), Held, k)
      BY <1>1, <2>3, <3>1, <3>2, MultiplesAdd
    <3> QED BY <3>3 DEF k
  <2>5. block = [lane \in 1..8 |-> Add(points[n][lane], eight)]
    BY <1>4 DEF eight
  <2> HIDE DEF n
  <2>6. IsBlock(block, n + 1)
    BY <2>4, <2>5 DEF IsBlock
  <2>7. \A lane \in 1..8 : Add(points[n][lane], eight) \in Coordinates
    BY <2>4 DEF IsMultiple
  <2> QED BY <2>5, <2>6, <2>7 DEF n
<1> QED BY <1>3, <1>4

LEMMA HeldStays == ASSUME basepoint' = basepoint PROVE Held' = Held
BY DEF Held

LEMMA AddBlockKeeps == ASSUME TableSizeAllowed, BaseInv, Base!AddBlock PROVE BaseInv'
<1> DEFINE n == Len(points)
           block == IF points = << >> THEN TableMultiple(basepoint)
                    ELSE [lane \in 1..8 |-> Add(points[n][lane], TableMultiple(basepoint)[8])]
<1>1. /\ phase = "blocks" /\ n < Blocks /\ Blocks \in Nat /\ n \in Nat
      /\ points \in Seq([1..8 -> Coordinates])
      /\ basepoint' = basepoint /\ inverseZ' = inverseZ /\ phase' = phase
  BY BlocksNatural, LenProperties DEF Base!AddBlock, BaseInv, BlocksInv
<1>2. points' = Append(points, block)
  BY SameBlock DEF Base!AddBlock, Base!LANES
<1>3. block \in [1..8 -> Coordinates] /\ IsBlock(block, n + 1)
  <2> DEFINE b == block
  <2>1. b = block
    OBVIOUS
  <2> HIDE DEF b
  <2>2. b \in [1..8 -> Coordinates] /\ IsBlock(b, Len(points) + 1)
    BY <2>1, NextBlockIs DEF BaseInv
  <2> QED BY <2>1, <2>2
<1> HIDE DEF block
<1>4. /\ points' \in Seq([1..8 -> Coordinates]) /\ Len(points') = n + 1 /\ points'[n + 1] = block
      /\ \A i \in 1..n : points'[i] = points[i]
  BY <1>1, <1>2, <1>3, AppendProperties
<1>5. ASSUME NEW i \in 1..(n + 1) PROVE IsBlock(points'[i], i)
  <2>1. CASE i = n + 1
    BY <1>3, <1>4, <2>1
  <2>2. CASE i \in 1..n
    <3>1. IsBlock(points[i], i) /\ points'[i] = points[i]
      BY <1>4, <2>2 DEF BaseInv, BlocksInv
    <3> QED BY <3>1
  <2> QED BY <1>1, <2>1, <2>2
<1>6. Held' = Held
  BY <1>1, HeldStays
<1>7. BlocksInv'
  <2>1. \A i \in 1..Len(points') : IsBlock(points'[i], i)
    BY <1>4, <1>5
  <2>2. (\A i \in 1..Len(points) : IsBlock(points[i], i))'
    BY <1>6, <2>1 DEF IsBlock
  <2>3. Len(points') <= Blocks
    BY <1>1, <1>4
  <2> HIDE DEF n
  <2> QED BY <1>1, <1>4, <1>6, <2>2, <2>3 DEF BaseInv, BlocksInv, Blocks
<1>8. Len(inverseZ) = 0
  BY <1>1 DEF BaseInv, ProductsInv
<1>9. ProductsInv'
  <2>1. 1..0 = {}
    OBVIOUS
  <2> QED BY <1>1, <1>8, <2>1 DEF BaseInv, ProductsInv
<1> QED BY <1>1, <1>7, <1>9 DEF BaseInv, FilledInv

\* What the steps after the blocks leave alone
LEMMA BlocksStay ==
    ASSUME BlocksInv, basepoint' = basepoint, points' = points
    PROVE  BlocksInv'
<1>1. Held' = Held
  BY HeldStays
<1> QED BY <1>1 DEF BlocksInv, IsBlock

LEMMA ZsOf ==
    ASSUME BlocksInv, Len(points) = Blocks, NEW i \in 1..Blocks, NEW lane \in 1..8
    PROVE  points[i][lane].z \in Units /\ points[i][lane].z \in Field
<1>1. IsMultiple(points[i][lane], Held, (8 * (i - 1)) + lane)
  BY DEF BlocksInv, IsBlock
<1> QED BY <1>1, MultiplesHaveUnits

LEMMA MultiplyUpKeeps == ASSUME TableSizeAllowed, BaseInv, Base!MultiplyUp PROVE BaseInv'
<1> DEFINE n == Len(inverseZ)
           i == n + 1
           product == [lane \in 1..8 |-> IF i = 1 THEN points[1][lane].z
                                         ELSE Product(inverseZ[i - 1][lane], points[i][lane].z)]
<1>1. /\ phase = "blocks" /\ n < Blocks /\ Blocks \in Nat /\ n \in Nat /\ Len(points) = Blocks
      /\ inverseZ \in Seq(Zs)
      /\ basepoint' = basepoint /\ points' = points /\ phase' = phase
  BY BlocksNatural, LenProperties DEF Base!MultiplyUp, BaseInv, ProductsInv
<1>2. inverseZ' = Append(inverseZ, product)
  BY SameOperations DEF Base!MultiplyUp, Base!LANES
<1>3. ASSUME NEW lane \in 1..8 PROVE product[lane] \in Units
  <2>1. points[i][lane].z \in Units
    BY <1>1, ZsOf DEF BaseInv
  <2>2. CASE i = 1
    BY <2>1, <2>2
  <2>3. CASE i # 1
    <3>1. IsProduct(n)
      BY <1>1, <2>3 DEF BaseInv, ProductsInv
    <3>2. inverseZ[n][lane] \in Units /\ i - 1 = n
      BY <1>1, <3>1 DEF IsProduct
    <3> QED BY <2>1, <2>3, <3>2, UnitsClosed
  <2> QED BY <2>2, <2>3
<1>4. product \in Zs
  BY <1>3 DEF Zs, Units
<1>5. \A lane \in 1..8 : product[lane] = IF i = 1 THEN points[1][lane].z
                                         ELSE Product(inverseZ[i - 1][lane], points[i][lane].z)
  OBVIOUS
<1> HIDE DEF product
<1>6. /\ inverseZ' \in Seq(Zs) /\ Len(inverseZ') = n + 1 /\ inverseZ'[n + 1] = product
      /\ \A k \in 1..n : inverseZ'[k] = inverseZ[k]
  BY <1>1, <1>2, <1>4, AppendProperties
<1>7. ASSUME NEW k \in 1..(n + 1) PROVE IsProduct(k)'
  <2>1. CASE k = n + 1
    <3>1. ASSUME NEW lane \in 1..8
          PROVE  /\ inverseZ'[k][lane] \in Units
                 /\ inverseZ'[k][lane] = IF k = 1 THEN points[1][lane].z
                                         ELSE Product(inverseZ'[k - 1][lane], points[k][lane].z)
      <4>1. inverseZ'[k][lane] = product[lane] /\ k = i
        BY <1>6, <2>1
      <4>2. k # 1 => inverseZ'[k - 1] = inverseZ[i - 1]
        BY <1>1, <1>6, <2>1
      <4> HIDE DEF i
      <4> QED BY <1>3, <1>5, <4>1, <4>2
    <3> QED BY <1>1, <3>1 DEF IsProduct
  <2>2. CASE k \in 1..n
    <3>1. IsProduct(k)
      BY <1>1, <2>2 DEF BaseInv, ProductsInv
    <3>2. inverseZ'[k] = inverseZ[k] /\ (k # 1 => inverseZ'[k - 1] = inverseZ[k - 1])
      BY <1>1, <1>6, <2>2
    <3> QED BY <1>1, <3>1, <3>2 DEF IsProduct
  <2> QED BY <1>1, <2>1, <2>2
<1>8. BlocksInv'
  BY <1>1, BlocksStay DEF BaseInv
<1>9. ProductsInv'
  <2> HIDE DEF n
  <2> QED BY <1>1, <1>6, <1>7 DEF ProductsInv
<1> QED BY <1>1, <1>8, <1>9 DEF BaseInv, FilledInv

LEMMA BaseInvertKeeps == ASSUME TableSizeAllowed, BaseInv, Base!Invert PROVE BaseInv'
<1>1. /\ phase = "blocks" /\ Len(inverseZ) = Blocks /\ Blocks \in Nat \ {0}
      /\ Blocks \in 1..Blocks /\ (Blocks + 1)..Blocks = {}
      /\ left' = Blocks /\ phase' = "down"
      /\ basepoint' = basepoint /\ points' = points /\ inverseZ' = inverseZ
  BY BlocksNatural DEF Base!Invert
<1>2. accumulator' = [lane \in 1..8 |-> Inverted(inverseZ[Blocks][lane])]
  BY BlocksNatural, SameOperations DEF Base!Invert, Base!LANES
<1>3. \A i \in 1..Blocks : IsProduct(i)
  BY <1>1 DEF BaseInv, ProductsInv
<1>4. ASSUME NEW lane \in 1..8
      PROVE  accumulator'[lane] \in Field /\ Product(inverseZ[Blocks][lane], accumulator'[lane]) = 1
  <2>1. inverseZ[Blocks][lane] \in Units
    BY <1>1, <1>3 DEF IsProduct
  <2>2. accumulator'[lane] = Inverted(inverseZ[Blocks][lane])
    BY <1>2
  <2> QED BY <2>1, <2>2, FieldNumbers, InvertedInField, InverseAssumption DEF Units
<1>5. accumulator' \in Zs
  BY <1>2, <1>4 DEF Zs
<1>6. ASSUME NEW i \in 1..Blocks PROVE IsProduct(i)'
  <2>1. IsProduct(i)
    BY <1>3
  <2>2. inverseZ' = inverseZ /\ points' = points
    BY <1>1
  <2> QED BY <2>1, <2>2 DEF IsProduct
<1>7. BlocksInv'
  BY <1>1, BlocksStay DEF BaseInv
<1>8. ProductsInv'
  BY <1>1, <1>4, <1>5, <1>6 DEF BaseInv, ProductsInv
<1> QED BY <1>1, <1>7, <1>8 DEF BaseInv, FilledInv

\* One block's products give way to its reciprocals.
LEMMA ReplacedBy ==
    ASSUME TableSizeAllowed, BaseInv, phase = "down", NEW f \in Zs,
           \A lane \in 1..8 : f[lane] = Inverted(points[left][lane].z),
           inverseZ' = [inverseZ EXCEPT ![left] = f], points' = points
    PROVE  /\ inverseZ' \in Seq(Zs) /\ Len(inverseZ') = Blocks
           /\ \A i \in 1..(left - 1) : inverseZ'[i] = inverseZ[i] /\ IsProduct(i)'
           /\ \A i \in left..Blocks : IsReciprocal(i)'
<1>1. /\ inverseZ \in Seq(Zs) /\ Len(inverseZ) = Blocks /\ Blocks \in Nat /\ left \in 1..Blocks
      /\ \A i \in 1..left : IsProduct(i)
      /\ \A i \in (left + 1)..Blocks : IsReciprocal(i)
  BY BlocksNatural DEF BaseInv, ProductsInv
<1>2. inverseZ' \in Seq(Zs) /\ Len(inverseZ') = Blocks
  BY <1>1
<1>3. inverseZ'[left] = f /\ \A i \in 1..Blocks : i # left => inverseZ'[i] = inverseZ[i]
  <2>1. DOMAIN inverseZ = 1..Blocks
    BY <1>1, LenProperties
  <2> QED BY <1>1, <2>1
<1>4. ASSUME NEW i \in 1..(left - 1) PROVE inverseZ'[i] = inverseZ[i] /\ IsProduct(i)'
  <2>1. i \in 1..Blocks /\ i # left /\ IsProduct(i) /\ (i # 1 => (i - 1) \in 1..Blocks /\ i - 1 # left)
    BY <1>1
  <2>2. inverseZ'[i] = inverseZ[i] /\ (i # 1 => inverseZ'[i - 1] = inverseZ[i - 1])
    BY <1>3, <2>1
  <2> QED BY <2>1, <2>2 DEF IsProduct
<1>5. ASSUME NEW i \in left..Blocks PROVE IsReciprocal(i)'
  <2>1. CASE i = left
    BY <1>3, <2>1 DEF IsReciprocal
  <2>2. CASE i \in (left + 1)..Blocks
    <3>1. IsReciprocal(i) /\ inverseZ'[i] = inverseZ[i]
      BY <1>1, <1>3, <2>2
    <3> QED BY <3>1 DEF IsReciprocal
  <2> QED BY <1>1, <2>1, <2>2
<1> QED BY <1>2, <1>4, <1>5

LEMMA BaseWalkDownKeeps == ASSUME TableSizeAllowed, BaseInv, Base!WalkDown PROVE BaseInv'
<1> DEFINE low(lane) == inverseZ[left - 1][lane]
           z(lane)   == points[left][lane].z
           zinv      == [lane \in 1..8 |-> Product(low(lane), accumulator[lane])]
<1>1. /\ phase = "down" /\ Blocks \in Nat /\ left \in 2..Blocks
      /\ Len(points) = Blocks /\ accumulator \in Zs
      /\ \A lane \in 1..8 : Product(inverseZ[left][lane], accumulator[lane]) = 1
      /\ \A i \in 1..left : IsProduct(i)
  BY BlocksNatural DEF Base!WalkDown, BaseInv, ProductsInv
<1>2. /\ left' = left - 1 /\ phase' = phase /\ basepoint' = basepoint /\ points' = points
      /\ inverseZ' = [inverseZ EXCEPT ![left] = zinv]
      /\ accumulator' = [lane \in 1..8 |-> Product(accumulator[lane], z(lane))]
  BY SameOperations DEF Base!WalkDown, Base!LANES
<1>3. ASSUME NEW lane \in 1..8
      PROVE  /\ zinv[lane] \in Field /\ zinv[lane] = Inverted(points[left][lane].z)
             /\ accumulator'[lane] \in Field
             /\ Product(inverseZ[left - 1][lane], accumulator'[lane]) = 1
  <2> DEFINE l == inverseZ[left - 1][lane]
             y == points[left][lane].z
             a == accumulator[lane]
  <2>1. l \in Field /\ y \in Field /\ a \in Field
    <3>1. IsProduct(left - 1)
      BY <1>1
    <3>2. l \in Units
      BY <3>1 DEF IsProduct
    <3>3. y \in Field
      BY <1>1, ZsOf DEF BaseInv
    <3> QED BY <1>1, <3>2, <3>3 DEF Zs, Units
  <2>2. inverseZ[left][lane] = Product(l, y)
    <3>1. IsProduct(left) /\ left # 1
      BY <1>1
    <3> QED BY <3>1 DEF IsProduct
  <2>3. Product(Product(l, y), a) = 1
    BY <1>1, <2>2
  <2>4. zinv[lane] = Product(l, a) /\ accumulator'[lane] = Product(a, y)
    BY <1>2
  <2> HIDE DEF l, y, a, zinv
  <2>5. /\ Product(l, a) = Inverted(y) /\ Product(a, y) \in Field /\ Product(l, Product(a, y)) = 1
    BY <2>1, <2>3, StepDown
  <2>6. Product(l, a) \in Field
    BY <2>1, FieldOps
  <2> QED BY <2>4, <2>5, <2>6 DEF l, y
<1>4. zinv \in Zs /\ accumulator' \in Zs
  <2>1. zinv = [lane \in 1..8 |-> zinv[lane]]
    OBVIOUS
  <2>2. zinv \in Zs
    <3> HIDE DEF zinv
    <3> QED BY <1>3, <2>1 DEF Zs
  <2>3. accumulator' = [lane \in 1..8 |-> accumulator'[lane]]
    BY <1>2
  <2> QED BY <1>3, <2>2, <2>3 DEF Zs
<1> HIDE DEF zinv, low, z
<1>5. /\ inverseZ' \in Seq(Zs) /\ Len(inverseZ') = Blocks
      /\ \A i \in 1..(left - 1) : inverseZ'[i] = inverseZ[i] /\ IsProduct(i)'
      /\ \A i \in left..Blocks : IsReciprocal(i)'
  BY <1>1, <1>2, <1>3, <1>4, ReplacedBy
<1>6. left' \in 1..Blocks /\ left' + 1 = left /\ left' \in 1..(left - 1)
  BY <1>1, <1>2
<1>7. \A lane \in 1..8 : Product(inverseZ'[left'][lane], accumulator'[lane]) = 1
  BY <1>2, <1>3, <1>5, <1>6
<1>8. BlocksInv'
  BY <1>2, BlocksStay DEF BaseInv
<1>9. ProductsInv'
  <2>1. /\ \A i \in 1..left' : IsProduct(i)'
        /\ \A i \in (left' + 1)..Blocks : IsReciprocal(i)'
    BY <1>2, <1>5, <1>6
  <2>2. Blocks' = Blocks /\ Blocks <= Blocks
    BY <1>1 DEF Blocks
  <2> QED BY <1>1, <1>2, <1>4, <1>5, <1>6, <1>7, <2>1, <2>2 DEF ProductsInv
<1> QED BY <1>1, <1>2, <1>8, <1>9 DEF BaseInv, FilledInv

LEMMA BaseWalkFirstKeeps == ASSUME TableSizeAllowed, BaseInv, Base!WalkFirst PROVE BaseInv'
<1>1. /\ phase = "down" /\ Blocks \in Nat /\ left = 1 /\ 1 \in 1..Blocks
      /\ Len(points) = Blocks /\ accumulator \in Zs
      /\ \A lane \in 1..8 : Product(inverseZ[1][lane], accumulator[lane]) = 1
      /\ IsProduct(1)
  BY BlocksNatural DEF Base!WalkFirst, BaseInv, ProductsInv
<1>2. /\ phase' = "entries" /\ basepoint' = basepoint /\ points' = points
      /\ inverseZ' = [inverseZ EXCEPT ![left] = accumulator]
  BY <1>1 DEF Base!WalkFirst
<1>3. ASSUME NEW lane \in 1..8 PROVE accumulator[lane] = Inverted(points[left][lane].z)
  <2>1. inverseZ[1][lane] = points[1][lane].z
    BY <1>1 DEF IsProduct
  <2>2. points[1][lane].z \in Field
    BY <1>1, ZsOf DEF BaseInv
  <2>3. accumulator[lane] \in Field
    BY <1>1 DEF Zs
  <2>4. Product(points[1][lane].z, accumulator[lane]) = 1
    BY <1>1, <2>1
  <2> QED BY <1>1, <2>2, <2>3, <2>4, InverseUnique
<1>4. /\ inverseZ' \in Seq(Zs) /\ Len(inverseZ') = Blocks /\ \A i \in left..Blocks : IsReciprocal(i)'
  BY <1>1, <1>2, <1>3, ReplacedBy
<1>5. BlocksInv'
  BY <1>2, BlocksStay DEF BaseInv
<1>6. ProductsInv'
  <2>1. Blocks' = Blocks /\ Blocks <= Blocks
    BY <1>1 DEF Blocks
  <2> QED BY <1>1, <1>2, <1>4, <2>1 DEF ProductsInv
<1> QED BY <1>2, <1>5, <1>6 DEF BaseInv, FilledInv

\* An entry is the affine form of its multiple.
LEMMA EntryIs ==
    ASSUME TableSizeAllowed, BaseInv, phase = "entries", NEW n \in 1..BASEPOINT_TABLE_SIZE
    PROVE  /\ Base!Entry(n, FALSE) = AffineEntry(PointAt(n * Held))
           /\ Base!Entry(n, TRUE) = AffineEntry(PointAt(-(n * Held)))
<1> DEFINE block == ((n - 1) \div 8) + 1
           lane  == ((n - 1) % 8) + 1
           q == points[block][lane]
           m == n * Held
           p == PointAt(m)
           zinv == inverseZ[block][lane]
<1>1. block \in 1..Blocks /\ lane \in 1..8 /\ n = (8 * (block - 1)) + lane
  BY SlotIs DEF TableSizeAllowed, Blocks
<1> HIDE DEF block, lane
<1>2. Len(points) = Blocks /\ IsBlock(points[block], block) /\ IsReciprocal(block)
  BY <1>1 DEF BaseInv, ProductsInv, BlocksInv
<1>3. IsMultiple(q, Held, n) /\ zinv = Inverted(q.z)
  BY <1>1, <1>2 DEF IsBlock, IsReciprocal
<1>4. m \in Int
  BY DEF BaseInv, BlocksInv
<1>5. q \in Coordinates /\ IsAt(q, p)
  BY <1>3 DEF IsMultiple
<1> HIDE DEF q, m, zinv
<1>6. p \in AffinePoints
  BY <1>4, PointsInField
<1> HIDE DEF p
<1>7. Affine(q) = p
  BY <1>5, <1>6, AffineIs
<1>8. Product(q.x, zinv) = p.x /\ Product(q.y, zinv) = p.y
  BY <1>3, <1>7 DEF Affine
<1>9. Base!Entry(n, FALSE) = [yPlusX |-> Sum(p.y, p.x), yMinusX |-> Difference(p.y, p.x),
                              t2d |-> Product(Product(p.x, p.y), TwoD)]
  BY <1>8, SameOperations DEF Base!Entry, Base!LANES, q, zinv, block, lane
<1>10. Base!Entry(n, TRUE) = [yPlusX |-> Difference(p.y, p.x), yMinusX |-> Sum(p.y, p.x),
                              t2d |-> Negated(Product(Product(p.x, p.y), TwoD))]
  BY <1>8, SameOperations DEF Base!Entry, Base!LANES, q, zinv, block, lane
<1>11. AffineEntry(PointAt(-m)) = [yPlusX |-> Difference(p.y, p.x), yMinusX |-> Sum(p.y, p.x),
                                   t2d |-> Negated(Product(Product(p.x, p.y), TwoD))]
  BY <1>4, OppositeAffineEntry DEF p
<1>12. Base!Entry(n, FALSE) = AffineEntry(p)
  BY <1>9 DEF AffineEntry
<1> QED BY <1>10, <1>11, <1>12 DEF p, m

LEMMA AffineEntriesKeeps == ASSUME TableSizeAllowed, BaseInv, Base!AffineEntries PROVE BaseInv'
<1> DEFINE s == BASEPOINT_TABLE_SIZE
           slots == (-s)..s
<1>1. /\ phase = "entries" /\ phase' = "done" /\ s \in Nat /\ Held \in Int
      /\ basepoint' = basepoint /\ points' = points /\ inverseZ' = inverseZ
  BY DEF Base!AffineEntries, TableSizeAllowed, BaseInv, BlocksInv
<1>2. entries' = [d \in slots |-> IF d > 0 THEN Base!Entry(d, FALSE)
                                  ELSE IF d < 0 THEN Base!Entry(-d, TRUE)
                                  ELSE [yPlusX |-> 1, yMinusX |-> 1, t2d |-> 0]]
  BY Zenon DEF Base!AffineEntries
<1>3. ASSUME NEW d \in slots PROVE entries'[d] = AffineEntry(PointAt(d * Held))
  <2>1. CASE d > 0
    <3>1. d \in 1..s
      BY <1>1, <2>1
    <3>2. entries'[d] = Base!Entry(d, FALSE)
      BY <1>2, <2>1
    <3> QED BY <1>1, <3>1, <3>2, EntryIs
  <2>2. CASE d < 0
    <3> DEFINE n == -d
    <3>1. n \in 1..s /\ -(n * Held) = d * Held /\ ~(d > 0)
      BY <1>1, <2>2
    <3>2. entries'[d] = Base!Entry(n, TRUE)
      BY <1>2, <2>2, <3>1
    <3> HIDE DEF n
    <3>3. Base!Entry(n, TRUE) = AffineEntry(PointAt(-(n * Held)))
      BY <1>1, <3>1, EntryIs
    <3> QED BY <3>1, <3>2, <3>3
  <2>3. CASE d = 0
    <3>1. d * Held = 0 /\ ~(d > 0) /\ ~(d < 0)
      BY <1>1, <2>3
    <3>2. entries'[d] = [yPlusX |-> 1, yMinusX |-> 1, t2d |-> 0]
      BY <1>2, <3>1
    <3> QED BY <3>1, <3>2, NeutralAffineEntry
  <2> QED BY <1>1, <2>1, <2>2, <2>3
<1>4. Held' = Held
  BY <1>1, HeldStays
<1>5. FilledInv'
  BY <1>3, <1>4 DEF FilledInv
<1>6. BlocksInv'
  BY <1>1, BlocksStay DEF BaseInv
<1>7. ProductsInv'
  <2>1. \A i \in 1..Blocks : IsReciprocal(i)' <=> IsReciprocal(i)
    BY <1>1 DEF IsReciprocal
  <2> QED BY <1>1, <2>1 DEF BaseInv, ProductsInv
<1> QED BY <1>5, <1>6, <1>7 DEF BaseInv

\* For every field, curve, point of it and size of the table that is a number of whole
\* blocks: the slot of each digit holds the affine form of that multiple, whatever
\* points the blocks add on the way, equal ones and the neutral one included.
THEOREM BaseEntriesAreMultiples ==
    ASSUME TableSizeAllowed PROVE Base!Spec => []Base!EntriesExact
<1>1. ASSUME BaseInv, [Base!Next]_(Base!vars) PROVE BaseInv'
  <2>1. CASE UNCHANGED Base!vars
    <3>1. /\ basepoint' = basepoint /\ points' = points /\ inverseZ' = inverseZ
          /\ accumulator' = accumulator /\ left' = left /\ entries' = entries /\ phase' = phase
      BY <2>1 DEF Base!vars
    <3>2. BlocksInv'
      BY <1>1, <3>1, BlocksStay DEF BaseInv
    <3>3. \A i : (IsProduct(i)' <=> IsProduct(i)) /\ (IsReciprocal(i)' <=> IsReciprocal(i))
      BY <3>1 DEF IsProduct, IsReciprocal
    <3>4. ProductsInv'
      BY <1>1, <3>1, <3>3 DEF BaseInv, ProductsInv
    <3>5. FilledInv'
      BY <1>1, <3>1, HeldStays DEF BaseInv, FilledInv
    <3> QED BY <3>2, <3>4, <3>5 DEF BaseInv
  <2> QED BY <1>1, <2>1, AddBlockKeeps, MultiplyUpKeeps, BaseInvertKeeps, BaseWalkDownKeeps,
             BaseWalkFirstKeeps, AffineEntriesKeeps DEF Base!Next
<1>2. BaseInv => Base!EntriesExact
  <2>1. ASSUME BaseInv, phase = "done", NEW d \in (-BASEPOINT_TABLE_SIZE)..BASEPOINT_TABLE_SIZE
        PROVE  LET p == Base!Multiple(d)
               IN  entries[d] = [yPlusX |-> Base!Sum(p.y, p.x), yMinusX |-> Base!Difference(p.y, p.x),
                                 t2d |-> Base!Product(Base!Product(p.x, p.y), Base!TwoD)]
    <3>1. entries[d] = AffineEntry(PointAt(d * Held))
      BY <2>1 DEF BaseInv, FilledInv
    <3>2. Base!Multiple(d) = PointAt(d * Held)
      BY SameMultiples
    <3> QED BY <3>1, <3>2, SameOperations DEF AffineEntry
  <2> QED BY <2>1 DEF Base!EntriesExact
<1>3. Base!Init => BaseInv
  BY BaseBegins
<1> QED BY <1>1, <1>2, <1>3, PTL DEF Base!Spec
=============================================================================
