----------------------- MODULE ScalarReductionProofs -----------------------
(***************************************************************************)
(* Proofs about ScalarReduction for limbs of every width, those of the     *)
(* code included, for every order and every hash: no register that a       *)
(* column is summed up in comes near its end, and the digits that come out *)
(* are the balanced ones of the hash modulo the order.                     *)
(*                                                                         *)
(* While a half is multiplied, the columns stand for the product, with     *)
(* the multiples of the order that are added to clear the low ones, and    *)
(* every cleared column drops out together with one power of the radix;    *)
(* since R has an inverse modulo the order, what is left is determined.    *)
(* The recoded digits, with the rest of the scalar, keep standing for it.  *)
(***************************************************************************)
EXTENDS ScalarReduction, SequenceTheorems, WellFoundedInduction, TLAPS

LEMMA RadixIsNat == /\ B \in Nat /\ B > 11 /\ LimbValues = 0..(B - 1)
                    /\ {SCALAR_L, SCALAR_R, SCALAR_RR} \subseteq Limbs
                    /\ SCALAR_LFACTOR \in LimbValues
                    /\ SCALAR_R[4] + SCALAR_L[4] + 12 <= B
                    /\ SCALAR_RR[4] + SCALAR_L[4] + 12 <= B
<1>1. /\ B \in Nat /\ LimbValues = 0..(B - 1)
      /\ {SCALAR_L, SCALAR_R, SCALAR_RR} \subseteq Limbs
      /\ SCALAR_LFACTOR \in LimbValues
      /\ SCALAR_R[4] + SCALAR_L[4] + 12 <= B
      /\ SCALAR_RR[4] + SCALAR_L[4] + 12 <= B
  BY LimbAssumption DEF LimbsFit, B, LimbValues, Limbs
<1>2. SCALAR_R[4] \in Nat /\ SCALAR_L[4] \in Nat
  BY <1>1 DEF Limbs, LimbIndices
<1> QED BY <1>1, <1>2

-----------------------------------------------------------------------------
(***************************************************************************)
(* The multiplier and the sums                                             *)
(***************************************************************************)

\* What the multiplier adds is below the radix, and its high part no more than
\* the second operand.
LEMMA Parts ==
    ASSUME NEW a \in Int, NEW b \in Int
    PROVE  /\ Low(a, b) \in 0..(B - 1)
           /\ High(a, b) \in 0..(B - 1)
           /\ b \in LimbValues => High(a, b) <= b
<1> DEFINE x == a % B
           y == b % B
           h == (x * y) \div B
<1>1. B \in Nat /\ B > 0 /\ LimbValues = 0..(B - 1)
  BY RadixIsNat
<1>2. x \in 0..(B - 1) /\ y \in 0..(B - 1)
  BY <1>1
<1> HIDE DEF x, y
<1>3. x * y \in Nat /\ x * y <= B * y
  BY <1>1, <1>2
<1>4. (x * y) % B \in 0..(B - 1)
  BY <1>1, <1>3
<1>5. h \in Nat /\ B * h <= x * y
  BY <1>1, <1>3
<1>6. h <= y
  <2> HIDE DEF h
  <2>1. B * h <= B * y
    BY <1>1, <1>2, <1>3, <1>5
  <2>2. SUFFICES ASSUME h >= y + 1 PROVE FALSE
    BY <1>2, <1>5
  <2>3. B * h >= B * (y + 1)
    BY <1>1, <1>2, <1>5, <2>2
  <2>4. B * (y + 1) = B * y + B
    BY <1>1, <1>2
  <2> QED BY <1>1, <1>2, <1>5, <2>1, <2>3, <2>4
<1>7. b \in LimbValues => y = b
  BY <1>1 DEF y
<1>8. Low(a, b) = (x * y) % B /\ High(a, b) = h
  BY DEF Low, High, x, y
<1> HIDE DEF h
<1> QED BY <1>1, <1>2, <1>4, <1>5, <1>6, <1>7, <1>8

LEMMA FiveTerms ==
    ASSUME NEW m \in Nat, NEW f, \A i \in LimbIndices : f[i] \in 0..m
    PROVE  /\ Total(f) \in 0..(5 * m)
           /\ (\A i \in 0..3 : f[i] = 0) => Total(f) = f[4]
<1>1. f[0] \in 0..m /\ f[1] \in 0..m /\ f[2] \in 0..m /\ f[3] \in 0..m /\ f[4] \in 0..m
  BY DEF LimbIndices
<1>2. \A a, b, c, d, e \in 0..m : a + b + c + d + e \in 0..(5 * m)
  OBVIOUS
<1>3. Total(f) \in 0..(5 * m)
  BY <1>1, <1>2 DEF Total
<1>4. (\A i \in 0..3 : f[i] = 0) => Total(f) = f[4]
  <2>1. SUFFICES ASSUME \A i \in 0..3 : f[i] = 0 PROVE Total(f) = f[4]
    OBVIOUS
  <2>2. f[0] = 0 /\ f[1] = 0 /\ f[2] = 0 /\ f[3] = 0
    BY <2>1
  <2> QED BY <1>1, <2>2 DEF Total
<1> QED BY <1>3, <1>4

\* No more than three limbs of the order are added into a column, and only one
\* into the last.
LEMMA ThreeTerms ==
    ASSUME NEW m \in Nat, NEW c \in Columns, NEW f,
           \A i \in LimbIndices : f[i] \in 0..m /\ (c - i \notin {1, 2, 4} => f[i] = 0)
    PROVE  Total(f) \in 0..(3 * m) /\ (c = 8 => Total(f) = f[4])
<1>1. f[0] \in 0..m /\ f[1] \in 0..m /\ f[2] \in 0..m /\ f[3] \in 0..m /\ f[4] \in 0..m
  BY DEF LimbIndices
<1>2. /\ c - 0 \notin {1, 2, 4} => f[0] = 0
      /\ c - 1 \notin {1, 2, 4} => f[1] = 0
      /\ c - 2 \notin {1, 2, 4} => f[2] = 0
      /\ c - 3 \notin {1, 2, 4} => f[3] = 0
      /\ c - 4 \notin {1, 2, 4} => f[4] = 0
  BY DEF LimbIndices
<1>3. c \in 0..8
  BY DEF Columns
<1>4. Total(f) = f[0] + f[1] + f[2] + f[3] + f[4]
  BY DEF Total
<1>5. CASE c <= 2
  <2>1. f[2] = 0 /\ f[3] = 0 /\ f[4] = 0
    BY <1>2, <1>3, <1>5
  <2> QED BY <1>1, <1>4, <1>5, <2>1
<1>6. CASE c = 3
  <2>1. f[0] = 0 /\ f[3] = 0
    BY <1>2, <1>6
  <2> QED BY <1>1, <1>4, <1>6, <2>1
<1>7. CASE c = 4
  <2>1. f[1] = 0 /\ f[4] = 0
    BY <1>2, <1>7
  <2> QED BY <1>1, <1>4, <1>7, <2>1
<1>8. CASE c \in {5, 6, 7}
  <2>1. f[0] = 0
    BY <1>2, <1>8
  <2>2. f[2] = 0 \/ f[3] = 0
    BY <1>2, <1>8
  <2> QED BY <1>1, <1>4, <1>8, <2>1, <2>2
<1>9. CASE c = 8
  <2>1. f[0] = 0 /\ f[1] = 0 /\ f[2] = 0 /\ f[3] = 0
    BY <1>2, <1>9
  <2> QED BY <1>1, <1>4, <1>9, <2>1
<1> QED BY <1>3, <1>5, <1>6, <1>7, <1>8, <1>9

\* Products of limbs summed up by columns: up to five in each, one in the last,
\* whose high part is no more than the last limb of the second operand.
LEMMA ConvolvedBounds ==
    ASSUME NEW a \in Limbs, NEW b \in Limbs
    PROVE  /\ Convolved(a, b) \in [Columns -> [lo : 0..(5 * (B - 1)), hi : 0..(5 * (B - 1))]]
           /\ Convolved(a, b)[8].lo <= B - 1
           /\ Convolved(a, b)[8].hi <= b[4]
<1> DEFINE In(c, i) == c - i \in LimbIndices
           low(c)  == [i \in LimbIndices |-> IF In(c, i) THEN Low(a[i], b[c - i]) ELSE 0]
           high(c) == [i \in LimbIndices |-> IF In(c, i) THEN High(a[i], b[c - i]) ELSE 0]
           m == B - 1
<1>1. B \in Nat /\ m \in Nat /\ LimbValues = 0..m
  BY RadixIsNat
<1>2. ASSUME NEW c \in Columns, NEW i \in LimbIndices
      PROVE  low(c)[i] \in 0..m /\ high(c)[i] \in 0..m
  <2>1. CASE In(c, i)
    <3>1. a[i] \in Int /\ b[c - i] \in Int
      BY <1>1, <2>1 DEF Limbs
    <3> QED BY <2>1, <3>1, Parts
  <2>2. CASE ~In(c, i)
    BY <1>1, <2>2
  <2> QED BY <2>1, <2>2
<1>3. \A i \in 0..3 : low(8)[i] = 0 /\ high(8)[i] = 0
  BY DEF LimbIndices
<1>4. low(8)[4] <= m /\ high(8)[4] <= b[4]
  <2>1. a[4] \in Int /\ b[4] \in Int /\ b[4] \in LimbValues /\ 8 - 4 = 4 /\ 4 \in LimbIndices
    BY <1>1 DEF Limbs, LimbIndices
  <2>2. low(8)[4] = Low(a[4], b[4]) /\ high(8)[4] = High(a[4], b[4])
    BY <2>1
  <2>3. Low(a[4], b[4]) \in 0..m /\ High(a[4], b[4]) <= b[4]
    BY <2>1, Parts
  <2> HIDE DEF low, high
  <2> QED BY <1>1, <2>2, <2>3
<1>5. Convolved(a, b) = [c \in Columns |-> [lo |-> Total(low(c)), hi |-> Total(high(c))]]
  BY DEF Convolved
<1> HIDE DEF low, high, m
<1>6. \A c \in Columns : Total(low(c)) \in 0..(5 * m) /\ Total(high(c)) \in 0..(5 * m)
  BY <1>1, <1>2, FiveTerms
<1>7. 8 \in Columns
  BY DEF Columns
<1>8. Total(low(8)) = low(8)[4] /\ Total(high(8)) = high(8)[4]
  BY <1>1, <1>2, <1>3, <1>7, FiveTerms
<1>9. Convolved(a, b)[8].lo = low(8)[4] /\ Convolved(a, b)[8].hi = high(8)[4]
  BY <1>5, <1>7, <1>8
<1>10. Convolved(a, b) \in [Columns -> [lo : 0..(5 * m), hi : 0..(5 * m)]]
  BY <1>5, <1>6
<1> QED BY <1>4, <1>9, <1>10 DEF m

-----------------------------------------------------------------------------
(***************************************************************************)
(* The invariant                                                           *)
(***************************************************************************)

TypesHold ==
    /\ hash \in Hashes
    /\ phase \in {"multiply", "eliminate", "split", "subtract", "recode", "done"}
    /\ half \in {"hi", "lo"}
    /\ column \in Columns \cup {9}
    /\ quotients \in Seq(LimbValues)
    /\ carry \in Nat /\ rest \in Int
    /\ result \in Limbs /\ upper \in Limbs

\* Five products fall into a column and one into the last, where the room of
\* the last limb is needed; a column's carry is what nine limbs and nine more
\* leave.
ColumnsHold ==
    /\ columns \in [Columns -> [lo : 0..(5 * (B - 1)), hi : 0..(5 * (B - 1))]]
    /\ columns[8].lo <= B - 1 /\ columns[8].hi + SCALAR_L[4] + 12 <= B
    /\ carry <= 9 * (B + 1)

\* The first columns leave a quotient each, and the others need all five.
PhaseHolds ==
    /\ phase = "eliminate" => column \in 0..4 /\ Len(quotients) = column
    /\ phase = "split" => column \in 5..8 /\ Len(quotients) = 5
    /\ phase \in {"multiply", "recode", "done"} => column = 0 /\ quotients = << >>

IInv == TypesHold /\ ColumnsHold /\ PhaseHolds

\* A column with the multiples of the order in it: three products more, and one
\* in the last.
LEMMA MultiplesBounds ==
    ASSUME IInv, phase \in {"eliminate", "split"}
    PROVE  /\ column \in Columns
           /\ WithMultiples(column).lo \in 0..(8 * (B - 1))
           /\ WithMultiples(column).hi \in 0..(8 * (B - 1))
           /\ column = 8 => /\ WithMultiples(column).lo <= 2 * (B - 1)
                            /\ WithMultiples(column).hi + 12 <= B
<1> DEFINE In(i) == column - i \in {1, 2, 4}
           low  == [i \in LimbIndices |-> IF In(i) THEN Low(quotients[i + 1], SCALAR_L[column - i]) ELSE 0]
           high == [i \in LimbIndices |-> IF In(i) THEN High(quotients[i + 1], SCALAR_L[column - i]) ELSE 0]
           m == B - 1
<1>1. B \in Nat /\ m \in Nat /\ LimbValues = 0..m /\ SCALAR_L \in Limbs
  BY RadixIsNat
<1>2. column \in Columns /\ column \in 0..8
  BY DEF IInv, PhaseHolds, Columns
<1>3. ASSUME NEW i \in LimbIndices, In(i)
      PROVE  quotients[i + 1] \in Int /\ SCALAR_L[column - i] \in LimbValues
  <2>1. column - i \in LimbIndices
    BY <1>2, <1>3 DEF LimbIndices
  <2>2. i + 1 \in 1..Len(quotients)
    <3>1. CASE phase = "eliminate"
      BY <1>2, <1>3, <3>1 DEF IInv, PhaseHolds, LimbIndices
    <3>2. CASE phase = "split"
      <4>1. Len(quotients) = 5 /\ i \in 0..4
        BY <3>2 DEF IInv, PhaseHolds, LimbIndices
      <4> QED BY <4>1
    <3> QED BY <3>1, <3>2
  <2>3. quotients[i + 1] \in LimbValues
    BY <2>2, ElementOfSeq DEF IInv, TypesHold
  <2> QED BY <1>1, <2>1, <2>3 DEF Limbs
<1>4. ASSUME NEW i \in LimbIndices
      PROVE  /\ low[i] \in 0..m /\ (~In(i) => low[i] = 0)
             /\ high[i] \in 0..m /\ (~In(i) => high[i] = 0)
  <2>1. CASE In(i)
    <3>1. SCALAR_L[column - i] \in Int
      BY <1>1, <1>3, <2>1
    <3> QED BY <1>3, <2>1, <3>1, Parts
  <2>2. CASE ~In(i)
    BY <1>1, <2>2
  <2> QED BY <2>1, <2>2
<1>5. column = 8 => high[4] <= SCALAR_L[4]
  <2>1. SUFFICES ASSUME column = 8 PROVE high[4] <= SCALAR_L[4]
    OBVIOUS
  <2>2. 4 \in LimbIndices /\ In(4) /\ column - 4 = 4
    BY <2>1 DEF LimbIndices
  <2>3. quotients[5] \in Int /\ SCALAR_L[4] \in LimbValues /\ SCALAR_L[4] \in Int
    BY <1>1, <1>3, <2>2
  <2>4. high[4] = High(quotients[5], SCALAR_L[4])
    BY <2>2
  <2> QED BY <2>3, <2>4, Parts
<1>6. /\ WithMultiples(column).lo = columns[column].lo + Total(low)
      /\ WithMultiples(column).hi = columns[column].hi + Total(high)
  BY DEF WithMultiples
<1> HIDE DEF low, high
<1>7. /\ Total(low) \in 0..(3 * m) /\ (column = 8 => Total(low) = low[4])
      /\ Total(high) \in 0..(3 * m) /\ (column = 8 => Total(high) = high[4])
  BY <1>1, <1>2, <1>4, ThreeTerms
<1>8. columns[column].lo \in 0..(5 * m) /\ columns[column].hi \in 0..(5 * m)
  <2>1. columns[column] \in [lo : 0..(5 * (B - 1)), hi : 0..(5 * (B - 1))]
    BY <1>2 DEF IInv, ColumnsHold
  <2> QED BY <2>1
<1>9. 4 \in LimbIndices /\ SCALAR_L[4] \in Int
  BY <1>1 DEF Limbs, LimbIndices
<1>10. low[4] <= m /\ low[4] \in Int /\ high[4] \in Int
  BY <1>1, <1>4, <1>9
<1>11. column = 8 => columns[column].lo <= m /\ columns[column].hi + SCALAR_L[4] + 12 <= B
  BY DEF IInv, ColumnsHold
<1>12. WithMultiples(column).lo \in 0..(8 * m) /\ WithMultiples(column).hi \in 0..(8 * m)
  <2>1. \A v \in 0..(5 * m), w \in 0..(3 * m) : v + w \in 0..(8 * m)
    <3> HIDE DEF m
    <3> QED BY <1>1
  <2> HIDE DEF m
  <2> QED BY <1>6, <1>7, <1>8, <2>1
<1>13. ASSUME column = 8
       PROVE  WithMultiples(column).lo <= 2 * m /\ WithMultiples(column).hi + 12 <= B
  <2>1. WithMultiples(column).lo = columns[column].lo + low[4]
    BY <1>6, <1>7, <1>13
  <2>2. WithMultiples(column).hi = columns[column].hi + high[4]
    BY <1>6, <1>7, <1>13
  <2>3. columns[column].lo + low[4] <= 2 * m
    <3> HIDE DEF m
    <3> QED BY <1>1, <1>8, <1>10, <1>11, <1>13
  <2>4. columns[column].hi + high[4] + 12 <= B
    <3>1. columns[column].hi \in Int /\ high[4] \in Int /\ SCALAR_L[4] \in Int /\ B \in Int
      BY <1>1, <1>8, <1>9, <1>10
    <3> QED BY <1>5, <1>11, <1>13, <3>1
  <2> QED BY <2>1, <2>2, <2>3, <2>4
<1> QED BY <1>2, <1>12, <1>13

-----------------------------------------------------------------------------
(***************************************************************************)
(* The steps                                                               *)
(***************************************************************************)

\* What a column carries into the next, with a product more or without.
LEMMA CarryBound ==
    ASSUME NEW lo \in 0..(9 * (B - 1)), NEW hi \in 0..(9 * (B - 1)), NEW c \in 0..(9 * (B + 1))
    PROVE  /\ hi + (lo + c) \div B \in 0..(9 * (B + 1))
           /\ lo <= 2 * (B - 1) => (lo + c) \div B <= 11
<1> DEFINE q == (lo + c) \div B
<1>1. B \in Nat /\ B > 11
  BY RadixIsNat
<1>2. q \in Nat /\ B * q <= lo + c
  BY <1>1
<1> HIDE DEF q
<1>3. q <= 18
  <2>1. SUFFICES ASSUME q >= 19 PROVE FALSE
    BY <1>2
  <2>2. B * q >= B * 19
    BY <1>1, <1>2, <2>1
  <2> QED BY <1>1, <1>2, <2>2
<1>4. lo <= 2 * (B - 1) => q <= 11
  <2>1. SUFFICES ASSUME lo <= 2 * (B - 1), q >= 12 PROVE FALSE
    BY <1>2
  <2>2. B * q >= B * 12
    BY <1>1, <1>2, <2>1
  <2> QED BY <1>1, <1>2, <2>1, <2>2
<1> QED BY <1>1, <1>2, <1>3, <1>4 DEF q

\* Sums and differences of limbs are limbs.
LEMMA SumsAreLimbs ==
    ASSUME NEW a \in Limbs, NEW b \in Limbs
    PROVE  Added(a, b) \in Limbs /\ Subtracted(a, b) \in Limbs
<1>1. B \in Nat \ {0} /\ LimbValues = 0..(B - 1) /\ SCALAR_L \in Limbs
  BY RadixIsNat
<1>2. ASSUME NEW f, f \in [1..5 -> Int]
      PROVE  [i \in LimbIndices |-> f[i + 1] % B] \in Limbs
  <2>1. ASSUME NEW i \in LimbIndices PROVE f[i + 1] % B \in LimbValues
    <3>1. f[i + 1] \in Int
      BY <1>2 DEF LimbIndices
    <3> QED BY <1>1, <3>1
  <2> QED BY <2>1 DEF Limbs
<1>3. ASSUME NEW x \in Limbs, NEW y \in Limbs PROVE Added(x, y) \in Limbs
  <2> DEFINE s0 == x[0] + y[0]
             s1 == x[1] + y[1] + s0 \div B
             s2 == x[2] + y[2] + s1 \div B
             s3 == x[3] + y[3] + s2 \div B
             s4 == x[4] + y[4] + s3 \div B
  <2>1. \A i \in LimbIndices : x[i] \in Int /\ y[i] \in Int
    BY <1>1 DEF Limbs
  <2>2. s0 \in Int /\ s1 \in Int /\ s2 \in Int /\ s3 \in Int /\ s4 \in Int
    <3>1. /\ x[0] + y[0] \in Int /\ x[1] + y[1] \in Int /\ x[2] + y[2] \in Int
          /\ x[3] + y[3] \in Int /\ x[4] + y[4] \in Int
      BY <2>1 DEF LimbIndices
    <3>2. \A u \in Int, v \in Int : u + v \div B \in Int
      BY <1>1
    <3>3. s0 \in Int
      BY <3>1
    <3> HIDE DEF s0
    <3>4. s1 \in Int
      BY <3>1, <3>2, <3>3
    <3> HIDE DEF s1
    <3>5. s2 \in Int
      BY <3>1, <3>2, <3>4
    <3> HIDE DEF s2
    <3>6. s3 \in Int
      BY <3>1, <3>2, <3>5
    <3> HIDE DEF s3
    <3>7. s4 \in Int
      BY <3>1, <3>2, <3>6
    <3> QED BY <3>3, <3>4, <3>5, <3>6, <3>7
  <2>3. Added(x, y) = [i \in LimbIndices |-> << s0, s1, s2, s3, s4 >>[i + 1] % B]
    BY DEF Added
  <2> HIDE DEF s0, s1, s2, s3, s4
  <2>4. << s0, s1, s2, s3, s4 >> \in [1..5 -> Int]
    BY <2>2
  <2> QED BY <1>2, <2>3, <2>4
<1>4. Differences(a, b) \in [1..5 -> Int]
  <2> DEFINE Borrow(d) == IF d < 0 THEN 1 ELSE 0
             d0 == a[0] - b[0]
             d1 == a[1] - b[1] - Borrow(d0)
             d2 == a[2] - b[2] - Borrow(d1)
             d3 == a[3] - b[3] - Borrow(d2)
             d4 == a[4] - b[4] - Borrow(d3)
  <2>1. \A i \in LimbIndices : a[i] \in Int /\ b[i] \in Int
    BY <1>1 DEF Limbs
  <2>2. d0 \in Int /\ d1 \in Int /\ d2 \in Int /\ d3 \in Int /\ d4 \in Int
    BY <2>1 DEF LimbIndices
  <2>3. Differences(a, b) = << d0, d1, d2, d3, d4 >>
    BY DEF Differences
  <2> HIDE DEF d0, d1, d2, d3, d4
  <2> QED BY <2>2, <2>3
<1>5. [i \in LimbIndices |-> Differences(a, b)[i + 1] % B] \in Limbs
  BY <1>2, <1>4
<1> QED BY <1>1, <1>3, <1>5 DEF Subtracted

LEMMA ValueIsInt == ASSUME NEW a \in Limbs PROVE Value(a) \in Int
<1>1. a[0] \in Int /\ a[1] \in Int /\ a[2] \in Int /\ a[3] \in Int /\ a[4] \in Int
  BY RadixIsNat DEF Limbs, LimbIndices
<1>2. ASSUME NEW u \in Int, NEW v \in Int PROVE u + B * v \in Int
  BY RadixIsNat
<1>3. a[3] + B * a[4] \in Int
  BY <1>1, <1>2
<1>4. a[2] + B * (a[3] + B * a[4]) \in Int
  BY <1>1, <1>2, <1>3
<1>5. a[1] + B * (a[2] + B * (a[3] + B * a[4])) \in Int
  BY <1>1, <1>2, <1>4
<1> QED BY <1>1, <1>2, <1>5 DEF Value

LEMMA NoneAreLimbs == /\ NoLimbs \in Limbs
                      /\ NoColumns \in [Columns -> [lo : 0..(5 * (B - 1)), hi : 0..(5 * (B - 1))]]
                      /\ NoColumns[8].lo <= B - 1 /\ NoColumns[8].hi + SCALAR_L[4] + 12 <= B
<1>1. /\ B \in Nat /\ B > 11 /\ LimbValues = 0..(B - 1)
      /\ SCALAR_R \in Limbs /\ SCALAR_L \in Limbs /\ SCALAR_R[4] + SCALAR_L[4] + 12 <= B
  BY RadixIsNat
<1>2. SCALAR_R[4] \in Nat /\ SCALAR_L[4] \in Nat
  BY <1>1 DEF Limbs, LimbIndices
<1>3. 8 \in Columns /\ NoColumns[8] = [lo |-> 0, hi |-> 0]
  BY DEF Columns, NoColumns
<1> QED BY <1>1, <1>2, <1>3 DEF NoLimbs, NoColumns, Limbs

LEMMA InitHolds == Init => IInv
<1>1. B \in Nat /\ << >> \in Seq(LimbValues) /\ 0 \in Columns
  BY RadixIsNat DEF Columns
<1> QED BY <1>1, NoneAreLimbs DEF Init, IInv, TypesHold, ColumnsHold, PhaseHolds

LEMMA MultiplyHolds == ASSUME IInv, Multiply PROVE IInv'
<1> DEFINE a == IF half = "hi" THEN hash.hi ELSE hash.lo
           b == IF half = "hi" THEN SCALAR_RR ELSE SCALAR_R
<1>1. a \in Limbs
  BY LimbAssumption DEF IInv, TypesHold
<1>2. b \in Limbs /\ b[4] + SCALAR_L[4] + 12 <= B
  BY RadixIsNat
<1>3. /\ columns' = Convolved(a, b) /\ phase' = "eliminate"
      /\ UNCHANGED <<hash, half, column, quotients, carry, result, upper, rest, digits>>
  BY DEF Multiply
<1> HIDE DEF a, b
<1>4. b[4] \in Int /\ SCALAR_L[4] \in Int /\ B \in Int
  BY <1>2, RadixIsNat DEF Limbs, LimbIndices
<1>5. /\ columns' \in [Columns -> [lo : 0..(5 * (B - 1)), hi : 0..(5 * (B - 1))]]
      /\ columns'[8].lo <= B - 1 /\ columns'[8].hi <= b[4]
  BY <1>1, <1>2, <1>3, ConvolvedBounds
<1>6. columns'[8].hi \in Int
  BY <1>5 DEF Columns
<1>7. columns'[8].hi + SCALAR_L[4] + 12 <= B
  BY <1>2, <1>4, <1>5, <1>6
<1>8. column' = 0 /\ quotients' = << >> /\ Len(<< >>) = 0
  BY <1>3, EmptySeq DEF Multiply, IInv, PhaseHolds
<1>9. carry' = carry
  BY <1>3
<1>10. TypesHold'
  BY <1>3 DEF IInv, TypesHold
<1>11. ColumnsHold'
  BY <1>5, <1>7, <1>9 DEF IInv, ColumnsHold
<1>12. PhaseHolds'
  BY <1>3, <1>8 DEF PhaseHolds
<1> QED BY <1>10, <1>11, <1>12 DEF IInv

\* A quotient is a limb whatever the column holds, and its multiple of the
\* lowest limb of the order is one product more.
LEMMA EliminateHolds == ASSUME IInv, Eliminate PROVE IInv'
<1> DEFINE s        == WithMultiples(column)
           low      == s.lo + carry
           quotient == Low(low, SCALAR_LFACTOR)
           added    == Low(quotient, SCALAR_L[0])
           high     == High(quotient, SCALAR_L[0])
<1>1. /\ quotients' = Append(quotients, quotient)
      /\ carry' = s.hi + high + (low + added) \div B
      /\ column' = column + 1
      /\ phase' = IF column = 4 THEN "split" ELSE "eliminate"
      /\ UNCHANGED <<hash, half, columns, result, upper, rest, digits>>
  BY DEF Eliminate
<1>2. B \in Nat /\ B > 11 /\ LimbValues = 0..(B - 1) /\ SCALAR_LFACTOR \in Int /\ SCALAR_L[0] \in Int
  BY RadixIsNat DEF Limbs, LimbIndices
<1>3. s.lo \in 0..(8 * (B - 1)) /\ s.hi \in 0..(8 * (B - 1))
  BY MultiplesBounds DEF Eliminate
<1>4. carry \in 0..(9 * (B + 1))
  BY DEF IInv, TypesHold, ColumnsHold
<1> HIDE DEF s
<1>5. low \in Int
  BY <1>2, <1>3, <1>4
<1> HIDE DEF low
<1>6. quotient \in LimbValues /\ quotient \in Int
  <2>1. quotient \in 0..(B - 1)
    BY <1>2, <1>5, Parts
  <2> QED BY <1>2, <2>1
<1> HIDE DEF quotient
<1>7. added \in 0..(B - 1) /\ high \in 0..(B - 1)
  BY <1>2, <1>6, Parts
<1> HIDE DEF added, high
<1>8. carry' \in 0..(9 * (B + 1))
  <2>1. s.lo + added \in 0..(9 * (B - 1)) /\ s.hi + high \in 0..(9 * (B - 1))
    BY <1>2, <1>3, <1>7
  <2>2. low + added = (s.lo + added) + carry
    BY <1>2, <1>3, <1>4, <1>7 DEF low
  <2>3. (s.hi + high) + ((s.lo + added) + carry) \div B \in 0..(9 * (B + 1))
    BY <1>4, <2>1, CarryBound
  <2> QED BY <1>1, <2>2, <2>3
<1>9. column \in 0..4 /\ Len(quotients) = column /\ quotients \in Seq(LimbValues) /\ phase = "eliminate"
  BY DEF Eliminate, IInv, PhaseHolds, TypesHold
<1>10. quotients' \in Seq(LimbValues) /\ Len(quotients') = column + 1
  BY <1>1, <1>6, <1>9, AppendProperties
<1>11. TypesHold'
  <2>1. column' \in Columns \cup {9} /\ carry' \in Nat
    BY <1>1, <1>2, <1>8, <1>9 DEF Columns
  <2> QED BY <1>1, <1>10, <2>1 DEF IInv, TypesHold
<1>12. ColumnsHold'
  BY <1>1, <1>2, <1>8 DEF IInv, ColumnsHold
<1>13. PhaseHolds'
  BY <1>1, <1>9, <1>10 DEF PhaseHolds
<1> QED BY <1>11, <1>12, <1>13 DEF IInv

\* What the last column carries is within a limb.
LEMMA SplitHolds == ASSUME IInv, Split PROVE IInv'
<1> DEFINE s   == WithMultiples(column)
           low == s.lo + carry
           up  == s.hi + low \div B
<1>1. /\ carry' = up
      /\ result' = [result EXCEPT ![column - 5] = low % B,
                                  ![4] = IF column = 8 THEN up ELSE @]
      /\ column' = column + 1
      /\ phase' = IF column = 8 THEN "subtract" ELSE "split"
      /\ UNCHANGED <<hash, half, columns, quotients, upper, rest, digits>>
  BY DEF Split
<1>2. B \in Nat /\ B > 11 /\ LimbValues = 0..(B - 1)
  BY RadixIsNat
<1>3. /\ s.lo \in 0..(8 * (B - 1)) /\ s.hi \in 0..(8 * (B - 1))
      /\ column = 8 => s.lo <= 2 * (B - 1) /\ s.hi + 12 <= B
  BY MultiplesBounds DEF Split
<1>4. carry \in 0..(9 * (B + 1))
  BY DEF IInv, TypesHold, ColumnsHold
<1> HIDE DEF s
<1>5. low \in Nat /\ low % B \in LimbValues
  <2>1. s.lo \in Nat /\ carry \in Nat
    BY <1>2, <1>3, <1>4
  <2>2. low \in Nat
    BY <2>1
  <2> HIDE DEF low
  <2> QED BY <1>2, <2>2
<1>6. s.lo \in 0..(9 * (B - 1)) /\ s.hi \in 0..(9 * (B - 1))
  BY <1>2, <1>3
<1>7. up \in 0..(9 * (B + 1)) /\ (s.lo <= 2 * (B - 1) => low \div B <= 11)
  BY <1>4, <1>6, CarryBound
<1>8. low \div B \in Nat
  BY <1>2, <1>5
<1> HIDE DEF low
<1>9. column = 8 => up \in LimbValues
  BY <1>2, <1>3, <1>7, <1>8
<1> HIDE DEF up
<1>10. column \in 5..8 /\ Len(quotients) = 5 /\ phase = "split" /\ result \in Limbs
  BY DEF Split, IInv, PhaseHolds, TypesHold
<1>11. result' \in Limbs
  <2>1. result[4] \in LimbValues
    BY <1>10 DEF Limbs, LimbIndices
  <2>2. (IF column = 8 THEN up ELSE result[4]) \in LimbValues
    BY <1>9, <2>1
  <2>3. column - 5 \in 0..3
    BY <1>10
  <2>4. DOMAIN result = LimbIndices
    BY <1>10 DEF Limbs
  <2>5. result' = [[result EXCEPT ![column - 5] = low % B]
                      EXCEPT ![4] = IF column = 8 THEN up ELSE result[4]]
    BY <1>1, <2>3, <2>4 DEF LimbIndices
  <2> QED BY <1>5, <1>10, <2>2, <2>3, <2>5 DEF Limbs
<1>12. TypesHold'
  <2>1. column' \in Columns \cup {9} /\ carry' \in Nat
    BY <1>1, <1>2, <1>7, <1>10 DEF Columns
  <2> QED BY <1>1, <1>11, <2>1 DEF IInv, TypesHold
<1>13. ColumnsHold'
  BY <1>1, <1>2, <1>7 DEF IInv, ColumnsHold
<1>14. PhaseHolds'
  BY <1>1, <1>10 DEF PhaseHolds
<1> QED BY <1>12, <1>13, <1>14 DEF IInv

LEMMA KeepUpperHolds == ASSUME IInv, KeepUpper PROVE IInv'
<1>1. /\ upper' = Subtracted(result, SCALAR_L) /\ result' = NoLimbs /\ half' = "lo"
      /\ phase' = "multiply" /\ columns' = NoColumns /\ column' = 0 /\ quotients' = << >>
      /\ carry' = 0 /\ UNCHANGED <<hash, rest>>
  BY DEF KeepUpper, Reset
<1>2. upper' \in Limbs
  BY <1>1, RadixIsNat, SumsAreLimbs DEF IInv, TypesHold
<1>3. 0 \in Columns /\ << >> \in Seq(LimbValues) /\ B \in Nat
  BY RadixIsNat DEF Columns
<1> QED BY <1>1, <1>2, <1>3, NoneAreLimbs DEF IInv, TypesHold, ColumnsHold, PhaseHolds

LEMMA AddHalvesHolds == ASSUME IInv, AddHalves PROVE IInv'
<1>1. /\ result' = Subtracted(Added(upper, Subtracted(result, SCALAR_L)), SCALAR_L)
      /\ upper' = NoLimbs
      /\ phase' = "recode" /\ columns' = NoColumns /\ column' = 0 /\ quotients' = << >>
      /\ carry' = 0 /\ UNCHANGED <<hash, half>>
  BY DEF AddHalves, Reset
<1>2. result' \in Limbs
  BY <1>1, RadixIsNat, SumsAreLimbs DEF IInv, TypesHold
<1>4. rest' \in Int
  BY <1>2, ValueIsInt DEF AddHalves
<1>3. 0 \in Columns /\ << >> \in Seq(LimbValues) /\ B \in Nat
  BY RadixIsNat DEF Columns
<1> QED BY <1>1, <1>2, <1>3, <1>4, NoneAreLimbs DEF IInv, TypesHold, ColumnsHold, PhaseHolds

LEMMA RecodeHolds == ASSUME IInv, Recode PROVE IInv'
<1> DEFINE byte == rest % 256
<1>1. /\ carry' = (byte + 8 * 16 + 8 + carry) \div 256
      /\ phase' \in {"recode", "done"} /\ rest' = rest \div 256
      /\ UNCHANGED <<hash, half, columns, column, quotients, result, upper>>
  BY DEF Recode
<1>2. byte \in 0..255
  BY DEF IInv, TypesHold
<1> HIDE DEF byte
<1>3. B \in Nat /\ carry \in 0..(9 * (B + 1))
  BY RadixIsNat DEF IInv, TypesHold, ColumnsHold
<1>4. carry' \in 0..(9 * (B + 1))
  BY <1>1, <1>2, <1>3
<1>5. rest' \in Int
  BY <1>1 DEF IInv, TypesHold
<1> QED BY <1>1, <1>3, <1>4, <1>5 DEF Recode, IInv, TypesHold, ColumnsHold, PhaseHolds

LEMMA AgainHolds == ASSUME IInv, NEW h \in Hashes, Again(h) PROVE IInv'
BY NoneAreLimbs DEF Again, IInv, TypesHold, ColumnsHold, PhaseHolds

LEMMA StutterHolds == ASSUME IInv, UNCHANGED vars PROVE IInv'
BY DEF vars, IInv, TypesHold, ColumnsHold, PhaseHolds

LEMMA IInvHolds == Spec => []IInv
<1>1. IInv /\ [Next]_vars => IInv'
  BY MultiplyHolds, EliminateHolds, SplitHolds, KeepUpperHolds, AddHalvesHolds, RecodeHolds,
     AgainHolds, StutterHolds DEF Next
<1> QED BY InitHolds, <1>1, PTL DEF Spec

-----------------------------------------------------------------------------
(***************************************************************************)
(* Values of limbs and of columns                                          *)
(***************************************************************************)

\* The powers of the radix
Power(c) == << 1, B, B * B, B * (B * B), B * (B * (B * B)), B * (B * (B * (B * B))) >>[c + 1]

LEMMA Powers ==
    /\ Power(0) = 1 /\ Power(1) = B /\ Power(2) = B * B /\ Power(3) = B * (B * B)
    /\ Power(4) = B * (B * (B * B)) /\ Power(5) = B * (B * (B * (B * B)))
    /\ \A c \in 0..5 : Power(c) \in Nat \ {0}
    /\ \A c \in 0..4 : Power(c + 1) = B * Power(c)
<1>1. B \in Nat \ {0}
  BY RadixIsNat
<1>2. /\ Power(0) = 1 /\ Power(1) = B /\ Power(2) = B * B /\ Power(3) = B * (B * B)
      /\ Power(4) = B * (B * (B * B)) /\ Power(5) = B * (B * (B * (B * B)))
  BY DEF Power
<1>3. \A p \in Nat \ {0} : B * p \in Nat \ {0}
  BY <1>1
<1>4. /\ Power(0) \in Nat \ {0} /\ Power(1) \in Nat \ {0} /\ Power(2) \in Nat \ {0}
      /\ Power(3) \in Nat \ {0} /\ Power(4) \in Nat \ {0} /\ Power(5) \in Nat \ {0}
  BY <1>1, <1>2, <1>3
<1>5. \A c \in 0..5 : c = 0 \/ c = 1 \/ c = 2 \/ c = 3 \/ c = 4 \/ c = 5
  OBVIOUS
<1>6. \A c \in 0..4 : Power(c + 1) = B * Power(c)
  BY <1>1, <1>2
<1> QED BY <1>2, <1>4, <1>5, <1>6

\* A limb and its product in two parts
LEMMA PartsMakeProduct ==
    ASSUME NEW a \in LimbValues, NEW b \in LimbValues
    PROVE  Low(a, b) + B * High(a, b) = a * b
<1>1. B \in Nat \ {0} /\ a \in 0..(B - 1) /\ b \in 0..(B - 1)
  BY RadixIsNat
<1>2. a % B = a /\ b % B = b
  BY <1>1
<1>3. a * b \in Int
  BY <1>1
<1>4. \A v \in Int : (v % B) + B * (v \div B) = v
  BY <1>1
<1> QED BY <1>2, <1>3, <1>4 DEF Low, High

LEMMA LimbsAre == ASSUME NEW a \in Limbs
                  PROVE  /\ a[0] \in 0..(B - 1) /\ a[1] \in 0..(B - 1) /\ a[2] \in 0..(B - 1)
                         /\ a[3] \in 0..(B - 1) /\ a[4] \in 0..(B - 1)
BY RadixIsNat DEF Limbs, LimbIndices

LEMMA LimbsAreInts == ASSUME NEW a \in Limbs
                      PROVE  a[0] \in Int /\ a[1] \in Int /\ a[2] \in Int /\ a[3] \in Int /\ a[4] \in Int
<1>1. \A x \in 0..(B - 1) : x \in Int
  BY RadixIsNat
<1> QED BY <1>1, LimbsAre

\* Five limbs are below the fifth power of the radix.
LEMMA ValueBelow == ASSUME NEW a \in Limbs
                    PROVE  Value(a) \in 0..(Power(5) - 1) /\ Value(a) < Power(4) * (a[4] + 1)
<1>1. B \in Nat \ {0}
  BY RadixIsNat
<1> DEFINE v3 == a[3] + B * a[4]
           v2 == a[2] + B * v3
           v1 == a[1] + B * v2
<1>2. ASSUME NEW x \in 0..(B - 1), NEW v \in Nat, NEW p \in Nat, v < p
      PROVE  x + B * v \in Nat /\ x + B * v < B * p
  <2>1. B * v <= B * (p - 1)
    BY <1>1, <1>2
  <2>2. B * (p - 1) = B * p - B /\ B * v \in Nat /\ B * p \in Nat
    BY <1>1
  <2> QED BY <1>1, <2>1, <2>2
<1>3. /\ a[0] \in 0..(B - 1) /\ a[1] \in 0..(B - 1) /\ a[2] \in 0..(B - 1)
      /\ a[3] \in 0..(B - 1) /\ a[4] \in Nat
  BY <1>1, LimbsAre
<1>10. ASSUME NEW m \in Nat, a[4] < m
       PROVE  Value(a) \in Nat /\ Value(a) < B * (B * (B * (B * m)))
  <2>1. v3 \in Nat /\ v3 < B * m /\ B * m \in Nat
    BY <1>1, <1>2, <1>3, <1>10
  <2> HIDE DEF v3
  <2>2. v2 \in Nat /\ v2 < B * (B * m) /\ B * (B * m) \in Nat
    BY <1>1, <1>2, <1>3, <2>1
  <2> HIDE DEF v2
  <2>3. v1 \in Nat /\ v1 < B * (B * (B * m)) /\ B * (B * (B * m)) \in Nat
    BY <1>1, <1>2, <1>3, <2>2
  <2>4. Value(a) = a[0] + B * v1
    BY DEF Value, v1, v2, v3
  <2> HIDE DEF v1
  <2> QED BY <1>1, <1>2, <1>3, <2>3, <2>4
<1> HIDE DEF v1, v2, v3
<1>4. Value(a) \in Nat /\ Value(a) < Power(5)
  <2>1. a[4] < B
    BY <1>1, LimbsAre
  <2> QED BY <1>1, <1>10, <2>1, Powers
<1>5. Value(a) < Power(4) * (a[4] + 1)
  <2>1. Value(a) < B * (B * (B * (B * (a[4] + 1))))
    BY <1>3, <1>10
  <2>2. B * (B * (B * (B * (a[4] + 1)))) = (B * (B * (B * B))) * (a[4] + 1)
    BY <1>1, <1>3
  <2> QED BY <2>1, <2>2, Powers
<1>6. Power(5) \in Nat
  BY Powers
<1> QED BY <1>4, <1>5, <1>6

\* The value of columns from c on
Above(f, c) ==
    LET t8 == f[8]
        t7 == f[7] + B * t8
        t6 == f[6] + B * t7
        t5 == f[5] + B * t6
        t4 == f[4] + B * t5
        t3 == f[3] + B * t4
        t2 == f[2] + B * t3
        t1 == f[1] + B * t2
        t0 == f[0] + B * t1
    IN  << t0, t1, t2, t3, t4, t5, t6, t7, t8, 0 >>[c + 1]

LEMMA AboveSteps ==
    ASSUME NEW f \in [Columns -> Int]
    PROVE  /\ Above(f, 9) = 0
           /\ \A c \in Columns : Above(f, c) = f[c] + B * Above(f, c + 1)
           /\ \A c \in 0..9 : Above(f, c) \in Int
<1>1. B \in Int
  BY RadixIsNat
<1>2. ASSUME NEW c \in Columns
      PROVE  c = 0 \/ c = 1 \/ c = 2 \/ c = 3 \/ c = 4 \/ c = 5 \/ c = 6 \/ c = 7 \/ c = 8
  BY DEF Columns
<1>3. Above(f, 9) = 0
  BY DEF Above
<1>4. f[8] \in Int
  BY DEF Columns
<1>5. /\ Above(f, 8) = f[8]                   /\ Above(f, 7) = f[7] + B * Above(f, 8)
      /\ Above(f, 6) = f[6] + B * Above(f, 7) /\ Above(f, 5) = f[5] + B * Above(f, 6)
      /\ Above(f, 4) = f[4] + B * Above(f, 5) /\ Above(f, 3) = f[3] + B * Above(f, 4)
      /\ Above(f, 2) = f[2] + B * Above(f, 3) /\ Above(f, 1) = f[1] + B * Above(f, 2)
      /\ Above(f, 0) = f[0] + B * Above(f, 1)
  <2> DEFINE t8 == f[8]
             t7 == f[7] + B * t8
             t6 == f[6] + B * t7
             t5 == f[5] + B * t6
             t4 == f[4] + B * t5
             t3 == f[3] + B * t4
             t2 == f[2] + B * t3
             t1 == f[1] + B * t2
             t0 == f[0] + B * t1
  <2>1. \A c : Above(f, c) = << t0, t1, t2, t3, t4, t5, t6, t7, t8, 0 >>[c + 1]
    BY Zenon DEF Above
  <2>2. /\ t7 = f[7] + B * t8 /\ t6 = f[6] + B * t7 /\ t5 = f[5] + B * t6 /\ t4 = f[4] + B * t5
        /\ t3 = f[3] + B * t4 /\ t2 = f[2] + B * t3 /\ t1 = f[1] + B * t2 /\ t0 = f[0] + B * t1
        /\ t8 = f[8]
    BY Zenon
  <2> HIDE DEF t0, t1, t2, t3, t4, t5, t6, t7, t8
  <2>3. /\ Above(f, 0) = t0 /\ Above(f, 1) = t1 /\ Above(f, 2) = t2 /\ Above(f, 3) = t3 /\ Above(f, 4) = t4
        /\ Above(f, 5) = t5 /\ Above(f, 6) = t6 /\ Above(f, 7) = t7 /\ Above(f, 8) = t8
    BY <2>1
  <2> QED BY <2>2, <2>3, Zenon
<1>6. Above(f, 8) = f[8] + B * Above(f, 9)
  BY <1>1, <1>3, <1>4, <1>5
<1>7. \A c \in Columns : Above(f, c) = f[c] + B * Above(f, c + 1)
  BY <1>2, <1>5, <1>6
<1>10. /\ f[0] \in Int /\ f[1] \in Int /\ f[2] \in Int /\ f[3] \in Int /\ f[4] \in Int
       /\ f[5] \in Int /\ f[6] \in Int /\ f[7] \in Int
  BY DEF Columns
<1>11. Above(f, 8) \in Int /\ Above(f, 7) \in Int /\ Above(f, 6) \in Int /\ Above(f, 5) \in Int
  <2>1. Above(f, 8) \in Int
    BY <1>4, <1>5
  <2>2. Above(f, 7) \in Int
    BY <1>1, <1>5, <1>10, <2>1
  <2>3. Above(f, 6) \in Int
    BY <1>1, <1>5, <1>10, <2>2
  <2> QED BY <1>1, <1>5, <1>10, <2>1, <2>2, <2>3
<1>12. /\ Above(f, 4) \in Int /\ Above(f, 3) \in Int /\ Above(f, 2) \in Int
       /\ Above(f, 1) \in Int /\ Above(f, 0) \in Int
  <2>1. Above(f, 4) \in Int
    BY <1>1, <1>5, <1>10, <1>11
  <2>2. Above(f, 3) \in Int
    BY <1>1, <1>5, <1>10, <2>1
  <2>3. Above(f, 2) \in Int
    BY <1>1, <1>5, <1>10, <2>2
  <2>4. Above(f, 1) \in Int
    BY <1>1, <1>5, <1>10, <2>3
  <2> QED BY <1>1, <1>5, <1>10, <2>1, <2>2, <2>3, <2>4
<1>13. \A c \in 0..9 : c \in Columns \/ c = 9
  BY DEF Columns
<1> QED BY <1>2, <1>3, <1>7, <1>11, <1>12, <1>13

\* A column in one number
Joined(cols) == [c \in Columns |-> cols[c].lo + B * cols[c].hi]

LEMMA TotalsAre ==
    ASSUME NEW f, NEW g, \A i \in LimbIndices : f[i] \in Int /\ g[i] \in Int
    PROVE  /\ Total(f) \in Int
           /\ Total(f) + B * Total(g) = Total([i \in LimbIndices |-> f[i] + B * g[i]])
<1>1. B \in Int
  BY RadixIsNat
<1>2. /\ f[0] \in Int /\ f[1] \in Int /\ f[2] \in Int /\ f[3] \in Int /\ f[4] \in Int
      /\ g[0] \in Int /\ g[1] \in Int /\ g[2] \in Int /\ g[3] \in Int /\ g[4] \in Int
  BY DEF LimbIndices
<1>3. Total([i \in LimbIndices |-> f[i] + B * g[i]])
        = (f[0] + B * g[0]) + (f[1] + B * g[1]) + (f[2] + B * g[2]) + (f[3] + B * g[3]) + (f[4] + B * g[4])
  BY DEF Total, LimbIndices
<1>4. (f[0] + f[1] + f[2] + f[3] + f[4]) + B * (g[0] + g[1] + g[2] + g[3] + g[4])
        = (f[0] + B * g[0]) + (f[1] + B * g[1]) + (f[2] + B * g[2]) + (f[3] + B * g[3]) + (f[4] + B * g[4])
  <2> DEFINE f0 == f[0]
             f1 == f[1]
             f2 == f[2]
             f3 == f[3]
             f4 == f[4]
             g0 == g[0]
             g1 == g[1]
             g2 == g[2]
             g3 == g[3]
             g4 == g[4]
  <2>1. /\ f0 \in Int /\ f1 \in Int /\ f2 \in Int /\ f3 \in Int /\ f4 \in Int
        /\ g0 \in Int /\ g1 \in Int /\ g2 \in Int /\ g3 \in Int /\ g4 \in Int
    BY <1>2
  <2> HIDE DEF f0, f1, f2, f3, f4, g0, g1, g2, g3, g4
  <2>2. (f0 + f1 + f2 + f3 + f4) + B * (g0 + g1 + g2 + g3 + g4)
          = (f0 + B * g0) + (f1 + B * g1) + (f2 + B * g2) + (f3 + B * g3) + (f4 + B * g4)
    BY <1>1, <2>1
  <2> QED BY <2>2 DEF f0, f1, f2, f3, f4, g0, g1, g2, g3, g4
<1>5. f[0] + f[1] + f[2] + f[3] + f[4] \in Int
  BY <1>2
<1>6. Total(f) = f[0] + f[1] + f[2] + f[3] + f[4] /\ Total(g) = g[0] + g[1] + g[2] + g[3] + g[4]
  BY DEF Total
<1> QED BY <1>3, <1>4, <1>5, <1>6, Zenon

\* The columns make up the product.
LEMMA ConvolvedIsProduct ==
    ASSUME NEW a \in Limbs, NEW b \in Limbs
    PROVE  /\ Joined(Convolved(a, b)) \in [Columns -> Int]
           /\ Above(Joined(Convolved(a, b)), 0) = Value(a) * Value(b)
<1> DEFINE In(c, i) == c - i \in LimbIndices
           low(c)   == [i \in LimbIndices |-> IF In(c, i) THEN Low(a[i], b[c - i]) ELSE 0]
           high(c)  == [i \in LimbIndices |-> IF In(c, i) THEN High(a[i], b[c - i]) ELSE 0]
           whole(c) == [i \in LimbIndices |-> IF In(c, i) THEN a[i] * b[c - i] ELSE 0]
           f == Joined(Convolved(a, b))
<1>1. B \in Nat \ {0} /\ LimbValues = 0..(B - 1)
  BY RadixIsNat
<1>2. ASSUME NEW c \in Columns, NEW i \in LimbIndices
      PROVE  low(c)[i] \in Int /\ high(c)[i] \in Int /\ low(c)[i] + B * high(c)[i] = whole(c)[i]
  <2>1. CASE In(c, i)
    <3>1. a[i] \in LimbValues /\ b[c - i] \in LimbValues
      BY <2>1 DEF Limbs
    <3>2. a[i] \in Int /\ b[c - i] \in Int
      BY <1>1, <3>1
    <3>3. /\ Low(a[i], b[c - i]) \in 0..(B - 1) /\ High(a[i], b[c - i]) \in 0..(B - 1)
          /\ Low(a[i], b[c - i]) + B * High(a[i], b[c - i]) = a[i] * b[c - i]
      BY <3>1, <3>2, Parts, PartsMakeProduct
    <3>4. low(c)[i] = Low(a[i], b[c - i]) /\ high(c)[i] = High(a[i], b[c - i]) /\ whole(c)[i] = a[i] * b[c - i]
      BY <2>1
    <3> HIDE DEF low, high, whole
    <3> QED BY <1>1, <3>3, <3>4
  <2>2. CASE ~In(c, i)
    <3>1. low(c)[i] = 0 /\ high(c)[i] = 0 /\ whole(c)[i] = 0
      BY <2>2
    <3> QED BY <1>1, <3>1
  <2> QED BY <2>1, <2>2
<1>3. \A c \in Columns : f[c] = Total(low(c)) + B * Total(high(c))
  BY DEF Convolved, Joined
<1>4. ASSUME NEW c \in Columns PROVE f[c] = Total(whole(c))
  <2>1. [i \in LimbIndices |-> low(c)[i] + B * high(c)[i]] = [i \in LimbIndices |-> whole(c)[i]]
    BY <1>2
  <2>2. whole(c) = [i \in LimbIndices |-> whole(c)[i]]
    OBVIOUS
  <2> HIDE DEF low, high, whole, f
  <2>3. Total(low(c)) + B * Total(high(c)) = Total([i \in LimbIndices |-> low(c)[i] + B * high(c)[i]])
    BY <1>2, TotalsAre
  <2> QED BY <1>3, <2>1, <2>2, <2>3
<1>5. /\ a[0] \in Int /\ a[1] \in Int /\ a[2] \in Int /\ a[3] \in Int /\ a[4] \in Int
      /\ b[0] \in Int /\ b[1] \in Int /\ b[2] \in Int /\ b[3] \in Int /\ b[4] \in Int
  BY LimbsAreInts
<1>6. ASSUME NEW c \in Columns PROVE f[c] = whole(c)[0] + whole(c)[1] + whole(c)[2] + whole(c)[3] + whole(c)[4]
  BY <1>4 DEF Total
<1>7. /\ f[0] = a[0] * b[0]
      /\ f[1] = a[0] * b[1] + a[1] * b[0]
      /\ f[2] = a[0] * b[2] + a[1] * b[1] + a[2] * b[0]
      /\ f[3] = a[0] * b[3] + a[1] * b[2] + a[2] * b[1] + a[3] * b[0]
      /\ f[4] = a[0] * b[4] + a[1] * b[3] + a[2] * b[2] + a[3] * b[1] + a[4] * b[0]
      /\ f[5] = a[1] * b[4] + a[2] * b[3] + a[3] * b[2] + a[4] * b[1]
      /\ f[6] = a[2] * b[4] + a[3] * b[3] + a[4] * b[2]
      /\ f[7] = a[3] * b[4] + a[4] * b[3]
      /\ f[8] = a[4] * b[4]
  <2> HIDE DEF f
  <2>1. f[0] = a[0] * b[0]
    <3>3. 0 - 0 = 0 /\ 0 \in LimbIndices /\ \A i \in 1..4 : i \in LimbIndices /\ 0 - i \notin LimbIndices
      BY DEF LimbIndices
    <3>4. whole(0)[0] = a[0] * b[0]
      BY <3>3, Zenon
    <3>5. \A i \in 1..4 : whole(0)[i] = 0
      BY <3>3
    <3>1. /\ whole(0)[0] = a[0] * b[0] /\ whole(0)[1] = 0 /\ whole(0)[2] = 0
          /\ whole(0)[3] = 0 /\ whole(0)[4] = 0
      <4> HIDE DEF whole
      <4> QED BY <3>4, <3>5
    <3>2. a[0] * b[0] \in Int
      BY <1>5
    <3> HIDE DEF whole
    <3> QED BY <1>6, <3>1, <3>2 DEF Columns
  <2>2. f[1] = a[0] * b[1] + a[1] * b[0]
    BY <1>5, <1>6 DEF Columns, LimbIndices
  <2>3. f[2] = a[0] * b[2] + a[1] * b[1] + a[2] * b[0]
    BY <1>5, <1>6 DEF Columns, LimbIndices
  <2>4. f[3] = a[0] * b[3] + a[1] * b[2] + a[2] * b[1] + a[3] * b[0]
    BY <1>5, <1>6 DEF Columns, LimbIndices
  <2>5. f[4] = a[0] * b[4] + a[1] * b[3] + a[2] * b[2] + a[3] * b[1] + a[4] * b[0]
    BY <1>5, <1>6 DEF Columns, LimbIndices
  <2>6. f[5] = a[1] * b[4] + a[2] * b[3] + a[3] * b[2] + a[4] * b[1]
    BY <1>5, <1>6 DEF Columns, LimbIndices
  <2>7. f[6] = a[2] * b[4] + a[3] * b[3] + a[4] * b[2]
    BY <1>5, <1>6 DEF Columns, LimbIndices
  <2>8. f[7] = a[3] * b[4] + a[4] * b[3]
    BY <1>5, <1>6 DEF Columns, LimbIndices
  <2>9. f[8] = a[4] * b[4]
    BY <1>5, <1>6 DEF Columns, LimbIndices
  <2> QED BY <2>1, <2>2, <2>3, <2>4, <2>5, <2>6, <2>7, <2>8, <2>9
<1>8. f \in [Columns -> Int]
  <2>1. f = [c \in Columns |-> f[c]]
    BY DEF Joined
  <2>2. ASSUME NEW c \in Columns PROVE f[c] \in Int
    <3>1. \A i \in LimbIndices : whole(c)[i] \in Int
      BY <1>1, <1>2
    <3> HIDE DEF whole, f
    <3> QED BY <1>4, <3>1, TotalsAre
  <2> HIDE DEF f
  <2> QED BY <2>1, <2>2
<1> HIDE DEF f
<1>9. Above(f, 0) = f[0] + B * (f[1] + B * (f[2] + B * (f[3] + B * (f[4] + B * (f[5] + B * (f[6] + B * (f[7] + B * f[8])))))))
  BY DEF Above
<1>10. Value(a) * Value(b) = f[0] + B * (f[1] + B * (f[2] + B * (f[3] + B * (f[4] + B * (f[5] + B * (f[6] + B * (f[7] + B * f[8])))))))
  <2> DEFINE a0 == a[0]
             a1 == a[1]
             a2 == a[2]
             a3 == a[3]
             a4 == a[4]
             b0 == b[0]
             b1 == b[1]
             b2 == b[2]
             b3 == b[3]
             b4 == b[4]
  <2>1. /\ a0 \in Int /\ a1 \in Int /\ a2 \in Int /\ a3 \in Int /\ a4 \in Int
        /\ b0 \in Int /\ b1 \in Int /\ b2 \in Int /\ b3 \in Int /\ b4 \in Int /\ B \in Int
    BY <1>1, <1>5
  <2>2. Value(a) * Value(b)
          = (a0 + B * (a1 + B * (a2 + B * (a3 + B * a4)))) * (b0 + B * (b1 + B * (b2 + B * (b3 + B * b4))))
    BY DEF Value
  <2>3. /\ f[0] = a0 * b0
        /\ f[1] = a0 * b1 + a1 * b0
        /\ f[2] = a0 * b2 + a1 * b1 + a2 * b0
        /\ f[3] = a0 * b3 + a1 * b2 + a2 * b1 + a3 * b0
        /\ f[4] = a0 * b4 + a1 * b3 + a2 * b2 + a3 * b1 + a4 * b0
        /\ f[5] = a1 * b4 + a2 * b3 + a3 * b2 + a4 * b1
        /\ f[6] = a2 * b4 + a3 * b3 + a4 * b2
        /\ f[7] = a3 * b4 + a4 * b3
        /\ f[8] = a4 * b4
    BY <1>7
  <2> HIDE DEF a0, a1, a2, a3, a4, b0, b1, b2, b3, b4
  <2>4. (a0 + B * (a1 + B * (a2 + B * (a3 + B * a4)))) * (b0 + B * (b1 + B * (b2 + B * (b3 + B * b4))))
          = a0 * b0 + B * ((a0 * b1 + a1 * b0) + B * ((a0 * b2 + a1 * b1 + a2 * b0)
              + B * ((a0 * b3 + a1 * b2 + a2 * b1 + a3 * b0)
              + B * ((a0 * b4 + a1 * b3 + a2 * b2 + a3 * b1 + a4 * b0)
              + B * ((a1 * b4 + a2 * b3 + a3 * b2 + a4 * b1) + B * ((a2 * b4 + a3 * b3 + a4 * b2)
              + B * ((a3 * b4 + a4 * b3) + B * (a4 * b4))))))))
    BY <2>1
  <2> QED BY <2>2, <2>3, <2>4, Zenon
<1> QED BY <1>8, <1>9, <1>10 DEF f

-----------------------------------------------------------------------------
(***************************************************************************)
(* Recursive functions                                                     *)
(***************************************************************************)

\* A set of natural numbers that is not empty has a least element.
LEMMA HasLeast ==
    ASSUME NEW T \in SUBSET Nat, T # {}
    PROVE  \E x \in T : \A y \in T : x <= y
<1>1. PICK x \in T : \A y \in T : ~ (<<y, x>> \in OpToRel(<, Nat))
  BY NatLessThanWellFounded, WFMin
<1>2. \A y \in T : ~ (y < x)
  BY <1>1 DEF OpToRel
<1> QED BY <1>2

\* The first i values of a recursion
Follows(f, i, first, step) == f[0] = first /\ \A j \in 1..i : f[j] = step[j][f[j - 1]]

\* A recursion whose steps stay in a set has a function into it.
LEMMA RecursionHasFunction ==
    ASSUME NEW V, NEW n \in Nat, NEW first \in V, NEW step \in [1..n -> [V -> V]]
    PROVE  \E f \in [0..n -> V] : Follows(f, n, first, step)
<1> DEFINE Good(i) == \E f \in [0..i -> V] : Follows(f, i, first, step)
           bad == {i \in 0..n : ~Good(i)}
<1>1. SUFFICES ASSUME bad # {} PROVE FALSE
  <2>1. n \in 0..n
    OBVIOUS
  <2> QED BY <2>1
<1>2. PICK i \in bad : \A k \in bad : i <= k
  <2>1. bad \in SUBSET Nat
    OBVIOUS
  <2> HIDE DEF bad
  <2> QED BY <1>1, <2>1, HasLeast
<1>3. i \in 0..n /\ ~Good(i)
  OBVIOUS
<1>4. i # 0
  <2>1. [j \in 0..0 |-> first] \in [0..0 -> V] /\ Follows([j \in 0..0 |-> first], 0, first, step)
    BY DEF Follows
  <2>2. Good(0)
    BY <2>1
  <2> QED BY <1>3, <2>2
<1>5. Good(i - 1)
  BY <1>2, <1>3, <1>4
<1>6. PICK f \in [0..(i - 1) -> V] : Follows(f, i - 1, first, step)
  BY <1>5
<1> DEFINE g == [j \in 0..i |-> IF j < i THEN f[j] ELSE step[i][f[i - 1]]]
<1>7. i - 1 \in 0..(i - 1) /\ step[i] \in [V -> V]
  BY <1>3, <1>4
<1>8. g \in [0..i -> V]
  BY <1>3, <1>6, <1>7
<1>9. g[0] = first
  BY <1>3, <1>4, <1>6 DEF Follows
<1>10. ASSUME NEW j \in 1..i PROVE g[j] = step[j][g[j - 1]]
  <2>1. g[j - 1] = f[j - 1]
    BY <1>3
  <2>2. CASE j < i
    <3>1. j \in 1..(i - 1) /\ g[j] = f[j]
      BY <1>3, <2>2
    <3>2. f[j] = step[j][f[j - 1]]
      <4> HIDE DEF g
      <4> QED BY <1>6, <3>1 DEF Follows
    <3> HIDE DEF g
    <3> QED BY <2>1, <3>1, <3>2
  <2>3. CASE j = i
    BY <1>3, <2>1, <2>3
  <2>4. j < i \/ j = i
    BY <1>3
  <2> HIDE DEF g
  <2> QED BY <2>2, <2>3, <2>4
<1>11. Good(i)
  <2> HIDE DEF g
  <2> QED BY <1>8, <1>9, <1>10 DEF Follows
<1> QED BY <1>3, <1>11

\* What holds of zero and of every number whose predecessor it holds of, up to
\* a bound, holds of all up to the bound.
LEMMA Climbs ==
    ASSUME NEW m \in Nat, NEW T, 0 \in T, \A j \in 1..m : j - 1 \in T => j \in T
    PROVE  \A j \in 0..m : j \in T
<1> DEFINE bad == {j \in 0..m : j \notin T}
<1>1. SUFFICES ASSUME bad # {} PROVE FALSE
  OBVIOUS
<1>2. PICK j \in bad : \A k \in bad : j <= k
  <2>1. bad \in SUBSET Nat
    OBVIOUS
  <2> HIDE DEF bad
  <2> QED BY <1>1, <2>1, HasLeast
<1>3. j \in 1..m /\ j \notin T
  OBVIOUS
<1>4. j - 1 \in T
  BY <1>2, <1>3
<1> QED BY <1>3, <1>4

LEMMA Weights == /\ Weight \in [0..DIGITS -> Nat \ {0}] /\ Weight[0] = 1
                 /\ \A i \in 1..DIGITS : Weight[i] = 16 * Weight[i - 1]
<1> DEFINE V == Nat \ {0}
           step == [j \in 1..DIGITS |-> [v \in V |-> 16 * v]]
           IsWeight(f) == f = [i \in 0..DIGITS |-> IF i = 0 THEN 1 ELSE 16 * f[i - 1]]
<1>1. DIGITS \in Nat /\ 1 \in V
  BY Radix16Assumption
<1>2. step \in [1..DIGITS -> [V -> V]]
  BY <1>1
<1>3. PICK f \in [0..DIGITS -> V] : Follows(f, DIGITS, 1, step)
  <2> HIDE DEF V, step
  <2> QED BY <1>1, <1>2, RecursionHasFunction
<1>4. ASSUME NEW i \in 0..DIGITS PROVE f[i] = IF i = 0 THEN 1 ELSE 16 * f[i - 1]
  <2>1. CASE i = 0
    BY <1>3, <2>1 DEF Follows
  <2>2. CASE i \in 1..DIGITS
    <3>1. f[i - 1] \in V
      BY <1>1, <1>3, <2>2
    <3>2. f[i] = step[i][f[i - 1]]
      <4> HIDE DEF step
      <4> QED BY <1>3, <2>2 DEF Follows
    <3> QED BY <1>1, <2>2, <3>1, <3>2
  <2> QED BY <1>1, <2>1, <2>2
<1>5. IsWeight(f)
  BY <1>3, <1>4
<1>6. IsWeight(Weight)
  BY <1>5, Zenon DEF Weight
<1>7. Weight[0] = 1 /\ \A i \in 1..DIGITS : Weight[i] = 16 * Weight[i - 1]
  BY <1>1, <1>6
<1> DEFINE T == {i \in 0..DIGITS : Weight[i] \in V}
<1>8. \A i \in 0..DIGITS : i \in T
  <2>1. 0 \in T
    BY <1>1, <1>7
  <2>2. \A i \in 1..DIGITS : i - 1 \in T => i \in T
    BY <1>1, <1>7
  <2> HIDE DEF T
  <2> QED BY <1>1, <2>1, <2>2, Climbs
<1>9. Weight = [i \in 0..DIGITS |-> Weight[i]]
  BY <1>6
<1> HIDE DEF IsWeight
<1> QED BY <1>7, <1>8, <1>9 DEF V

-----------------------------------------------------------------------------
(***************************************************************************)
(* Sums and differences                                                    *)
(***************************************************************************)

\* Limbs with the carries taken from each to the next, and what five of them leave
\* below the radix
Chained(x0, x1, x2, x3, x4) ==
    LET s1 == x1 + x0 \div B
        s2 == x2 + s1 \div B
        s3 == x3 + s2 \div B
        s4 == x4 + s3 \div B
    IN  << x0, s1, s2, s3, s4 >>
Masked(s) == [i \in LimbIndices |-> s[i + 1] % B]

\* Carries leave the value, but for the last one.
LEMMA CarriesKeepValue ==
    ASSUME NEW x0 \in Int, NEW x1 \in Int, NEW x2 \in Int, NEW x3 \in Int, NEW x4 \in Int
    PROVE  /\ Masked(Chained(x0, x1, x2, x3, x4)) \in Limbs
           /\ Value(Masked(Chained(x0, x1, x2, x3, x4))) + Power(5) * (Chained(x0, x1, x2, x3, x4)[5] \div B)
                = x0 + B * (x1 + B * (x2 + B * (x3 + B * x4)))
           /\ Chained(x0, x1, x2, x3, x4)[5] \in Int
<1> DEFINE s0 == x0
           s1 == x1 + s0 \div B
           s2 == x2 + s1 \div B
           s3 == x3 + s2 \div B
           s4 == x4 + s3 \div B
<1>10. Chained(x0, x1, x2, x3, x4) = << s0, s1, s2, s3, s4 >>
  BY DEF Chained
<1>11. s0 = x0 /\ s1 = x1 + s0 \div B /\ s2 = x2 + s1 \div B /\ s3 = x3 + s2 \div B /\ s4 = x4 + s3 \div B
  OBVIOUS
<1> HIDE DEF s0, s1, s2, s3, s4
<1> DEFINE f == [i \in LimbIndices |-> << s0, s1, s2, s3, s4 >>[i + 1] % B]
           m0 == s0 % B
           m1 == s1 % B
           m2 == s2 % B
           m3 == s3 % B
           m4 == s4 % B
           q0 == s0 \div B
           q1 == s1 \div B
           q2 == s2 \div B
           q3 == s3 \div B
           q4 == s4 \div B
<1>1. B \in Nat \ {0} /\ LimbValues = 0..(B - 1)
  BY RadixIsNat
<1>9. s0 \in Int /\ s1 \in Int /\ s2 \in Int /\ s3 \in Int /\ s4 \in Int
  <2>1. s0 \in Int
    BY <1>11
  <2>2. s1 \in Int
    BY <1>1, <1>11, <2>1
  <2>3. s2 \in Int
    BY <1>1, <1>11, <2>2
  <2>4. s3 \in Int
    BY <1>1, <1>11, <2>3
  <2> QED BY <1>1, <1>11, <2>1, <2>2, <2>3, <2>4
<1>2. \A s \in Int : s % B \in 0..(B - 1) /\ s \div B \in Int /\ (s % B) + B * (s \div B) = s
  BY <1>1
<1>3. /\ m0 \in 0..(B - 1) /\ m1 \in 0..(B - 1) /\ m2 \in 0..(B - 1) /\ m3 \in 0..(B - 1) /\ m4 \in 0..(B - 1)
      /\ q0 \in Int /\ q1 \in Int /\ q2 \in Int /\ q3 \in Int /\ q4 \in Int
      /\ s0 = m0 + B * q0 /\ s1 = m1 + B * q1 /\ s2 = m2 + B * q2 /\ s3 = m3 + B * q3 /\ s4 = m4 + B * q4
  BY <1>2, <1>9
<1>4. /\ x0 = m0 + B * q0 /\ x1 = m1 + B * q1 - q0 /\ x2 = m2 + B * q2 - q1
      /\ x3 = m3 + B * q3 - q2 /\ x4 = m4 + B * q4 - q3
  <2>1. s0 = x0 /\ s1 = x1 + q0 /\ s2 = x2 + q1 /\ s3 = x3 + q2 /\ s4 = x4 + q3
    BY <1>11
  <2> HIDE DEF m0, m1, m2, m3, m4, q0, q1, q2, q3, q4
  <2>2. B * q0 \in Int /\ B * q1 \in Int /\ B * q2 \in Int /\ B * q3 \in Int /\ B * q4 \in Int
    BY <1>1, <1>3
  <2> QED BY <1>1, <1>3, <2>1, <2>2
<1>5. f[0] = m0 /\ f[1] = m1 /\ f[2] = m2 /\ f[3] = m3 /\ f[4] = m4
  BY DEF LimbIndices
<1>6. f \in Limbs
  <2>1. \A i \in LimbIndices : i = 0 \/ i = 1 \/ i = 2 \/ i = 3 \/ i = 4
    BY DEF LimbIndices
  <2>2. f = [i \in LimbIndices |-> f[i]]
    OBVIOUS
  <2> HIDE DEF f, m0, m1, m2, m3, m4
  <2>3. \A i \in LimbIndices : f[i] \in LimbValues
    BY <1>1, <1>3, <1>5, <2>1
  <2> QED BY <2>2, <2>3 DEF Limbs
<1>7. Power(5) = B * (B * (B * (B * B)))
  BY Powers
<1> HIDE DEF f, m0, m1, m2, m3, m4
<1>8. Value(f) + Power(5) * q4 = x0 + B * (x1 + B * (x2 + B * (x3 + B * x4)))
  <2> HIDE DEF q0, q1, q2, q3, q4
  <2>1. Value(f) = m0 + B * (m1 + B * (m2 + B * (m3 + B * m4)))
    BY <1>5 DEF Value
  <2>2. x0 + B * (x1 + B * (x2 + B * (x3 + B * x4)))
          = (m0 + B * q0) + B * ((m1 + B * q1 - q0) + B * ((m2 + B * q2 - q1)
              + B * ((m3 + B * q3 - q2) + B * (m4 + B * q4 - q3))))
    BY <1>4, Zenon
  <2>3. (m0 + B * q0) + B * ((m1 + B * q1 - q0) + B * ((m2 + B * q2 - q1)
              + B * ((m3 + B * q3 - q2) + B * (m4 + B * q4 - q3))))
          = (m0 + B * (m1 + B * (m2 + B * (m3 + B * m4)))) + (B * (B * (B * (B * B)))) * q4
    <3>1. /\ m0 \in Int /\ m1 \in Int /\ m2 \in Int /\ m3 \in Int /\ m4 \in Int /\ B \in Int
          /\ q0 \in Int /\ q1 \in Int /\ q2 \in Int /\ q3 \in Int /\ q4 \in Int
      BY <1>1, <1>3
    <3> QED BY <3>1
  <2> QED BY <1>7, <2>1, <2>2, <2>3, Zenon
<1>12. Masked(Chained(x0, x1, x2, x3, x4)) = f /\ Chained(x0, x1, x2, x3, x4)[5] = s4
  BY <1>10 DEF Masked, f
<1> QED BY <1>6, <1>8, <1>9, <1>12

\* A sum is exact but for a carry out of five limbs.
LEMMA AddedIsSum ==
    ASSUME NEW a \in Limbs, NEW b \in Limbs
    PROVE  /\ Value(a) + Value(b) < Power(5) => Value(Added(a, b)) = Value(a) + Value(b)
           /\ Value(a) + Value(b) >= Power(5) => Value(Added(a, b)) = (Value(a) + Value(b)) - Power(5)
<1> DEFINE x0 == a[0] + b[0]
           x1 == a[1] + b[1]
           x2 == a[2] + b[2]
           x3 == a[3] + b[3]
           x4 == a[4] + b[4]
           s  == Chained(x0, x1, x2, x3, x4)
           f  == Masked(s)
<1>1. B \in Nat \ {0} /\ Power(5) \in Nat \ {0}
  BY RadixIsNat, Powers
<1>2. /\ a[0] \in Int /\ a[1] \in Int /\ a[2] \in Int /\ a[3] \in Int /\ a[4] \in Int
      /\ b[0] \in Int /\ b[1] \in Int /\ b[2] \in Int /\ b[3] \in Int /\ b[4] \in Int
  BY <1>1, LimbsAre
<1>3. Added(a, b) = f
  BY DEF Added, Chained, Masked
<1>5. x0 \in Int /\ x1 \in Int /\ x2 \in Int /\ x3 \in Int /\ x4 \in Int
  BY <1>2
<1> HIDE DEF x0, x1, x2, x3, x4
<1>7. /\ f \in Limbs /\ s[5] \in Int
      /\ Value(f) + Power(5) * (s[5] \div B) = x0 + B * (x1 + B * (x2 + B * (x3 + B * x4)))
  BY <1>5, CarriesKeepValue
<1> HIDE DEF s
<1>8. x0 + B * (x1 + B * (x2 + B * (x3 + B * x4))) = Value(a) + Value(b)
  <2> DEFINE a0 == a[0]
             a1 == a[1]
             a2 == a[2]
             a3 == a[3]
             a4 == a[4]
             b0 == b[0]
             b1 == b[1]
             b2 == b[2]
             b3 == b[3]
             b4 == b[4]
  <2>1. /\ a0 \in Int /\ a1 \in Int /\ a2 \in Int /\ a3 \in Int /\ a4 \in Int
        /\ b0 \in Int /\ b1 \in Int /\ b2 \in Int /\ b3 \in Int /\ b4 \in Int
    BY <1>2
  <2> HIDE DEF a0, a1, a2, a3, a4, b0, b1, b2, b3, b4
  <2>2. (a0 + b0) + B * ((a1 + b1) + B * ((a2 + b2) + B * ((a3 + b3) + B * (a4 + b4))))
          = (a0 + B * (a1 + B * (a2 + B * (a3 + B * a4)))) + (b0 + B * (b1 + B * (b2 + B * (b3 + B * b4))))
    BY <1>1, <2>1
  <2> QED BY <2>2 DEF Value, x0, x1, x2, x3, x4, a0, a1, a2, a3, a4, b0, b1, b2, b3, b4
<1> HIDE DEF f
<1>9. /\ Value(f) \in 0..(Power(5) - 1) /\ Value(a) \in 0..(Power(5) - 1)
      /\ Value(b) \in 0..(Power(5) - 1)
  BY <1>7, ValueBelow
<1> DEFINE q == s[5] \div B
           p == Power(5)
           u == Value(f)
           v == Value(a)
           w == Value(b)
<1>10. q \in Int /\ p \in Nat \ {0} /\ u \in 0..(p - 1) /\ v \in 0..(p - 1) /\ w \in 0..(p - 1)
       /\ u + p * q = v + w
  BY <1>1, <1>7, <1>8, <1>9
<1> HIDE DEF q, p, u, v, w
<1>11. q >= 2 => p * q >= p * 2
  BY <1>10
<1>12. q <= -1 => p * q <= -p
  BY <1>10
<1>13. q = 0 \/ q = 1
  BY <1>10, <1>11, <1>12
<1>14. p * 0 = 0 /\ p * 1 = p
  BY <1>10
<1>15. (v + w < p => u = v + w) /\ (v + w >= p => u = (v + w) - p)
  BY <1>10, <1>13, <1>14
<1> QED BY <1>3, <1>15 DEF u, v, w, p

LEMMA OrderBounds == /\ Order \in Nat \ {0} /\ 2 * Order < Power(5) /\ SCALAR_L \in Limbs /\ SCALAR_L[3] = 0
                     /\ Order < 2 * Weight[DIGITS - 1]
<1>1. B \in Nat \ {0} /\ SCALAR_L \in Limbs
  BY RadixIsNat
<1>2. Order \in Nat /\ Order < Power(4) * (SCALAR_L[4] + 1)
  <2>1. Power(5) \in Nat
    BY Powers
  <2> QED BY <1>1, <2>1, ValueBelow DEF Order
<1>3. SCALAR_L[0] # 0
  <2>1. SUFFICES ASSUME SCALAR_L[0] = 0 PROVE FALSE
    OBVIOUS
  <2>2. SCALAR_LFACTOR \in Int /\ B > 11
    BY RadixIsNat
  <2>3. SCALAR_LFACTOR * SCALAR_L[0] = 0
    BY <2>1, <2>2
  <2>4. (0 + 1) % B = 0
    BY <2>3, MontgomeryAssumption
  <2>5. 1 % B = 1 /\ 0 + 1 = 1
    BY <1>1, <2>2
  <2> QED BY <2>4, <2>5
<1>4. Order # 0
  <2>1. /\ SCALAR_L[0] \in Nat /\ SCALAR_L[1] \in Nat /\ SCALAR_L[2] \in Nat
        /\ SCALAR_L[3] \in Nat /\ SCALAR_L[4] \in Nat
    BY <1>1, LimbsAre
  <2>2. \A u \in Nat, v \in Nat : u + B * v \in Nat
    BY <1>1
  <2> DEFINE v1 == SCALAR_L[1] + B * (SCALAR_L[2] + B * (SCALAR_L[3] + B * SCALAR_L[4]))
  <2>3. v1 \in Nat
    BY <2>1, <2>2
  <2>4. Order = SCALAR_L[0] + B * v1
    BY DEF Order, Value
  <2> HIDE DEF v1
  <2>5. B * v1 \in Nat
    BY <1>1, <2>3
  <2> QED BY <1>3, <2>1, <2>4, <2>5
<1>5. 2 * Order < Power(5)
  <2> DEFINE p == Power(4)
             l == SCALAR_L[4]
  <2>1. p \in Nat \ {0} /\ Power(5) = B * p /\ l \in Nat
    BY <1>1, Powers, LimbsAre
  <2>2. l + l + 12 <= B
    BY LimbAssumption DEF LimbsFit, B
  <2>3. Order < p * (l + 1)
    BY <1>2
  <2> HIDE DEF p, l
  <2>4. p * (2 * l + 2) = 2 * (p * (l + 1)) /\ p * (l + 1) \in Nat /\ p * B \in Nat /\ p * B = B * p
    BY <1>1, <2>1
  <2>5. p * (2 * l + 2) <= p * B
    BY <1>1, <2>1, <2>2
  <2> QED BY <1>2, <2>1, <2>3, <2>4, <2>5
<1>6. Order < 2 * Weight[DIGITS - 1]
  <2>1. Weight[DIGITS - 1] \in Nat
    BY Radix16Assumption, Weights
  <2> QED BY <1>2, <2>1, MontgomeryAssumption DEF Scalars
<1> QED BY <1>1, <1>2, <1>4, <1>5, <1>6, MontgomeryAssumption

\* A difference that borrows is the order too small, and is given it back.
LEMMA SubtractedReduces ==
    ASSUME NEW a \in Limbs, Value(a) < 2 * Order
    PROVE  /\ Subtracted(a, SCALAR_L) \in Limbs
           /\ Value(Subtracted(a, SCALAR_L)) = Value(a) % Order
<1> DEFINE b == SCALAR_L
           Borrow(d) == IF d < 0 THEN 1 ELSE 0
           d0 == a[0] - b[0]
           d1 == a[1] - b[1] - Borrow(d0)
           d2 == a[2] - b[2] - Borrow(d1)
           d3 == a[3] - b[3] - Borrow(d2)
           d4 == a[4] - b[4] - Borrow(d3)
           x0 == a[0] - b[0]
           x1 == a[1] - b[1]
           x2 == a[2] - b[2]
           x3 == a[3] - b[3]
           x4 == a[4] - b[4]
           f == Masked(<< d0, d1, d2, d3, d4 >>)
           p == Power(5)
           v == Value(a)
           n == Order
           q == d4 \div B
<1>1. B \in Nat \ {0} /\ p \in Nat \ {0} /\ b \in Limbs
  BY RadixIsNat, Powers
<1>2. /\ a[0] \in 0..(B - 1) /\ a[1] \in 0..(B - 1) /\ a[2] \in 0..(B - 1)
      /\ a[3] \in 0..(B - 1) /\ a[4] \in 0..(B - 1)
      /\ b[0] \in 0..(B - 1) /\ b[1] \in 0..(B - 1) /\ b[2] \in 0..(B - 1)
      /\ b[3] \in 0..(B - 1) /\ b[4] \in 0..(B - 1)
  BY <1>1, LimbsAre
<1>3. Differences(a, b) = << d0, d1, d2, d3, d4 >>
  BY DEF Differences
<1>4. Subtracted(a, b) = IF d4 < 0 THEN Added(f, b) ELSE f
  BY <1>3 DEF Subtracted, Masked
<1>5. /\ x0 \in (-(B - 1))..(B - 1) /\ x1 \in (-(B - 1))..(B - 1) /\ x2 \in (-(B - 1))..(B - 1)
      /\ x3 \in (-(B - 1))..(B - 1) /\ x4 \in (-(B - 1))..(B - 1)
  BY <1>1, <1>2
<1>6. d0 = x0 /\ d1 = x1 - Borrow(d0) /\ d2 = x2 - Borrow(d1) /\ d3 = x3 - Borrow(d2) /\ d4 = x4 - Borrow(d3)
  OBVIOUS
<1> HIDE DEF x0, x1, x2, x3, x4, d0, d1, d2, d3, d4
<1>7. \A d \in (-B)..(B - 1) : d \div B = IF d < 0 THEN -1 ELSE 0
  BY <1>1
<1>8. /\ d0 \in (-B)..(B - 1) /\ d1 \in (-B)..(B - 1) /\ d2 \in (-B)..(B - 1)
      /\ d3 \in (-B)..(B - 1) /\ d4 \in (-B)..(B - 1)
  BY <1>1, <1>5, <1>6
<1>9. /\ d0 = x0 /\ d1 = x1 + d0 \div B /\ d2 = x2 + d1 \div B
      /\ d3 = x3 + d2 \div B /\ d4 = x4 + d3 \div B
  <2>1. \A d \in (-B)..(B - 1) : -Borrow(d) = d \div B
    BY <1>7
  <2>2. \A d \in (-B)..(B - 1) : Borrow(d) \in {0, 1}
    OBVIOUS
  <2> HIDE DEF Borrow
  <2> QED BY <1>5, <1>6, <1>8, <2>1, <2>2
<1>10. /\ f \in Limbs
       /\ Value(f) + p * q = x0 + B * (x1 + B * (x2 + B * (x3 + B * x4)))
  <2>1. x0 \in Int /\ x1 \in Int /\ x2 \in Int /\ x3 \in Int /\ x4 \in Int
    BY <1>5
  <2>2. Chained(x0, x1, x2, x3, x4) = << d0, d1, d2, d3, d4 >>
    <3> HIDE DEF Borrow
    <3> QED BY <1>9 DEF Chained
  <2>3. Chained(x0, x1, x2, x3, x4)[5] = d4
    BY <2>2
  <2> DEFINE c == Chained(x0, x1, x2, x3, x4)
  <2>4. Masked(c) \in Limbs /\ Value(Masked(c)) + Power(5) * (c[5] \div B) = x0 + B * (x1 + B * (x2 + B * (x3 + B * x4)))
    BY <2>1, CarriesKeepValue
  <2>5. Masked(c) = f /\ c[5] \div B = q
    BY <2>2, <2>3
  <2> HIDE DEF c, f, q
  <2> QED BY <2>4, <2>5
<1>11. x0 + B * (x1 + B * (x2 + B * (x3 + B * x4))) = v - n
  <2> DEFINE a0 == a[0]
             a1 == a[1]
             a2 == a[2]
             a3 == a[3]
             a4 == a[4]
             b0 == b[0]
             b1 == b[1]
             b2 == b[2]
             b3 == b[3]
             b4 == b[4]
  <2>1. /\ a0 \in Int /\ a1 \in Int /\ a2 \in Int /\ a3 \in Int /\ a4 \in Int
        /\ b0 \in Int /\ b1 \in Int /\ b2 \in Int /\ b3 \in Int /\ b4 \in Int
    BY <1>2
  <2>3. v = a0 + B * (a1 + B * (a2 + B * (a3 + B * a4))) /\ n = b0 + B * (b1 + B * (b2 + B * (b3 + B * b4)))
    BY DEF Value, Order
  <2>4. x0 = a0 - b0 /\ x1 = a1 - b1 /\ x2 = a2 - b2 /\ x3 = a3 - b3 /\ x4 = a4 - b4
    BY DEF x0, x1, x2, x3, x4
  <2> HIDE DEF a0, a1, a2, a3, a4, b0, b1, b2, b3, b4, v, n
  <2>2. (a0 - b0) + B * ((a1 - b1) + B * ((a2 - b2) + B * ((a3 - b3) + B * (a4 - b4))))
          = (a0 + B * (a1 + B * (a2 + B * (a3 + B * a4)))) - (b0 + B * (b1 + B * (b2 + B * (b3 + B * b4))))
    BY <1>1, <2>1
  <2> QED BY <2>2, <2>3, <2>4, Zenon
<1>12. /\ Value(f) \in 0..(p - 1) /\ v \in 0..(p - 1) /\ n \in Nat \ {0}
       /\ 2 * n < p /\ v < 2 * n
  <2> HIDE DEF f
  <2> QED BY <1>10, ValueBelow, OrderBounds
<1>13. q = IF d4 < 0 THEN -1 ELSE 0
  BY <1>7, <1>8
<1>14. Value(f) + p * q = v - n
  BY <1>10, <1>11
<1> HIDE DEF Borrow, f, p, v, n, q
<1>15. v % n = IF v < n THEN v ELSE v - n
  BY <1>12
<1>16. CASE d4 < 0
  <2>1. Value(f) = v - n + p
    BY <1>1, <1>12, <1>13, <1>14, <1>16
  <2>2. v < n
    BY <1>1, <1>12, <2>1
  <2>3. Value(f) + Value(b) = v + p
    BY <1>1, <1>12, <2>1 DEF n, Order
  <2>4. Added(f, b) \in Limbs
    BY <1>1, <1>10, SumsAreLimbs
  <2>5. Value(f) + Value(b) >= p => Value(Added(f, b)) = (Value(f) + Value(b)) - p
    BY <1>1, <1>10, AddedIsSum DEF p
  <2>7. Value(Added(f, b)) = v
    <3> DEFINE t == Value(f) + Value(b)
               w == Value(Added(f, b))
    <3>1. t = v + p
      BY <2>3
    <3>2. t >= p => w = t - p
      BY <2>5
    <3> HIDE DEF t, w
    <3>3. w = v
      BY <1>1, <1>12, <3>1, <3>2
    <3> QED BY <3>3 DEF w
  <2> QED BY <1>4, <1>15, <1>16, <2>2, <2>4, <2>7 DEF v, n
<1>17. CASE ~(d4 < 0)
  <2>1. Value(f) = v - n
    BY <1>1, <1>12, <1>13, <1>14, <1>17
  <2> QED BY <1>4, <1>10, <1>12, <1>15, <1>17, <2>1 DEF v, n
<1> QED BY <1>16, <1>17

-----------------------------------------------------------------------------
(***************************************************************************)
(* Numbers modulo the order                                                *)
(***************************************************************************)

Congruent(x, y) == \E k \in Int : x = y + k * Order

LEMMA CongruentIsEquivalence ==
    /\ \A x \in Int : Congruent(x, x)
    /\ \A x \in Int, y \in Int : Congruent(x, y) => Congruent(y, x)
    /\ \A x \in Int, y \in Int, z \in Int : Congruent(x, y) /\ Congruent(y, z) => Congruent(x, z)
<1> DEFINE n == Order
<1>1. n \in Int
  BY OrderBounds
<1>2. \A x, y : Congruent(x, y) <=> \E k \in Int : x = y + k * n
  BY DEF Congruent
<1> HIDE DEF n
<1>3. ASSUME NEW x \in Int PROVE Congruent(x, x)
  <2>1. x = x + 0 * n
    BY <1>1
  <2> QED BY <1>2, <2>1
<1>4. ASSUME NEW x \in Int, NEW y \in Int, Congruent(x, y) PROVE Congruent(y, x)
  <2>1. PICK k \in Int : x = y + k * n
    BY <1>2, <1>4
  <2>2. y = x + (-k) * n
    BY <1>1, <2>1
  <2>3. -k \in Int
    OBVIOUS
  <2> QED BY <1>2, <2>2, <2>3
<1>5. ASSUME NEW x \in Int, NEW y \in Int, NEW z \in Int, Congruent(x, y), Congruent(y, z)
      PROVE  Congruent(x, z)
  <2>1. PICK k \in Int : x = y + k * n
    BY <1>2, <1>5
  <2>2. PICK l \in Int : y = z + l * n
    BY <1>2, <1>5
  <2>3. x = z + (k + l) * n
    BY <1>1, <2>1, <2>2
  <2>4. k + l \in Int
    OBVIOUS
  <2> QED BY <1>2, <2>3, <2>4
<1> QED BY <1>3, <1>4, <1>5

LEMMA CongruentKept ==
    ASSUME NEW x \in Int, NEW y \in Int, NEW z \in Int, Congruent(x, y)
    PROVE  Congruent(x * z, y * z) /\ Congruent(x + z, y + z)
<1> DEFINE n == Order
<1>1. n \in Int
  BY OrderBounds
<1>2. \A u, v : Congruent(u, v) <=> \E k \in Int : u = v + k * n
  BY DEF Congruent
<1> HIDE DEF n
<1>3. PICK k \in Int : x = y + k * n
  BY <1>2
<1>4. x * z = y * z + (k * z) * n /\ x + z = (y + z) + k * n
  BY <1>1, <1>3
<1>5. k * z \in Int
  OBVIOUS
<1> QED BY <1>2, <1>4, <1>5

\* A number and what is left of it by the order
LEMMA LeftIsCongruent ==
    ASSUME NEW x \in Int
    PROVE  x % Order \in 0..(Order - 1) /\ Congruent(x % Order, x)
<1> DEFINE n == Order
<1>1. n \in Nat \ {0}
  BY OrderBounds
<1>2. \A u, v : Congruent(u, v) <=> \E k \in Int : u = v + k * n
  BY DEF Congruent
<1> HIDE DEF n
<1>3. x % n \in 0..(n - 1) /\ x \div n \in Int /\ x % n = x + (-(x \div n)) * n /\ -(x \div n) \in Int
  BY <1>1
<1>4. Congruent(x % n, x)
  BY <1>2, <1>3
<1> QED BY <1>3, <1>4 DEF n

\* Numbers below the order are congruent only to themselves.
LEMMA CongruentBelow ==
    ASSUME NEW x \in 0..(Order - 1), NEW y \in 0..(Order - 1), Congruent(x, y)
    PROVE  x = y
<1> DEFINE n == Order
<1>1. n \in Nat \ {0} /\ x \in 0..(n - 1) /\ y \in 0..(n - 1)
  BY OrderBounds
<1>2. PICK k \in Int : x = y + k * n
  BY DEF Congruent
<1> HIDE DEF n
<1>3. k >= 1 => k * n >= n
  BY <1>1
<1>4. k <= -1 => k * n <= -n
  BY <1>1
<1>5. k * n \in Int
  BY <1>1
<1>6. k = 0
  BY <1>1, <1>2, <1>3, <1>4, <1>5
<1>7. 0 * n = 0
  BY <1>1
<1> QED BY <1>1, <1>2, <1>6, <1>7

\* The radix has an inverse: the factor of Montgomery's method says which.
LEMMA RadixCancels ==
    ASSUME NEW x \in Int, NEW y \in Int, Congruent(B * x, B * y)
    PROVE  Congruent(x, y)
<1> DEFINE n == Order
           f == SCALAR_LFACTOR
           l == SCALAR_L[0]
           u == SCALAR_L[1] + B * (SCALAR_L[2] + B * (SCALAR_L[3] + B * SCALAR_L[4]))
           t == (f * l + 1) \div B
<1>1. B \in Nat \ {0} /\ f \in Int /\ l \in Int /\ n \in Int
  <2>1. B \in Nat \ {0} /\ f \in Int
    BY RadixIsNat
  <2>2. l \in Int
    BY OrderBounds, LimbsAreInts
  <2>3. n \in Int
    BY OrderBounds
  <2> QED BY <2>1, <2>2, <2>3
<1>2. u \in Int
  <2>1. /\ SCALAR_L[1] \in Int /\ SCALAR_L[2] \in Int /\ SCALAR_L[3] \in Int /\ SCALAR_L[4] \in Int
    BY <1>1, OrderBounds, LimbsAre
  <2> QED BY <1>1, <2>1
<1>3. n = l + B * u
  BY DEF Order, Value
<1>4. (f * l + 1) % B = 0
  BY MontgomeryAssumption
<1> HIDE DEF f, l, n, u
<1>5. t \in Int /\ f * l + 1 = B * t
  <2>1. f * l + 1 \in Int
    BY <1>1
  <2>2. \A v \in Int : v % B = 0 => v \div B \in Int /\ v = B * (v \div B)
    BY <1>1
  <2> QED BY <1>4, <2>1, <2>2
<1> HIDE DEF t
<1> DEFINE m == t + f * u
<1>6. m \in Int /\ B * m = 1 + f * n
  <2>1. B * (t + f * u) = B * t + f * (B * u)
    BY <1>1, <1>2, <1>5
  <2>2. f * n = f * l + f * (B * u)
    BY <1>1, <1>2, <1>3
  <2>3. f * l \in Int /\ f * (B * u) \in Int /\ B * t \in Int
    BY <1>1, <1>2, <1>5
  <2>4. m \in Int
    BY <1>1, <1>2, <1>5
  <2> QED BY <1>5, <2>1, <2>2, <2>3, <2>4
<1> HIDE DEF m
<1>7. PICK k \in Int : B * x = B * y + k * n
  BY DEF Congruent, n
<1> DEFINE d == x - y
<1>8. d \in Int /\ B * d = k * n
  BY <1>1, <1>7
<1> HIDE DEF d
<1>9. d = (m * k - d * f) * n
  <2>1. m * (B * d) = m * (k * n)
    BY <1>8, Zenon
  <2>2. m * (B * d) = (B * m) * d
    BY <1>1, <1>6, <1>8
  <2>3. (1 + f * n) * d = d + (d * f) * n
    BY <1>1, <1>8
  <2>4. m * (k * n) = (m * k) * n
    BY <1>1, <1>6
  <2>5. d + (d * f) * n = (m * k) * n
    BY <1>6, <2>1, <2>2, <2>3, <2>4, Zenon
  <2>6. (m * k - d * f) * n = (m * k) * n - (d * f) * n /\ (d * f) * n \in Int /\ (m * k) * n \in Int
    BY <1>1, <1>6, <1>8
  <2> QED BY <1>8, <2>5, <2>6
<1>10. m * k - d * f \in Int
  BY <1>1, <1>6, <1>8
<1>11. x = y + (m * k - d * f) * n
  <2> DEFINE e == (m * k - d * f) * n
  <2>1. x - y = e
    BY <1>9 DEF d
  <2>2. e \in Int
    BY <1>8, <1>9
  <2> HIDE DEF e
  <2>3. x = y + e
    BY <2>1, <2>2
  <2> QED BY <2>3 DEF e
<1> QED BY <1>10, <1>11 DEF Congruent, n

\* Nor does a limb's shift of all five lose anything.
LEMMA PowerCancels ==
    ASSUME NEW x \in Int, NEW y \in Int, Congruent(Power(5) * x, Power(5) * y)
    PROVE  Congruent(x, y)
<1>1. B \in Int
  BY RadixIsNat
<1>2. \A v \in Int : B * v \in Int
  BY <1>1
<1>3. \A v \in Int : Power(5) * v = B * (B * (B * (B * (B * v))))
  BY <1>1, Powers
<1>4. Congruent(B * (B * (B * (B * (B * x)))), B * (B * (B * (B * (B * y)))))
  BY <1>3
<1>5. /\ B * x \in Int /\ B * (B * x) \in Int /\ B * (B * (B * x)) \in Int /\ B * (B * (B * (B * x))) \in Int
      /\ B * y \in Int /\ B * (B * y) \in Int /\ B * (B * (B * y)) \in Int /\ B * (B * (B * (B * y))) \in Int
  BY <1>2, Zenon
<1>6. Congruent(B * (B * (B * (B * x))), B * (B * (B * (B * y))))
  BY <1>4, <1>5, RadixCancels
<1>7. Congruent(B * (B * (B * x)), B * (B * (B * y)))
  BY <1>5, <1>6, RadixCancels
<1>8. Congruent(B * (B * x), B * (B * y))
  BY <1>5, <1>7, RadixCancels
<1>9. Congruent(B * x, B * y)
  BY <1>5, <1>8, RadixCancels
<1> QED BY <1>5, <1>9, RadixCancels

\* One limb read, of a value and of what the order leaves of it
LEMMA ReadKeeps ==
    ASSUME NEW x \in Int, NEW y \in Int, NEW z \in Int, Congruent(x, y)
    PROVE  /\ (x * B + z) % Order \in 0..(Order - 1)
           /\ Congruent((x * B + z) % Order, y * B + z)
<1>1. B \in Int /\ Order \in Nat \ {0}
  BY RadixIsNat, OrderBounds
<1>2. x * B \in Int /\ y * B \in Int /\ x * B + z \in Int /\ y * B + z \in Int
  BY <1>1
<1>3. Congruent(x * B + z, y * B + z)
  BY <1>1, <1>2, CongruentKept
<1>4. (x * B + z) % Order \in 0..(Order - 1) /\ Congruent((x * B + z) % Order, x * B + z)
  BY <1>2, LeftIsCongruent
<1>5. (x * B + z) % Order \in Int
  BY <1>1, <1>4
<1> QED BY <1>2, <1>3, <1>4, <1>5, CongruentIsEquivalence

LEMMA ResidueIs ==
    ASSUME NEW a \in Limbs
    PROVE  Residue(a) \in 0..(Order - 1) /\ Congruent(Residue(a), Value(a))
<1> DEFINE V == Int
           step == [j \in 1..5 |-> [u \in V |-> (u * B + a[5 - j]) % Order]]
           Reads(f) == f = [n \in 0..5 |-> IF n = 0 THEN 0 ELSE (f[n - 1] * B + a[5 - n]) % Order]
           r == CHOOSE f : Reads(f)
<1>1. B \in Int /\ Order \in Nat \ {0}
  BY RadixIsNat, OrderBounds
<1>2. a[0] \in Int /\ a[1] \in Int /\ a[2] \in Int /\ a[3] \in Int /\ a[4] \in Int
  BY <1>1, LimbsAre
<1>3. \A j \in 1..5 : a[5 - j] \in Int
  <2>1. \A j \in 1..5 : 5 - j \in LimbIndices
    BY DEF LimbIndices
  <2>2. \A i \in LimbIndices : a[i] \in Int
    BY RadixIsNat DEF Limbs
  <2> QED BY <2>1, <2>2
<1>4. \E f : Reads(f)
  <2>1. step \in [1..5 -> [V -> V]]
    <3>1. \A j \in 1..5, u \in V : (u * B + a[5 - j]) % Order \in V
      <4>1. \A u \in Int, z \in Int : (u * B + z) % Order \in Int
        BY <1>1
      <4> QED BY <1>3, <4>1
    <3> QED BY <3>1
  <2>2. PICK f \in [0..5 -> V] : Follows(f, 5, 0, step)
    <3> HIDE DEF V, step
    <3>1. 0 \in V
      BY DEF V
    <3> QED BY <2>1, <3>1, RecursionHasFunction
  <2>3. ASSUME NEW n \in 0..5 PROVE f[n] = IF n = 0 THEN 0 ELSE (f[n - 1] * B + a[5 - n]) % Order
    <3>1. CASE n = 0
      BY <2>2, <3>1 DEF Follows
    <3>2. CASE n \in 1..5
      <4>1. f[n] = step[n][f[n - 1]]
        <5> HIDE DEF step
        <5> QED BY <2>2, <3>2 DEF Follows
      <4>2. f[n - 1] \in V
        BY <2>2, <3>2
      <4> QED BY <3>2, <4>1, <4>2
    <3> QED BY <3>1, <3>2
  <2> QED BY <2>2, <2>3
<1>5. Reads(r)
  <2> HIDE DEF Reads
  <2> QED BY <1>4
<1>6. Residue(a) = r[5]
  BY Zenon DEF Residue
<1> HIDE DEF r
<1>7. /\ r[0] = 0
      /\ r[1] = (r[0] * B + a[4]) % Order
      /\ r[2] = (r[1] * B + a[3]) % Order
      /\ r[3] = (r[2] * B + a[2]) % Order
      /\ r[4] = (r[3] * B + a[1]) % Order
      /\ r[5] = (r[4] * B + a[0]) % Order
  BY <1>5
<1>8. \A x \in Int, y \in Int, z \in Int : Congruent(x, y) =>
        (x * B + z) % Order \in 0..(Order - 1) /\ Congruent((x * B + z) % Order, y * B + z)
  BY ReadKeeps
<1>9. \A x \in 0..(Order - 1) : x \in Int
  BY <1>1
<1>10. \A x \in Int, z \in Int : x * B + z \in Int
  BY <1>1
<1> HIDE DEF V, step, Reads
<1> DEFINE a0 == a[0]
           a1 == a[1]
           a2 == a[2]
           a3 == a[3]
           a4 == a[4]
<1>11. a0 \in Int /\ a1 \in Int /\ a2 \in Int /\ a3 \in Int /\ a4 \in Int
  BY <1>2
<1>12. /\ r[1] = (0 * B + a4) % Order /\ r[2] = (r[1] * B + a3) % Order /\ r[3] = (r[2] * B + a2) % Order
       /\ r[4] = (r[3] * B + a1) % Order /\ r[5] = (r[4] * B + a0) % Order
  BY <1>7
<1>13. Value(a) = a0 + B * (a1 + B * (a2 + B * (a3 + B * a4)))
  BY DEF Value
<1> HIDE DEF a0, a1, a2, a3, a4, r
<1> DEFINE v4 == 0 * B + a4
           v3 == v4 * B + a3
           v2 == v3 * B + a2
           v1 == v2 * B + a1
           v0 == v1 * B + a0
<1>14. \A u, x, y, z : Congruent(x, y) /\ x \in Int /\ y \in Int /\ z \in Int /\ u = (x * B + z) % Order
                       => /\ y * B + z \in Int /\ u \in Int /\ Congruent(u, y * B + z)
                          /\ u \in 0..(Order - 1)
  BY <1>8, <1>9, <1>10
<1>15. v4 \in Int /\ r[1] \in Int /\ Congruent(r[1], v4)
  <2>1. 0 \in Int /\ Congruent(0, 0)
    BY CongruentIsEquivalence
  <2> QED BY <1>11, <1>12, <1>14, <2>1, Zenon
<1>16. v3 \in Int /\ r[2] \in Int /\ Congruent(r[2], v3)
  <2>1. a3 \in Int /\ r[2] = (r[1] * B + a3) % Order
    BY <1>11, <1>12
  <2> HIDE DEF v4
  <2> QED BY <1>14, <1>15, <2>1, Zenon
<1>17. v2 \in Int /\ r[3] \in Int /\ Congruent(r[3], v2)
  <2>1. a2 \in Int /\ r[3] = (r[2] * B + a2) % Order
    BY <1>11, <1>12
  <2> HIDE DEF v3
  <2> QED BY <1>14, <1>16, <2>1, Zenon
<1>18. v1 \in Int /\ r[4] \in Int /\ Congruent(r[4], v1)
  <2>1. a1 \in Int /\ r[4] = (r[3] * B + a1) % Order
    BY <1>11, <1>12
  <2> HIDE DEF v2
  <2> QED BY <1>14, <1>17, <2>1, Zenon
<1>19. r[5] \in 0..(Order - 1) /\ Congruent(r[5], v0)
  <2>1. a0 \in Int /\ r[5] = (r[4] * B + a0) % Order
    BY <1>11, <1>12
  <2> HIDE DEF v1
  <2> QED BY <1>14, <1>18, <2>1, Zenon
<1>20. a0 + B * (a1 + B * (a2 + B * (a3 + B * a4)))
         = ((((0 * B + a4) * B + a3) * B + a2) * B + a1) * B + a0
  BY <1>1, <1>11
<1> QED BY <1>6, <1>13, <1>19, <1>20

LEMMA TimesRIs ==
    ASSUME NEW v \in Int
    PROVE  TimesR(v) \in 0..(Order - 1) /\ Congruent(TimesR(v), v * Power(5))
<1> DEFINE V == Int
           step == [j \in 1..5 |-> [u \in V |-> (u * B) % Order]]
           Times(f) == f = [n \in 0..5 |-> IF n = 0 THEN v ELSE (f[n - 1] * B) % Order]
           r == CHOOSE f : Times(f)
<1>1. B \in Int /\ Order \in Nat \ {0}
  BY RadixIsNat, OrderBounds
<1>4. \E f : Times(f)
  <2>1. step \in [1..5 -> [V -> V]]
    <3>1. \A u \in Int : (u * B) % Order \in Int
      BY <1>1
    <3> QED BY <3>1
  <2>2. PICK f \in [0..5 -> V] : Follows(f, 5, v, step)
    <3> HIDE DEF step
    <3> QED BY <2>1, RecursionHasFunction
  <2>3. ASSUME NEW n \in 0..5 PROVE f[n] = IF n = 0 THEN v ELSE (f[n - 1] * B) % Order
    <3>1. CASE n = 0
      BY <2>2, <3>1 DEF Follows
    <3>2. CASE n \in 1..5
      <4>1. f[n] = step[n][f[n - 1]]
        <5> HIDE DEF step
        <5> QED BY <2>2, <3>2 DEF Follows
      <4>2. f[n - 1] \in V
        BY <2>2, <3>2
      <4> QED BY <3>2, <4>1, <4>2
    <3> QED BY <3>1, <3>2
  <2> QED BY <2>2, <2>3
<1>5. Times(r)
  <2> HIDE DEF Times
  <2> QED BY <1>4, Zenon
<1>6. TimesR(v) = r[5]
  BY Zenon DEF TimesR
<1> HIDE DEF r
<1>7. /\ r[0] = v
      /\ r[1] = (r[0] * B) % Order
      /\ r[2] = (r[1] * B) % Order
      /\ r[3] = (r[2] * B) % Order
      /\ r[4] = (r[3] * B) % Order
      /\ r[5] = (r[4] * B) % Order
  BY <1>5
<1>8. \A x \in Int, y \in Int : Congruent(x, y) =>
        (x * B) % Order \in 0..(Order - 1) /\ Congruent((x * B) % Order, y * B)
  <2>1. ASSUME NEW x \in Int, NEW y \in Int, Congruent(x, y)
        PROVE  (x * B) % Order \in 0..(Order - 1) /\ Congruent((x * B) % Order, y * B)
    <3>1. x * B + 0 = x * B /\ y * B + 0 = y * B
      BY <1>1
    <3> QED BY <2>1, <3>1, ReadKeeps
  <2> QED BY <2>1
<1>9. \A x \in 0..(Order - 1) : x \in Int
  BY <1>1
<1>10. \A x \in Int : x * B \in Int
  BY <1>1
<1>11. Congruent(r[1], v * B) /\ r[1] \in Int /\ v * B \in Int
  BY <1>7, <1>8, <1>9, <1>10, CongruentIsEquivalence
<1>12. Congruent(r[2], (v * B) * B) /\ r[2] \in Int /\ (v * B) * B \in Int
  BY <1>7, <1>8, <1>9, <1>10, <1>11
<1>13. Congruent(r[3], ((v * B) * B) * B) /\ r[3] \in Int /\ ((v * B) * B) * B \in Int
  BY <1>7, <1>8, <1>9, <1>10, <1>12
<1>14. Congruent(r[4], (((v * B) * B) * B) * B) /\ r[4] \in Int /\ (((v * B) * B) * B) * B \in Int
  BY <1>7, <1>8, <1>9, <1>10, <1>13
<1>15. Congruent(r[5], ((((v * B) * B) * B) * B) * B) /\ r[5] \in 0..(Order - 1)
  BY <1>7, <1>8, <1>14
<1>16. v * Power(5) = ((((v * B) * B) * B) * B) * B
  BY <1>1, Powers
<1> QED BY <1>6, <1>15, <1>16

-----------------------------------------------------------------------------
(***************************************************************************)
(* The columns with the multiples of the order                             *)
(***************************************************************************)

\* What the quotients add to column c
Multiples(q, c) ==
    [i \in LimbIndices |-> IF i < Len(q) /\ c - i \in {1, 2, 4} THEN q[i + 1] * SCALAR_L[c - i] ELSE 0]

\* The columns in one number each, with what the quotients add
Filled(cols, q) == [c \in Columns |-> Joined(cols)[c] + Total(Multiples(q, c))]

LEMMA MultiplesAreInts ==
    ASSUME NEW q \in Seq(LimbValues), NEW c \in Columns, NEW i \in LimbIndices
    PROVE  Multiples(q, c)[i] \in Int
<1>1. LimbValues \subseteq Int /\ \A x, y \in Int : x * y \in Int
  BY RadixIsNat
<1>2. CASE i < Len(q) /\ c - i \in {1, 2, 4}
  <2>1. i + 1 \in 1..Len(q)
    BY <1>2, LenProperties DEF LimbIndices
  <2>2. q[i + 1] \in Int
    BY <1>1, <2>1, ElementOfSeq
  <2>3. c - i \in LimbIndices
    BY <1>2 DEF LimbIndices
  <2>4. SCALAR_L[c - i] \in Int
    BY <1>1, <2>3, OrderBounds DEF Limbs
  <2>5. q[i + 1] * SCALAR_L[c - i] \in Int
    BY <1>1, <2>2, <2>4
  <2>6. Multiples(q, c)[i] = q[i + 1] * SCALAR_L[c - i]
    BY <1>2 DEF Multiples
  <2> QED BY <2>5, <2>6
<1>3. CASE ~(i < Len(q) /\ c - i \in {1, 2, 4})
  BY <1>3 DEF Multiples
<1> QED BY <1>2, <1>3

LEMMA FilledIsInts ==
    ASSUME NEW cols, Joined(cols) \in [Columns -> Int], NEW q \in Seq(LimbValues)
    PROVE  /\ Filled(cols, q) \in [Columns -> Int]
           /\ \A c \in Columns : Filled(cols, q)[c] = Joined(cols)[c] + Total(Multiples(q, c))
<1>1. \A c \in Columns : Total(Multiples(q, c)) \in Int
  BY MultiplesAreInts, TotalsAre
<1> QED BY <1>1 DEF Filled

LEMMA FilledByNone ==
    ASSUME NEW cols, Joined(cols) \in [Columns -> Int]
    PROVE  Filled(cols, << >>) = Joined(cols)
<1>1. ASSUME NEW c \in Columns PROVE Total(Multiples(<< >>, c)) = 0
  <2>1. \A i \in LimbIndices : ~(i < Len(<< >>))
    BY EmptySeq DEF LimbIndices
  <2>2. \A i \in LimbIndices : Multiples(<< >>, c)[i] = 0
    BY <2>1 DEF Multiples
  <2>3. \A i \in {0, 1, 2, 3, 4} : i \in LimbIndices
    BY DEF LimbIndices
  <2> QED BY <2>2, <2>3 DEF Total
<1>2. \A c \in Columns : Joined(cols)[c] + 0 = Joined(cols)[c]
  OBVIOUS
<1>3. Filled(cols, << >>) = [c \in Columns |-> Joined(cols)[c]]
  BY <1>1, <1>2 DEF Filled
<1> QED BY <1>3

\* A column as it is handled
LEMMA HandledIsFilled ==
    ASSUME IInv, phase \in {"eliminate", "split"}
    PROVE  /\ Joined(columns) \in [Columns -> Int]
           /\ WithMultiples(column).lo + B * WithMultiples(column).hi = Filled(columns, quotients)[column]
<1> DEFINE In(i) == column - i \in {1, 2, 4}
           low  == [i \in LimbIndices |-> IF In(i) THEN Low(quotients[i + 1], SCALAR_L[column - i]) ELSE 0]
           high == [i \in LimbIndices |-> IF In(i) THEN High(quotients[i + 1], SCALAR_L[column - i]) ELSE 0]
           all  == Multiples(quotients, column)
           sum  == [i \in LimbIndices |-> low[i] + B * high[i]]
<1>1. /\ B \in Nat \ {0} /\ LimbValues = 0..(B - 1) /\ SCALAR_L \in Limbs
      /\ \A x, y \in Int : x + B * y \in Int
  BY RadixIsNat, OrderBounds
<1>2. /\ columns \in [Columns -> [lo : 0..(5 * (B - 1)), hi : 0..(5 * (B - 1))]]
      /\ quotients \in Seq(LimbValues)
  BY DEF IInv, TypesHold, ColumnsHold
<1>3. Joined(columns) \in [Columns -> Int]
  <2>1. \A c \in Columns : columns[c].lo \in Int /\ columns[c].hi \in Int
    BY <1>1, <1>2
  <2>2. \A c \in Columns : columns[c].lo + B * columns[c].hi \in Int
    BY <1>1, <2>1
  <2> QED BY <2>2 DEF Joined
<1>4. column \in Columns /\ \A i \in LimbIndices : In(i) => i < Len(quotients)
  <2>1. (column \in 0..4 /\ Len(quotients) = column) \/ (column \in 5..8 /\ Len(quotients) = 5)
    BY DEF IInv, PhaseHolds
  <2>2. CASE column \in 0..4 /\ Len(quotients) = column
    BY <2>2 DEF Columns, LimbIndices
  <2>3. CASE column \in 5..8 /\ Len(quotients) = 5
    BY <2>3 DEF Columns, LimbIndices
  <2> QED BY <2>1, <2>2, <2>3
<1>5. ASSUME NEW i \in LimbIndices
      PROVE  low[i] \in Int /\ high[i] \in Int /\ low[i] + B * high[i] = all[i]
  <2>1. CASE In(i)
    <3>1. i + 1 \in 1..Len(quotients) /\ column - i \in LimbIndices
      <4>1. i < Len(quotients) /\ Len(quotients) \in Nat /\ i \in 0..4
        BY <1>2, <1>4, <2>1, LenProperties DEF LimbIndices
      <4>2. column - i \in {1, 2, 4}
        BY <2>1
      <4> QED BY <4>1, <4>2 DEF LimbIndices
    <3>2. quotients[i + 1] \in LimbValues /\ SCALAR_L[column - i] \in LimbValues
      BY <1>1, <1>2, <3>1, ElementOfSeq DEF Limbs
    <3>3. quotients[i + 1] \in Int /\ SCALAR_L[column - i] \in Int
      BY <1>1, <3>2
    <3>4. /\ Low(quotients[i + 1], SCALAR_L[column - i]) \in Int
          /\ High(quotients[i + 1], SCALAR_L[column - i]) \in Int
      <4>1. \A x \in 0..(B - 1) : x \in Int
        BY <1>1
      <4> QED BY <3>3, <4>1, Parts
    <3>5. Low(quotients[i + 1], SCALAR_L[column - i]) + B * High(quotients[i + 1], SCALAR_L[column - i])
            = quotients[i + 1] * SCALAR_L[column - i]
      BY <3>2, PartsMakeProduct
    <3>6. all[i] = quotients[i + 1] * SCALAR_L[column - i]
      BY <1>4, <2>1 DEF Multiples
    <3> QED BY <2>1, <3>4, <3>5, <3>6
  <2>2. CASE ~In(i)
    <3>1. low[i] = 0 /\ high[i] = 0
      BY <2>2
    <3>2. all[i] = 0
      BY <2>2 DEF Multiples
    <3> HIDE DEF low, high, all
    <3> QED BY <1>1, <3>1, <3>2
  <2> QED BY <2>1, <2>2
<1>6. sum = all
  <2>1. all = [i \in LimbIndices |-> all[i]]
    BY DEF Multiples
  <2> HIDE DEF low, high, all
  <2> QED BY <1>5, <2>1
<1>7. /\ WithMultiples(column).lo = columns[column].lo + Total(low)
      /\ WithMultiples(column).hi = columns[column].hi + Total(high)
  BY DEF WithMultiples
<1> HIDE DEF low, high, all
<1>8. Total(low) \in Int /\ Total(high) \in Int /\ Total(low) + B * Total(high) = Total(all)
  BY <1>5, <1>6, TotalsAre
<1>9. columns[column].lo \in Int /\ columns[column].hi \in Int
  BY <1>1, <1>2, <1>4
<1>10. Filled(columns, quotients)[column] = (columns[column].lo + B * columns[column].hi) + Total(all)
  <2>1. Filled(columns, quotients)[column] = Joined(columns)[column] + Total(all)
    BY <1>4, Zenon DEF Filled, all
  <2>2. Joined(columns)[column] = columns[column].lo + B * columns[column].hi
    BY <1>4, Zenon DEF Joined
  <2> QED BY <2>1, <2>2, Zenon
<1>11. (columns[column].lo + Total(low)) + B * (columns[column].hi + Total(high))
         = (columns[column].lo + B * columns[column].hi) + (Total(low) + B * Total(high))
  <2> DEFINE x == columns[column].lo
             y == columns[column].hi
             u == Total(low)
             v == Total(high)
  <2>1. x \in Int /\ y \in Int /\ u \in Int /\ v \in Int
    BY <1>8, <1>9, Zenon
  <2>2. B \in Int
    BY RadixIsNat
  <2> HIDE DEF x, y, u, v
  <2>3. (x + u) + B * (y + v) = (x + B * y) + (u + B * v)
    BY <2>1, <2>2
  <2> QED BY <2>3, Zenon DEF x, y, u, v
<1> QED BY <1>3, <1>7, <1>8, <1>10, <1>11, Zenon

\* Columns that are the same from one on make up the same.
LEMMA AboveDepends ==
    ASSUME NEW f \in [Columns -> Int], NEW g \in [Columns -> Int], NEW c \in 5..9,
           \A k \in Columns : k >= c => f[k] = g[k]
    PROVE  Above(f, c) = Above(g, c)
<1>1. Above(f, 9) = Above(g, 9)
  BY AboveSteps
<1>2. ASSUME NEW k \in 5..8, k >= c, Above(f, k + 1) = Above(g, k + 1) PROVE Above(f, k) = Above(g, k)
  <2>1. k \in Columns
    BY DEF Columns
  <2> QED BY <1>2, <2>1, AboveSteps
<1>3. c <= 8 => Above(f, 8) = Above(g, 8)
  BY <1>1, <1>2
<1>4. c <= 7 => Above(f, 7) = Above(g, 7)
  BY <1>2, <1>3
<1>5. c <= 6 => Above(f, 6) = Above(g, 6)
  BY <1>2, <1>4
<1>6. c <= 5 => Above(f, 5) = Above(g, 5)
  BY <1>2, <1>5
<1> QED BY <1>1, <1>3, <1>4, <1>5, <1>6

\* One quotient more adds its multiples of the limbs of the order to the columns
\* after its own.
LEMMA OneMoreQuotient ==
    ASSUME NEW q \in Seq(LimbValues), NEW x \in LimbValues, Len(q) \in 0..4, NEW k \in Columns
    PROVE  Total(Multiples(Append(q, x), k))
             = Total(Multiples(q, k)) + (IF k - Len(q) \in {1, 2, 4} THEN x * SCALAR_L[k - Len(q)] ELSE 0)
<1> DEFINE c == Len(q)
           r == Append(q, x)
           m == Multiples(q, k)
           n == Multiples(r, k)
           d == IF k - c \in {1, 2, 4} THEN x * SCALAR_L[k - c] ELSE 0
<1>1. r \in Seq(LimbValues) /\ Len(r) = c + 1 /\ r[c + 1] = x /\ \A i \in 1..c : r[i] = q[i]
  BY AppendProperties
<1>2. c \in 0..4 /\ c \in LimbIndices
  BY DEF LimbIndices
<1> HIDE DEF c, r
<1>3. ASSUME NEW i \in LimbIndices, i # c PROVE n[i] = m[i]
  <2>1. i < c + 1 <=> i < c
    BY <1>2, <1>3 DEF LimbIndices
  <2>2. i < c => r[i + 1] = q[i + 1]
    <3>1. SUFFICES ASSUME i < c PROVE r[i + 1] = q[i + 1]
      OBVIOUS
    <3>2. i + 1 \in 1..c
      BY <1>2, <3>1 DEF LimbIndices
    <3> QED BY <1>1, <3>2
  <2>3. n[i] = IF i < c + 1 /\ k - i \in {1, 2, 4} THEN r[i + 1] * SCALAR_L[k - i] ELSE 0
    BY <1>1 DEF Multiples
  <2>4. m[i] = IF i < c /\ k - i \in {1, 2, 4} THEN q[i + 1] * SCALAR_L[k - i] ELSE 0
    BY DEF Multiples, c
  <2> HIDE DEF m, n
  <2> QED BY <2>1, <2>2, <2>3, <2>4, Zenon
<1>4. n[c] = d
  <2>1. n[c] = IF c < c + 1 /\ k - c \in {1, 2, 4} THEN r[c + 1] * SCALAR_L[k - c] ELSE 0
    BY <1>1, <1>2 DEF Multiples
  <2>2. c < c + 1
    BY <1>2
  <2> HIDE DEF n
  <2> QED BY <1>1, <2>1, <2>2, Zenon
<1>5. m[c] = 0
  <2>1. ~(c < c)
    BY <1>2
  <2> QED BY <1>2, <2>1 DEF Multiples, c
<1>6. \A i \in LimbIndices : m[i] \in Int /\ n[i] \in Int
  BY <1>1, MultiplesAreInts
<1> HIDE DEF m, n, d
<1>7. /\ m[0] \in Int /\ m[1] \in Int /\ m[2] \in Int /\ m[3] \in Int /\ m[4] \in Int
      /\ n[0] \in Int /\ n[1] \in Int /\ n[2] \in Int /\ n[3] \in Int /\ n[4] \in Int
  BY <1>6 DEF LimbIndices
<1>8. /\ c # 0 => n[0] = m[0]
      /\ c # 1 => n[1] = m[1]
      /\ c # 2 => n[2] = m[2]
      /\ c # 3 => n[3] = m[3]
      /\ c # 4 => n[4] = m[4]
  BY <1>3 DEF LimbIndices
<1>9. Total(n) = Total(m) + d
  <2>1. Total(n) = n[0] + n[1] + n[2] + n[3] + n[4] /\ Total(m) = m[0] + m[1] + m[2] + m[3] + m[4]
    BY DEF Total
  <2>2. c = 0 \/ c = 1 \/ c = 2 \/ c = 3 \/ c = 4
    BY <1>2
  <2> DEFINE m0 == m[0]
             m1 == m[1]
             m2 == m[2]
             m3 == m[3]
             m4 == m[4]
  <2>8. m0 \in Int /\ m1 \in Int /\ m2 \in Int /\ m3 \in Int /\ m4 \in Int
    BY <1>7, Zenon
  <2> HIDE DEF m0, m1, m2, m3, m4
  <2>3. CASE c = 0
    <3>1. n[0] = d /\ m[0] = 0
      BY <1>4, <1>5, <2>3, Zenon
    <3>2. c # 1 /\ c # 2 /\ c # 3 /\ c # 4
      BY <2>3
    <3>3. n[1] = m[1] /\ n[2] = m[2] /\ n[3] = m[3] /\ n[4] = m[4]
      BY <1>8, <3>2, Zenon
    <3>4. d \in Int
      BY <1>7, <3>1, Zenon
    <3>5. d + m1 + m2 + m3 + m4 = (0 + m1 + m2 + m3 + m4) + d
      BY <2>8, <3>4
    <3> QED BY <2>1, <3>1, <3>3, <3>5, Zenon DEF m0, m1, m2, m3, m4
  <2>4. CASE c = 1
    <3>1. n[1] = d /\ m[1] = 0
      BY <1>4, <1>5, <2>4, Zenon
    <3>2. c # 0 /\ c # 2 /\ c # 3 /\ c # 4
      BY <2>4
    <3>3. n[0] = m[0] /\ n[2] = m[2] /\ n[3] = m[3] /\ n[4] = m[4]
      BY <1>8, <3>2, Zenon
    <3>4. d \in Int
      BY <1>7, <3>1, Zenon
    <3>5. m0 + d + m2 + m3 + m4 = (m0 + 0 + m2 + m3 + m4) + d
      BY <2>8, <3>4
    <3> QED BY <2>1, <3>1, <3>3, <3>5, Zenon DEF m0, m1, m2, m3, m4
  <2>5. CASE c = 2
    <3>1. n[2] = d /\ m[2] = 0
      BY <1>4, <1>5, <2>5, Zenon
    <3>2. c # 0 /\ c # 1 /\ c # 3 /\ c # 4
      BY <2>5
    <3>3. n[0] = m[0] /\ n[1] = m[1] /\ n[3] = m[3] /\ n[4] = m[4]
      BY <1>8, <3>2, Zenon
    <3>4. d \in Int
      BY <1>7, <3>1, Zenon
    <3>5. m0 + m1 + d + m3 + m4 = (m0 + m1 + 0 + m3 + m4) + d
      BY <2>8, <3>4
    <3> QED BY <2>1, <3>1, <3>3, <3>5, Zenon DEF m0, m1, m2, m3, m4
  <2>6. CASE c = 3
    <3>1. n[3] = d /\ m[3] = 0
      BY <1>4, <1>5, <2>6, Zenon
    <3>2. c # 0 /\ c # 1 /\ c # 2 /\ c # 4
      BY <2>6
    <3>3. n[0] = m[0] /\ n[1] = m[1] /\ n[2] = m[2] /\ n[4] = m[4]
      BY <1>8, <3>2, Zenon
    <3>4. d \in Int
      BY <1>7, <3>1, Zenon
    <3>5. m0 + m1 + m2 + d + m4 = (m0 + m1 + m2 + 0 + m4) + d
      BY <2>8, <3>4
    <3> QED BY <2>1, <3>1, <3>3, <3>5, Zenon DEF m0, m1, m2, m3, m4
  <2>7. CASE c = 4
    <3>1. n[4] = d /\ m[4] = 0
      BY <1>4, <1>5, <2>7, Zenon
    <3>2. c # 0 /\ c # 1 /\ c # 2 /\ c # 3
      BY <2>7
    <3>3. n[0] = m[0] /\ n[1] = m[1] /\ n[2] = m[2] /\ n[3] = m[3]
      BY <1>8, <3>2, Zenon
    <3>4. d \in Int
      BY <1>7, <3>1, Zenon
    <3>5. m0 + m1 + m2 + m3 + d = (m0 + m1 + m2 + m3 + 0) + d
      BY <2>8, <3>4
    <3> QED BY <2>1, <3>1, <3>3, <3>5, Zenon DEF m0, m1, m2, m3, m4
  <2> QED BY <2>2, <2>3, <2>4, <2>5, <2>6, <2>7
<1> QED BY <1>9 DEF c, r, m, n, d

\* What they make up grows by the quotient's multiple of the order, but for its
\* lowest limb.
LEMMA OneMoreMultiple ==
    ASSUME NEW cols, Joined(cols) \in [Columns -> Int],
           NEW q \in Seq(LimbValues), NEW x \in LimbValues, Len(q) \in 0..4
    PROVE  Above(Filled(cols, Append(q, x)), Len(q) + 1)
             = Above(Filled(cols, q), Len(q) + 1)
               + x * (SCALAR_L[1] + B * (SCALAR_L[2] + B * (SCALAR_L[3] + B * SCALAR_L[4])))
<1> DEFINE c == Len(q)
           f == Filled(cols, q)
           g == Filled(cols, Append(q, x))
           Part(j) == IF j \in {1, 2, 4} THEN x * SCALAR_L[j] ELSE 0
<1>1. f \in [Columns -> Int] /\ g \in [Columns -> Int]
  BY AppendProperties, FilledIsInts
<1>2. /\ B \in Int /\ x \in Int
      /\ SCALAR_L[1] \in Int /\ SCALAR_L[2] \in Int /\ SCALAR_L[3] = 0 /\ SCALAR_L[4] \in Int
  <2>1. B \in Int /\ x \in Int
    BY RadixIsNat
  <2>2. SCALAR_L[1] \in Int /\ SCALAR_L[2] \in Int /\ SCALAR_L[3] = 0 /\ SCALAR_L[4] \in Int
    BY OrderBounds, LimbsAreInts
  <2> QED BY <2>1, <2>2
<1>3. c \in 0..4
  OBVIOUS
<1> HIDE DEF Part
<1>4. ASSUME NEW k \in Columns PROVE g[k] = f[k] + Part(k - c)
  <2>1. /\ f[k] = Joined(cols)[k] + Total(Multiples(q, k))
        /\ g[k] = Joined(cols)[k] + Total(Multiples(Append(q, x), k))
    <3>1. Append(q, x) \in Seq(LimbValues)
      BY AppendProperties
    <3> QED BY <3>1, FilledIsInts
  <2>2. Total(Multiples(Append(q, x), k)) = Total(Multiples(q, k)) + Part(k - c)
    BY OneMoreQuotient DEF Part
  <2>3. Part(k - c) \in Int
    <3>1. \A y \in Int : x * y \in Int
      BY <1>2
    <3>2. CASE k - c \in {1, 2, 4}
      <4>1. SCALAR_L[k - c] \in Int
        BY <1>2, <3>2
      <4> QED BY <3>1, <3>2, <4>1 DEF Part
    <3> QED BY <3>2 DEF Part
  <2>4. Joined(cols)[k] \in Int /\ Total(Multiples(q, k)) \in Int
    BY MultiplesAreInts, TotalsAre
  <2> HIDE DEF f, g
  <2> QED BY <2>1, <2>2, <2>3, <2>4
<1>5. /\ c + 1 \in Columns /\ c + 2 \in Columns /\ c + 3 \in Columns /\ c + 4 \in Columns /\ c + 5 \in 5..9
      /\ (c + 1) - c = 1 /\ (c + 2) - c = 2 /\ (c + 3) - c = 3 /\ (c + 4) - c = 4
  <2>1. \A k \in 0..4 : /\ k + 1 \in 0..8 /\ k + 2 \in 0..8 /\ k + 3 \in 0..8 /\ k + 4 \in 0..8
                          /\ k + 5 \in 5..9
                          /\ (k + 1) - k = 1 /\ (k + 2) - k = 2 /\ (k + 3) - k = 3 /\ (k + 4) - k = 4
    OBVIOUS
  <2> HIDE DEF c
  <2> QED BY <1>3, <2>1, Zenon DEF Columns
<1> HIDE DEF f, g, c
<1>6. /\ g[c + 1] = f[c + 1] + x * SCALAR_L[1] /\ g[c + 2] = f[c + 2] + x * SCALAR_L[2]
      /\ g[c + 3] = f[c + 3] + 0 /\ g[c + 4] = f[c + 4] + x * SCALAR_L[4]
  <2>1. Part(1) = x * SCALAR_L[1] /\ Part(2) = x * SCALAR_L[2] /\ Part(3) = 0 /\ Part(4) = x * SCALAR_L[4]
    BY DEF Part
  <2> QED BY <1>4, <1>5, <2>1
<1>7. Above(g, c + 5) = Above(f, c + 5)
  <2>1. ASSUME NEW k \in Columns, k >= c + 5 PROVE f[k] = g[k]
    <3>1. k - c \notin {1, 2, 4}
      BY <1>3, <2>1 DEF Columns
    <3>2. Part(k - c) = 0
      BY <3>1 DEF Part
    <3>3. f[k] \in Int
      BY <1>1
    <3> QED BY <1>4, <3>2, <3>3
  <2> QED BY <1>1, <1>5, <2>1, AboveDepends
<1>8. \A h \in [Columns -> Int] :
         /\ Above(h, c + 1) = h[c + 1] + B * (h[c + 2] + B * (h[c + 3] + B * (h[c + 4] + B * Above(h, c + 5))))
         /\ h[c + 1] \in Int /\ h[c + 2] \in Int /\ h[c + 3] \in Int /\ h[c + 4] \in Int
         /\ Above(h, c + 5) \in Int
  <2>1. SUFFICES ASSUME NEW h \in [Columns -> Int]
        PROVE  /\ Above(h, c + 1) = h[c + 1] + B * (h[c + 2] + B * (h[c + 3] + B * (h[c + 4] + B * Above(h, c + 5))))
               /\ h[c + 1] \in Int /\ h[c + 2] \in Int /\ h[c + 3] \in Int /\ h[c + 4] \in Int
               /\ Above(h, c + 5) \in Int
    OBVIOUS
  <2>2. (c + 1) + 1 = c + 2 /\ (c + 2) + 1 = c + 3 /\ (c + 3) + 1 = c + 4 /\ (c + 4) + 1 = c + 5 /\ c + 5 \in 0..9
    BY <1>3
  <2>3. \A k \in Columns : Above(h, k) = h[k] + B * Above(h, k + 1)
    BY AboveSteps
  <2>4. Above(h, c + 4) = h[c + 4] + B * Above(h, c + 5)
    BY <1>5, <2>2, <2>3
  <2>5. Above(h, c + 3) = h[c + 3] + B * Above(h, c + 4)
    BY <1>5, <2>2, <2>3
  <2>6. Above(h, c + 2) = h[c + 2] + B * Above(h, c + 3)
    BY <1>5, <2>2, <2>3
  <2>7. Above(h, c + 1) = h[c + 1] + B * Above(h, c + 2)
    BY <1>5, <2>2, <2>3
  <2>8. Above(h, c + 5) \in Int
    BY <2>2, AboveSteps
  <2> QED BY <1>5, <2>4, <2>5, <2>6, <2>7, <2>8
<1> DEFINE f1 == f[c + 1]
           f2 == f[c + 2]
           f3 == f[c + 3]
           f4 == f[c + 4]
           top == Above(f, c + 5)
           l1 == SCALAR_L[1]
           l2 == SCALAR_L[2]
           l3 == SCALAR_L[3]
           l4 == SCALAR_L[4]
<1>9. /\ f1 \in Int /\ f2 \in Int /\ f3 \in Int /\ f4 \in Int /\ top \in Int
      /\ l1 \in Int /\ l2 \in Int /\ l3 = 0 /\ l4 \in Int
  BY <1>1, <1>2, <1>8
<1>10. Above(f, c + 1) = f1 + B * (f2 + B * (f3 + B * (f4 + B * top)))
  BY <1>1, <1>8
<1>11. Above(g, c + 1) = (f1 + x * l1) + B * ((f2 + x * l2) + B * ((f3 + 0) + B * ((f4 + x * l4) + B * top)))
  <2>1. Above(g, c + 1) = g[c + 1] + B * (g[c + 2] + B * (g[c + 3] + B * (g[c + 4] + B * Above(g, c + 5))))
    BY <1>1, <1>8
  <2> QED BY <1>6, <1>7, <2>1, Zenon
<1> HIDE DEF f1, f2, f3, f4, top, l1, l2, l3, l4
<1>12. (f1 + x * l1) + B * ((f2 + x * l2) + B * ((f3 + 0) + B * ((f4 + x * l4) + B * top)))
         = (f1 + B * (f2 + B * (f3 + B * (f4 + B * top)))) + x * (l1 + B * (l2 + B * (l3 + B * l4)))
  BY <1>2, <1>9
<1>13. Above(g, c + 1) = Above(f, c + 1) + x * (l1 + B * (l2 + B * (l3 + B * l4)))
  BY <1>10, <1>11, <1>12
<1> QED BY <1>13 DEF f, g, c, l1, l2, l3, l4

-----------------------------------------------------------------------------
(***************************************************************************)
(* Montgomery's method                                                     *)
(***************************************************************************)

\* The quotient's multiple of the order's lowest limb clears the limb.
LEMMA QuotientClears ==
    ASSUME NEW v \in Int
    PROVE  (v + Low(Low(v, SCALAR_LFACTOR), SCALAR_L[0])) % B = 0
<1> DEFINE F == SCALAR_LFACTOR
           l == SCALAR_L[0]
           m == v % B
           q == Low(v, F)
           w == Low(q, l)
           t == (F * l + 1) \div B
<1>1. /\ B \in Nat \ {0} /\ F \in 0..(B - 1) /\ l \in 0..(B - 1)
      /\ \A u \in Int : u = (u % B) + B * (u \div B) /\ u % B \in 0..(B - 1) /\ u \div B \in Int
  <2>1. B \in Nat \ {0} /\ F \in 0..(B - 1)
    BY RadixIsNat
  <2>2. l \in 0..(B - 1)
    BY OrderBounds, LimbsAre
  <2>3. \A u \in Int : u = (u % B) + B * (u \div B) /\ u % B \in 0..(B - 1) /\ u \div B \in Int
    BY <2>1
  <2> QED BY <2>1, <2>2, <2>3
<1>2. F * l \in Int /\ F * l + 1 \in Int /\ (F * l + 1) % B = 0
  BY <1>1, MontgomeryAssumption
<1>3. F * l + 1 = B * t /\ t \in Int
  <2> HIDE DEF F, l
  <2>1. F * l + 1 = 0 + B * t /\ t \in Int
    BY <1>1, <1>2
  <2> HIDE DEF t
  <2> QED BY <1>1, <2>1
<1>4. F % B = F /\ l % B = l
  <2>1. \A u \in 0..(B - 1) : u % B = u
    BY RadixIsNat
  <2> HIDE DEF F, l
  <2> QED BY <1>1, <2>1
<1>5. q = (m * F) % B
  BY <1>4 DEF Low
<1> HIDE DEF F, l, t
<1>6. v = m + B * (v \div B) /\ m \in Int /\ v \div B \in Int /\ m * F \in Int
  BY <1>1
<1> HIDE DEF m, q
<1>7. PICK k2 \in Int : m * F = q + B * k2 /\ q \in 0..(B - 1)
  BY <1>1, <1>5, <1>6
<1>8. q % B = q /\ q * l \in Int
  <2>1. q \in 0..(B - 1) /\ q \in Int /\ l \in Int
    BY <1>1, <1>7
  <2>2. \A u \in 0..(B - 1) : u % B = u
    BY <1>1
  <2> QED BY <2>1, <2>2
<1>9. w = (q * l) % B
  BY <1>4, <1>8 DEF Low
<1> HIDE DEF w
<1>10. PICK k3 \in Int : q * l = w + B * k3 /\ w \in Int
  <2>1. /\ q * l = ((q * l) % B) + B * ((q * l) \div B) /\ (q * l) \div B \in Int
        /\ (q * l) % B \in 0..(B - 1)
    BY <1>1, <1>8
  <2> DEFINE h == (q * l) \div B
  <2>2. q * l = w + B * h /\ h \in Int /\ w \in 0..(B - 1)
    BY <1>9, <2>1
  <2> HIDE DEF h
  <2>3. w \in Int
    BY <1>1, <2>2
  <2> QED BY <2>2, <2>3
<1>11. PICK k1 \in Int : v = m + B * k1
  BY <1>6
<1> DEFINE k == ((m * t + k1) - k2 * l) - k3
<1>12. k \in Int
  BY <1>1, <1>3, <1>6, <1>7, <1>10, <1>11
<1>13. q \in Int /\ l \in Int /\ F \in Int
  BY <1>1, <1>7
<1>14. v + w = B * k
  <2>1. w = q * l - B * k3
    BY <1>1, <1>10, <1>8
  <2>2. q = m * F - B * k2
    BY <1>1, <1>6, <1>7, <1>13
  <2>3. q * l = (m * F) * l - (B * k2) * l
    BY <1>1, <1>6, <1>7, <1>13, <2>2
  <2>4. (m * F) * l = m * (F * l)
    BY <1>6, <1>13
  <2>5. F * l = B * t - 1
    BY <1>1, <1>2, <1>3
  <2>6. m * (F * l) = m * (B * t) - m
    BY <1>1, <1>3, <1>6, <2>5
  <2>7. v + w = (m + B * k1) + (((m * (B * t) - m) - (B * k2) * l) - B * k3)
    BY <1>11, <2>1, <2>3, <2>4, <2>6
  <2>8. (m + B * k1) + (((m * (B * t) - m) - (B * k2) * l) - B * k3) = B * k
    BY <1>1, <1>3, <1>6, <1>7, <1>10, <1>11, <1>13
  <2> QED BY <2>7, <2>8
<1> HIDE DEF k
<1>15. (B * k) % B = 0
  BY <1>1, <1>12
<1> QED BY <1>14, <1>15 DEF w, q, l, F

\* A limb put where there was none
LEMMA LimbPut ==
    ASSUME NEW a \in Limbs, NEW k \in LimbIndices, a[k] = 0, NEW x \in LimbValues
    PROVE  /\ [a EXCEPT ![k] = x] \in Limbs
           /\ Value([a EXCEPT ![k] = x]) = Value(a) + Power(k) * x
<1> DEFINE e == [a EXCEPT ![k] = x]
           a0 == a[0]
           a1 == a[1]
           a2 == a[2]
           a3 == a[3]
           a4 == a[4]
<1>1. B \in Int /\ x \in Int
  BY RadixIsNat
<1>2. e \in Limbs
  BY DEF Limbs
<1>3. a0 \in Int /\ a1 \in Int /\ a2 \in Int /\ a3 \in Int /\ a4 \in Int
  BY LimbsAreInts
<1>4. /\ Value(a) = a0 + B * (a1 + B * (a2 + B * (a3 + B * a4)))
      /\ Value(e) = e[0] + B * (e[1] + B * (e[2] + B * (e[3] + B * e[4])))
  BY DEF Value
<1>5. /\ e[0] = (IF k = 0 THEN x ELSE a0) /\ e[1] = (IF k = 1 THEN x ELSE a1)
      /\ e[2] = (IF k = 2 THEN x ELSE a2) /\ e[3] = (IF k = 3 THEN x ELSE a3)
      /\ e[4] = (IF k = 4 THEN x ELSE a4)
  BY DEF Limbs, LimbIndices
<1>6. /\ k = 0 => a0 = 0
      /\ k = 1 => a1 = 0
      /\ k = 2 => a2 = 0
      /\ k = 3 => a3 = 0
      /\ k = 4 => a4 = 0
  OBVIOUS
<1> HIDE DEF e, a0, a1, a2, a3, a4
<1>7. /\ Power(0) = 1 /\ Power(1) = B /\ Power(2) = B * B /\ Power(3) = B * (B * B)
      /\ Power(4) = B * (B * (B * B))
  BY Powers
<1>8. Value(e) = Value(a) + Power(k) * x
  <2>1. CASE k = 0
    <3>1. Value(e) = x + B * (a1 + B * (a2 + B * (a3 + B * a4))) /\ a0 = 0
      BY <1>4, <1>5, <1>6, <2>1
    <3>2. x + B * (a1 + B * (a2 + B * (a3 + B * a4)))
            = (0 + B * (a1 + B * (a2 + B * (a3 + B * a4)))) + 1 * x
      BY <1>1, <1>3
    <3> QED BY <1>4, <1>7, <2>1, <3>1, <3>2
  <2>2. CASE k = 1
    <3>1. Value(e) = a0 + B * (x + B * (a2 + B * (a3 + B * a4))) /\ a1 = 0
      BY <1>4, <1>5, <1>6, <2>2
    <3>2. a0 + B * (x + B * (a2 + B * (a3 + B * a4)))
            = (a0 + B * (0 + B * (a2 + B * (a3 + B * a4)))) + B * x
      BY <1>1, <1>3
    <3> QED BY <1>4, <1>7, <2>2, <3>1, <3>2
  <2>3. CASE k = 2
    <3>1. Value(e) = a0 + B * (a1 + B * (x + B * (a3 + B * a4))) /\ a2 = 0
      BY <1>4, <1>5, <1>6, <2>3
    <3>2. a0 + B * (a1 + B * (x + B * (a3 + B * a4)))
            = (a0 + B * (a1 + B * (0 + B * (a3 + B * a4)))) + (B * B) * x
      BY <1>1, <1>3
    <3> QED BY <1>4, <1>7, <2>3, <3>1, <3>2
  <2>4. CASE k = 3
    <3>1. Value(e) = a0 + B * (a1 + B * (a2 + B * (x + B * a4))) /\ a3 = 0
      BY <1>4, <1>5, <1>6, <2>4
    <3>2. a0 + B * (a1 + B * (a2 + B * (x + B * a4)))
            = (a0 + B * (a1 + B * (a2 + B * (0 + B * a4)))) + (B * (B * B)) * x
      BY <1>1, <1>3
    <3> QED BY <1>4, <1>7, <2>4, <3>1, <3>2
  <2>5. CASE k = 4
    <3>1. Value(e) = a0 + B * (a1 + B * (a2 + B * (a3 + B * x))) /\ a4 = 0
      BY <1>4, <1>5, <1>6, <2>5
    <3>2. a0 + B * (a1 + B * (a2 + B * (a3 + B * x)))
            = (a0 + B * (a1 + B * (a2 + B * (a3 + B * 0)))) + (B * (B * (B * B))) * x
      BY <1>1, <1>3
    <3> QED BY <1>4, <1>7, <2>5, <3>1, <3>2
  <2> QED BY <2>1, <2>2, <2>3, <2>4, <2>5 DEF LimbIndices
<1> QED BY <1>2, <1>8 DEF e

\* One column cleared: what is left of the columns, with the quotient's multiple
\* of the order, is a radix times what is carried on.
LEMMA EliminateKeeps ==
    ASSUME IInv, Eliminate
    PROVE  \E x \in LimbValues :
             /\ quotients' = Append(quotients, x)
             /\ carry + Above(Filled(columns, quotients), column) \in Int
             /\ carry' + Above(Filled(columns, quotients'), column + 1) \in Int
             /\ (carry + Above(Filled(columns, quotients), column)) + x * Order
                  = B * (carry' + Above(Filled(columns, quotients'), column + 1))
<1> DEFINE s     == WithMultiples(column)
           slo   == s.lo
           shi   == s.hi
           low   == slo + carry
           x     == Low(low, SCALAR_LFACTOR)
           added == Low(x, SCALAR_L[0])
           high  == High(x, SCALAR_L[0])
           l     == SCALAR_L[0]
           u     == SCALAR_L[1] + B * (SCALAR_L[2] + B * (SCALAR_L[3] + B * SCALAR_L[4]))
           f     == Filled(columns, quotients)
           g     == Filled(columns, Append(quotients, x))
           up    == (low + added) \div B
           fc    == f[column]
           fa    == Above(f, column + 1)
           ga    == Above(g, column + 1)
<1>1. /\ quotients' = Append(quotients, x) /\ carry' = shi + high + up
  BY DEF Eliminate
<1>2. /\ B \in Nat \ {0} /\ LimbValues = 0..(B - 1) /\ SCALAR_LFACTOR \in Int /\ l \in LimbValues
      /\ \A v \in 0..(B - 1) : v \in Int
  BY RadixIsNat, OrderBounds DEF Limbs, LimbIndices
<1>3. column \in 0..4 /\ Len(quotients) = column /\ quotients \in Seq(LimbValues) /\ carry \in Int
  BY DEF Eliminate, IInv, PhaseHolds, TypesHold
<1>4. slo \in Int /\ shi \in Int
  BY <1>2, MultiplesBounds DEF Eliminate
<1>5. Joined(columns) \in [Columns -> Int] /\ slo + B * shi = fc
  BY HandledIsFilled DEF Eliminate
<1>6. low \in Int
  BY <1>3, <1>4
<1>7. x \in LimbValues /\ x \in Int
  <2> HIDE DEF low
  <2> QED BY <1>2, <1>6, Parts
<1>8. added \in Int /\ high \in Int /\ added + B * high = x * l
  <2> HIDE DEF x
  <2>1. l \in Int
    BY <1>2
  <2> QED BY <1>2, <1>7, <2>1, Parts, PartsMakeProduct
<1>9. low + added = B * up /\ up \in Int
  <2>1. (low + added) % B = 0
    <3> HIDE DEF low
    <3> QED BY <1>6, QuotientClears
  <2>2. low + added \in Int
    <3> HIDE DEF low, added
    <3> QED BY <1>6, <1>8
  <2>3. \A v \in Int : v = (v % B) + B * (v \div B) /\ v \div B \in Int
    BY <1>2
  <2> HIDE DEF low, added
  <2>4. low + added = 0 + B * up /\ up \in Int
    BY <2>1, <2>2, <2>3
  <2> HIDE DEF up
  <2> QED BY <1>2, <2>4
<1>10. /\ f \in [Columns -> Int] /\ g \in [Columns -> Int]
       /\ ga = fa + x * u
  <2> HIDE DEF x, u
  <2>1. Append(quotients, x) \in Seq(LimbValues)
    BY <1>3, <1>7, AppendProperties
  <2>2. f \in [Columns -> Int] /\ g \in [Columns -> Int]
    BY <1>3, <1>5, <2>1, FilledIsInts
  <2>3. Above(Filled(columns, Append(quotients, x)), Len(quotients) + 1)
          = Above(Filled(columns, quotients), Len(quotients) + 1) + x * u
    BY <1>3, <1>5, <1>7, OneMoreMultiple DEF u
  <2> QED BY <1>3, <2>2, <2>3
<1>11. column \in Columns /\ column + 1 \in 0..9 /\ column \in 0..9
  BY <1>3 DEF Columns
<1>12. Above(f, column) = fc + B * fa /\ fc \in Int /\ fa \in Int /\ ga \in Int /\ Above(f, column) \in Int
  <2> HIDE DEF f, g
  <2> QED BY <1>10, <1>11, AboveSteps
<1>13. Order = l + B * u /\ u \in Int /\ l \in Int
  <2>1. /\ SCALAR_L[1] \in Int /\ SCALAR_L[2] \in Int /\ SCALAR_L[3] \in Int /\ SCALAR_L[4] \in Int
    BY <1>2, OrderBounds, LimbsAre
  <2>2. Order = l + B * u
    BY DEF Order, Value
  <2>3. l \in Int
    BY <1>2
  <2>4. u \in Int
    <3>1. \A y, z \in Int : y + B * z \in Int
      BY <1>2
    <3>2. SCALAR_L[3] + B * SCALAR_L[4] \in Int
      BY <2>1, <3>1
    <3>3. SCALAR_L[2] + B * (SCALAR_L[3] + B * SCALAR_L[4]) \in Int
      BY <2>1, <3>1, <3>2
    <3> QED BY <2>1, <3>1, <3>3
  <2> QED BY <2>2, <2>3, <2>4
<1>14. carry + Above(f, column) \in Int /\ carry' + ga \in Int
  <2> HIDE DEF f, g, fa, ga, up, high, added, shi
  <2> QED BY <1>1, <1>3, <1>4, <1>8, <1>9, <1>12
<1>15. (carry + Above(f, column)) + x * Order = B * (carry' + ga)
  <2> HIDE DEF f, fc, fa, ga, up, high, added, shi, slo, x, l, u
  <2>1. x * Order = x * (l + B * u)
    BY <1>13
  <2>2. low = slo + carry
    OBVIOUS
  <2> HIDE DEF low
  <2>3. (carry + ((slo + B * shi) + B * fa)) + x * (l + B * u)
          = (low + (x * l)) + B * (shi + (fa + x * u))
    BY <1>2, <1>3, <1>4, <1>7, <1>12, <1>13, <2>2
  <2>4. (low + (added + B * high)) + B * (shi + (fa + x * u)) = (low + added) + B * ((shi + high) + (fa + x * u))
    BY <1>2, <1>4, <1>6, <1>7, <1>8, <1>12, <1>13
  <2>5. B * up + B * ((shi + high) + (fa + x * u)) = B * ((shi + high + up) + (fa + x * u))
    BY <1>2, <1>4, <1>7, <1>8, <1>9, <1>12, <1>13
  <2> QED BY <1>1, <1>5, <1>8, <1>9, <1>10, <1>12, <2>1, <2>3, <2>4, <2>5
<1> QED BY <1>1, <1>7, <1>14, <1>15

\* The operands of the multiplication at hand
Operand == IF half = "hi" THEN hash.hi ELSE hash.lo
Factor  == IF half = "hi" THEN SCALAR_RR ELSE SCALAR_R

Product == Value(Operand) * Value(Factor)

\* v is w and less than p times the order.
Exceeds(v, w, p) == \E n \in 0..(p - 1) : v = w + n * Order

\* What is left of the columns, and of the limbs that came out of them, is the
\* product with the multiples of the order added so far, over the power of the
\* radix that they have cleared; and the upper half is what it should be.
MontgomeryHolds ==
    /\ phase = "multiply" => carry = 0
    /\ phase \in {"multiply", "eliminate"} => result = NoLimbs
    /\ phase = "eliminate" =>
          Exceeds(Power(column) * (carry + Above(Filled(columns, quotients), column)), Product, Power(column))
    /\ phase = "split" =>
          /\ \A i \in LimbIndices : i >= column - 5 => result[i] = 0
          /\ Exceeds(Power(5) * (Value(result)
                                 + Power(column - 5) * (carry + Above(Filled(columns, quotients), column))),
                     Product, Power(5))
    /\ phase = "subtract" => Exceeds(Power(5) * Value(result), Product, Power(5))
    /\ half = "lo" /\ phase \in {"multiply", "eliminate", "split", "subtract"} =>
          Value(upper) = TimesR(Residue(hash.hi))

LEMMA OperandsAreLimbs ==
    ASSUME IInv
    PROVE  /\ Operand \in Limbs /\ Factor \in Limbs /\ hash.hi \in Limbs /\ hash.lo \in Limbs
           /\ Product \in Nat
<1>1. hash.hi \in Limbs /\ hash.lo \in Limbs
  BY LimbAssumption DEF IInv, TypesHold
<1>2. Operand \in Limbs /\ Factor \in Limbs
  BY <1>1, RadixIsNat DEF Operand, Factor
<1>3. Value(Operand) \in Nat /\ Value(Factor) \in Nat
  BY <1>2, ValueBelow, Powers
<1> QED BY <1>1, <1>2, <1>3 DEF Product

LEMMA MultiplyClears == ASSUME IInv, MontgomeryHolds, Multiply PROVE MontgomeryHolds'
<1>1. /\ phase = "multiply" /\ columns' = Convolved(Operand, Factor) /\ phase' = "eliminate"
      /\ UNCHANGED <<hash, half, column, quotients, carry, result, upper, rest, digits>>
  BY DEF Multiply, Operand, Factor
<1>2. carry = 0 /\ column = 0 /\ quotients = << >>
  BY <1>1 DEF MontgomeryHolds, IInv, PhaseHolds
<1>3. /\ Joined(columns') \in [Columns -> Int]
      /\ Above(Joined(columns'), 0) = Product
  BY <1>1, OperandsAreLimbs, ConvolvedIsProduct DEF Product
<1>4. Filled(columns', quotients') = Joined(columns')
  BY <1>1, <1>2, <1>3, FilledByNone
<1>5. Product' = Product
  BY <1>1 DEF Product, Operand, Factor
<1>6. Exceeds(Power(column') * (carry' + Above(Filled(columns', quotients'), column')), Product', Power(column'))
  <2> DEFINE v == Product
             n == Order
  <2>1. v \in Int /\ n \in Int
    BY OperandsAreLimbs, OrderBounds
  <2> HIDE DEF v, n
  <2>2. Power(0) = 1
    BY Powers
  <2>3. 1 * (0 + v) = v + 0 * n /\ 0 \in 0..(1 - 1)
    BY <2>1
  <2>4. column' = 0 /\ carry' = 0 /\ Above(Filled(columns', quotients'), 0) = v /\ Product' = v
    BY <1>1, <1>2, <1>3, <1>4, <1>5 DEF v
  <2>5. Exceeds(1 * (0 + v), v, 1)
    BY <2>3 DEF Exceeds, n
  <2> QED BY <2>2, <2>4, <2>5
<1> QED BY <1>1, <1>2, <1>6 DEF MontgomeryHolds

LEMMA EliminateClears == ASSUME IInv, MontgomeryHolds, Eliminate PROVE MontgomeryHolds'
<1> DEFINE a  == carry + Above(Filled(columns, quotients), column)
           a1 == carry' + Above(Filled(columns', quotients'), column')
           p  == Power(column)
           v  == Product
           n  == Order
<1>1. /\ phase = "eliminate" /\ column' = column + 1 /\ phase' = IF column = 4 THEN "split" ELSE "eliminate"
      /\ UNCHANGED <<hash, half, columns, result, upper, rest, digits>>
  BY DEF Eliminate
<1>2. column \in 0..4 /\ result = NoLimbs
  BY <1>1 DEF IInv, PhaseHolds, MontgomeryHolds
<1>3. PICK x \in LimbValues : a \in Int /\ a1 \in Int /\ a + x * n = B * a1
  BY <1>1, EliminateKeeps
<1>4. PICK k \in 0..(p - 1) : p * a = v + k * n
  BY <1>1 DEF MontgomeryHolds, Exceeds
<1>5. B \in Nat \ {0} /\ LimbValues = 0..(B - 1) /\ n \in Int /\ v \in Int
  BY RadixIsNat, OrderBounds, OperandsAreLimbs
<1>6. Power(column') = B * p /\ B * p \in Nat /\ p \in Nat \ {0}
  <2>1. Power(column + 1) = B * Power(column) /\ Power(column) \in Nat \ {0}
    BY <1>2, Powers
  <2> HIDE DEF p
  <2>2. B * p \in Nat
    BY <1>5, <2>1 DEF p
  <2> QED BY <1>1, <2>1, <2>2 DEF p
<1> HIDE DEF a, a1, p, v, n
<1> DEFINE m == k + p * x
<1>7. m \in 0..((B * p) - 1)
  <2>1. x \in 0..(B - 1)
    BY <1>5
  <2>2. p * x \in Nat /\ p * x <= p * (B - 1) /\ p * (B - 1) = B * p - p
    BY <1>5, <1>6, <2>1
  <2> QED BY <1>4, <1>6, <2>2
<1>8. (B * p) * a1 = v + m * n
  <2>1. x \in Int
    BY <1>5
  <2>2. (B * p) * a1 = p * (B * a1)
    BY <1>3, <1>5, <1>6
  <2>3. p * (a + x * n) = p * a + (p * x) * n
    BY <1>3, <1>5, <1>6, <2>1
  <2>4. (v + k * n) + (p * x) * n = v + m * n
    BY <1>4, <1>5, <1>6, <2>1
  <2> QED BY <1>3, <1>4, <2>2, <2>3, <2>4
<1> HIDE DEF m
<1>9. Exceeds(Power(column') * a1, Product', Power(column'))
  <2>1. Product' = v
    BY <1>1 DEF v, Product, Operand, Factor
  <2> QED BY <1>6, <1>7, <1>8, <2>1 DEF Exceeds, n
<1>10. CASE column # 4
  BY <1>1, <1>9, <1>10 DEF MontgomeryHolds, a1
<1>11. CASE column = 4
  <2>1. column' = 5 /\ phase' = "split" /\ result' = NoLimbs
    BY <1>1, <1>2, <1>11
  <2>2. \A i \in LimbIndices : result'[i] = 0
    BY <2>1 DEF NoLimbs
  <2>3. Value(result') = 0
    <3>1. \A i \in {0, 1, 2, 3, 4} : result'[i] = 0
      BY <2>2 DEF LimbIndices
    <3> QED BY <1>5, <3>1 DEF Value
  <2>4. Power(0) = 1 /\ column' - 5 = 0
    BY <2>1, Powers
  <2>5. 0 + 1 * a1 = a1
    BY <1>3
  <2>6. Exceeds(Power(5) * (Value(result') + Power(column' - 5) * a1), Product', Power(5))
    BY <1>9, <2>1, <2>3, <2>4, <2>5
  <2> QED BY <1>1, <2>1, <2>2, <2>6 DEF MontgomeryHolds, a1
<1> QED BY <1>10, <1>11

\* One column put out: the rest is a radix times what is carried on.
LEMMA SplitKeeps ==
    ASSUME IInv, Split
    PROVE  LET d == (WithMultiples(column).lo + carry) % B
               f == Filled(columns, quotients)
           IN  /\ d \in LimbValues
               /\ Above(f, column + 1) \in Int /\ carry \in Int /\ Above(f, column) \in Int
               /\ carry + Above(f, column) = d + B * (carry' + Above(f, column + 1))
               /\ Above(f, 9) = 0
<1> DEFINE s   == WithMultiples(column)
           slo == s.lo
           shi == s.hi
           low == slo + carry
           d   == low % B
           h   == low \div B
           f   == Filled(columns, quotients)
           fc  == f[column]
           fa  == Above(f, column + 1)
<1>1. phase = "split" /\ carry' = shi + h
  BY DEF Split
<1>2. B \in Nat \ {0} /\ LimbValues = 0..(B - 1)
  BY RadixIsNat
<1>3. column \in 5..8 /\ quotients \in Seq(LimbValues) /\ carry \in Int
  BY <1>1 DEF IInv, PhaseHolds, TypesHold
<1>4. slo \in Int /\ shi \in Int
  <2>1. \A v \in 0..(8 * (B - 1)) : v \in Int
    BY <1>2
  <2> QED BY <1>1, <2>1, MultiplesBounds
<1>5. Joined(columns) \in [Columns -> Int] /\ slo + B * shi = fc
  BY <1>1, HandledIsFilled
<1>6. low \in Int
  BY <1>3, <1>4
<1>7. d \in LimbValues /\ h \in Int /\ d + B * h = low /\ d \in Int
  <2> HIDE DEF low
  <2>1. d \in LimbValues /\ h \in Int /\ d \in Int
    BY <1>2, <1>6
  <2>2. d + B * h = low
    BY <1>2, <1>6
  <2> QED BY <2>1, <2>2
<1>8. f \in [Columns -> Int]
  BY <1>3, <1>5, FilledIsInts
<1>9. column \in Columns /\ column + 1 \in 0..9 /\ column \in 0..9
  BY <1>3 DEF Columns
<1>10. Above(f, column) = fc + B * fa /\ fc \in Int /\ fa \in Int /\ Above(f, column) \in Int /\ Above(f, 9) = 0
  <2> HIDE DEF f
  <2> QED BY <1>8, <1>9, AboveSteps
<1>11. carry + Above(f, column) = d + B * ((shi + h) + fa)
  <2> HIDE DEF f, fc, fa, slo, shi, d, h
  <2>1. slo = (d + B * h) - carry
    BY <1>2, <1>3, <1>4, <1>7
  <2>2. carry + ((slo + B * shi) + B * fa) = d + B * ((shi + h) + fa)
    BY <1>2, <1>3, <1>4, <1>7, <1>10, <2>1
  <2> QED BY <1>5, <1>10, <2>2
<1> QED BY <1>1, <1>3, <1>7, <1>10, <1>11

LEMMA SplitClears == ASSUME IInv, MontgomeryHolds, Split PROVE MontgomeryHolds'
<1> DEFINE d  == (WithMultiples(column).lo + carry) % B
           f  == Filled(columns, quotients)
           a  == carry + Above(f, column)
           fa == Above(f, column + 1)
           a1 == carry' + fa
           w  == Value(result)
           p  == Power(column - 5)
           e  == [result EXCEPT ![column - 5] = d]
<1>1. /\ phase = "split" /\ column' = column + 1 /\ phase' = IF column = 8 THEN "subtract" ELSE "split"
      /\ result' = [result EXCEPT ![column - 5] = d,
                                  ![4] = IF column = 8 THEN carry' ELSE @]
      /\ UNCHANGED <<hash, half, columns, quotients, upper, rest, digits>>
  BY DEF Split
<1>2. /\ column \in 5..8 /\ result \in Limbs
      /\ \A i \in LimbIndices : i >= column - 5 => result[i] = 0
      /\ Exceeds(Power(5) * (w + p * a), Product, Power(5))
  BY <1>1 DEF IInv, PhaseHolds, TypesHold, MontgomeryHolds
<1>3. /\ d \in LimbValues /\ fa \in Int /\ a = d + B * a1 /\ Above(f, 9) = 0
  BY <1>1, SplitKeeps
<1>4. IInv' /\ result' \in Limbs /\ carry' \in Int
  BY SplitHolds DEF IInv, TypesHold
<1>5. B \in Nat \ {0} /\ LimbValues = 0..(B - 1)
  BY RadixIsNat
<1>6. p \in Nat /\ Power((column - 5) + 1) = B * p /\ w \in Int
  <2>1. column - 5 \in 0..4 /\ column - 5 \in 0..5
    BY <1>2
  <2>2. Power(column - 5) \in Nat /\ Power((column - 5) + 1) = B * Power(column - 5)
    BY <2>1, Powers
  <2>3. w \in Int
    BY <1>2, ValueBelow, Powers
  <2> QED BY <2>2, <2>3
<1>7. /\ e \in Limbs /\ Value(e) = w + p * d
      /\ \A i \in LimbIndices : i >= column - 4 => e[i] = 0
  <2>1. column - 5 \in LimbIndices /\ column - 5 >= column - 5
    BY <1>2 DEF LimbIndices
  <2>2. result[column - 5] = 0
    BY <1>2, <2>1
  <2>3. e \in Limbs /\ Value(e) = w + p * d
    <3> HIDE DEF d
    <3> QED BY <1>2, <1>3, <2>1, <2>2, LimbPut
  <2>4. ASSUME NEW i \in LimbIndices, i >= column - 4 PROVE e[i] = 0
    <3>1. i # column - 5 /\ i >= column - 5
      BY <1>2, <2>4 DEF LimbIndices
    <3>2. e[i] = result[i]
      BY <1>2, <3>1 DEF Limbs
    <3> QED BY <1>2, <3>1, <3>2
  <2> QED BY <2>3, <2>4
<1>8. Product' = Product
  BY <1>1 DEF Product, Operand, Factor
<1>9. d \in Int /\ a1 \in Int
  BY <1>3, <1>4, <1>5
<1> HIDE DEF d, a, w, p
<1>10. CASE column # 8
  <2>1. column - 5 # 4 /\ phase' = "split" /\ column' - 5 = (column - 5) + 1 /\ column' - 5 = column - 4
    BY <1>1, <1>2, <1>10
  <2>2. result' = e
    <3>1. result' = [e EXCEPT ![4] = result[4]]
      BY <1>1, <1>2, <1>10, <2>1
    <3>2. e[4] = result[4] /\ DOMAIN e = LimbIndices
      BY <1>2, <2>1 DEF Limbs, LimbIndices
    <3>3. [e EXCEPT ![4] = e[4]] = e
      BY <1>7 DEF Limbs
    <3> QED BY <3>1, <3>2, <3>3
  <2>3. w + p * a = (w + p * d) + (B * p) * a1
    <3> HIDE DEF a1
    <3> QED BY <1>3, <1>5, <1>6, <1>9
  <2>4. Exceeds(Power(5) * (Value(result') + Power(column' - 5) * a1), Product', Power(5))
    BY <1>2, <1>6, <1>7, <1>8, <2>1, <2>2, <2>3
  <2>5. a1 = (carry + Above(Filled(columns, quotients), column))'
    BY <1>1
  <2>6. \A i \in LimbIndices : i >= column' - 5 => result'[i] = 0
    BY <1>7, <2>1, <2>2
  <2>7. Exceeds(Power(5) * (Value(result) + Power(column - 5) * (carry + Above(Filled(columns, quotients), column))),
                Product, Power(5))'
    BY <2>4, <2>5
  <2> QED BY <1>1, <2>1, <2>6, <2>7 DEF MontgomeryHolds
<1>11. CASE column = 8
  <2>1. result' = [e EXCEPT ![4] = carry'] /\ phase' = "subtract" /\ column - 5 = 3
    BY <1>1, <1>11
  <2>2. carry' \in LimbValues
    <3>1. 4 \in LimbIndices /\ DOMAIN e = LimbIndices
      BY <1>7 DEF Limbs, LimbIndices
    <3>2. result'[4] = carry'
      BY <2>1, <3>1
    <3> QED BY <1>4, <3>1, <3>2 DEF Limbs
  <2>3. 4 \in LimbIndices /\ e[4] = 0
    BY <1>7, <1>11 DEF LimbIndices
  <2>4. Value(result') = (w + p * d) + Power(4) * carry'
    <3> HIDE DEF e
    <3> QED BY <1>7, <2>1, <2>2, <2>3, LimbPut
  <2>5. Power(4) = B * p
    <3>1. (column - 5) + 1 = 4
      BY <1>11
    <3> QED BY <1>6, <3>1
  <2>6. a1 = carry' + 0
    BY <1>3, <1>11
  <2>7. w + p * a = (w + p * d) + (B * p) * carry'
    <3>1. a1 = carry'
      BY <1>4, <2>6
    <3> HIDE DEF a1
    <3>2. a = d + B * a1
      BY <1>3
    <3>3. w + p * (d + B * a1) = (w + p * d) + (B * p) * a1
      BY <1>5, <1>6, <1>9
    <3> QED BY <3>1, <3>2, <3>3
  <2>8. Exceeds(Power(5) * Value(result'), Product', Power(5))
    BY <1>2, <1>8, <2>4, <2>5, <2>7
  <2> QED BY <1>1, <2>1, <2>8 DEF MontgomeryHolds
<1> QED BY <1>10, <1>11

\* What has been cleared is divided by R.
LEMMA RDivides ==
    ASSUME NEW t \in Nat, NEW a \in 0..(Power(5) - 1), NEW b \in 0..(Order - 1), NEW g \in Int,
           Congruent(b, g * Power(5)), Exceeds(Power(5) * t, a * b, Power(5))
    PROVE  t < 2 * Order /\ Congruent(t % Order, a * g) /\ t % Order \in 0..(Order - 1)
<1> DEFINE p == Power(5)
           n == Order
<1>1. p \in Nat \ {0} /\ n \in Nat \ {0} /\ a \in 0..(p - 1) /\ b \in 0..(n - 1)
  BY Powers, OrderBounds
<1>2. PICK k \in 0..(p - 1) : p * t = a * b + k * n
  BY DEF Exceeds
<1>3. Congruent(p * t, a * b)
  <2>1. k \in Int /\ p * t = a * b + k * Order
    BY <1>1, <1>2
  <2> HIDE DEF p
  <2> QED BY <2>1, Zenon DEF Congruent
<1>4. Congruent(b, g * p)
  OBVIOUS
<1> HIDE DEF p, n
<1>5. t < 2 * n
  <2>1. a * b <= (p - 1) * b /\ (p - 1) * b <= (p - 1) * (n - 1) /\ a * b \in Int
    BY <1>1
  <2>2. k * n <= (p - 1) * n /\ k * n \in Int
    BY <1>1, <1>2
  <2>3. (p - 1) * (n - 1) = p * n - p - n + 1 /\ (p - 1) * n = p * n - n /\ p * n \in Int
    BY <1>1
  <2>4. p * t < p * n + p * n
    BY <1>1, <1>2, <2>1, <2>2, <2>3
  <2>5. SUFFICES ASSUME t >= 2 * n PROVE FALSE
    BY <1>1
  <2>6. p * t >= p * (2 * n)
    BY <1>1, <2>5
  <2>7. p * (2 * n) = p * n + p * n /\ p * t \in Int
    BY <1>1
  <2> QED BY <2>3, <2>4, <2>6, <2>7
<1>6. Congruent(t, a * g)
  <2>1. g * p \in Int /\ a \in Int /\ b \in Int /\ p * t \in Int /\ a * b \in Int /\ a * g \in Int
    BY <1>1
  <2>2. b * a \in Int /\ (g * p) * a \in Int
    BY <1>1, <2>1
  <2>3. Congruent(b * a, (g * p) * a)
    BY <1>4, <2>1, CongruentKept
  <2>4. b * a = a * b /\ (g * p) * a = p * (a * g)
    BY <1>1, <2>1
  <2>5. Congruent(p * t, p * (a * g))
    BY <1>3, <2>1, <2>2, <2>3, <2>4, CongruentIsEquivalence
  <2> QED BY <2>1, <2>5, PowerCancels DEF p
<1>7. t % n \in 0..(n - 1) /\ Congruent(t % n, t)
  BY LeftIsCongruent DEF n
<1>8. Congruent(t % n, a * g)
  <2>1. t % n \in Int /\ a * g \in Int /\ t \in Int
    BY <1>1, <1>7
  <2> QED BY <1>6, <1>7, <2>1, CongruentIsEquivalence
<1> QED BY <1>5, <1>7, <1>8 DEF n

\* What montgomery_reduce returns
LEMMA HalfIsReduced ==
    ASSUME IInv, MontgomeryHolds, phase = "subtract"
    PROVE  /\ Subtracted(result, SCALAR_L) \in Limbs
           /\ Value(Subtracted(result, SCALAR_L))
                = IF half = "hi" THEN TimesR(Residue(hash.hi)) ELSE Residue(hash.lo)
<1> DEFINE t == Value(result)
           p == Power(5)
           n == Order
<1>1. /\ result \in Limbs /\ half \in {"hi", "lo"} /\ Exceeds(p * t, Product, p)
  BY DEF IInv, TypesHold, MontgomeryHolds
<1>2. p \in Nat \ {0} /\ n \in Nat \ {0} /\ t \in Nat /\ \A x \in 0..(n - 1) : x \in Int
  BY <1>1, Powers, OrderBounds, ValueBelow
<1> HIDE DEF t
<1>3. hash.hi \in Limbs /\ hash.lo \in Limbs
  BY OperandsAreLimbs
<1>4. /\ TimesR(1) \in 0..(n - 1) /\ Congruent(TimesR(1), 1 * p) /\ TimesR(1) \in Int
      /\ TimesR(TimesR(1)) \in 0..(n - 1) /\ Congruent(TimesR(TimesR(1)), TimesR(1) * p)
  BY <1>2, TimesRIs
<1>5. CASE half = "lo"
  <2> DEFINE a == Value(hash.lo)
  <2>1. Product = a * TimesR(1) /\ a \in 0..(p - 1)
    BY <1>3, <1>5, ValueBelow, MontgomeryAssumption DEF Product, Operand, Factor
  <2> HIDE DEF a
  <2>2. t < 2 * n /\ Congruent(t % n, a * 1) /\ t % n \in 0..(n - 1)
    BY <1>1, <1>2, <1>4, <2>1, RDivides
  <2>3. Congruent(Residue(hash.lo), a) /\ Residue(hash.lo) \in 0..(n - 1)
    BY <1>3, ResidueIs DEF a
  <2>4. a * 1 = a /\ a \in Int
    BY <1>2, <2>1
  <2>5. Congruent(t % n, Residue(hash.lo))
    <3> HIDE DEF n
    <3>1. t % n \in Int /\ Residue(hash.lo) \in Int
      BY <1>2, <2>2, <2>3
    <3> QED BY <2>2, <2>3, <2>4, <3>1, CongruentIsEquivalence
  <2>6. t % n = Residue(hash.lo)
    BY <2>2, <2>3, <2>5, CongruentBelow
  <2> QED BY <1>1, <1>5, <2>2, <2>6, SubtractedReduces DEF t
<1>6. CASE half = "hi"
  <2> DEFINE a == Value(hash.hi)
             r == Residue(hash.hi)
  <2>1. Product = a * TimesR(TimesR(1)) /\ a \in 0..(p - 1)
    BY <1>3, <1>6, ValueBelow, MontgomeryAssumption DEF Product, Operand, Factor
  <2> HIDE DEF a
  <2>2. Congruent(TimesR(TimesR(1)), p * p)
    <3>1. 1 * p = p /\ p * p \in Int /\ TimesR(1) * p \in Int /\ p \in Int /\ TimesR(TimesR(1)) \in Int
      BY <1>2, <1>4
    <3> HIDE DEF p
    <3>2. Congruent(TimesR(1) * p, p * p)
      BY <1>4, <3>1, CongruentKept
    <3> QED BY <1>4, <3>1, <3>2, CongruentIsEquivalence
  <2>3. t < 2 * n /\ Congruent(t % n, a * p) /\ t % n \in 0..(n - 1)
    <3>1. p \in Int
      BY <1>2
    <3> QED BY <1>1, <1>2, <1>4, <2>1, <2>2, <3>1, RDivides
  <2>4. Congruent(r, a) /\ r \in 0..(n - 1) /\ r \in Int
    BY <1>2, <1>3, ResidueIs DEF a
  <2> HIDE DEF r
  <2>5. TimesR(r) \in 0..(n - 1) /\ Congruent(TimesR(r), r * p)
    BY <2>4, TimesRIs
  <2>6. Congruent(t % n, TimesR(r))
    <3> HIDE DEF n, p
    <3>1. t % n \in Int /\ TimesR(r) \in Int /\ a * p \in Int /\ r * p \in Int /\ a \in Int /\ p \in Int
      BY <1>2, <2>1, <2>3, <2>4, <2>5
    <3>2. Congruent(r * p, a * p)
      BY <2>4, <3>1, CongruentKept
    <3>3. Congruent(TimesR(r), a * p)
      BY <2>5, <3>1, <3>2, CongruentIsEquivalence
    <3> QED BY <2>3, <3>1, <3>3, CongruentIsEquivalence
  <2>7. t % n = TimesR(r)
    BY <2>3, <2>5, <2>6, CongruentBelow
  <2> QED BY <1>1, <1>6, <2>3, <2>7, SubtractedReduces DEF t, r
<1> QED BY <1>1, <1>5, <1>6

-----------------------------------------------------------------------------
(***************************************************************************)
(* Digits                                                                  *)
(***************************************************************************)

\* The partial sums of what digits stand for
PartialSums(f, d) == f[0] = 0 /\ \A n \in 1..Len(d) : f[n] = f[n - 1] + d[n] * Weight[n - 1]

LEMMA OfDigitsIs ==
    ASSUME NEW d \in Seq(Int), Len(d) <= DIGITS
    PROVE  \E f \in [0..Len(d) -> Int] : PartialSums(f, d) /\ OfDigits(d) = f[Len(d)]
<1> DEFINE m == Len(d)
           step == [j \in 1..m |-> [u \in Int |-> u + d[j] * Weight[j - 1]]]
           Sums(f) == f = [n \in 0..m |-> IF n = 0 THEN 0 ELSE f[n - 1] + d[n] * Weight[n - 1]]
           r == CHOOSE f : Sums(f)
<1>1. m \in Nat /\ m <= DIGITS /\ DIGITS \in Nat
  BY LenProperties, Radix16Assumption
<1>2. \A j \in 1..m, u \in Int : u + d[j] * Weight[j - 1] \in Int
  <2>1. \A j \in 1..m : d[j] \in Int /\ Weight[j - 1] \in Int
    <3>1. SUFFICES ASSUME NEW j \in 1..m PROVE d[j] \in Int /\ Weight[j - 1] \in Int
      OBVIOUS
    <3>2. j - 1 \in 0..DIGITS
      BY <1>1
    <3>3. \A w \in Nat \ {0} : w \in Int
      OBVIOUS
    <3>4. Weight[j - 1] \in Int
      BY <3>2, <3>3, Weights
    <3>5. d[j] \in Int
      BY ElementOfSeq
    <3> QED BY <3>4, <3>5
  <2>2. \A u, x, y \in Int : u + x * y \in Int
    OBVIOUS
  <2> HIDE DEF m
  <2> QED BY <2>1, <2>2
<1> HIDE DEF m
<1>3. \E f : Sums(f)
  <2>1. step \in [1..m -> [Int -> Int]]
    BY <1>2
  <2>2. PICK f \in [0..m -> Int] : Follows(f, m, 0, step)
    <3> HIDE DEF step
    <3>1. 0 \in Int
      OBVIOUS
    <3> QED BY <1>1, <2>1, <3>1, RecursionHasFunction
  <2>3. ASSUME NEW n \in 0..m PROVE f[n] = IF n = 0 THEN 0 ELSE f[n - 1] + d[n] * Weight[n - 1]
    <3>1. CASE n = 0
      BY <2>2, <3>1 DEF Follows
    <3>2. CASE n # 0
      <4>1. n \in 1..m /\ n - 1 \in 0..m
        BY <1>1, <3>2
      <4>2. f[n] = step[n][f[n - 1]]
        <5> HIDE DEF step
        <5> QED BY <2>2, <4>1 DEF Follows
      <4>3. f[n - 1] \in Int
        BY <2>2, <4>1
      <4> QED BY <3>2, <4>1, <4>2, <4>3
    <3> QED BY <3>1, <3>2
  <2> QED BY <2>2, <2>3
<1>4. Sums(r)
  <2> HIDE DEF Sums
  <2> QED BY <1>3, Zenon
<1>5. OfDigits(d) = r[m]
  BY Zenon DEF OfDigits, m
<1> HIDE DEF r
<1>6. DOMAIN r = 0..m /\ r[0] = 0 /\ \A n \in 1..m : r[n] = r[n - 1] + d[n] * Weight[n - 1]
  BY <1>1, <1>4
<1>7. \A n \in 0..m : r[n] \in Int
  <2> DEFINE T == {n \in 0..m : r[n] \in Int}
  <2>1. 0 \in T
    BY <1>1, <1>6
  <2>2. ASSUME NEW j \in 1..m, j - 1 \in T PROVE j \in T
    <3>1. r[j] \in Int
      BY <1>2, <1>6, <2>2
    <3> QED BY <3>1
  <2> HIDE DEF T
  <2>3. \A j \in 0..m : j \in T
    BY <1>1, <2>1, <2>2, Climbs
  <2> QED BY <2>3 DEF T
<1>8. r \in [0..m -> Int]
  <2>1. r = [n \in 0..m |-> r[n]]
    BY <1>4
  <2> QED BY <1>7, <2>1
<1> QED BY <1>5, <1>6, <1>8 DEF m, PartialSums

LEMMA OfNoDigits == OfDigits(<< >>) = 0
<1>1. << >> \in Seq(Int) /\ Len(<< >>) = 0 /\ 0 <= DIGITS
  BY EmptySeq, Radix16Assumption
<1>2. PICK f \in [0..Len(<< >>) -> Int] : PartialSums(f, << >>) /\ OfDigits(<< >>) = f[Len(<< >>)]
  BY <1>1, OfDigitsIs
<1> QED BY <1>1, <1>2 DEF PartialSums

\* Two digits more
LEMMA OfTwoMore ==
    ASSUME NEW d \in Seq(Int), NEW x \in Int, NEW y \in Int, Len(d) + 2 <= DIGITS
    PROVE  /\ OfDigits(d \o << x, y >>) = (OfDigits(d) + x * Weight[Len(d)]) + y * Weight[Len(d) + 1]
           /\ OfDigits(d) \in Int
<1> DEFINE m == Len(d)
           e == d \o << x, y >>
<1>1. m \in Nat /\ m + 2 <= DIGITS /\ DIGITS \in Nat
  BY LenProperties, Radix16Assumption
<1>2. /\ e \in Seq(Int) /\ Len(e) = m + 2
      /\ \A j \in 1..m : e[j] = d[j]
      /\ e[m + 1] = x /\ e[m + 2] = y
  <2>1. << x, y >> \in Seq(Int) /\ Len(<< x, y >>) = 2 /\ << x, y >>[1] = x /\ << x, y >>[2] = y
    OBVIOUS
  <2> DEFINE t == << x, y >>
  <2> HIDE DEF t
  <2>2. t \in Seq(Int) /\ Len(t) = 2 /\ t[1] = x /\ t[2] = y
    BY <2>1 DEF t
  <2>3. /\ d \o t \in Seq(Int) /\ Len(d \o t) = Len(d) + Len(t)
        /\ \A i \in 1..(Len(d) + Len(t)) : (d \o t)[i] = IF i <= Len(d) THEN d[i] ELSE t[i - Len(d)]
    BY <2>2, ConcatProperties
  <2>4. e = d \o t
    BY DEF t
  <2>5. \A j \in 1..m : e[j] = d[j]
    BY <1>1, <2>2, <2>3, <2>4
  <2>6. m + 1 \in 1..(m + 2) /\ m + 2 \in 1..(m + 2) /\ ~(m + 1 <= m) /\ ~(m + 2 <= m) /\ (m + 1) - m = 1 /\ (m + 2) - m = 2
    BY <1>1
  <2> HIDE DEF e
  <2> QED BY <2>2, <2>3, <2>4, <2>5, <2>6
<1> HIDE DEF m, e
<1>3. PICK f \in [0..m -> Int] : PartialSums(f, d) /\ OfDigits(d) = f[m]
  BY <1>1, OfDigitsIs DEF m
<1>4. PICK g \in [0..(m + 2) -> Int] : PartialSums(g, e) /\ OfDigits(e) = g[m + 2]
  BY <1>1, <1>2, OfDigitsIs
<1>5. \A j \in 0..m : g[j] = f[j]
  <2> DEFINE T == {j \in 0..m : g[j] = f[j]}
  <2>1. 0 \in T
    BY <1>1, <1>3, <1>4 DEF PartialSums
  <2>2. ASSUME NEW j \in 1..m, j - 1 \in T PROVE j \in T
    <3>1. j \in 1..Len(d) /\ j \in 1..Len(e)
      BY <1>1, <1>2 DEF m
    <3>2. g[j] = g[j - 1] + e[j] * Weight[j - 1] /\ f[j] = f[j - 1] + d[j] * Weight[j - 1]
      BY <1>3, <1>4, <3>1 DEF PartialSums
    <3>3. e[j] = d[j] /\ g[j - 1] = f[j - 1]
      BY <1>2, <2>2
    <3>4. g[j] = f[j]
      BY <3>2, <3>3, Zenon
    <3> QED BY <3>4
  <2> HIDE DEF T
  <2>3. \A j \in 0..m : j \in T
    BY <1>1, <2>1, <2>2, Climbs
  <2> QED BY <2>3 DEF T
<1>6. /\ g[m + 1] = g[m] + x * Weight[m]
      /\ g[m + 2] = g[m + 1] + y * Weight[m + 1]
  <2>1. m + 1 \in 1..Len(e) /\ m + 2 \in 1..Len(e) /\ (m + 1) - 1 = m /\ (m + 2) - 1 = m + 1
    BY <1>1, <1>2
  <2>2. g[m + 1] = g[(m + 1) - 1] + e[m + 1] * Weight[(m + 1) - 1]
    BY <1>4, <2>1, Zenon DEF PartialSums
  <2>3. g[m + 2] = g[(m + 2) - 1] + e[m + 2] * Weight[(m + 2) - 1]
    BY <1>4, <2>1, Zenon DEF PartialSums
  <2> QED BY <1>2, <2>1, <2>2, <2>3
<1>7. m \in 0..m
  BY <1>1
<1> QED BY <1>3, <1>4, <1>5, <1>6, <1>7 DEF e, m

\* The challenge
Reduced == (TimesR(Residue(hash.hi)) + Residue(hash.lo)) % Order

\* The digits so far and what is left to be recoded, with the carry, are the
\* challenge.
RecodingHolds ==
    /\ phase \notin {"recode", "done"} => digits = << >>
    /\ phase = "recode" =>
          /\ digits \in Seq(-8..7) /\ Len(digits) \in 0..(DIGITS - 2) /\ Len(digits) % 2 = 0
          /\ rest \in Nat /\ carry \in {0, 1}
          /\ OfDigits(digits) + (rest + carry) * Weight[Len(digits)] = Reduced
          /\ rest * Weight[Len(digits)] <= Reduced
    /\ DigitsExact

ReductionHolds == IInv /\ MontgomeryHolds /\ RecodingHolds

LEMMA ReducedIsBelow ==
    ASSUME IInv
    PROVE  /\ Reduced \in 0..(Order - 1)
           /\ TimesR(Residue(hash.hi)) \in 0..(Order - 1) /\ Residue(hash.lo) \in 0..(Order - 1)
<1> DEFINE n == Order
           x == TimesR(Residue(hash.hi))
           y == Residue(hash.lo)
<1>1. n \in Nat \ {0} /\ hash.hi \in Limbs /\ hash.lo \in Limbs
  BY OrderBounds, OperandsAreLimbs
<1>2. \A z \in 0..(n - 1) : z \in Int
  BY <1>1
<1>3. x \in 0..(n - 1) /\ y \in 0..(n - 1)
  BY <1>1, <1>2, ResidueIs, TimesRIs
<1> HIDE DEF n, x, y
<1>4. (x + y) % n \in 0..(n - 1)
  BY <1>1, <1>3
<1> QED BY <1>3, <1>4 DEF Reduced, n, x, y

LEMMA KeepUpperClears ==
    ASSUME IInv, MontgomeryHolds, RecodingHolds, KeepUpper
    PROVE  MontgomeryHolds' /\ RecodingHolds'
<1>1. /\ phase = "subtract" /\ half = "hi" /\ phase' = "multiply" /\ carry' = 0 /\ result' = NoLimbs
      /\ upper' = Subtracted(result, SCALAR_L) /\ UNCHANGED <<hash, rest, digits>>
  BY DEF KeepUpper, Reset
<1>2. Value(upper') = TimesR(Residue(hash.hi))
  BY <1>1, HalfIsReduced
<1> QED BY <1>1, <1>2 DEF MontgomeryHolds, RecodingHolds, DigitsExact

\* The sum of the two halves is below twice the order, and so is exact.
LEMMA AddHalvesReduces ==
    ASSUME IInv, MontgomeryHolds, RecodingHolds, AddHalves
    PROVE  MontgomeryHolds' /\ RecodingHolds'
<1> DEFINE low == Subtracted(result, SCALAR_L)
           sum == Added(upper, low)
           x == TimesR(Residue(hash.hi))
           y == Residue(hash.lo)
           n == Order
<1>1. /\ phase = "subtract" /\ half = "lo" /\ phase' = "recode" /\ carry' = 0
      /\ result' = Subtracted(sum, SCALAR_L) /\ rest' = Value(result') /\ digits' = digits
      /\ digits = << >> /\ hash' = hash
  BY DEF AddHalves, Reset, RecodingHolds
<1>2. low \in Limbs /\ Value(low) = y
  BY <1>1, HalfIsReduced
<1>3. upper \in Limbs /\ Value(upper) = x
  BY <1>1 DEF IInv, TypesHold, MontgomeryHolds
<1> HIDE DEF low
<1>4. sum \in Limbs
  BY <1>2, <1>3, SumsAreLimbs
<1>5. x \in 0..(n - 1) /\ y \in 0..(n - 1) /\ Reduced \in 0..(n - 1) /\ Reduced = (x + y) % n
  BY ReducedIsBelow DEF Reduced
<1>6. n \in Nat \ {0} /\ 2 * n < Power(5) /\ Power(5) \in Nat
  BY OrderBounds, Powers
<1> HIDE DEF x, y, n
<1>7. x + y < 2 * n /\ x + y < Power(5)
  BY <1>5, <1>6
<1>8. Value(sum) = x + y
  BY <1>2, <1>3, <1>7, AddedIsSum
<1> HIDE DEF sum
<1>9. rest' = Reduced
  BY <1>1, <1>4, <1>5, <1>7, <1>8, SubtractedReduces DEF n
<1>10. Reduced' = Reduced
  BY <1>1 DEF Reduced
<1>11. /\ digits' \in Seq(-8..7) /\ Len(digits') = 0 /\ 0 \in 0..(DIGITS - 2) /\ 0 % 2 = 0
  BY <1>1, EmptySeq, Radix16Assumption
<1>12. rest' \in Nat /\ rest' \in Int
  BY <1>5, <1>6, <1>9
<1>13. /\ OfDigits(digits') + (rest' + carry') * Weight[Len(digits')] = Reduced'
       /\ rest' * Weight[Len(digits')] <= Reduced'
  <2>1. OfDigits(digits') = 0 /\ Weight[Len(digits')] = 1
    BY <1>1, <1>11, OfNoDigits, Weights
  <2>2. \A u \in Int : 0 + (u + 0) * 1 = u /\ u * 1 <= u
    OBVIOUS
  <2>3. 0 + (rest' + 0) * 1 = rest' /\ rest' * 1 <= rest'
    BY <1>12, <2>2
  <2> QED BY <1>1, <1>9, <1>10, <2>1, <2>3
<1>14. RecodingHolds'
  BY <1>1, <1>11, <1>12, <1>13 DEF RecodingHolds, DigitsExact
<1>15. MontgomeryHolds'
  BY <1>1 DEF MontgomeryHolds
<1> QED BY <1>14, <1>15

\* A byte and the carry into it are two digits and the carry out of it.
LEMMA ByteIsTwoDigits ==
    ASSUME NEW b \in 0..255, NEW c \in {0, 1}
    PROVE  LET s == b + 8 * 16 + 8 + c
               x == (s % 16) - 8
               y == ((s \div 16) % 16) - 8
               d == s \div 256
           IN  /\ x \in -8..7 /\ y \in -8..7 /\ d \in {0, 1}
               /\ b + c = x + 16 * y + 256 * d
               /\ b <= 31 => d = 0
<1> DEFINE s == b + 8 * 16 + 8 + c
           p == s % 16
           q == (s \div 16) % 16
           d == s \div 256
<1>1. s \in 136..392 /\ (b <= 31 => s < 256) /\ b + c = s - 136
  OBVIOUS
<1> HIDE DEF s
<1>2. p \in 0..15 /\ q \in 0..15 /\ d \in {0, 1} /\ s = p + 16 * q + 256 * d /\ (s < 256 => d = 0)
  BY <1>1
<1> HIDE DEF p, q, d
<1>3. p - 8 \in -8..7 /\ q - 8 \in -8..7 /\ b + c = (p - 8) + 16 * (q - 8) + 256 * d /\ (b <= 31 => d = 0)
  BY <1>1, <1>2
<1> QED BY <1>2, <1>3 DEF s, p, q, d

LEMMA RecodeKeeps ==
    ASSUME IInv, MontgomeryHolds, RecodingHolds, Recode
    PROVE  MontgomeryHolds' /\ RecodingHolds'
<1> DEFINE b == rest % 256
           c == carry
           s == b + 8 * 16 + 8 + c
           x == (s % 16) - 8
           y == ((s \div 16) % 16) - 8
           c1 == carry'
           r == rest
           r1 == rest'
           m == Len(digits)
           w == Weight[m]
           v == OfDigits(digits)
           z == Reduced
<1>1. /\ phase = "recode" /\ digits' = digits \o << x, y >> /\ carry' = s \div 256 /\ rest' = rest \div 256
      /\ phase' = (IF Len(digits') = DIGITS THEN "done" ELSE "recode")
      /\ UNCHANGED <<hash, half, columns, column, quotients, result, upper>>
  BY DEF Recode
<1>2. /\ digits \in Seq(-8..7) /\ m \in 0..(DIGITS - 2) /\ m % 2 = 0 /\ r \in Nat /\ c \in {0, 1}
      /\ v + (r + c) * w = z /\ r * w <= z
  BY <1>1 DEF RecodingHolds
<1>3. b \in 0..255 /\ r1 \in Nat /\ r = b + 256 * r1
  BY <1>1, <1>2
<1>4. x \in -8..7 /\ y \in -8..7 /\ c1 \in {0, 1} /\ b + c = x + 16 * y + 256 * c1 /\ (b <= 31 => c1 = 0)
  <2>1. c1 = s \div 256
    BY <1>1
  <2>2. b \in 0..255 /\ c \in {0, 1}
    BY <1>2, <1>3
  <2> HIDE DEF b, c, c1
  <2> QED BY <2>1, <2>2, ByteIsTwoDigits
<1> HIDE DEF b, s, x, y, c, c1, r, r1, z
<1>5. DIGITS \in Nat /\ DIGITS % 2 = 0 /\ m \in Nat /\ m + 2 <= DIGITS
  BY <1>2, Radix16Assumption
<1>6. digits \in Seq(Int)
  <2>1. -8..7 \subseteq Int
    OBVIOUS
  <2>2. \A i \in 1..Len(digits) : digits[i] \in Int
    <3> DEFINE S == -8..7
    <3>1. digits \in Seq(S) /\ \A u \in S : u \in Int
      BY <1>2
    <3> HIDE DEF S
    <3> QED BY <3>1, ElementOfSeq
  <2> QED BY <1>2, <2>2, SeqDef
<1>7. digits' \in Seq(-8..7) /\ Len(digits') = m + 2
  <2>1. << x, y >> \in Seq(-8..7) /\ Len(<< x, y >>) = 2
    BY <1>4
  <2> DEFINE t == << x, y >>
  <2>2. digits' = digits \o t
    BY <1>1 DEF x, y, s, b
  <2> HIDE DEF t, m
  <2>3. t \in Seq(-8..7) /\ Len(t) = 2
    BY <2>1 DEF t
  <2> DEFINE S == -8..7
  <2>4. digits \in Seq(S) /\ t \in Seq(S)
    BY <1>2, <2>3
  <2> HIDE DEF S
  <2>5. digits \o t \in Seq(S) /\ Len(digits \o t) = Len(digits) + Len(t)
    BY <2>4, ConcatProperties
  <2> QED BY <2>2, <2>3, <2>5 DEF m, S
<1>8. /\ w \in Nat \ {0} /\ Weight[m + 1] = 16 * w /\ Weight[m + 2] = 16 * (16 * w)
      /\ Weight[DIGITS - 1] = 16 * Weight[DIGITS - 2]
  <2>1. /\ m \in 0..DIGITS /\ m + 1 \in 1..DIGITS /\ m + 2 \in 1..DIGITS /\ (m + 1) - 1 = m /\ (m + 2) - 1 = m + 1
        /\ DIGITS - 1 \in 1..DIGITS /\ (DIGITS - 1) - 1 = DIGITS - 2
    BY <1>5
  <2> HIDE DEF m
  <2> QED BY <2>1, Weights
<1>9. /\ OfDigits(digits') = (v + x * w) + y * (16 * w)
      /\ v \in Int
  <2>1. x \in Int /\ y \in Int /\ Len(digits) + 2 <= DIGITS
    BY <1>4, <1>5
  <2>2. digits' = digits \o << x, y >>
    BY <1>1 DEF x, y, s, b
  <2> HIDE DEF x, y
  <2>3. OfDigits(digits') = (OfDigits(digits) + x * Weight[m]) + y * Weight[m + 1] /\ OfDigits(digits) \in Int
    BY <1>6, <2>1, <2>2, OfTwoMore
  <2> QED BY <1>8, <2>3
<1> HIDE DEF v, w, m
<1>10. ((v + x * w) + y * (16 * w)) + (r1 + c1) * (16 * (16 * w)) = z
  <2>1. x \in Int /\ y \in Int /\ c1 \in Int /\ b \in Int /\ c \in Int
    BY <1>2, <1>3, <1>4
  <2>2. ((v + x * w) + y * (16 * w)) + (r1 + c1) * (16 * (16 * w))
          = v + ((x + 16 * y + 256 * c1) + 256 * r1) * w
    BY <1>3, <1>8, <1>9, <2>1
  <2>3. (b + c) + 256 * r1 = r + c
    BY <1>3, <2>1
  <2> QED BY <1>2, <1>4, <2>2, <2>3
<1>11. r1 * (16 * (16 * w)) <= z
  <2>1. r * w = b * w + r1 * (16 * (16 * w)) /\ b * w >= 0 /\ b * w \in Int
    BY <1>3, <1>8
  <2>2. r1 * (16 * (16 * w)) \in Int /\ r * w \in Int /\ z \in Int
    BY <1>2, <1>3, <1>8, <1>9
  <2> QED BY <1>2, <2>1, <2>2
<1>12. Reduced' = z
  BY <1>1 DEF Reduced, z
<1>13. CASE m + 2 = DIGITS
  <2>1. phase' = "done"
    BY <1>1, <1>7, <1>13
  <2>2. r <= 31
    <3>1. z < 2 * (16 * w)
      <4>1. DIGITS - 2 = m
        BY <1>5, <1>13
      <4>2. z < Order /\ Order < 2 * (16 * w) /\ Order \in Int /\ z \in Int
        BY <1>8, <4>1, ReducedIsBelow, OrderBounds DEF z, w
      <4> QED BY <1>8, <4>2
    <3>2. SUFFICES ASSUME r >= 32 PROVE FALSE
      BY <1>2
    <3>3. r * w >= 32 * w /\ r * w \in Int
      BY <1>2, <1>8, <3>2
    <3>4. z \in Int
      BY <1>2, <1>8, <1>9
    <3>5. 2 * (16 * w) = 32 * w /\ 32 * w \in Int
      BY <1>8
    <3>6. r * w <= z
      BY <1>2
    <3> HIDE DEF r, w, z
    <3> QED BY <3>1, <3>3, <3>4, <3>5, <3>6
  <2>3. r1 = 0 /\ b <= 31
    BY <1>2, <1>3, <2>2
  <2>4. c1 = 0
    BY <1>4, <2>3
  <2>5. OfDigits(digits') = z
    <3>1. (0 + 0) * (16 * (16 * w)) = 0
      BY <1>8
    <3>2. OfDigits(digits') + 0 = z
      BY <1>9, <1>10, <2>3, <2>4, <3>1
    <3>3. OfDigits(digits') \in Int
      <4>1. x \in Int /\ y \in Int
        BY <1>4
      <4> QED BY <1>8, <1>9, <4>1
    <3> QED BY <3>2, <3>3
  <2>6. \A i \in 1..DIGITS : digits'[i] \in -8..7
    BY <1>7, <1>13, ElementOfSeq
  <2>7. DigitsExact'
    BY <1>12, <2>4, <2>5, <2>6 DEF DigitsExact, Reduced, c1
  <2> QED BY <2>1, <2>7 DEF RecodingHolds, MontgomeryHolds
<1>14. CASE m + 2 # DIGITS
  <2>1. phase' = "recode"
    BY <1>1, <1>7, <1>14
  <2>2. m + 2 \in 0..(DIGITS - 2) /\ (m + 2) % 2 = 0
    <3>1. m % 2 = 0
      BY <1>2
    <3> QED BY <1>5, <1>14, <3>1
  <2>3. DigitsExact'
    BY <2>1 DEF DigitsExact
  <2>4. /\ OfDigits(digits') + (rest' + carry') * Weight[Len(digits')] = Reduced'
        /\ rest' * Weight[Len(digits')] <= Reduced'
    BY <1>7, <1>8, <1>9, <1>10, <1>11, <1>12 DEF r1, c1
  <2>5. rest' \in Nat /\ carry' \in {0, 1}
    BY <1>3, <1>4 DEF r1, c1
  <2>6. Len(digits') \in 0..(DIGITS - 2) /\ Len(digits') % 2 = 0
    BY <1>7, <2>2
  <2>7. RecodingHolds'
    BY <1>7, <2>1, <2>3, <2>4, <2>5, <2>6 DEF RecodingHolds
  <2> QED BY <2>1, <2>7 DEF MontgomeryHolds
<1> QED BY <1>13, <1>14

LEMMA ReductionStarts == ASSUME Init PROVE ReductionHolds
BY InitHolds DEF Init, ReductionHolds, MontgomeryHolds, RecodingHolds, DigitsExact

LEMMA ReductionSteps == ASSUME ReductionHolds, [Next]_vars PROVE ReductionHolds'
<1>1. IInv /\ MontgomeryHolds /\ RecodingHolds
  BY DEF ReductionHolds
<1>2. CASE Multiply
  <2>1. digits' = digits /\ phase \notin {"recode", "done"} /\ phase' \notin {"recode", "done"}
    BY <1>2 DEF Multiply
  <2>2. RecodingHolds'
    BY <1>1, <2>1 DEF RecodingHolds, DigitsExact
  <2> QED BY <1>1, <1>2, <2>2, MultiplyHolds, MultiplyClears DEF ReductionHolds
<1>3. CASE Eliminate
  <2>1. digits' = digits /\ phase \notin {"recode", "done"} /\ phase' \notin {"recode", "done"}
    BY <1>3 DEF Eliminate
  <2>2. RecodingHolds'
    BY <1>1, <2>1 DEF RecodingHolds, DigitsExact
  <2> QED BY <1>1, <1>3, <2>2, EliminateHolds, EliminateClears DEF ReductionHolds
<1>4. CASE Split
  <2>1. digits' = digits /\ phase \notin {"recode", "done"} /\ phase' \notin {"recode", "done"}
    BY <1>4 DEF Split
  <2>2. RecodingHolds'
    BY <1>1, <2>1 DEF RecodingHolds, DigitsExact
  <2> QED BY <1>1, <1>4, <2>2, SplitHolds, SplitClears DEF ReductionHolds
<1>5. CASE KeepUpper
  BY <1>1, <1>5, KeepUpperHolds, KeepUpperClears DEF ReductionHolds
<1>6. CASE AddHalves
  BY <1>1, <1>6, AddHalvesHolds, AddHalvesReduces DEF ReductionHolds
<1>7. CASE Recode
  BY <1>1, <1>7, RecodeHolds, RecodeKeeps DEF ReductionHolds
<1>8. ASSUME NEW h \in Hashes, Again(h) PROVE ReductionHolds'
  <2>1. /\ phase = "done" /\ phase' = "multiply" /\ half' = "hi" /\ result' = NoLimbs /\ digits' = << >>
        /\ carry' = carry
    BY <1>8 DEF Again
  <2>2. carry = 0
    BY <1>1, <2>1 DEF RecodingHolds, DigitsExact
  <2> QED BY <1>1, <1>8, <2>1, <2>2, AgainHolds DEF ReductionHolds, MontgomeryHolds, RecodingHolds, DigitsExact
<1>9. CASE UNCHANGED vars
  <2>1. Product' = Product /\ Reduced' = Reduced
    BY <1>9 DEF vars, Product, Operand, Factor, Reduced
  <2>2. MontgomeryHolds'
    BY <1>1, <1>9, <2>1 DEF vars, MontgomeryHolds
  <2>3. RecodingHolds'
    BY <1>1, <1>9, <2>1 DEF vars, RecodingHolds, DigitsExact
  <2> QED BY <1>1, <1>9, <2>2, <2>3, StutterHolds DEF ReductionHolds
<1> QED BY <1>2, <1>3, <1>4, <1>5, <1>6, <1>7, <1>8, <1>9 DEF Next

-----------------------------------------------------------------------------
(***************************************************************************)
(* The constants of the code                                               *)
(***************************************************************************)

\* Five limbs, the lowest first
Of(l0, l1, l2, l3, l4) ==
    [i \in 0..4 |-> IF i = 0 THEN l0 ELSE IF i = 1 THEN l1 ELSE IF i = 2 THEN l2 ELSE IF i = 3 THEN l3 ELSE l4]

\* Numbers below a radix as limbs
Below(radix, l0, l1, l2, l3, l4) ==
    /\ l0 \in Nat /\ l1 \in Nat /\ l2 \in Nat /\ l3 \in Nat /\ l4 \in Nat
    /\ l0 < radix /\ l1 < radix /\ l2 < radix /\ l3 < radix /\ l4 < radix

LEMMA FiveLimbs ==
    ASSUME NEW radix \in Nat, NEW l0, NEW l1, NEW l2, NEW l3, NEW l4, Below(radix, l0, l1, l2, l3, l4)
    PROVE  Of(l0, l1, l2, l3, l4) \in [0..4 -> 0..(radix - 1)] /\ Of(l0, l1, l2, l3, l4)[4] = l4
BY DEF Of, Below

\* The limbs of the code satisfy what the proofs take for granted of them: the
\* order, R, its square and the factor as they stand in scalar/wide.rs.
THEOREM CodeLimbsFit ==
    LimbsFit(4503599627370496,
             Of(671914833335277, 3916664325105025, 1367801, 0, 17592186044416),
             Of(4302102966953709, 1049714374468698, 4503599278581019, 4503599627370495, 17592186044415),
             Of(2764609938444603, 3768881411696287, 1616719297148420, 1087343033131391, 10175238647962),
             1439961107955227)
<1> DEFINE W  == 4503599627370496
           k  == 1439961107955227
           l4 == 17592186044416
           r4 == 17592186044415
           s4 == 10175238647962
           l  == Of(671914833335277, 3916664325105025, 1367801, 0, 17592186044416)
           r  == Of(4302102966953709, 1049714374468698, 4503599278581019, 4503599627370495, 17592186044415)
           rr == Of(2764609938444603, 3768881411696287, 1616719297148420, 1087343033131391, 10175238647962)
<1>1. W \in Nat \ {0} /\ k \in Nat /\ k < W /\ l4 + l4 + 12 <= W /\ r4 + l4 + 12 <= W /\ s4 + l4 + 12 <= W
  BY SMT
<1>2. Below(W, 671914833335277, 3916664325105025, 1367801, 0, 17592186044416)
  BY SMT DEF Below
<1>3. Below(W, 4302102966953709, 1049714374468698, 4503599278581019, 4503599627370495, 17592186044415)
  BY SMT DEF Below
<1>4. Below(W, 2764609938444603, 3768881411696287, 1616719297148420, 1087343033131391, 10175238647962)
  BY SMT DEF Below
<1> HIDE DEF W
<1>5. l \in [0..4 -> 0..(W - 1)] /\ l[4] = l4
  BY <1>1, <1>2, FiveLimbs, SMT
<1>6. r \in [0..4 -> 0..(W - 1)] /\ r[4] = r4
  BY <1>1, <1>3, FiveLimbs, SMT
<1>7. rr \in [0..4 -> 0..(W - 1)] /\ rr[4] = s4
  BY <1>1, <1>4, FiveLimbs, SMT
<1> HIDE DEF k, l4, r4, s4, l, r, rr
<1>8. LimbsFit(W, l, r, rr, k)
  BY <1>1, <1>5, <1>6, <1>7, SMT DEF LimbsFit, LimbIndices
<1> QED BY <1>8, SMT DEF W, k, l, r, rr

\* What five limbs of a radix stand for, and v times the radix to the fifth modulo n
InRadix(radix, a) == a[0] + radix * (a[1] + radix * (a[2] + radix * (a[3] + radix * a[4])))
TimesFifth(v, radix, n) == (((((((((v * radix) % n) * radix) % n) * radix) % n) * radix) % n) * radix) % n

\* What limbs stand for, limb by limb
LEMMA JoinedLimbs ==
    ASSUME NEW radix, NEW l0, NEW l1, NEW l2, NEW l3, NEW l4, NEW v3, NEW v2, NEW v1, NEW v0,
           v3 = l3 + radix * l4, v2 = l2 + radix * v3, v1 = l1 + radix * v2, v0 = l0 + radix * v1
    PROVE  InRadix(radix, Of(l0, l1, l2, l3, l4)) = v0
<1>1. /\ Of(l0, l1, l2, l3, l4)[0] = l0 /\ Of(l0, l1, l2, l3, l4)[1] = l1 /\ Of(l0, l1, l2, l3, l4)[2] = l2
      /\ Of(l0, l1, l2, l3, l4)[3] = l3 /\ Of(l0, l1, l2, l3, l4)[4] = l4
  BY DEF Of
<1> QED BY <1>1, Zenon DEF InRadix

\* Five times the radix, one multiplication after the other
LEMMA FiveTimes ==
    ASSUME NEW v0, NEW v1, NEW v2, NEW v3, NEW v4, NEW v5, NEW radix, NEW n,
           (v0 * radix) % n = v1, (v1 * radix) % n = v2, (v2 * radix) % n = v3,
           (v3 * radix) % n = v4, (v4 * radix) % n = v5
    PROVE  TimesFifth(v0, radix, n) = v5
BY Zenon DEF TimesFifth

\* The constants of the code are to each other what MontgomeryAssumption says of the
\* parameters: the factor is minus the inverse of the order's lowest limb, R is
\* 2^260 modulo the order and RR its square, and the order is below 2^253.
THEOREM CodeIsMontgomery ==
    LET W  == 4503599627370496
        l  == Of(671914833335277, 3916664325105025, 1367801, 0, 17592186044416)
        r  == Of(4302102966953709, 1049714374468698, 4503599278581019, 4503599627370495, 17592186044415)
        rr == Of(2764609938444603, 3768881411696287, 1616719297148420, 1087343033131391, 10175238647962)
        n  == InRadix(W, l)
    IN  /\ l[3] = 0 /\ n < 14474011154664524427946373126085988481658748083205070504932198000989141204992
        /\ (1439961107955227 * l[0] + 1) % W = 0
        /\ InRadix(W, r) = TimesFifth(1, W, n)
        /\ InRadix(W, rr) = TimesFifth(TimesFifth(1, W, n), W, n)
<1> DEFINE W == 4503599627370496
           k == 1439961107955227
           l0 == 671914833335277
           l1 == 3916664325105025
           l2 == 1367801
           l3 == 0
           l4 == 17592186044416
           r0 == 4302102966953709
           r1 == 1049714374468698
           r2 == 4503599278581019
           r3 == 4503599627370495
           r4 == 17592186044415
           s0 == 2764609938444603
           s1 == 3768881411696287
           s2 == 1616719297148420
           s3 == 1087343033131391
           s4 == 10175238647962
           n == 7237005577332262213973186563042994240857116359379907606001950938285454250989
           rv == 7237005577332262213973186563042994233755083008372585100823854863819240236781
           sv == 4185850391763183796333492317919282507600454137915443218209456916606550724923
           lv3 == 79228162514264337593543950336
           lv2 == 356811923176489970264571492362373784097054457
           lv1 == 1606938044258990275541962092341162602528363025773374152205697
           rv3 == 79228162514264337593543950335
           rv2 == 356811923176489970264571492362373783746897179
           rv1 == 1606938044258990275541962092341162600951394836184557024699482
           sv3 == 45825200983368620071322460543
           sv2 == 206378358072877004220246686961738423099487748
           sv1 == 929445496514343671175749043804455442074997448357419220379295
           a2 == 20282409603651670423947251286016
           a3 == 91343852333181432387730302044767688728495783936
           a4 == 411376139330301510538742295639337626245683966408394965837152256
           b1 == 7237005577332262213941201848289824828200112771371492936460256182357630243821
           b2 == 7236861530982818288600399482350390113677164289014756682024055253075758535661
           b3 == 237106759188378737393761845383671565145662109143792798170526575200925021671
           b4 == 2549630520188463070233247571313683653027414741807424350573213477443834581578
           m == 14474011154664524427946373126085988481658748083205070504932198000989141204992
\* Products of small numerals, with a variable for one of them
<1>1. ASSUME NEW w \in Int, w <= W, W <= w
      PROVE  lv3 = l3 + w * l4 /\ rv3 = r3 + w * r4 /\ sv3 = s3 + w * s4 /\ w * w = a2
  <2>1. lv3 = l3 + w * l4
    BY <1>1, SMT DEF W, l3, l4, lv3
  <2>2. rv3 = r3 + w * r4
    BY <1>1, SMT DEF W, r3, r4, rv3
  <2>3. sv3 = s3 + w * s4
    BY <1>1, SMT DEF W, s3, s4, sv3
  <2>4. w * w = a2
    BY <1>1, SMT DEF W, a2
  <2> QED BY <2>1, <2>2, <2>3, <2>4
<1>2. W \in Int /\ W <= W
  BY SMT DEF W
<1>3. a2 % n = a2
  BY SMT DEF a2, n
<1>4. lv2 = l2 + W * lv3
  BY SMT DEF W, l2, lv2, lv3
<1>5. lv1 = l1 + W * lv2
  BY SMT DEF W, l1, lv1, lv2
<1>6. n = l0 + W * lv1
  BY SMT DEF W, l0, lv1, n
<1>7. rv2 = r2 + W * rv3
  BY SMT DEF W, r2, rv2, rv3
<1>8. rv1 = r1 + W * rv2
  BY SMT DEF W, r1, rv1, rv2
<1>9. rv = r0 + W * rv1
  BY SMT DEF W, r0, rv, rv1
<1>10. sv2 = s2 + W * sv3
  BY SMT DEF W, s2, sv2, sv3
<1>11. sv1 = s1 + W * sv2
  BY SMT DEF W, s1, sv1, sv2
<1>12. sv = s0 + W * sv1
  BY SMT DEF W, s0, sv, sv1
<1>13. (1 * W) % n = W
  BY SMT DEF W, n
<1>14. (a2 * W) % n = a3
  BY SMT DEF W, a2, a3, n
<1>15. (a3 * W) % n = a4
  BY SMT DEF W, a3, a4, n
<1>16. (a4 * W) % n = rv
  BY SMT DEF W, a4, n, rv
<1>17. (rv * W) % n = b1
  BY SMT DEF W, b1, n, rv
<1>18. (b1 * W) % n = b2
  BY SMT DEF W, b1, b2, n
<1>19. (b2 * W) % n = b3
  BY SMT DEF W, b2, b3, n
<1>20. (b3 * W) % n = b4
  BY SMT DEF W, b3, b4, n
<1>21. (b4 * W) % n = sv
  BY SMT DEF W, b4, n, sv
<1>22. (k * l0 + 1) % W = 0
  BY SMT DEF k, l0, W
<1>23. n < m
  BY SMT DEF n, m
<1> HIDE DEF W, k, l0, l1, l2, l3, l4, r0, r1, r2, r3, r4, s0, s1, s2, s3, s4, n, rv, sv,
             lv3, lv2, lv1, rv3, rv2, rv1, sv3, sv2, sv1, a2, a3, a4, b1, b2, b3, b4, m
<1>24. lv3 = l3 + W * l4
  BY <1>1, <1>2, Zenon
<1>25. rv3 = r3 + W * r4
  BY <1>1, <1>2, Zenon
<1>26. sv3 = s3 + W * s4
  BY <1>1, <1>2, Zenon
<1>27. (W * W) % n = a2
  BY <1>1, <1>2, <1>3, Zenon
<1>28. InRadix(W, Of(l0, l1, l2, l3, l4)) = n
  BY <1>24, <1>4, <1>5, <1>6, JoinedLimbs, Zenon
<1>29. InRadix(W, Of(r0, r1, r2, r3, r4)) = rv
  BY <1>25, <1>7, <1>8, <1>9, JoinedLimbs, Zenon
<1>30. InRadix(W, Of(s0, s1, s2, s3, s4)) = sv
  BY <1>26, <1>10, <1>11, <1>12, JoinedLimbs, Zenon
<1>31. TimesFifth(1, W, n) = rv
  BY <1>13, <1>27, <1>14, <1>15, <1>16, FiveTimes, SMT
<1>32. TimesFifth(rv, W, n) = sv
  BY <1>17, <1>18, <1>19, <1>20, <1>21, FiveTimes, SMT
<1>33. Of(l0, l1, l2, l3, l4)[0] = l0 /\ Of(l0, l1, l2, l3, l4)[3] = l3
  BY DEF Of
<1>34. LET ll == Of(l0, l1, l2, l3, l4)
           rr == Of(r0, r1, r2, r3, r4)
           ss == Of(s0, s1, s2, s3, s4)
           nn == InRadix(W, ll)
       IN  /\ ll[3] = l3 /\ nn < m
           /\ (k * ll[0] + 1) % W = 0
           /\ InRadix(W, rr) = TimesFifth(1, W, nn)
           /\ InRadix(W, ss) = TimesFifth(TimesFifth(1, W, nn), W, nn)
  BY <1>28, <1>29, <1>30, <1>31, <1>32, <1>33, <1>22, <1>23, Zenon
<1> QED BY <1>34 DEF W, k, l0, l1, l2, l3, l4, m, r0, r1, r2, r3, r4, s0, s1, s2, s3, s4

\* For limbs of every width with LimbAssumption: no column, with the multiples of
\* the order and the carry that the reduction adds to it, comes near the end of
\* its register, and what the last column carries fits the unmasked last limb.
THEOREM ColumnsAlwaysFit == Spec => []ColumnsFit
<1>1. ASSUME IInv PROVE ColumnsFit
  <2>1. B \in Nat /\ B > 11 /\ LimbValues = 0..(B - 1)
    BY RadixIsNat
  <2>2. \A c \in Columns : columns[c].lo < 16 * B /\ columns[c].hi < 16 * B
    <3>1. SUFFICES ASSUME NEW c \in Columns PROVE columns[c].lo < 16 * B /\ columns[c].hi < 16 * B
      OBVIOUS
    <3>2. columns[c].lo \in 0..(5 * (B - 1)) /\ columns[c].hi \in 0..(5 * (B - 1))
      BY <1>1 DEF IInv, ColumnsHold
    <3> QED BY <2>1, <3>2
  <2>3. carry \in Nat /\ carry <= 9 * (B + 1)
    BY <1>1 DEF IInv, TypesHold, ColumnsHold
  <2>4. ASSUME phase \in {"eliminate", "split"}
        PROVE  WithMultiples(column).lo + carry < 32 * B /\ WithMultiples(column).hi < 32 * B
    <3>1. WithMultiples(column).lo \in 0..(8 * (B - 1)) /\ WithMultiples(column).hi \in 0..(8 * (B - 1))
      BY <1>1, <2>4, MultiplesBounds
    <3> QED BY <2>1, <2>3, <3>1
  <2>5. result[4] \in LimbValues
    BY <1>1 DEF IInv, TypesHold, Limbs, LimbIndices
  <2>6. carry < 16 * B
    BY <2>1, <2>3
  <2> QED BY <2>2, <2>4, <2>5, <2>6 DEF ColumnsFit
<1> QED BY <1>1, IInvHolds, PTL

\* For limbs of every width, every order, every hash and every even number of
\* digits with the assumptions: the digits that come out are those of the hash
\* modulo the order.  Montgomery's two divisions by R, the missing products of the
\* order's zero limb, the three subtractions that may give the order back, the
\* unmasked last limb and the carries of the recoding all leave no trace in them.
THEOREM DigitsAlwaysExact == Spec => []DigitsExact
<1>1. ReductionHolds => DigitsExact
  BY DEF ReductionHolds, RecodingHolds
<1>2. Init => ReductionHolds
  BY ReductionStarts
<1>3. ReductionHolds /\ [Next]_vars => ReductionHolds'
  BY ReductionSteps
<1> QED BY <1>1, <1>2, <1>3, PTL DEF Spec
=============================================================================
