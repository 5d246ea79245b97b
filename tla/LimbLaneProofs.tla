--------------------------- MODULE LimbLaneProofs ---------------------------
(***************************************************************************)
(* That the lane on limbs never gives the multiplier a limb it would not   *)
(* read in full, never lets a register wrap, and computes on limbs what    *)
(* Edwards computes on residues, for all widths that fit each other (those *)
(* of the code do: CodeWidthsFit), all constants, encodings and digits.    *)
(*                                                                         *)
(* IInv says of each value which class of the operations it is in:         *)
(* coordinates of points, entries of tables, sums and powers are Operands; *)
(* the first products of a doubling and of the addition of an entry, and   *)
(* what a chain has at hand between two squarings, may be Loosened, which  *)
(* has a wider limb 0. Each formula then takes its inputs' classes to its  *)
(* outputs'.                                                               *)
(*                                                                         *)
(* The classes keep every wrapping operation from wrapping, so that each   *)
(* has the value it would have on integers; carries move a multiple of p   *)
(* at most, which is why everything is compared modulo the factors of p.   *)
(* CourseHolds ties what is at hand between two steps of a formula to its  *)
(* inputs, ChainFollows the powers of a chain to its steps.                *)
(***************************************************************************)
EXTENDS LimbLaneExact, WellFoundedInduction, TLAPS

-----------------------------------------------------------------------------
(***************************************************************************)
(* What the operations of WideField take and return, for all widths that   *)
(* fit each other: Registers hold any value of 64 bits, Sums are what one  *)
(* pass of carries leaves, Operands what the multiplier reads in full,     *)
(* Loosened what a product leaves before the carry of its limb 0.          *)
(***************************************************************************)
\* The widths of the code, 2^51, 2^13, 19, 2^9 and 2048, fit each other: what
\* the proofs take for granted of the parameters is true of field.rs.
THEOREM CodeWidthsFit == WidthsFit(2251799813685248, 8192, 19, 512, 2048)
  BY DEF WidthsFit

\* Multiples and quotients
LEMMA TimesMonotone ==
  ASSUME NEW a \in Nat, NEW b \in Nat, NEW c \in Nat, a <= b
  PROVE  a * c <= b * c
  OBVIOUS

LEMMA DivMod ==
  ASSUME NEW x \in Nat, NEW r \in Nat \ {0}
  PROVE  x \div r \in Nat /\ x % r \in 0..(r - 1) /\ x = r * (x \div r) + (x % r)
  OBVIOUS

LEMMA DivLess ==
  ASSUME NEW x \in Nat, NEW r \in Nat \ {0}, NEW c \in Nat, x < c * r
  PROVE  x \div r < c
  <1>1. SUFFICES ASSUME x \div r >= c PROVE FALSE
    BY DivMod
  <1>2. c * r <= (x \div r) * r
    BY <1>1, DivMod, TimesMonotone
  <1> QED BY <1>2, DivMod

\* What the widths being fit comes to
LEMMA Widths ==
  /\ RADIX \in Nat \ {0} /\ HEADROOM \in Nat \ {0} /\ FOLD \in Nat \ {0}
  /\ REGISTER \in Nat \ {0} /\ IFMA \in Nat \ {0}
  /\ HEADROOM >= 31 /\ HEADROOM < RADIX /\ 4 * FOLD <= RADIX
  /\ FOLD * HEADROOM < RADIX
  /\ 31 * RADIX <= REGISTER
  <1>1. /\ RADIX \in Nat \ {0} /\ HEADROOM \in Nat \ {0} /\ FOLD \in Nat \ {0}
        /\ FOLD * HEADROOM < RADIX /\ 4 * FOLD <= RADIX
        /\ 3 * (2 * (1 + 4 * FOLD)) + 1 <= HEADROOM
    BY FieldAssumption DEF WidthsFit
  <1>2. HEADROOM <= FOLD * HEADROOM
    BY <1>1, TimesMonotone
  <1>3. HEADROOM >= 31
    BY <1>1
  <1>4. 31 * RADIX <= HEADROOM * RADIX
    BY <1>1, <1>3, TimesMonotone
  <1> QED BY <1>1, <1>2, <1>3, <1>4 DEF REGISTER, IFMA

\* A column of a product is below so many times the radix.
COLUMN == 2 * (1 + 4 * FOLD)

\* The same of the widths of loose values
LEMMA LooseWidths ==
  /\ COLUMN \in Nat /\ 3 * COLUMN + 1 <= HEADROOM
  /\ COLUMN * RADIX \in Nat /\ COLUMN * RADIX = 2 * RADIX + 4 * (FOLD * (2 * RADIX))
  /\ COLUMN * RADIX <= REGISTER
  /\ LOOSENESS \in Nat /\ LOOSE_BIAS \in Nat
  /\ RADIX + FOLD * (20 * RADIX + 2 * COLUMN + 11) <= LOOSENESS * RADIX
  /\ 3 * (LOOSENESS * RADIX) <= LOOSE_BIAS * (RADIX - FOLD)
  /\ LOOSENESS * RADIX + LOOSE_BIAS * RADIX + HEADROOM <= REGISTER
  <1>1. /\ COLUMN \in Nat /\ 3 * COLUMN + 1 <= HEADROOM
        /\ COLUMN * RADIX \in Nat /\ COLUMN * RADIX = 2 * RADIX + 4 * (FOLD * (2 * RADIX))
    BY Widths, FieldAssumption DEF WidthsFit, COLUMN
  <1>2. COLUMN * RADIX <= HEADROOM * RADIX
    BY <1>1, Widths, TimesMonotone
  <1>3. /\ LOOSENESS \in Nat /\ LOOSE_BIAS \in Nat
        /\ RADIX + FOLD * (20 * RADIX + 2 * COLUMN + 11) <= LOOSENESS * RADIX
        /\ 3 * (LOOSENESS * RADIX) <= LOOSE_BIAS * (RADIX - FOLD)
    BY FieldAssumption DEF WidthsFit, COLUMN
  <1>4. (LOOSENESS + LOOSE_BIAS) * RADIX + HEADROOM <= HEADROOM * RADIX
    BY FieldAssumption DEF WidthsFit
  <1>5. (LOOSENESS + LOOSE_BIAS) * RADIX = LOOSENESS * RADIX + LOOSE_BIAS * RADIX
    BY <1>3, Widths
  <1> QED BY <1>1, <1>2, <1>3, <1>4, <1>5 DEF REGISTER

\* What Wrap does
LEMMA WrapInRegister == ASSUME NEW n \in Int PROVE Wrap(n) \in 0..(REGISTER - 1)
  BY Widths DEF Wrap

LEMMA WrapSmall == ASSUME NEW n \in 0..(REGISTER - 1) PROVE Wrap(n) = n
  BY Widths DEF Wrap

LEMMA OfRadix ==
  ASSUME NEW x \in Nat
  PROVE  x \div RADIX \in Nat /\ x % RADIX \in 0..(RADIX - 1)
  BY Widths, DivMod

LEMMA Carried ==
  ASSUME NEW a \in Nat, NEW b \in Nat
  PROVE  Wrap(a + b \div RADIX) \in 0..(REGISTER - 1) /\ Wrap(a + b \div RADIX) \in Nat
  BY Widths, OfRadix, WrapInRegister

-----------------------------------------------------------------------------
\* A register of every limb
Registers == [Limb -> 0..(REGISTER - 1)]

Sums == {a \in Vector : a[1] < 2 * RADIX /\ \A i \in 2..5 : a[i] < RADIX}

Operands == {a \in Vector : /\ a[1] < 2 * RADIX /\ a[2] < RADIX + HEADROOM
                            /\ a[3] < RADIX /\ a[4] < RADIX /\ a[5] < RADIX}

\* What the multiplier reads of an operand is all of it.
LEMMA SumsAreOperands == Sums \subseteq Operands
  <1>1. SUFFICES ASSUME NEW a \in Sums PROVE a \in Operands
    OBVIOUS
  <1>2. a \in Vector /\ a[1] < 2 * RADIX /\ a[2] < RADIX /\ a[3] < RADIX /\ a[4] < RADIX /\ a[5] < RADIX
    BY DEF Sums
  <1>3. a[2] \in Nat
    BY <1>2 DEF Vector, Limb
  <1> QED BY <1>2, <1>3, Widths DEF Operands

LEMMA OperandsAreRead == ASSUME NEW a \in Operands PROVE IsIfmaOperand(a) /\ IsIfmaOperand(CarryLimb0(a))
  <1>1. IsIfmaOperand(a)
    BY Widths DEF Operands, Vector, Limb, IsIfmaOperand, IFMA
  <1>2. a[1] \div RADIX < 2 /\ a[1] \div RADIX \in Nat /\ a[1] % RADIX \in 0..(RADIX - 1)
    <2>1. a[1] \in Nat /\ a[1] < 2 * RADIX
      BY DEF Operands, Vector, Limb
    <2> QED BY <2>1, Widths, OfRadix, DivLess
  <1>3. Wrap(a[2] + a[1] \div RADIX) = a[2] + a[1] \div RADIX
    BY <1>2, Widths, WrapSmall DEF Operands, Vector, Limb
  <1>4. \A i \in Limb : CarryLimb0(a)[i] < IFMA
    BY <1>2, <1>3, Widths DEF Operands, Vector, Limb, CarryLimb0, IFMA
  <1> QED BY <1>1, <1>4 DEF IsIfmaOperand

\* One pass of carries, over anything in the registers, leaves a sum.
LEMMA ReduceLooseSums == ASSUME NEW h \in Registers PROVE ReduceLoose(h) \in Sums
  <1> DEFINE l1 == h[1]
             l2 == Wrap(h[2] + l1 \div RADIX)
             l3 == Wrap(h[3] + l2 \div RADIX)
             l4 == Wrap(h[4] + l3 \div RADIX)
             l5 == Wrap(h[5] + l4 \div RADIX)
  <1>1. h[1] \in Nat /\ h[2] \in Nat /\ h[3] \in Nat /\ h[4] \in Nat /\ h[5] \in Nat
    BY Widths DEF Registers, Limb
  <1>2. l1 \in Nat
    BY <1>1
  <1>3. l2 \in Nat
    BY <1>1, <1>2, Carried
  <1>4. l3 \in Nat
    BY <1>1, <1>3, Carried
  <1>5. l4 \in Nat
    BY <1>1, <1>4, Carried
  <1>6. l5 \in Nat /\ l5 \in 0..(REGISTER - 1)
    BY <1>1, <1>5, Carried
  <1> HIDE DEF l1, l2, l3, l4, l5
  <1>7. l5 \div RADIX < HEADROOM /\ l5 \div RADIX \in Nat
    BY <1>6, Widths, DivLess, OfRadix DEF REGISTER
  <1>8. FOLD * (l5 \div RADIX) \in 0..(RADIX - 1)
    <2> DEFINE top == l5 \div RADIX
    <2>1. top \in Nat /\ top <= HEADROOM
      BY <1>7, Widths
    <2> HIDE DEF top
    <2>2. FOLD * top \in Nat /\ top * FOLD <= HEADROOM * FOLD
      BY <2>1, Widths, TimesMonotone
    <2>3. FOLD * top \in 0..(RADIX - 1)
      BY <2>1, <2>2, Widths
    <2> QED BY <2>3 DEF top
  <1>9. /\ l1 % RADIX \in 0..(RADIX - 1) /\ l2 % RADIX \in 0..(RADIX - 1)
        /\ l3 % RADIX \in 0..(RADIX - 1) /\ l4 % RADIX \in 0..(RADIX - 1)
        /\ l5 % RADIX \in 0..(RADIX - 1)
    BY <1>2, <1>3, <1>4, <1>5, <1>6, OfRadix
  <1>10. Wrap(FOLD * (l5 \div RADIX)) = FOLD * (l5 \div RADIX)
    BY <1>8, Widths, WrapSmall
  <1>11. Wrap((l1 % RADIX) + Wrap(FOLD * (l5 \div RADIX))) \in 0..(2 * RADIX - 1)
    BY <1>8, <1>9, <1>10, Widths, WrapSmall
  <1>12. ReduceLoose(h) = <<Wrap((l1 % RADIX) + Wrap(FOLD * (l5 \div RADIX))),
                            l2 % RADIX, l3 % RADIX, l4 % RADIX, l5 % RADIX>>
    BY DEF ReduceLoose, l1, l2, l3, l4, l5
  <1> QED BY <1>9, <1>11, <1>12, Widths DEF Sums, Vector, Limb

LEMMA ReducedSums == ASSUME NEW h \in [Limb -> Int] PROVE Reduced(h) \in Sums
  <1>1. Wrapped(h) \in Registers
    BY WrapInRegister DEF Wrapped, Registers
  <1> QED BY <1>1, ReduceLooseSums DEF Reduced

\* The sums and the difference
LEMMA AddLooseSums ==
  ASSUME NEW a \in Vector, NEW b \in Vector
  PROVE  AddLoose(a, b) \in Sums
  <1>1. Plus(a, b) \in [Limb -> Int]
    BY DEF Plus, Vector
  <1> QED BY <1>1, ReducedSums DEF AddLoose

\* A carry out of limb 0 leaves limb 1 at the radix at most.
LEMMA AddOperands ==
  ASSUME NEW a \in Vector, NEW b \in Vector
  PROVE  Add(a, b) \in Operands
  <1> DEFINE c == AddLoose(a, b)
  <1>1. c \in Sums
    BY AddLooseSums
  <1> HIDE DEF c
  <1>2. /\ c[1] \in Nat /\ c[2] \in Nat /\ c[3] \in Nat /\ c[4] \in Nat /\ c[5] \in Nat
        /\ c[1] < 2 * RADIX /\ c[2] < RADIX /\ c[3] < RADIX /\ c[4] < RADIX /\ c[5] < RADIX
    BY <1>1 DEF Sums, Vector, Limb
  <1>3. c[1] \div RADIX < 2 /\ c[1] \div RADIX \in Nat /\ c[1] % RADIX \in 0..(RADIX - 1)
    BY <1>2, Widths, OfRadix, DivLess
  <1>4. Wrap(c[2] + c[1] \div RADIX) = c[2] + c[1] \div RADIX
    BY <1>2, <1>3, Widths, WrapSmall
  <1>5. CarryLimb0(c) \in Operands
    BY <1>2, <1>3, <1>4, Widths DEF CarryLimb0, Operands, Vector, Limb
  <1> QED BY <1>5 DEF Add, c

LEMMA SubtractSums ==
  ASSUME NEW a \in Vector, NEW b \in Vector
  PROVE  Subtract(a, b) \in Sums
  <1>1. Minus(4, a, b) \in [Limb -> Int]
    BY Widths DEF Minus, Vector
  <1> QED BY <1>1, ReducedSums DEF Subtract

-----------------------------------------------------------------------------
Columns == [lo : Vector, hi : Vector]

BoundedColumns ==
  {c \in Columns : /\ \A k \in Limb : c.lo[k] < COLUMN * RADIX /\ c.hi[k] < COLUMN * RADIX
                   /\ c.lo[5] < 10 * RADIX /\ c.hi[5] < 10 * RADIX}

\* The two halves of a product of limbs, and its terms
LEMMA OfIfma ==
  ASSUME NEW x \in Nat
  PROVE  x \div IFMA \in Nat /\ x % IFMA \in 0..(IFMA - 1)
  BY Widths, DivMod

LEMMA LowHigh ==
  ASSUME NEW a \in Nat, NEW b \in Nat
  PROVE  Low(a, b) \in 0..(2 * RADIX - 1) /\ High(a, b) \in 0..(2 * RADIX - 1)
  <1> DEFINE x == a % IFMA
             y == b % IFMA
  <1>1. x \in 0..(IFMA - 1) /\ y \in 0..(IFMA - 1) /\ x \in Nat /\ y \in Nat /\ IFMA = 2 * RADIX
    BY Widths, OfIfma DEF IFMA
  <1> HIDE DEF x, y
  <1>2. x * y \in Nat
    BY <1>1
  <1>3. x * y < IFMA * IFMA
    <2>1. CASE x = 0
      BY <2>1, <1>1, Widths
    <2>2. CASE x > 0
      <3>1. x * y <= x * IFMA /\ x * IFMA <= IFMA * IFMA
        BY <1>1, Widths, TimesMonotone
      <3>2. y < IFMA /\ x * y # x * IFMA
        BY <2>2, <1>1, Widths
      <3> QED BY <3>1, <3>2, <1>2, <1>1, Widths
    <2> QED BY <2>1, <2>2, <1>1
  <1>4. (x * y) \div IFMA \in 0..(IFMA - 1) /\ (x * y) % IFMA \in 0..(IFMA - 1)
    <2> DEFINE z == x * y
    <2>1. z \in Nat /\ z < IFMA * IFMA
      BY <1>2, <1>3
    <2> HIDE DEF z
    <2>2. IFMA \in Nat \ {0} /\ IFMA \in Nat
      BY Widths
    <2>3. z \div IFMA < IFMA
      BY <2>1, <2>2, DivLess
    <2>4. z \div IFMA \in 0..(IFMA - 1) /\ z % IFMA \in 0..(IFMA - 1)
      BY <2>1, <2>2, <2>3, OfIfma
    <2> QED BY <2>4 DEF z
  <1> QED BY <1>1, <1>4 DEF Low, High, x, y

LEMMA Folded ==
  ASSUME NEW x \in 0..(2 * RADIX - 1)
  PROVE  FOLD * x \in Nat /\ FOLD * x <= FOLD * (2 * RADIX) /\ x <= FOLD * (2 * RADIX)
  <1>1. x \in Nat /\ x <= 2 * RADIX /\ 2 * RADIX \in Nat /\ FOLD \in Nat /\ 1 <= FOLD
    BY Widths
  <1>2. x * FOLD <= (2 * RADIX) * FOLD
    BY <1>1, TimesMonotone
  <1>3. 1 * (2 * RADIX) <= FOLD * (2 * RADIX)
    BY <1>1, TimesMonotone
  <1> QED BY <1>1, <1>2, <1>3

LEMMA ProductTerm ==
  ASSUME NEW a \in Vector, NEW b \in Vector, NEW k \in Limb, NEW i \in Limb
  PROVE  /\ LowTerm(a, b, k, i) \in Nat /\ HighTerm(a, b, k, i) \in Nat
         /\ LowTerm(a, b, k, i) <= FOLD * (2 * RADIX) /\ HighTerm(a, b, k, i) <= FOLD * (2 * RADIX)
         /\ i <= k => LowTerm(a, b, k, i) < 2 * RADIX /\ HighTerm(a, b, k, i) < 2 * RADIX
  <1>1. CASE i <= k
    <2>1. a[i] \in Nat /\ b[k + 1 - i] \in Nat
      BY <1>1 DEF Vector, Limb
    <2>2. /\ Low(a[i], b[k + 1 - i]) \in 0..(2 * RADIX - 1)
          /\ High(a[i], b[k + 1 - i]) \in 0..(2 * RADIX - 1)
      BY <2>1, LowHigh
    <2> QED BY <1>1, <2>2, Folded, Widths DEF LowTerm, HighTerm
  <1>2. CASE ~(i <= k)
    <2>1. a[i] \in Nat /\ b[k + 6 - i] \in Nat
      BY <1>2 DEF Vector, Limb
    <2>2. /\ Low(a[i], b[k + 6 - i]) \in 0..(2 * RADIX - 1)
          /\ High(a[i], b[k + 6 - i]) \in 0..(2 * RADIX - 1)
      BY <2>1, LowHigh
    <2> QED BY <1>2, <2>2, Folded DEF LowTerm, HighTerm
  <1> QED BY <1>1, <1>2

\* What is below COLUMN times the radix does not wrap.
\* No column of a product wraps.
LEMMA ColumnWrap ==
  ASSUME NEW n \in Nat, n < COLUMN * RADIX
  PROVE  Wrap(n) = n
  BY LooseWidths, Widths, WrapSmall

LEMMA ProductColumns ==
  ASSUME NEW a \in Vector, NEW b \in Vector
  PROVE  MultiplyAccum(a, b) \in BoundedColumns
  <1> DEFINE m == MultiplyAccum(a, b)
  <1>1. /\ m = [lo |-> m.lo, hi |-> m.hi]
        /\ m.lo = [k \in Limb |-> m.lo[k]] /\ m.hi = [k \in Limb |-> m.hi[k]]
    BY DEF MultiplyAccum
  <1>2. ASSUME NEW k \in Limb
        PROVE  /\ m.lo[k] \in Nat /\ m.lo[k] < COLUMN * RADIX
               /\ m.hi[k] \in Nat /\ m.hi[k] < COLUMN * RADIX
               /\ k = 5 => m.lo[k] < 10 * RADIX /\ m.hi[k] < 10 * RADIX
    <2> DEFINE l(i) == LowTerm(a, b, k, i)
               h(i) == HighTerm(a, b, k, i)
    <2>1. \A i \in Limb : /\ l(i) \in Nat /\ l(i) <= FOLD * (2 * RADIX)
                          /\ h(i) \in Nat /\ h(i) <= FOLD * (2 * RADIX)
                          /\ i <= k => l(i) < 2 * RADIX /\ h(i) < 2 * RADIX
      BY ProductTerm
    <2>2. /\ m.lo[k] = Wrap(l(1) + l(2) + l(3) + l(4) + l(5))
          /\ m.hi[k] = Wrap(h(1) + h(2) + h(3) + h(4) + h(5))
      BY DEF MultiplyAccum
    <2> HIDE DEF l, h, m
    <2>3. 1 <= k /\ {1, 2, 3, 4, 5} \subseteq Limb
      BY DEF Limb
    <2>l. /\ l(1) \in Nat /\ l(2) \in Nat /\ l(3) \in Nat /\ l(4) \in Nat /\ l(5) \in Nat
          /\ l(1) < 2 * RADIX /\ l(2) <= FOLD * (2 * RADIX) /\ l(3) <= FOLD * (2 * RADIX)
          /\ l(4) <= FOLD * (2 * RADIX) /\ l(5) <= FOLD * (2 * RADIX)
      BY <2>1, <2>3
    <2>h. /\ h(1) \in Nat /\ h(2) \in Nat /\ h(3) \in Nat /\ h(4) \in Nat /\ h(5) \in Nat
          /\ h(1) < 2 * RADIX /\ h(2) <= FOLD * (2 * RADIX) /\ h(3) <= FOLD * (2 * RADIX)
          /\ h(4) <= FOLD * (2 * RADIX) /\ h(5) <= FOLD * (2 * RADIX)
      BY <2>1, <2>3
    <2> DEFINE low  == l(1) + l(2) + l(3) + l(4) + l(5)
               high == h(1) + h(2) + h(3) + h(4) + h(5)
    <2>4. low \in Nat /\ low < COLUMN * RADIX
      BY <2>l, LooseWidths, Widths
    <2>5. high \in Nat /\ high < COLUMN * RADIX
      BY <2>h, LooseWidths, Widths
    <2>6. k = 5 => low < 10 * RADIX /\ high < 10 * RADIX
      BY <2>1, <2>3, Widths
    <2>7. m.lo[k] = Wrap(low) /\ m.hi[k] = Wrap(high)
      BY <2>2
    <2> HIDE DEF low, high
    <2> QED BY <2>4, <2>5, <2>6, <2>7, ColumnWrap
  <1> HIDE DEF m
  <1>3. m.lo \in Vector /\ m.hi \in Vector
    BY <1>1, <1>2 DEF Vector
  <1>4. m \in Columns
    BY <1>1, <1>3 DEF Columns
  <1>5. m \in BoundedColumns
    BY <1>2, <1>4 DEF BoundedColumns, Limb
  <1> QED BY <1>5 DEF m

\* Nor does one of a square.
LEMMA SquareTerm ==
  ASSUME NEW c \in Vector, NEW i \in Limb, NEW j \in Limb
  PROVE  /\ Low(c[i], c[j]) \in 0..(2 * RADIX - 1) /\ High(c[i], c[j]) \in 0..(2 * RADIX - 1)
         /\ FOLD * Low(c[i], c[j]) \in Nat /\ FOLD * Low(c[i], c[j]) <= FOLD * (2 * RADIX)
         /\ FOLD * High(c[i], c[j]) \in Nat /\ FOLD * High(c[i], c[j]) <= FOLD * (2 * RADIX)
  <1>1. c[i] \in Nat /\ c[j] \in Nat
    BY DEF Vector
  <1>2. Low(c[i], c[j]) \in 0..(2 * RADIX - 1) /\ High(c[i], c[j]) \in 0..(2 * RADIX - 1)
    BY <1>1, LowHigh
  <1> QED BY <1>2, Folded

\* What the pairs of column k come to, of either half
LEMMA PairSums ==
  ASSUME NEW c \in Vector, NEW k \in Limb
  PROVE  LET low  == LowOf(c, SquarePairs[k][1]) + LowOf(c, SquarePairs[k][2]) + LowOf(c, SquarePairs[k][3])
             high == HighOf(c, SquarePairs[k][1]) + HighOf(c, SquarePairs[k][2]) + HighOf(c, SquarePairs[k][3])
         IN  /\ low \in Nat /\ low < COLUMN * RADIX
             /\ high \in Nat /\ high < COLUMN * RADIX
             /\ k = 5 => low < 10 * RADIX /\ high < 10 * RADIX
  <1> DEFINE low  == LowOf(c, SquarePairs[k][1]) + LowOf(c, SquarePairs[k][2]) + LowOf(c, SquarePairs[k][3])
             high == HighOf(c, SquarePairs[k][1]) + HighOf(c, SquarePairs[k][2]) + HighOf(c, SquarePairs[k][3])
  <1>w. 2 * RADIX <= FOLD * (2 * RADIX) /\ FOLD * (2 * RADIX) \in Nat
    <2>1. 1 * (2 * RADIX) <= FOLD * (2 * RADIX)
      BY Widths, TimesMonotone
    <2> QED BY <2>1, Widths
  <1>1. CASE k = 1
    <2>1. /\ low = Low(c[1], c[1]) + 2 * (FOLD * Low(c[2], c[5])) + 2 * (FOLD * Low(c[3], c[4]))
          /\ high = High(c[1], c[1]) + 2 * (FOLD * High(c[2], c[5])) + 2 * (FOLD * High(c[3], c[4]))
      BY <1>1, Widths, SquareTerm DEF SquarePairs, LowOf, HighOf, PairWeight, Limb
    <2> QED BY <1>1, <2>1, <1>w, SquareTerm, LooseWidths, Widths DEF Limb
  <1>2. CASE k = 2
    <2>1. /\ low = 2 * Low(c[1], c[2]) + 2 * (FOLD * Low(c[3], c[5])) + FOLD * Low(c[4], c[4])
          /\ high = 2 * High(c[1], c[2]) + 2 * (FOLD * High(c[3], c[5])) + FOLD * High(c[4], c[4])
      BY <1>2, Widths, SquareTerm DEF SquarePairs, LowOf, HighOf, PairWeight, Limb
    <2> QED BY <1>2, <2>1, <1>w, SquareTerm, LooseWidths, Widths DEF Limb
  <1>3. CASE k = 3
    <2>1. /\ low = 2 * Low(c[1], c[3]) + Low(c[2], c[2]) + 2 * (FOLD * Low(c[4], c[5]))
          /\ high = 2 * High(c[1], c[3]) + High(c[2], c[2]) + 2 * (FOLD * High(c[4], c[5]))
      BY <1>3, Widths, SquareTerm DEF SquarePairs, LowOf, HighOf, PairWeight, Limb
    <2> QED BY <1>3, <2>1, <1>w, SquareTerm, LooseWidths, Widths DEF Limb
  <1>4. CASE k = 4
    <2>1. /\ low = 2 * Low(c[1], c[4]) + 2 * Low(c[2], c[3]) + FOLD * Low(c[5], c[5])
          /\ high = 2 * High(c[1], c[4]) + 2 * High(c[2], c[3]) + FOLD * High(c[5], c[5])
      BY <1>4, Widths, SquareTerm DEF SquarePairs, LowOf, HighOf, PairWeight, Limb
    <2> QED BY <1>4, <2>1, <1>w, SquareTerm, LooseWidths, Widths DEF Limb
  <1>5. CASE k = 5
    <2>1. /\ low = 2 * Low(c[1], c[5]) + 2 * Low(c[2], c[4]) + Low(c[3], c[3])
          /\ high = 2 * High(c[1], c[5]) + 2 * High(c[2], c[4]) + High(c[3], c[3])
      BY <1>5, Widths, SquareTerm DEF SquarePairs, LowOf, HighOf, PairWeight, Limb
    <2> QED BY <1>5, <2>1, <1>w, SquareTerm, LooseWidths, Widths DEF Limb
  <1> QED BY <1>1, <1>2, <1>3, <1>4, <1>5 DEF Limb

LEMMA CarryLimb0Vector == ASSUME NEW a \in Vector PROVE CarryLimb0(a) \in Vector
  <1>1. a[1] \in Nat /\ a[2] \in Nat /\ a[3] \in Nat /\ a[4] \in Nat /\ a[5] \in Nat
    BY DEF Vector, Limb
  <1>2. a[1] % RADIX \in Nat /\ Wrap(a[2] + a[1] \div RADIX) \in Nat
    <2>1. a[1] % RADIX \in Nat
      BY <1>1, OfRadix, Widths
    <2> QED BY <2>1, <1>1, Carried
  <1> QED BY <1>1, <1>2 DEF CarryLimb0, Vector, Limb

LEMMA SquareColumns ==
  ASSUME NEW a \in Vector
  PROVE  SquareAccum(a) \in BoundedColumns
  <1> DEFINE m == SquareAccum(a)
             c == CarryLimb0(a)
             low(k)  == LowOf(c, SquarePairs[k][1]) + LowOf(c, SquarePairs[k][2]) + LowOf(c, SquarePairs[k][3])
             high(k) == HighOf(c, SquarePairs[k][1]) + HighOf(c, SquarePairs[k][2]) + HighOf(c, SquarePairs[k][3])
  <1>1. m = [lo |-> [k \in Limb |-> Wrap(low(k))], hi |-> [k \in Limb |-> Wrap(high(k))]]
    BY DEF SquareAccum
  <1>2. c \in Vector
    BY CarryLimb0Vector
  <1> HIDE DEF c
  <1>3. ASSUME NEW k \in Limb
        PROVE  /\ low(k) \in Nat /\ low(k) < COLUMN * RADIX
               /\ high(k) \in Nat /\ high(k) < COLUMN * RADIX
               /\ k = 5 => low(k) < 10 * RADIX /\ high(k) < 10 * RADIX
    BY <1>2, PairSums
  <1> HIDE DEF m, low, high
  <1>4. ASSUME NEW k \in Limb PROVE m.lo[k] = low(k) /\ m.hi[k] = high(k)
    <2>1. m.lo[k] = Wrap(low(k)) /\ m.hi[k] = Wrap(high(k))
      BY <1>1
    <2> QED BY <2>1, <1>3, ColumnWrap
  <1>5. m.lo \in Vector /\ m.hi \in Vector
    <2>1. /\ m.lo = [k \in Limb |-> m.lo[k]] /\ m.hi = [k \in Limb |-> m.hi[k]]
      BY <1>1
    <2> QED BY <2>1, <1>3, <1>4 DEF Vector
  <1>6. m \in Columns
    BY <1>1, <1>5 DEF Columns
  <1>7. m \in BoundedColumns
    BY <1>3, <1>4, <1>6 DEF BoundedColumns, Limb
  <1> QED BY <1>7 DEF m

Loosened == {a \in Vector : IsLoose(a)}

\* The carries along the columns of a product
LEMMA WrapBelow ==
  ASSUME NEW n \in Nat
  PROVE  Wrap(n) \in Nat /\ Wrap(n) <= n
  BY Widths, DivMod DEF Wrap

\* One carry of reduce_ifma_loose: the column below, its low part l and its high
\* part h, into the low part of the next.
LEMMA CarryBound ==
  ASSUME NEW l \in Nat, NEW h \in Nat, NEW c \in Nat, l < c * RADIX
  PROVE  LET carry == Wrap(l \div RADIX + 2 * h)
         IN  carry \in Nat /\ carry <= c + 2 * h
  <1>1. l \div RADIX \in Nat /\ l \div RADIX < c
    BY OfRadix, DivLess, Widths
  <1>2. l \div RADIX + 2 * h \in Nat
    BY <1>1
  <1> QED BY <1>1, <1>2, WrapBelow

\* A carry comes into a column and one of the same bound goes out of it.
CarryMost == 3 * COLUMN + 1 + 2 * (COLUMN * RADIX)

LEMMA CarryStep ==
  ASSUME NEW lo \in Nat, NEW hi \in Nat, NEW carry \in Nat,
         lo < COLUMN * RADIX, hi < COLUMN * RADIX, carry <= CarryMost
  PROVE  LET l == Wrap(lo + carry)
             c == Wrap(l \div RADIX + 2 * hi)
         IN  l \in Nat /\ c \in Nat /\ c <= CarryMost
  <1> DEFINE l == Wrap(lo + carry)
             bound == COLUMN * RADIX
  <1>1. COLUMN \in Nat /\ 3 * COLUMN + 1 <= RADIX /\ bound \in Nat
    BY LooseWidths, Widths
  <1>2. (3 * COLUMN + 1) * RADIX = 3 * bound + RADIX
    BY <1>1, Widths
  <1>3. l \in Nat /\ l <= lo + carry
    BY WrapBelow
  <1> HIDE DEF l
  <1>4. l < (3 * COLUMN + 1) * RADIX
    <2>1. lo < bound /\ carry <= 3 * COLUMN + 1 + 2 * bound
      BY DEF CarryMost
    <2> HIDE DEF bound
    <2> QED BY <2>1, <1>1, <1>2, <1>3, Widths
  <1>5. 3 * COLUMN + 1 \in Nat
    BY <1>1
  <1>6. LET c == Wrap(l \div RADIX + 2 * hi) IN c \in Nat /\ c <= 3 * COLUMN + 1 + 2 * hi
    BY <1>3, <1>4, <1>5, CarryBound
  <1>7. 3 * COLUMN + 1 + 2 * hi <= CarryMost
    BY <1>1 DEF CarryMost
  <1>8. CarryMost \in Nat
    BY <1>1 DEF CarryMost
  <1>9. LET c == Wrap(l \div RADIX + 2 * hi) IN c \in Nat /\ c <= CarryMost
    BY <1>5, <1>6, <1>7, <1>8
  <1> QED BY <1>3, <1>9 DEF l

\* What reduce_ifma_loose leaves is loose, and no more than that.
LEMMA ReduceIfmaLooseBound ==
  ASSUME NEW columns \in BoundedColumns
  PROVE  ReduceIfmaLoose(columns) \in Loosened
  <1> DEFINE lo == columns.lo
             hi == columns.hi
             l1 == lo[1]
             c1 == Wrap(l1 \div RADIX + 2 * hi[1])
             l2 == Wrap(lo[2] + c1)
             c2 == Wrap(l2 \div RADIX + 2 * hi[2])
             l3 == Wrap(lo[3] + c2)
             c3 == Wrap(l3 \div RADIX + 2 * hi[3])
             l4 == Wrap(lo[4] + c3)
             c4 == Wrap(l4 \div RADIX + 2 * hi[4])
             l5 == Wrap(lo[5] + c4)
             c5 == Wrap(l5 \div RADIX + 2 * hi[5])
  <1>1. /\ lo[1] \in Nat /\ lo[2] \in Nat /\ lo[3] \in Nat /\ lo[4] \in Nat /\ lo[5] \in Nat
        /\ hi[1] \in Nat /\ hi[2] \in Nat /\ hi[3] \in Nat /\ hi[4] \in Nat /\ hi[5] \in Nat
        /\ lo[1] < COLUMN * RADIX /\ lo[2] < COLUMN * RADIX /\ lo[3] < COLUMN * RADIX
        /\ lo[4] < COLUMN * RADIX /\ lo[5] < 10 * RADIX
        /\ hi[1] < COLUMN * RADIX /\ hi[2] < COLUMN * RADIX /\ hi[3] < COLUMN * RADIX
        /\ hi[4] < COLUMN * RADIX /\ hi[5] < 10 * RADIX
    BY DEF BoundedColumns, Columns, Vector, Limb
  <1> HIDE DEF lo, hi
  <1>2. COLUMN \in Nat /\ 3 * COLUMN + 1 <= RADIX /\ COLUMN * RADIX \in Nat /\ CarryMost \in Nat
    BY LooseWidths, Widths DEF CarryMost
  <1>3. l1 \in Nat /\ c1 \in Nat /\ c1 <= CarryMost
    <2>1. c1 \in Nat /\ c1 <= COLUMN + 2 * hi[1]
      BY CarryBound, <1>1, <1>2
    <2> HIDE DEF c1
    <2> QED BY <2>1, <1>1, <1>2 DEF CarryMost
  <1> HIDE DEF l1, c1
  <1>4. l2 \in Nat /\ c2 \in Nat /\ c2 <= CarryMost
    BY <1>1, <1>3, CarryStep
  <1> HIDE DEF l2, c2
  <1>5. l3 \in Nat /\ c3 \in Nat /\ c3 <= CarryMost
    BY <1>1, <1>4, CarryStep
  <1> HIDE DEF l3, c3
  <1>6. l4 \in Nat /\ c4 \in Nat /\ c4 <= CarryMost
    BY <1>1, <1>5, CarryStep
  <1> HIDE DEF l4, c4
  <1>7. l5 \in Nat /\ l5 < (2 * COLUMN + 11) * RADIX
    <2>1. l5 \in Nat /\ l5 <= lo[5] + c4
      BY <1>1, <1>6, WrapBelow
    <2>2. (2 * COLUMN + 11) * RADIX = 2 * (COLUMN * RADIX) + 11 * RADIX
      BY <1>2, Widths
    <2> HIDE DEF l5
    <2> QED BY <2>1, <2>2, <1>1, <1>2, <1>6, Widths DEF CarryMost
  <1> HIDE DEF l5
  <1>8. c5 \in Nat /\ c5 <= 20 * RADIX + 2 * COLUMN + 11
    <2>1. 2 * COLUMN + 11 \in Nat
      BY <1>2
    <2>2. c5 \in Nat /\ c5 <= 2 * COLUMN + 11 + 2 * hi[5]
      BY <1>1, <1>7, <2>1, CarryBound
    <2> HIDE DEF c5
    <2> QED BY <2>2, <1>1, <1>2, Widths
  <1> HIDE DEF c5
  <1>9. /\ l1 % RADIX \in 0..(RADIX - 1) /\ l2 % RADIX \in 0..(RADIX - 1)
        /\ l3 % RADIX \in 0..(RADIX - 1) /\ l4 % RADIX \in 0..(RADIX - 1)
        /\ l5 % RADIX \in 0..(RADIX - 1)
    BY <1>3, <1>4, <1>5, <1>6, <1>7, OfRadix
  <1> DEFINE limb0 == Wrap((l1 % RADIX) + Wrap(FOLD * c5))
  <1>10. limb0 \in Nat /\ limb0 < LOOSENESS * RADIX
    <2> DEFINE most == 20 * RADIX + 2 * COLUMN + 11
    <2>1. most \in Nat /\ c5 <= most
      BY <1>2, <1>8, Widths
    <2>2. RADIX + FOLD * most <= LOOSENESS * RADIX
      BY LooseWidths
    <2> HIDE DEF most
    <2>3. c5 * FOLD <= most * FOLD
      BY <1>8, <2>1, Widths, TimesMonotone
    <2>4. FOLD * c5 \in Nat /\ FOLD * c5 <= FOLD * most /\ FOLD * most \in Nat
      BY <1>8, <2>1, <2>3, Widths
    <2> DEFINE folded == Wrap(FOLD * c5)
    <2>5. folded \in Nat /\ folded <= FOLD * most
      <3>1. folded \in Nat /\ folded <= FOLD * c5
        BY <2>4, WrapBelow
      <3> HIDE DEF folded
      <3> QED BY <3>1, <2>4
    <2> HIDE DEF folded
    <2>6. (l1 % RADIX) + folded \in Nat
      BY <1>9, <2>5, Widths
    <2>7. Wrap((l1 % RADIX) + folded) \in Nat /\ Wrap((l1 % RADIX) + folded) <= (l1 % RADIX) + folded
      BY <2>6, WrapBelow
    <2>8. LOOSENESS * RADIX \in Nat
      BY LooseWidths, Widths
    <2> QED BY <2>2, <2>4, <2>5, <2>7, <2>8, <1>9, Widths DEF folded
  <1>11. ReduceIfmaLoose(columns) = <<limb0, l2 % RADIX, l3 % RADIX, l4 % RADIX, l5 % RADIX>>
    BY DEF ReduceIfmaLoose, lo, hi, l1, c1, l2, c2, l3, c3, l4, c4, l5, c5
  <1> HIDE DEF limb0
  <1> QED BY <1>9, <1>10, <1>11, Widths DEF Loosened, IsLoose, Vector, Limb

LEMMA LooseFacts ==
  ASSUME NEW a \in Loosened
  PROVE  /\ a[1] \in Nat /\ a[2] \in Nat /\ a[3] \in Nat /\ a[4] \in Nat /\ a[5] \in Nat
         /\ a[1] < LOOSENESS * RADIX
         /\ a[2] < RADIX /\ a[3] < RADIX /\ a[4] < RADIX /\ a[5] < RADIX
  BY DEF Loosened, IsLoose, Vector, Limb

LEMMA LooseNumbers ==
  /\ LOOSENESS * RADIX \in Nat /\ LOOSE_BIAS * RADIX \in Nat /\ LOOSE_BIAS * FOLD \in Nat
  /\ LOOSE_BIAS * (RADIX - FOLD) = LOOSE_BIAS * RADIX - LOOSE_BIAS * FOLD
  /\ LOOSE_BIAS * (RADIX - 1) = LOOSE_BIAS * RADIX - LOOSE_BIAS
  /\ LOOSE_BIAS <= LOOSE_BIAS * FOLD
  /\ 20 * RADIX <= LOOSENESS * RADIX
  /\ 3 * (LOOSENESS * RADIX) <= LOOSE_BIAS * RADIX - LOOSE_BIAS * FOLD
  /\ LOOSENESS * RADIX + LOOSE_BIAS * RADIX + HEADROOM <= REGISTER
  <1>1. /\ LOOSENESS * RADIX \in Nat /\ LOOSE_BIAS * RADIX \in Nat /\ LOOSE_BIAS * FOLD \in Nat
        /\ LOOSE_BIAS * (RADIX - FOLD) = LOOSE_BIAS * RADIX - LOOSE_BIAS * FOLD
        /\ LOOSE_BIAS * (RADIX - 1) = LOOSE_BIAS * RADIX - LOOSE_BIAS
    BY LooseWidths, Widths
  <1>2. LOOSE_BIAS <= LOOSE_BIAS * FOLD
    <2>1. 1 * LOOSE_BIAS <= FOLD * LOOSE_BIAS
      BY LooseWidths, Widths, TimesMonotone
    <2> QED BY <2>1, LooseWidths, Widths
  <1>3. 20 * RADIX <= LOOSENESS * RADIX
    <2> DEFINE most == 20 * RADIX + 2 * COLUMN + 11
    <2>1. most \in Nat /\ 20 * RADIX <= most /\ RADIX + FOLD * most <= LOOSENESS * RADIX
      BY LooseWidths, Widths
    <2> HIDE DEF most
    <2>2. 1 * most <= FOLD * most
      BY <2>1, Widths, TimesMonotone
    <2> QED BY <2>1, <2>2, <1>1, Widths
  <1> QED BY <1>1, <1>2, <1>3, LooseWidths

\* The classes, of every operation
LEMMA SumsAreLoose == Sums \subseteq Loosened
  <1>1. SUFFICES ASSUME NEW a \in Sums PROVE a \in Loosened
    OBVIOUS
  <1>2. a \in Vector /\ a[1] \in Nat /\ a[1] < 2 * RADIX /\ \A i \in 2..5 : a[i] < RADIX
    BY DEF Sums, Vector, Limb
  <1> QED BY <1>2, LooseNumbers, Widths DEF Loosened, IsLoose

LEMMA LooseCarried == ASSUME NEW a \in Loosened PROVE CarryLimb0(a) \in Operands
  <1>1. a[1] < HEADROOM * RADIX
    BY LooseFacts, LooseNumbers, Widths DEF REGISTER
  <1>2. a[1] \div RADIX < HEADROOM /\ a[1] \div RADIX \in Nat /\ a[1] % RADIX \in 0..(RADIX - 1)
    BY <1>1, LooseFacts, OfRadix, DivLess, Widths
  <1>3. Wrap(a[2] + a[1] \div RADIX) = a[2] + a[1] \div RADIX
    BY <1>2, LooseFacts, Widths, WrapSmall
  <1> QED BY <1>2, <1>3, LooseFacts, Widths DEF CarryLimb0, Operands, Vector, Limb

-----------------------------------------------------------------------------
\* What the operations of the field leave, of any limbs whatever
LEMMA ProductClasses ==
  ASSUME NEW a \in Vector, NEW b \in Vector
  PROVE  MultiplyLoose(a, b) \in Loosened /\ Multiply(a, b) \in Operands
  BY ProductColumns, ReduceIfmaLooseBound, LooseCarried DEF MultiplyLoose, Multiply, ReduceIfma

LEMMA SquareClasses ==
  ASSUME NEW a \in Vector
  PROVE  SquareLoose(a) \in Loosened /\ Square(a) \in Operands
  BY SquareColumns, ReduceIfmaLooseBound, LooseCarried DEF SquareLoose, Square, ReduceIfma

LEMMA Subsets == Operands \subseteq Vector /\ Sums \subseteq Vector /\ Loosened \subseteq Vector
  BY DEF Operands, Sums, Loosened

LEMMA SumClasses ==
  ASSUME NEW a \in Vector, NEW b \in Vector
  PROVE  /\ AddLoose(a, b) \in Operands /\ AddLoose(a, b) \in Loosened
         /\ DoubleLoose(a) \in Operands /\ DoubleLoose(a) \in Loosened
         /\ Add(a, b) \in Operands /\ Twice(a) \in Operands
         /\ Subtract(a, b) \in Operands
  BY AddLooseSums, AddOperands, SubtractSums, SumsAreOperands, SumsAreLoose DEF DoubleLoose, Twice

LEMMA ZeroAndOne ==
  /\ Zero \in Vector /\ Zero \in Operands /\ Zero \in Loosened
  /\ One \in Vector /\ One \in Operands /\ One \in Loosened
  <1>1. 20 * RADIX <= LOOSENESS * RADIX
    BY LooseNumbers
  <1> QED BY <1>1, LooseNumbers, Widths
      DEF Zero, One, Operands, Loosened, IsLoose, Vector, Limb

LEMMA NegationOperands == ASSUME NEW a \in Vector PROVE Negate(a) \in Operands
  BY SumClasses, ZeroAndOne DEF Negate

-----------------------------------------------------------------------------
\* Four times p is enough to subtract an operand,
LEMMA SmallBiasEnough ==
  ASSUME NEW a \in Operands, NEW b \in Operands
  PROVE  InRegisters(Minus(4, a, b)) /\ InRegisters(Plus(a, b))
  <1>1. ASSUME NEW i \in Limb
        PROVE  a[i] \in Nat /\ a[i] < 2 * RADIX /\ b[i] \in Nat /\ b[i] < 2 * RADIX
    BY Widths DEF Operands, Vector, Limb
  <1>2. ASSUME NEW i \in Limb
        PROVE  /\ 0 <= Minus(4, a, b)[i] /\ Minus(4, a, b)[i] + HEADROOM <= REGISTER
               /\ 0 <= Plus(a, b)[i] /\ Plus(a, b)[i] + HEADROOM <= REGISTER
    BY <1>1, Widths DEF Minus, Plus
  <1> QED BY <1>2 DEF InRegisters

\* What is subtracted from a loose value: up to three loose ones
Subtrahends == {b \in Vector : /\ b[1] <= 3 * (LOOSENESS * RADIX)
                               /\ \A i \in 2..5 : b[i] <= 3 * RADIX}

\* and LOOSE_BIAS times p to subtract three loose products.
LEMMA LooseSubtrahends ==
  ASSUME NEW a \in Loosened, NEW b \in Loosened
  PROVE  a \in Subtrahends /\ Plus(a, b) \in Subtrahends /\ Plus(a, Plus(b, b)) \in Subtrahends
  <1>1. /\ a[1] \in Nat /\ a[2] \in Nat /\ a[3] \in Nat /\ a[4] \in Nat /\ a[5] \in Nat
        /\ b[1] \in Nat /\ b[2] \in Nat /\ b[3] \in Nat /\ b[4] \in Nat /\ b[5] \in Nat
        /\ a[1] < LOOSENESS * RADIX /\ b[1] < LOOSENESS * RADIX
        /\ a[2] < RADIX /\ a[3] < RADIX /\ a[4] < RADIX /\ a[5] < RADIX
        /\ b[2] < RADIX /\ b[3] < RADIX /\ b[4] < RADIX /\ b[5] < RADIX
    BY LooseFacts
  <1>2. a \in Vector /\ \A i \in Limb : a[i] \in Nat /\ b[i] \in Nat
    BY Subsets DEF Vector
  <1>3. a \in Subtrahends
    BY <1>1, <1>2, LooseNumbers, Widths DEF Subtrahends
  <1>4. Plus(a, b) \in Vector /\ Plus(a, Plus(b, b)) \in Vector
    BY <1>2 DEF Plus, Vector
  <1>5. Plus(a, b) \in Subtrahends
    BY <1>1, <1>4, LooseNumbers, Widths DEF Subtrahends, Plus, Limb
  <1>6. Plus(a, Plus(b, b)) \in Subtrahends
    BY <1>1, <1>4, LooseNumbers, Widths DEF Subtrahends, Plus, Limb
  <1> QED BY <1>3, <1>5, <1>6

LEMMA LooseBiasEnough ==
  ASSUME NEW a \in Loosened, NEW b \in Subtrahends
  PROVE  InRegisters(Minus(LOOSE_BIAS, a, b))
  <1>1. /\ b[1] \in Nat /\ b[2] \in Nat /\ b[3] \in Nat /\ b[4] \in Nat /\ b[5] \in Nat
        /\ b[1] <= 3 * (LOOSENESS * RADIX)
        /\ b[2] <= 3 * RADIX /\ b[3] <= 3 * RADIX /\ b[4] <= 3 * RADIX /\ b[5] <= 3 * RADIX
    BY DEF Subtrahends, Vector, Limb
  <1>2. ASSUME NEW i \in Limb
        PROVE  /\ 0 <= Minus(LOOSE_BIAS, a, b)[i]
               /\ Minus(LOOSE_BIAS, a, b)[i] + HEADROOM <= REGISTER
    BY <1>1, LooseFacts, LooseNumbers, LooseWidths, Widths DEF Minus, Limb
  <1> QED BY <1>2 DEF InRegisters

LEMMA LoosePlusEnough ==
  ASSUME NEW a \in Loosened, NEW b \in Loosened
  PROVE  InRegisters(Plus(a, b))
  <1>1. ASSUME NEW i \in Limb
        PROVE  0 <= Plus(a, b)[i] /\ Plus(a, b)[i] + HEADROOM <= REGISTER
    BY LooseFacts, LooseNumbers, LooseWidths, Widths DEF Plus, Limb
  <1> QED BY <1>1 DEF InRegisters

-----------------------------------------------------------------------------
(***************************************************************************)
(* The lane on limbs                                                       *)
(***************************************************************************)
\* Points as the lane keeps them
Points == [x : Operands, y : Operands, z : Operands, t : Operands]

\* Entries of the key table, which are projective, and of the affine base point table
Entries == [yPlusX : Operands, yMinusX : Operands, z2 : Operands, t2d : Operands]
           \cup [yPlusX : Operands, yMinusX : Operands, t2d : Operands]

Kinds == {"none", "double", "doubleAffine", "torsionProduct", "add", "addAffine", "torsion", "addCached"}

Formulas == [kind : Kinds \ {"addCached"}, left : Points, right : Points, computeT : BOOLEAN]
            \cup [kind : {"addCached"}, left : Points, right : Entries, computeT : BOOLEAN]

\* The first products of a formula: left loose where the code defers the carry
PartsOf(kind) ==
    IF kind \in {"double", "doubleAffine", "torsionProduct", "addCached"}
    THEN [a : Loosened, b : Loosened, c : Loosened, d : Loosened]
    ELSE [a : Operands, b : Operands, c : Operands, d : Operands]

Summed == [e : Operands, f : Operands, g : Operands, h : Operands]

Steps == {PowSteps, InvertSteps}

\* A chain between its steps: what is about to be multiplied has been carried.
Chains == {c \in [steps : Steps, powers : Seq(Operands), out : Operands \cup Loosened, left : Nat] :
               /\ Len(c.powers) >= 1
               /\ c.left = 0 => c.out \in Operands}

TypesHold == /\ encoding \in Encodings
             /\ setup \in [u : Operands, v : Operands, y : Operands]
             /\ chain \in Chains
             /\ multiples \in Seq(Points)
             /\ digits \in Digits \cup {NoDigits}
             /\ acc \in Points
             /\ formula \in Formulas

StageHolds == /\ stage \notin {"setup", "power"} => Len(multiples) >= 1
              /\ stage = "ladder" => Len(multiples) = 8 /\ position \in Nat \ {0}

PhaseHolds == /\ phase = "sums" => parts \in PartsOf(formula.kind)
              /\ phase = "result" => sums \in Summed

\* The inductive invariant
IInv == TypesHold /\ StageHolds /\ PhaseHolds

-----------------------------------------------------------------------------
\* What Append gives
LEMMA Appended ==
  ASSUME NEW S, NEW s \in Seq(S), NEW e \in S
  PROVE  /\ Append(s, e) \in Seq(S) /\ Len(Append(s, e)) = Len(s) + 1
         /\ Append(s, e)[Len(s) + 1] = e
         /\ \A n \in 1..Len(s) : Append(s, e)[n] = s[n]
  OBVIOUS

\* The chains of the code only name powers already made.
LEMMA StepsRefer ==
  ASSUME NEW steps \in Steps
  PROVE  /\ Len(steps) = 12
         /\ \A n \in 1..12 : /\ steps[n].of \in 1..n
                             /\ steps[n].times \in Nat
                             /\ steps[n].by \in 0..n
  <1>1. /\ Len(SharedSteps) = 11
        /\ \A n \in 1..11 : /\ SharedSteps[n].of \in 1..n
                            /\ SharedSteps[n].times \in Nat
                            /\ SharedSteps[n].by \in 0..n
    BY DEF SharedSteps, Made
  <1>2. PICK last : last \in {Made(12, 2, 1), Made(12, 5, 4)} /\ steps = Append(SharedSteps, last)
    BY DEF Steps, PowSteps, InvertSteps
  <1>3. last.of = 12 /\ last.times \in Nat /\ last.by \in 0..12
    BY <1>2 DEF Made
  <1>4. SharedSteps \in Seq([of : Nat, times : Nat, by : Nat]) /\ last \in [of : Nat, times : Nat, by : Nat]
    BY <1>2 DEF SharedSteps, Made
  <1>5. Len(steps) = 12 /\ steps[12] = last /\ \A n \in 1..11 : steps[n] = SharedSteps[n]
    <2> DEFINE S == [of : Nat, times : Nat, by : Nat]
    <2>1. SharedSteps \in Seq(S) /\ last \in S /\ Len(SharedSteps) = 11
      BY <1>1, <1>4
    <2> DEFINE shared == SharedSteps
    <2> HIDE DEF S, shared
    <2>a. shared \in Seq(S) /\ last \in S
      BY <2>1 DEF shared
    <2>b. /\ Len(Append(shared, last)) = Len(shared) + 1
          /\ Append(shared, last)[Len(shared) + 1] = last
          /\ \A n \in 1..Len(shared) : Append(shared, last)[n] = shared[n]
      BY <2>a, Appended
    <2>2. /\ Len(Append(SharedSteps, last)) = Len(SharedSteps) + 1
          /\ Append(SharedSteps, last)[Len(SharedSteps) + 1] = last
          /\ \A n \in 1..Len(SharedSteps) : Append(SharedSteps, last)[n] = SharedSteps[n]
      BY <2>b DEF shared
    <2> QED BY <2>1, <2>2, <1>2
  <1> QED BY <1>1, <1>3, <1>5

Chain(steps, powers, out, left) == [steps |-> steps, powers |-> powers, out |-> out, left |-> left]

LEMMA IsChain ==
  ASSUME NEW steps \in Steps, NEW powers \in Seq(Operands), Len(powers) >= 1,
         NEW out \in Operands \cup Loosened, NEW left \in Nat, left = 0 => out \in Operands
  PROVE  Chain(steps, powers, out, left) \in Chains
  BY DEF Chain, Chains

LEMMA ChainFields ==
  ASSUME NEW c \in Chains
  PROVE  /\ c = Chain(c.steps, c.powers, c.out, c.left)
         /\ c.steps \in Steps /\ c.powers \in Seq(Operands) /\ Len(c.powers) >= 1
         /\ c.out \in Operands \cup Loosened /\ c.left \in Nat
         /\ c.left = 0 => c.out \in Operands
  BY DEF Chain, Chains

\* A chain stays one as it starts, squares and multiplies.
LEMMA StartedIsChain ==
  ASSUME NEW steps \in Steps, NEW z \in Operands
  PROVE  Started(steps, z) \in Chains
  <1>1. steps[1].times \in Nat
    BY StepsRefer
  <1>2. <<z>> \in Seq(Operands) /\ Len(<<z>>) = 1
    OBVIOUS
  <1> QED BY <1>1, <1>2 DEF Started, Chains

LEMMA SquaredIsChain ==
  ASSUME NEW steps \in Steps, NEW powers \in Seq(Operands), Len(powers) >= 1,
         NEW out \in Operands \cup Loosened, NEW left \in Nat, left > 0
  PROVE  Squared(Chain(steps, powers, out, left)) \in Chains
  <1> DEFINE next == IF left > 1 THEN SquareLoose(out) ELSE Square(out)
  <1>1. SquareLoose(out) \in Loosened /\ Square(out) \in Operands
    BY Subsets, SquareClasses
  <1> DEFINE before == left - 1
             c == Chain(steps, powers, out, left)
  <1>2. Squared(c) = [c EXCEPT !.out = next, !.left = before]
    BY DEF Squared, Chain
  <1>3. next \in Operands \cup Loosened /\ before \in Nat /\ (before = 0 => next \in Operands)
    BY <1>1
  <1> HIDE DEF next, before
  <1>4. [c EXCEPT !.out = next, !.left = before] = [[c EXCEPT !.out = next] EXCEPT !.left = before]
    OBVIOUS
  <1>5. [c EXCEPT !.out = next] = Chain(steps, powers, next, left)
    BY DEF Chain
  <1>6. [Chain(steps, powers, next, left) EXCEPT !.left = before] = Chain(steps, powers, next, before)
    BY DEF Chain
  <1>7. Squared(c) = Chain(steps, powers, next, before)
    <2> HIDE DEF c
    <2>1. Squared(c) = [[c EXCEPT !.out = next] EXCEPT !.left = before]
      BY <1>2, <1>4, Zenon
    <2>2. [[c EXCEPT !.out = next] EXCEPT !.left = before] = Chain(steps, powers, next, before)
      BY <1>5, <1>6, Zenon
    <2> QED BY <2>1, <2>2, Zenon
  <1>8. Chain(steps, powers, next, before) \in Chains
    BY <1>3, IsChain
  <1> QED BY <1>7, <1>8

LEMMA MultipliedIsChain ==
  ASSUME NEW steps \in Steps, NEW powers \in Seq(Operands), Len(powers) >= 1, Len(powers) <= 12,
         NEW out \in Operands
  PROVE  Multiplied(Chain(steps, powers, out, 0)) \in Chains
  <1> DEFINE by    == steps[Len(powers)].by
             power == IF by = 0 THEN out ELSE Multiply(out, powers[by])
             made  == Append(powers, power)
  <1>1. Len(steps) = 12 /\ by \in 0..Len(powers)
    <2> DEFINE n == Len(powers)
    <2>1. n \in Nat /\ n >= 1 /\ n <= 12
      OBVIOUS
    <2> HIDE DEF n
    <2>2. n \in 1..12
      BY <2>1
    <2>3. Len(steps) = 12 /\ steps[n].by \in 0..n
      BY <2>2, StepsRefer
    <2> QED BY <2>3 DEF n
  <1>2. power \in Operands
    <2>1. CASE by = 0
      BY <2>1
    <2>2. CASE by # 0
      <3>1. powers[by] \in Operands
        BY <1>1, <2>2
      <3> QED BY <2>2, <3>1, ProductClasses, Subsets
    <2> QED BY <2>1, <2>2
  <1> HIDE DEF power
  <1>3. made \in Seq(Operands) /\ Len(made) = Len(powers) + 1 /\ Len(powers) \in Nat
    BY <1>2, Appended
  <1> HIDE DEF made
  <1>4. CASE Len(made) > 12
    <2>1. Multiplied(Chain(steps, powers, out, 0)) = Chain(steps, made, power, 0)
      BY <1>1, <1>4 DEF Multiplied, CurrentStep, Chain, made, power
    <2> QED BY <2>1, <1>2, <1>3, IsChain
  <1>5. CASE ~(Len(made) > 12)
    <2> DEFINE next == steps[Len(made)]
    <2>1. Multiplied(Chain(steps, powers, out, 0)) = Chain(steps, made, made[next.of], next.times)
      BY <1>1, <1>5 DEF Multiplied, CurrentStep, Chain, made, power
    <2>2. next.of \in 1..Len(made) /\ next.times \in Nat
      <3> DEFINE n == Len(made)
      <3>1. n \in Nat /\ n >= 1 /\ n <= 12
        BY <1>3, <1>5
      <3> HIDE DEF n
      <3>2. n \in 1..12
        BY <3>1
      <3>3. steps[n].of \in 1..n /\ steps[n].times \in Nat
        BY <3>2, StepsRefer
      <3> QED BY <3>3 DEF n
    <2>3. made[next.of] \in Operands
      BY <1>3, <2>2
    <2> HIDE DEF next
    <2> QED BY <2>1, <2>2, <2>3, <1>3, IsChain
  <1> QED BY <1>4, <1>5

-----------------------------------------------------------------------------
\* Each formula takes points and entries to products of its class.
LEMMA PointCoordinates ==
  ASSUME NEW p \in Points
  PROVE  /\ p.x \in Operands /\ p.y \in Operands /\ p.z \in Operands /\ p.t \in Operands
         /\ p.x \in Vector /\ p.y \in Vector /\ p.z \in Vector /\ p.t \in Vector
  BY Subsets DEF Points

LEMMA ConstantsAreVectors == D \in Vector /\ TWO_D \in Vector /\ SQRT_M1 \in Vector
  BY LaneAssumption

LEMMA DoubleParts ==
  ASSUME NEW p \in Points, NEW affineZ \in BOOLEAN
  PROVE  DoubleProducts(p, affineZ) \in [a : Loosened, b : Loosened, c : Loosened, d : Loosened]
  <1>1. AddLoose(p.x, p.y) \in Vector
    BY PointCoordinates, SumClasses, Subsets
  <1>2. /\ SquareLoose(p.x) \in Loosened /\ SquareLoose(p.y) \in Loosened
        /\ SquareLoose(p.z) \in Loosened /\ SquareLoose(AddLoose(p.x, p.y)) \in Loosened
    BY <1>1, PointCoordinates, SquareClasses
  <1> QED BY <1>2, ZeroAndOne DEF DoubleProducts

LEMMA AddParts ==
  ASSUME NEW p \in Points, NEW q \in Points, NEW affineRhs \in BOOLEAN
  PROVE  AddProducts(p, q, affineRhs) \in [a : Operands, b : Operands, c : Operands, d : Operands]
  <1>1. /\ Subtract(p.y, p.x) \in Vector /\ Subtract(q.y, q.x) \in Vector
        /\ AddLoose(p.y, p.x) \in Vector /\ AddLoose(q.y, q.x) \in Vector
    BY PointCoordinates, SumClasses, Subsets
  <1>2. Multiply(p.t, q.t) \in Vector /\ Multiply(p.z, q.z) \in Vector
    BY PointCoordinates, ProductClasses, Subsets
  <1>3. /\ Multiply(Subtract(p.y, p.x), Subtract(q.y, q.x)) \in Operands
        /\ Multiply(AddLoose(p.y, p.x), AddLoose(q.y, q.x)) \in Operands
        /\ Multiply(Multiply(p.t, q.t), TWO_D) \in Operands
    BY <1>1, <1>2, ProductClasses, ConstantsAreVectors
  <1>4. DoubleLoose(p.z) \in Operands /\ DoubleLoose(Multiply(p.z, q.z)) \in Operands
    BY <1>2, PointCoordinates, SumClasses
  <1> QED BY <1>3, <1>4 DEF AddProducts

LEMMA TorsionParts ==
  ASSUME NEW p \in Points, NEW r \in Points
  PROVE  TorsionProducts(p, r) \in [a : Operands, b : Operands, c : Operands, d : Operands]
  <1>1. /\ Subtract(p.y, p.x) \in Vector /\ Subtract(r.y, r.x) \in Vector
        /\ AddLoose(p.y, p.x) \in Vector /\ AddLoose(r.y, r.x) \in Vector
    BY PointCoordinates, SumClasses, Subsets
  <1>2. Multiply(p.t, r.t) \in Vector
    BY PointCoordinates, ProductClasses, Subsets
  <1>3. /\ Multiply(Subtract(p.y, p.x), AddLoose(r.y, r.x)) \in Operands
        /\ Multiply(AddLoose(p.y, p.x), Subtract(r.y, r.x)) \in Operands
        /\ Multiply(Multiply(p.t, r.t), TWO_D) \in Operands
    BY <1>1, <1>2, ProductClasses, ConstantsAreVectors
  <1>4. DoubleLoose(p.z) \in Operands
    BY PointCoordinates, SumClasses
  <1> QED BY <1>3, <1>4 DEF TorsionProducts

LEMMA CachedParts ==
  ASSUME NEW p \in Points, NEW entry \in Entries
  PROVE  AddCachedProducts(p, entry) \in [a : Loosened, b : Loosened, c : Loosened, d : Loosened]
  <1>1. /\ entry.yMinusX \in Vector /\ entry.yPlusX \in Vector /\ entry.t2d \in Vector
        /\ "z2" \in DOMAIN entry => entry.z2 \in Vector
    BY Subsets DEF Entries
  <1>2. Subtract(p.y, p.x) \in Vector /\ AddLoose(p.y, p.x) \in Vector
    BY PointCoordinates, SumClasses, Subsets
  <1>3. /\ MultiplyLoose(Subtract(p.y, p.x), entry.yMinusX) \in Loosened
        /\ MultiplyLoose(AddLoose(p.y, p.x), entry.yPlusX) \in Loosened
        /\ MultiplyLoose(p.t, entry.t2d) \in Loosened
    BY <1>1, <1>2, PointCoordinates, ProductClasses
  <1>4. ("z2" \in DOMAIN entry => MultiplyLoose(p.z, entry.z2) \in Loosened) /\ DoubleLoose(p.z) \in Loosened
    BY <1>1, PointCoordinates, ProductClasses, SumClasses
  <1> QED BY <1>3, <1>4 DEF AddCachedProducts

LEMMA ProductsFit == ASSUME NEW q \in Formulas PROVE Products(q) \in PartsOf(q.kind)
  <1>1. q.left \in Points /\ q.kind \in Kinds
    BY DEF Formulas, Kinds
  <1>2. CASE q.kind \in {"double", "doubleAffine", "torsionProduct"}
    <2> DEFINE doubled(b) == DoubleProducts(q.left, b)
    <2>1. /\ doubled(TRUE) \in [a : Loosened, b : Loosened, c : Loosened, d : Loosened]
          /\ doubled(FALSE) \in [a : Loosened, b : Loosened, c : Loosened, d : Loosened]
      BY <1>1, DoubleParts
    <2>2. [doubled(TRUE) EXCEPT !.c = Zero] \in [a : Loosened, b : Loosened, c : Loosened, d : Loosened]
      <3> DEFINE r == doubled(TRUE)
      <3>1. r \in [a : Loosened, b : Loosened, c : Loosened, d : Loosened]
        BY <2>1
      <3> HIDE DEF r
      <3>2. [r EXCEPT !.c = Zero] \in [a : Loosened, b : Loosened, c : Loosened, d : Loosened]
        BY <3>1, ZeroAndOne
      <3> QED BY <3>2 DEF r
    <2> QED BY <1>2, <2>1, <2>2 DEF Products, PartsOf
  <1>3. CASE q.kind \in {"add", "addAffine", "torsion"}
    <2>1. q.right \in Points
      BY <1>3 DEF Formulas
    <2> QED BY <1>1, <1>3, <2>1, AddParts, TorsionParts DEF Products, PartsOf
  <1>4. CASE q.kind = "addCached"
    <2>1. q.right \in Entries
      BY <1>4 DEF Formulas
    <2> QED BY <1>1, <1>4, <2>1, CachedParts DEF Products, PartsOf
  <1>5. CASE q.kind = "none"
    BY <1>5, ZeroAndOne DEF Products, PartsOf, NoParts
  <1> QED BY <1>1, <1>2, <1>3, <1>4, <1>5 DEF Kinds

-----------------------------------------------------------------------------
\* The sums of those products stay inside their registers.
LEMMA MinusTyped ==
  ASSUME NEW bias \in Nat, NEW a \in Vector, NEW b \in Vector
  PROVE  Minus(bias, a, b) \in [Limb -> Int]
  <1>1. ASSUME NEW i \in Limb
        PROVE  a[i] + bias * (IF i = 1 THEN RADIX - FOLD ELSE RADIX - 1) - b[i] \in Int
    BY Widths DEF Vector
  <1> QED BY <1>1 DEF Minus

LEMMA PlusTyped ==
  ASSUME NEW a \in Vector, NEW b \in Vector
  PROVE  Plus(a, b) \in [Limb -> Int]
  BY DEF Plus, Vector

LEMMA SumsFit ==
  ASSUME NEW kind \in Kinds, NEW s \in PartsOf(kind)
  PROVE  /\ DOMAIN RawSums(kind, s) = {"e", "f", "g", "h"}
         /\ \A n \in {"e", "f", "g", "h"} : /\ InRegisters(RawSums(kind, s)[n])
                                            /\ RawSums(kind, s)[n] \in [Limb -> Int]
  <1> DEFINE Holds(r) == /\ DOMAIN r = {"e", "f", "g", "h"}
                         /\ \A n \in {"e", "f", "g", "h"} : InRegisters(r[n]) /\ r[n] \in [Limb -> Int]
  <1>z. InRegisters(Zero) /\ Zero \in [Limb -> Int]
    BY Widths DEF InRegisters, Zero, Limb
  <1>1. CASE kind \in {"double", "doubleAffine", "torsionProduct", "addCached"}
    <2>1. s.a \in Loosened /\ s.b \in Loosened /\ s.c \in Loosened /\ s.d \in Loosened
      BY <1>1 DEF PartsOf
    <2>2. CASE kind # "addCached"
      <3>1. /\ InRegisters(Minus(LOOSE_BIAS, s.d, Plus(s.a, s.b)))
            /\ InRegisters(Minus(LOOSE_BIAS, s.b, Plus(s.a, Plus(s.c, s.c))))
            /\ InRegisters(Minus(LOOSE_BIAS, s.b, s.a))
            /\ InRegisters(Minus(LOOSE_BIAS, Zero, Plus(s.a, s.b)))
        BY <2>1, LooseSubtrahends, LooseBiasEnough, ZeroAndOne
      <3>2. /\ Minus(LOOSE_BIAS, s.d, Plus(s.a, s.b)) \in [Limb -> Int]
            /\ Minus(LOOSE_BIAS, s.b, Plus(s.a, Plus(s.c, s.c))) \in [Limb -> Int]
            /\ Minus(LOOSE_BIAS, s.b, s.a) \in [Limb -> Int]
            /\ Minus(LOOSE_BIAS, Zero, Plus(s.a, s.b)) \in [Limb -> Int]
        <4>1. /\ Plus(s.a, s.b) \in Vector /\ Plus(s.a, Plus(s.c, s.c)) \in Vector
              /\ s.a \in Vector /\ s.b \in Vector /\ s.d \in Vector /\ Zero \in Vector
          BY <2>1, LooseSubtrahends, Subsets, ZeroAndOne DEF Subtrahends
        <4> QED BY <4>1, MinusTyped, LooseWidths
      <3>3. Holds(DoubleSums(s))
        BY <3>1, <3>2 DEF DoubleSums
      <3>4. Holds([DoubleSums(s) EXCEPT !.f = Zero, !.g = Zero])
        BY <3>1, <3>2, <1>z DEF DoubleSums
      <3> QED BY <1>1, <2>2, <3>3, <3>4 DEF RawSums
    <2>3. CASE kind = "addCached"
      <3>1. /\ InRegisters(Minus(LOOSE_BIAS, s.b, s.a)) /\ InRegisters(Minus(LOOSE_BIAS, s.d, s.c))
            /\ InRegisters(Plus(s.d, s.c)) /\ InRegisters(Plus(s.b, s.a))
        BY <2>1, LooseSubtrahends, LooseBiasEnough, LoosePlusEnough
      <3>2. /\ Minus(LOOSE_BIAS, s.b, s.a) \in [Limb -> Int] /\ Minus(LOOSE_BIAS, s.d, s.c) \in [Limb -> Int]
            /\ Plus(s.d, s.c) \in [Limb -> Int] /\ Plus(s.b, s.a) \in [Limb -> Int]
        BY <2>1, Subsets, MinusTyped, PlusTyped, LooseWidths
      <3>3. Holds(AddSums(LOOSE_BIAS, s))
        BY <3>1, <3>2 DEF AddSums
      <3> QED BY <2>3, <3>3 DEF RawSums
    <2> QED BY <2>2, <2>3
  <1>2. CASE kind \in {"add", "addAffine", "torsion"}
    <2>1. s.a \in Operands /\ s.b \in Operands /\ s.c \in Operands /\ s.d \in Operands
      BY <1>2 DEF PartsOf
    <2>2. /\ InRegisters(Minus(4, s.b, s.a)) /\ InRegisters(Minus(4, s.d, s.c))
          /\ InRegisters(Plus(s.d, s.c)) /\ InRegisters(Plus(s.b, s.a))
      BY <2>1, SmallBiasEnough
    <2>3. /\ Minus(4, s.b, s.a) \in [Limb -> Int] /\ Minus(4, s.d, s.c) \in [Limb -> Int]
          /\ Plus(s.d, s.c) \in [Limb -> Int] /\ Plus(s.b, s.a) \in [Limb -> Int]
      BY <2>1, Subsets, MinusTyped, PlusTyped
    <2>4. Holds(AddSums(4, s)) /\ Holds(TorsionSums(s))
      BY <2>2, <2>3 DEF AddSums, TorsionSums
    <2> QED BY <1>2, <2>4 DEF RawSums
  <1>3. CASE kind = "none"
    BY <1>3, <1>z DEF RawSums, NoSums
  <1> QED BY <1>1, <1>2, <1>3 DEF Kinds
-----------------------------------------------------------------------------
\* What comes out of a formula is a point again.
LEMMA PointMade ==
  ASSUME NEW kind, NEW s \in Summed, NEW computeT \in BOOLEAN
  PROVE  PointOf(kind, s, computeT) \in Points
  <1>1. s.e \in Vector /\ s.f \in Vector /\ s.g \in Vector /\ s.h \in Vector
    BY Subsets DEF Summed
  <1>2. /\ Multiply(s.e, s.f) \in Operands /\ Multiply(s.g, s.h) \in Operands
        /\ Multiply(s.f, s.g) \in Operands /\ Multiply(s.e, s.h) \in Operands
    BY <1>1, ProductClasses
  <1> QED BY <1>2, ZeroAndOne DEF PointOf, Points

LEMMA ResultIsPoint ==
  ASSUME IInv, phase = "result"
  PROVE  Result \in Points
  <1>1. sums \in Summed /\ formula.computeT \in BOOLEAN
    BY DEF IInv, PhaseHolds, TypesHold, Formulas
  <1> QED BY <1>1, PointMade DEF Result

\* What is read out of the two tables is an entry.
LEMMA CachedEntryFits ==
  ASSUME NEW p \in Points, NEW isNegative \in BOOLEAN
  PROVE  CachedEntry(p, isNegative) \in [yPlusX : Operands, yMinusX : Operands, z2 : Operands, t2d : Operands]
  <1>1. Multiply(p.t, TWO_D) \in Operands
    BY PointCoordinates, ProductClasses, ConstantsAreVectors
  <1>2. Add(p.y, p.x) \in Operands /\ Subtract(p.y, p.x) \in Operands /\ Twice(p.z) \in Operands
    BY PointCoordinates, SumClasses
  <1>3. Negate(Multiply(p.t, TWO_D)) \in Operands
    BY <1>1, Subsets, NegationOperands
  <1> QED BY <1>1, <1>2, <1>3 DEF CachedEntry

LEMMA IdentityFits == CachedIdentity \in [yPlusX : Operands, yMinusX : Operands, z2 : Operands, t2d : Operands]
  <1>1. <<2, 0, 0, 0, 0>> \in Operands
    BY Widths DEF Operands, Vector, Limb
  <1> QED BY <1>1, ZeroAndOne DEF CachedIdentity

LEMMA Indexed ==
  ASSUME NEW S, NEW s \in Seq(S), NEW i \in 1..Len(s)
  PROVE  s[i] \in S
  OBVIOUS

LEMMA KeyEntryFits ==
  ASSUME NEW digit \in -8..8, multiples \in Seq(Points), Len(multiples) = 8
  PROVE  KeyEntry(digit) \in [yPlusX : Operands, yMinusX : Operands, z2 : Operands, t2d : Operands]
  <1>1. CASE digit = 0
    BY <1>1, IdentityFits DEF KeyEntry
  <1>2. CASE digit # 0
    <2>1. Magnitude(digit) \in 1..8
      BY <1>2 DEF Magnitude
    <2> DEFINE m == Magnitude(digit)
               opposite == digit < 0
    <2>2. m \in 1..8 /\ opposite \in BOOLEAN
      BY <2>1
    <2>3. KeyEntry(digit) = CachedEntry(multiples[m], opposite)
      BY <1>2 DEF KeyEntry
    <2> HIDE DEF m, opposite
    <2>4. m \in 1..Len(multiples)
      BY <2>2
    <2>5. multiples[m] \in Points
      BY <2>4, Indexed
    <2> QED BY <2>2, <2>3, <2>5, CachedEntryFits
  <1> QED BY <1>1, <1>2

LEMMA BaseEntryFits ==
  ASSUME NEW digit \in -1..1, multiples \in Seq(Points), Len(multiples) >= 1
  PROVE  BaseEntry(digit) \in Entries
  <1> DEFINE x     == Multiply(multiples[1].x, One)
             y     == Multiply(multiples[1].y, One)
             t2d   == Multiply(Multiply(x, y), TWO_D)
  <1>1. multiples[1].x \in Vector /\ multiples[1].y \in Vector
    BY PointCoordinates
  <1>2. x \in Vector /\ y \in Vector
    BY <1>1, ZeroAndOne, ProductClasses, Subsets
  <1>3. Multiply(x, y) \in Vector
    BY <1>2, ProductClasses, Subsets
  <1>4. t2d \in Operands
    BY <1>3, ConstantsAreVectors, ProductClasses
  <1>5. Negate(t2d) \in Operands
    BY <1>4, NegationOperands, Subsets
  <1>6. Add(y, x) \in Operands /\ Subtract(y, x) \in Operands
    BY <1>2, SumClasses
  <1>7. digit \in {0, 1, -1}
    OBVIOUS
  <1> QED BY <1>4, <1>5, <1>6, <1>7, ZeroAndOne DEF BaseEntry, Entries

LEMMA TopPoint ==
  ASSUME NEW entry \in [yPlusX : Operands, yMinusX : Operands, z2 : Operands, t2d : Operands]
  PROVE  FromCachedWithoutT(entry) \in Points
  <1>1. entry.yPlusX \in Vector /\ entry.yMinusX \in Vector /\ entry.z2 \in Operands
    BY Subsets
  <1>2. Subtract(entry.yPlusX, entry.yMinusX) \in Operands /\ AddLoose(entry.yPlusX, entry.yMinusX) \in Operands
    BY <1>1, SumClasses
  <1> QED BY <1>1, <1>2, ZeroAndOne DEF FromCachedWithoutT, Points

\* Every formula the lane begins is of points and entries.
LEMMA FormulaOfPoints ==
  ASSUME NEW kind \in Kinds \ {"addCached"}, NEW left \in Points, NEW right \in Points, NEW computeT \in BOOLEAN
  PROVE  Formula(kind, left, right, computeT) \in Formulas
  BY DEF Formula, Formulas

LEMMA FormulaOfEntry ==
  ASSUME NEW left \in Points, NEW right \in Entries, NEW computeT \in BOOLEAN
  PROVE  Formula("addCached", left, right, computeT) \in Formulas
  BY DEF Formula, Formulas

LEMMA NextMultipleFits ==
  ASSUME multiples \in Seq(Points), Len(multiples) >= 1, Len(multiples) < 8
  PROVE  NextMultiple \in Formulas
  <1> DEFINE n == Len(multiples)
  <1>1. n \in {1, 2, 3, 4, 5, 6, 7}
    <2>1. n \in Nat /\ n >= 1 /\ n < 8
      OBVIOUS
    <2> HIDE DEF n
    <2> QED BY <2>1
  <1>2. \A m \in 1..n : multiples[m] \in Points
    OBVIOUS
  <1> HIDE DEF n
  <1>3. {"double", "doubleAffine", "add", "addAffine"} \subseteq Kinds \ {"addCached"}
    BY DEF Kinds
  <1>4. ASSUME NEW left \in Points, NEW right \in Points
        PROVE  /\ Formula("double", left, right, TRUE) \in Formulas
               /\ Formula("doubleAffine", left, right, TRUE) \in Formulas
               /\ Formula("add", left, right, TRUE) \in Formulas
               /\ Formula("addAffine", left, right, TRUE) \in Formulas
    BY <1>3, FormulaOfPoints
  <1>5. CASE n = 1
    <2>1. NextMultiple = Formula("doubleAffine", multiples[1], multiples[1], TRUE)
      BY <1>5 DEF NextMultiple, n
    <2>2. multiples[1] \in Points
      BY <1>2, <1>5
    <2> QED BY <1>4, <2>1, <2>2
  <1>6. CASE n = 2
    <2>1. NextMultiple = Formula("addAffine", multiples[2], multiples[1], TRUE)
      BY <1>6 DEF NextMultiple, n
    <2>2. multiples[2] \in Points /\ multiples[1] \in Points
      BY <1>2, <1>6
    <2> QED BY <1>4, <2>1, <2>2
  <1>7. CASE n = 3
    <2>1. NextMultiple = Formula("double", multiples[2], multiples[2], TRUE)
      BY <1>7 DEF NextMultiple, n
    <2>2. multiples[2] \in Points
      BY <1>2, <1>7
    <2> QED BY <1>4, <2>1, <2>2
  <1>8. CASE n = 4
    <2>1. NextMultiple = Formula("addAffine", multiples[4], multiples[1], TRUE)
      BY <1>8 DEF NextMultiple, n
    <2>2. multiples[4] \in Points /\ multiples[1] \in Points
      BY <1>2, <1>8
    <2> QED BY <1>4, <2>1, <2>2
  <1>9. CASE n = 5
    <2>1. NextMultiple = Formula("double", multiples[3], multiples[3], TRUE)
      BY <1>9 DEF NextMultiple, n
    <2>2. multiples[3] \in Points
      BY <1>2, <1>9
    <2> QED BY <1>4, <2>1, <2>2
  <1>10. CASE n = 6
    <2>1. NextMultiple = Formula("add", multiples[4], multiples[3], TRUE)
      BY <1>10 DEF NextMultiple, n
    <2>2. multiples[4] \in Points /\ multiples[3] \in Points
      BY <1>2, <1>10
    <2> QED BY <1>4, <2>1, <2>2
  <1>11. CASE n = 7
    <2>1. NextMultiple = Formula("double", multiples[4], multiples[4], TRUE)
      BY <1>11 DEF NextMultiple, n
    <2>2. multiples[4] \in Points
      BY <1>2, <1>11
    <2> QED BY <1>4, <2>1, <2>2
  <1> QED BY <1>1, <1>5, <1>6, <1>7, <1>8, <1>9, <1>10, <1>11

LEMMA DigitRanges ==
  ASSUME digits \in Digits \cup {NoDigits}
  PROVE  /\ \A i \in 0..3 : -digits.key[i] \in -8..8
         /\ \A i \in 0..1 : digits.base[i] \in -1..1
  <1>1. NoDigits \in [key : [0..3 -> -8..8], base : [0..1 -> -1..1]]
    BY DEF NoDigits
  <1>2. digits \in [key : [0..3 -> -8..8], base : [0..1 -> -1..1]]
    BY <1>1, LaneAssumption
  <1>3. \A i \in 0..3 : digits.key[i] \in -8..8
    BY <1>2
  <1> QED BY <1>2, <1>3

StepNames == {"double", "doubleT", "base1", "base0", "key2", "key1", "key0"}

LEMMA StepsNamed == LadderSteps \in Seq(StepNames) /\ Len(LadderSteps) \in Nat
  <1>1. Doublings \in Seq(StepNames)
    BY DEF Doublings, StepNames
  <1>2. /\ <<"base1", "key2">> \in Seq(StepNames)
        /\ <<"key1">> \in Seq(StepNames)
        /\ <<"base0", "key0">> \in Seq(StepNames)
    BY DEF StepNames
  <1>3. \A s, u \in Seq(StepNames) : s \o u \in Seq(StepNames)
    OBVIOUS
  <1>4. UpperSteps \in Seq(StepNames) /\ LowerSteps \in Seq(StepNames)
    BY <1>1, <1>2, <1>3 DEF UpperSteps, LowerSteps
  <1>5. LadderSteps \in Seq(StepNames)
    BY <1>3, <1>4 DEF LadderSteps
  <1> QED BY <1>5

LEMMA LadderFormulaFits ==
  ASSUME IInv, stage = "ladder", position <= Len(LadderSteps)
  PROVE  LadderFormula(LadderSteps[position]) \in Formulas
  <1>1. acc \in Points /\ multiples \in Seq(Points) /\ Len(multiples) = 8 /\ position \in Nat \ {0}
    BY DEF IInv, TypesHold, StageHolds
  <1>2. LadderSteps[position] \in StepNames
    <2>1. position \in 1..Len(LadderSteps)
      BY <1>1, StepsNamed
    <2> QED BY <2>1, StepsNamed, Indexed
  <1> DEFINE step == LadderSteps[position]
  <1>3. /\ KeyEntry(-digits.key[0]) \in Entries /\ KeyEntry(-digits.key[1]) \in Entries
        /\ KeyEntry(-digits.key[2]) \in Entries
    <2>1. /\ -digits.key[0] \in -8..8 /\ -digits.key[1] \in -8..8 /\ -digits.key[2] \in -8..8
      BY DigitRanges DEF IInv, TypesHold
    <2>2. \A d \in -8..8 : KeyEntry(d) \in Entries
      BY <1>1, KeyEntryFits DEF Entries
    <2> QED BY <2>1, <2>2
  <1>4. BaseEntry(digits.base[0]) \in Entries /\ BaseEntry(digits.base[1]) \in Entries
    <2>1. digits.base[0] \in -1..1 /\ digits.base[1] \in -1..1
      BY DigitRanges DEF IInv, TypesHold
    <2>2. \A d \in -1..1 : BaseEntry(d) \in Entries
      BY <1>1, BaseEntryFits
    <2> QED BY <2>1, <2>2
  <1>5. /\ Formula("double", acc, acc, FALSE) \in Formulas
        /\ Formula("double", acc, acc, TRUE) \in Formulas
    BY <1>1, FormulaOfPoints DEF Kinds
  <1>6. /\ Formula("addCached", acc, BaseEntry(digits.base[1]), TRUE) \in Formulas
        /\ Formula("addCached", acc, BaseEntry(digits.base[0]), TRUE) \in Formulas
        /\ Formula("addCached", acc, KeyEntry(-digits.key[2]), FALSE) \in Formulas
        /\ Formula("addCached", acc, KeyEntry(-digits.key[1]), FALSE) \in Formulas
        /\ Formula("addCached", acc, KeyEntry(-digits.key[0]), policy = "Zip215") \in Formulas
    BY <1>1, <1>3, <1>4, FormulaOfEntry
  <1> HIDE DEF step
  <1>7. LadderFormula(step) \in Formulas
    BY <1>2, <1>5, <1>6 DEF LadderFormula, StepNames, step
  <1> QED BY <1>7 DEF step
-----------------------------------------------------------------------------
\* The values a lane starts from
LEMMA StartPoint == NoPoint \in Points /\ NoFormula \in Formulas
  <1>1. NoPoint \in Points
    BY ZeroAndOne DEF NoPoint, Points
  <1> QED BY <1>1, FormulaOfPoints DEF NoFormula, Kinds

LEMMA StartSetup == [u |-> Zero, v |-> Zero, y |-> Zero] \in [u : Operands, v : Operands, y : Operands]
  BY ZeroAndOne

LEMMA EncodedOperands ==
  ASSUME encoding \in Encodings
  PROVE  encoding.y \in Operands
  <1>1. encoding.y \in Vector /\ \A i \in Limb : encoding.y[i] < RADIX
    BY LaneAssumption
  <1>2. \A i \in Limb : encoding.y[i] \in Nat
    BY <1>1 DEF Vector
  <1> QED BY <1>1, <1>2, Widths DEF Operands, Limb

LEMMA StartedChains ==
  ASSUME NEW z \in Operands
  PROVE  Started(PowSteps, z) \in Chains /\ Started(InvertSteps, z) \in Chains
  BY StartedIsChain DEF Steps

LEMMA InitHolds == Init => IInv
  <1> SUFFICES ASSUME Init PROVE IInv
    OBVIOUS
  <1>1. TypesHold
    BY StartPoint, StartSetup, StartedChains, ZeroAndOne DEF Init, TypesHold
  <1>2. StageHolds /\ PhaseHolds
    BY DEF Init, StageHolds, PhaseHolds
  <1> QED BY <1>1, <1>2 DEF IInv

\* Each action keeps the classes.
LEMMA SetupTypes ==
  ASSUME TypesHold
  PROVE  LET yy == Square(encoding.y)
             u  == Subtract(yy, One)
             v  == Add(One, Multiply(D, yy))
         IN  /\ [u |-> u, v |-> v, y |-> encoding.y] \in [u : Operands, v : Operands, y : Operands]
             /\ Started(PowSteps, Multiply(u, v)) \in Chains
  <1> DEFINE yy == Square(encoding.y)
             u  == Subtract(yy, One)
             v  == Add(One, Multiply(D, yy))
  <1>1. encoding.y \in Operands /\ encoding.y \in Vector
    BY EncodedOperands, Subsets DEF TypesHold
  <1>2. yy \in Vector
    BY <1>1, SquareClasses, Subsets
  <1>3. u \in Operands /\ u \in Vector
    BY <1>2, ZeroAndOne, SumClasses, Subsets
  <1>4. Multiply(D, yy) \in Vector
    BY <1>2, ConstantsAreVectors, ProductClasses, Subsets
  <1>5. v \in Operands /\ v \in Vector
    BY <1>4, ZeroAndOne, SumClasses, Subsets
  <1>6. Multiply(u, v) \in Operands
    BY <1>3, <1>5, ProductClasses
  <1> QED BY <1>1, <1>3, <1>5, <1>6, StartedChains

LEMMA FirstPoint ==
  ASSUME TypesHold
  PROVE  LET primary   == Equals(VX2, setup.u)
             alternate == IsZero(AddLoose(VX2, setup.u))
             root      == IF ~primary /\ alternate THEN Multiply(FirstRoot, SQRT_M1) ELSE FirstRoot
             x         == IF IsOdd(root) # encoding.sign THEN Negate(root) ELSE root
         IN  [x |-> x, y |-> setup.y, z |-> One, t |-> Multiply(x, setup.y)] \in Points
  <1> DEFINE primary   == Equals(VX2, setup.u)
             alternate == IsZero(AddLoose(VX2, setup.u))
             root      == IF ~primary /\ alternate THEN Multiply(FirstRoot, SQRT_M1) ELSE FirstRoot
             x         == IF IsOdd(root) # encoding.sign THEN Negate(root) ELSE root
  <1>1. setup.u \in Vector /\ setup.y \in Operands /\ setup.y \in Vector /\ chain.out \in Vector
    BY Subsets DEF TypesHold, Chains
  <1>2. FirstRoot \in Operands /\ FirstRoot \in Vector
    BY <1>1, ProductClasses, Subsets DEF FirstRoot
  <1>3. root \in Operands /\ root \in Vector
    BY <1>2, ConstantsAreVectors, ProductClasses, Subsets
  <1>4. x \in Operands /\ x \in Vector
    BY <1>3, NegationOperands, Subsets
  <1>5. Multiply(x, setup.y) \in Operands
    BY <1>1, <1>4, ProductClasses
  <1> HIDE DEF x
  <1>6. [x |-> x, y |-> setup.y, z |-> One, t |-> Multiply(x, setup.y)] \in Points
    BY <1>1, <1>4, <1>5, ZeroAndOne DEF Points
  <1> QED BY <1>6 DEF x

LEMMA ChainSquares ==
  ASSUME TypesHold, chain.left > 0
  PROVE  Squared(chain) \in Chains
  <1>1. Squared(Chain(chain.steps, chain.powers, chain.out, chain.left)) \in Chains
    BY ChainFields, SquaredIsChain DEF TypesHold
  <1>2. chain = Chain(chain.steps, chain.powers, chain.out, chain.left)
    BY ChainFields DEF TypesHold
  <1> QED BY <1>1, <1>2, Zenon

LEMMA ChainMultiplies ==
  ASSUME TypesHold, ~IsDone(chain), chain.left = 0
  PROVE  Multiplied(chain) \in Chains
  <1>1. /\ chain = Chain(chain.steps, chain.powers, chain.out, chain.left)
        /\ chain.steps \in Steps /\ chain.powers \in Seq(Operands)
        /\ Len(chain.powers) >= 1 /\ chain.out \in Operands
    BY ChainFields DEF TypesHold
  <1>2. Len(chain.powers) <= 12
    <2>1. Len(chain.steps) = 12 /\ Len(chain.powers) \in Nat
      BY <1>1, StepsRefer
    <2> QED BY <2>1 DEF IsDone
  <1>3. Multiplied(Chain(chain.steps, chain.powers, chain.out, 0)) \in Chains
    BY <1>1, <1>2, MultipliedIsChain
  <1>4. chain = Chain(chain.steps, chain.powers, chain.out, 0)
    BY <1>1, Zenon
  <1> QED BY <1>3, <1>4, Zenon

LEMMA SumsTaken ==
  ASSUME TypesHold, parts \in PartsOf(formula.kind)
  PROVE  [s \in DOMAIN RawSums(formula.kind, parts) |-> Reduced(RawSums(formula.kind, parts)[s])] \in Summed
  <1> DEFINE raw == RawSums(formula.kind, parts)
  <1>1. formula.kind \in Kinds
    BY DEF TypesHold, Formulas, Kinds
  <1>2. DOMAIN raw = {"e", "f", "g", "h"} /\ \A n \in {"e", "f", "g", "h"} : raw[n] \in [Limb -> Int]
    BY <1>1, SumsFit
  <1> HIDE DEF raw
  <1>3. \A n \in {"e", "f", "g", "h"} : Reduced(raw[n]) \in Operands
    BY <1>2, ReducedSums, SumsAreOperands
  <1>4. [s \in DOMAIN raw |-> Reduced(raw[s])] \in Summed
    BY <1>2, <1>3 DEF Summed
  <1> QED BY <1>4 DEF raw

LEMMA NextHolds == IInv /\ [Next]_vars => IInv'
  <1> SUFFICES ASSUME IInv, [Next]_vars PROVE IInv'
    OBVIOUS
  <1>a. TypesHold
    BY DEF IInv
  <1>b. StageHolds
    BY DEF IInv
  <1>c. PhaseHolds
    BY DEF IInv
  <1>1. CASE Setup
    <2>1. TypesHold'
      BY <1>a, <1>1, SetupTypes DEF TypesHold, Setup
    <2>2. StageHolds'
      BY <1>a, <1>b, <1>1 DEF StageHolds, Setup
    <2>3. PhaseHolds'
      BY <1>c, <1>1 DEF PhaseHolds, Setup
    <2> QED BY <2>1, <2>2, <2>3 DEF IInv
  <1>2. CASE SquareInChain
    <2>1. TypesHold'
      BY <1>a, <1>2, ChainSquares DEF TypesHold, SquareInChain
    <2>2. StageHolds'
      BY <1>a, <1>b, <1>2 DEF StageHolds, SquareInChain
    <2>3. PhaseHolds'
      BY <1>c, <1>2 DEF PhaseHolds, SquareInChain
    <2> QED BY <2>1, <2>2, <2>3 DEF IInv
  <1>3. CASE MultiplyInChain
    <2>1. TypesHold'
      BY <1>a, <1>3, ChainMultiplies DEF TypesHold, MultiplyInChain
    <2>2. StageHolds'
      BY <1>a, <1>b, <1>3 DEF StageHolds, MultiplyInChain
    <2>3. PhaseHolds'
      BY <1>c, <1>3 DEF PhaseHolds, MultiplyInChain
    <2> QED BY <2>1, <2>2, <2>3 DEF IInv
  <1>4. CASE Finish
    <2>1. TypesHold'
      BY <1>a, <1>4, FirstPoint DEF TypesHold, Finish
    <2>2. StageHolds'
      BY <1>a, <1>b, <1>4 DEF StageHolds, Finish
    <2>3. PhaseHolds'
      BY <1>c, <1>4 DEF PhaseHolds, Finish
    <2> QED BY <2>1, <2>2, <2>3 DEF IInv
  <1>5. CASE TakeProducts
    <2>1. TypesHold'
      BY <1>a, <1>5, ProductsFit DEF TypesHold, TakeProducts
    <2>2. StageHolds'
      BY <1>a, <1>b, <1>5, <1>a, ProductsFit DEF StageHolds, TakeProducts
    <2>3. PhaseHolds'
      BY <1>c, <1>5, <1>a, ProductsFit DEF PhaseHolds, TypesHold, TakeProducts
    <2> QED BY <2>1, <2>2, <2>3 DEF IInv
  <1>6. CASE TakeSums
    <2>1. TypesHold'
      BY <1>a, <1>6, SumsTaken DEF TypesHold, TakeSums
    <2>2. StageHolds'
      BY <1>a, <1>b, <1>6, <1>a, SumsTaken DEF StageHolds, TakeSums
    <2>3. PhaseHolds'
      BY <1>c, <1>6, <1>a, SumsTaken DEF PhaseHolds, TakeSums
    <2> QED BY <2>1, <2>2, <2>3 DEF IInv
  <1>7. CASE BeginMultiple
    <2>f. NextMultiple \in Formulas
      BY <1>a, <1>b, <1>7, NextMultipleFits DEF TypesHold, StageHolds, BeginMultiple
    <2>1. TypesHold'
      BY <1>a, <1>7, <2>f DEF TypesHold, BeginMultiple, Begin
    <2>2. StageHolds'
      BY <1>a, <1>b, <1>7 DEF StageHolds, BeginMultiple, Begin
    <2>3. PhaseHolds'
      BY <1>c, <1>7 DEF PhaseHolds, BeginMultiple, Begin
    <2> QED BY <2>1, <2>2, <2>3 DEF IInv
  <1>8. CASE KeepMultiple
    <2>r. Result \in Points
      BY <1>8, ResultIsPoint DEF KeepMultiple, TakeResult
    <2>1. TypesHold'
      BY <1>a, <1>8, <2>r, StartPoint, Appended DEF TypesHold, KeepMultiple, TakeResult
    <2>2. StageHolds'
      BY <1>a, <1>b, <1>8, <2>r, Appended DEF StageHolds, KeepMultiple, TakeResult
    <2>3. PhaseHolds'
      BY <1>c, <1>8, <2>r, Appended DEF PhaseHolds, KeepMultiple, TakeResult
    <2> QED BY <2>1, <2>2, <2>3 DEF IInv
  <1>9. CASE LoadTopDigit
    <2>l. multiples' = multiples /\ Len(multiples) = 8 /\ multiples \in Seq(Points) /\ position' = 1
      BY <1>a, <1>9 DEF LoadTopDigit, TypesHold
    <2>d. digits' \in Digits
      BY <1>9 DEF LoadTopDigit
    <2>f. acc' \in Points
      <3> DEFINE d == -digits'.key[3]
      <3>1. d \in -8..8
        BY <2>d, LaneAssumption
      <3>2. acc' = FromCachedWithoutT(KeyEntry(d))
        BY <1>9 DEF LoadTopDigit
      <3>3. \A n \in -8..8 : FromCachedWithoutT(KeyEntry(n)) \in Points
        BY <2>l, KeyEntryFits, TopPoint
      <3> HIDE DEF d
      <3> QED BY <3>1, <3>2, <3>3
    <2>1. TypesHold'
      BY <1>a, <1>9, <2>f DEF TypesHold, LoadTopDigit
    <2>2. StageHolds'
      <3>1. Len(multiples') = 8 /\ position' \in Nat \ {0}
        BY <2>l
      <3> QED BY <3>1 DEF StageHolds
    <2>3. PhaseHolds'
      BY <1>c, <1>9, <2>l DEF PhaseHolds, LoadTopDigit
    <2> QED BY <2>1, <2>2, <2>3 DEF IInv
  <1>10. CASE BeginLadderStep
    <2>1. TypesHold'
      BY <1>a, <1>10, LadderFormulaFits DEF TypesHold, BeginLadderStep, Begin
    <2>2. StageHolds'
      BY <1>a, <1>b, <1>10 DEF StageHolds, BeginLadderStep, Begin
    <2>3. PhaseHolds'
      BY <1>c, <1>10 DEF PhaseHolds, BeginLadderStep, Begin
    <2> QED BY <2>1, <2>2, <2>3 DEF IInv
  <1>11. CASE KeepAccumulator
    <2>r. Result \in Points
      BY <1>11, ResultIsPoint DEF KeepAccumulator, TakeResult
    <2>1. TypesHold'
      BY <1>a, <1>11, <2>r, StartPoint DEF TypesHold, KeepAccumulator, TakeResult
    <2>2. StageHolds'
      BY <1>a, <1>b, <1>11 DEF StageHolds, KeepAccumulator, TakeResult
    <2>3. PhaseHolds'
      BY <1>c, <1>11 DEF PhaseHolds, KeepAccumulator, TakeResult
    <2> QED BY <2>1, <2>2, <2>3 DEF IInv
  <1>12. CASE LeaveLadder
    <2>1. TypesHold'
      BY <1>a, <1>12, StartedChains, PointCoordinates DEF TypesHold, LeaveLadder
    <2>2. StageHolds'
      BY <1>a, <1>b, <1>12 DEF StageHolds, LeaveLadder
    <2>3. PhaseHolds'
      BY <1>c, <1>12 DEF PhaseHolds, LeaveLadder
    <2> QED BY <2>1, <2>2, <2>3 DEF IInv
  <1>13. CASE BeginTorsion
    <2>f. formula' \in Formulas
      <3>1. acc \in Points /\ multiples[1] \in Points
        BY <1>a, <1>b, <1>13, Indexed DEF TypesHold, StageHolds, BeginTorsion
      <3>2. /\ Formula("torsion", acc, multiples[1], FALSE) \in Formulas
            /\ Formula("torsionProduct", acc, acc, TRUE) \in Formulas
        BY <3>1, FormulaOfPoints DEF Kinds
      <3> QED BY <1>13, <3>2 DEF BeginTorsion, Begin
    <2>1. TypesHold'
      BY <1>a, <1>13, <2>f DEF TypesHold, BeginTorsion, Begin
    <2>2. StageHolds'
      BY <1>a, <1>b, <1>13 DEF StageHolds, BeginTorsion, Begin
    <2>3. PhaseHolds'
      BY <1>c, <1>13 DEF PhaseHolds, BeginTorsion, Begin
    <2> QED BY <2>1, <2>2, <2>3 DEF IInv
  <1>14. CASE KeepDifference
    <2>r. Result \in Points
      BY <1>14, ResultIsPoint DEF KeepDifference, TakeResult
    <2>1. TypesHold'
      BY <1>a, <1>14, <2>r, StartPoint DEF TypesHold, KeepDifference, TakeResult
    <2>2. StageHolds'
      BY <1>a, <1>b, <1>14 DEF StageHolds, KeepDifference, TakeResult
    <2>3. PhaseHolds'
      BY <1>c, <1>14 DEF PhaseHolds, KeepDifference, TakeResult
    <2> QED BY <2>1, <2>2, <2>3 DEF IInv
  <1>15. CASE ScoreTorsion
    <2>1. TypesHold'
      BY <1>a, <1>15, StartPoint DEF TypesHold, ScoreTorsion, TakeResult
    <2>2. StageHolds'
      BY <1>a, <1>b, <1>15 DEF StageHolds, ScoreTorsion, TakeResult
    <2>3. PhaseHolds'
      BY <1>c, <1>15 DEF PhaseHolds, ScoreTorsion, TakeResult
    <2> QED BY <2>1, <2>2, <2>3 DEF IInv
  <1>16. CASE ScoreDecoded
    <2>1. TypesHold'
      BY <1>a, <1>16 DEF TypesHold, ScoreDecoded
    <2>2. StageHolds'
      BY <1>a, <1>b, <1>16 DEF StageHolds, ScoreDecoded
    <2>3. PhaseHolds'
      BY <1>c, <1>16 DEF PhaseHolds, ScoreDecoded
    <2> QED BY <2>1, <2>2, <2>3 DEF IInv
  <1>17. CASE Compress
    <2>1. TypesHold'
      BY <1>a, <1>17 DEF TypesHold, Compress
    <2>2. StageHolds'
      BY <1>a, <1>b, <1>17 DEF StageHolds, Compress
    <2>3. PhaseHolds'
      BY <1>c, <1>17 DEF PhaseHolds, Compress
    <2> QED BY <2>1, <2>2, <2>3 DEF IInv
  <1>18. CASE BeginSmallOrder
    <2>f. formula' \in Formulas
      <3>1. Formula("double", acc, acc, FALSE) \in Formulas
        BY <1>a, FormulaOfPoints DEF TypesHold, Kinds
      <3> QED BY <1>18, <3>1 DEF BeginSmallOrder, Begin
    <2>1. TypesHold'
      BY <1>a, <1>18, <2>f DEF TypesHold, BeginSmallOrder, Begin
    <2>2. StageHolds'
      BY <1>a, <1>b, <1>18 DEF StageHolds, BeginSmallOrder, Begin
    <2>3. PhaseHolds'
      BY <1>c, <1>18 DEF PhaseHolds, BeginSmallOrder, Begin
    <2> QED BY <2>1, <2>2, <2>3 DEF IInv
  <1>19. CASE ScoreSmallOrder
    <2>1. TypesHold'
      BY <1>a, <1>19 DEF TypesHold, ScoreSmallOrder
    <2>2. StageHolds'
      BY <1>a, <1>b, <1>19 DEF StageHolds, ScoreSmallOrder
    <2>3. PhaseHolds'
      BY <1>c, <1>19 DEF PhaseHolds, ScoreSmallOrder
    <2> QED BY <2>1, <2>2, <2>3 DEF IInv
  <1>20. CASE NextLane
    <2>1. TypesHold'
      BY <1>a, <1>20, StartPoint, StartSetup, StartedChains, ZeroAndOne DEF TypesHold, NextLane
    <2>2. StageHolds'
      BY <1>a, <1>b, <1>20 DEF StageHolds, NextLane
    <2>3. PhaseHolds'
      BY <1>c, <1>20 DEF PhaseHolds, NextLane
    <2> QED BY <2>1, <2>2, <2>3 DEF IInv
  <1>21. CASE UNCHANGED vars
    BY <1>21 DEF vars, IInv, TypesHold, StageHolds, PhaseHolds
  <1> QED BY <1>1, <1>2, <1>3, <1>4, <1>5, <1>6, <1>7, <1>8, <1>9, <1>10, <1>11,
             <1>12, <1>13, <1>14, <1>15, <1>16, <1>17, <1>18, <1>19, <1>20, <1>21 DEF Next

-----------------------------------------------------------------------------
\* The two properties follow from the invariant.
LEMMA InvariantFits == IInv => OperandsFit
  <1> SUFFICES ASSUME IInv PROVE OperandsFit
    OBVIOUS
  <1>a. TypesHold /\ PhaseHolds
    BY DEF IInv
  <1>1. ASSUME phase = "products"
        PROVE  FactorsFit(formula.left)
    <2>1. formula.left \in Points
      BY <1>a DEF TypesHold, Formulas
    <2> QED BY <2>1, PointCoordinates, OperandsAreRead DEF FactorsFit
  <1>2. ASSUME phase = "products", NEW f \in DOMAIN formula.right
        PROVE  IsIfmaOperand(formula.right[f])
    <2>1. formula.right \in Points \cup Entries
      BY <1>a DEF TypesHold, Formulas
    <2>2. formula.right[f] \in Operands
      BY <1>2, <2>1 DEF Points, Entries
    <2> QED BY <2>2, OperandsAreRead
  <1>3. ASSUME phase = "result", NEW s \in DOMAIN sums
        PROVE  IsIfmaOperand(sums[s])
    <2>1. sums \in Summed
      BY <1>a, <1>3 DEF PhaseHolds
    <2>2. sums[s] \in Operands
      BY <1>3, <2>1 DEF Summed
    <2> QED BY <2>2, OperandsAreRead
  <1>4. /\ IsIfmaOperand(CarryLimb0(chain.out))
        /\ chain.left = 0 => IsIfmaOperand(chain.out)
        /\ \A n \in DOMAIN chain.powers : IsIfmaOperand(chain.powers[n])
    <2>1. chain \in Chains
      BY <1>a DEF TypesHold
    <2>2. IsIfmaOperand(CarryLimb0(chain.out))
      BY <2>1, ChainFields, OperandsAreRead, LooseCarried
    <2>3. chain.left = 0 => IsIfmaOperand(chain.out)
      BY <2>1, ChainFields, OperandsAreRead
    <2>4. ASSUME NEW n \in DOMAIN chain.powers
          PROVE  IsIfmaOperand(chain.powers[n])
      <3>1. chain.powers[n] \in Operands
        BY <2>1, <2>4, ChainFields
      <3> QED BY <3>1, OperandsAreRead
    <2> QED BY <2>2, <2>3, <2>4
  <1> QED BY <1>1, <1>2, <1>3, <1>4 DEF OperandsFit

LEMMA InvariantDoesNotWrap == IInv => NothingWraps
  <1> SUFFICES ASSUME IInv PROVE NothingWraps
    OBVIOUS
  <1>a. TypesHold /\ PhaseHolds
    BY DEF IInv
  <1>1. ASSUME phase = "products"
        PROVE  /\ InRegisters(Minus(4, formula.left.y, formula.left.x))
               /\ InRegisters(Plus(formula.left.y, formula.left.x))
               /\ InRegisters(Plus(formula.left.z, formula.left.z))
    <2>1. formula.left \in Points
      BY <1>a DEF TypesHold, Formulas
    <2> QED BY <2>1, PointCoordinates, SmallBiasEnough
  <1>2. ASSUME phase = "sums", NEW s \in DOMAIN RawSums(formula.kind, parts)
        PROVE  InRegisters(RawSums(formula.kind, parts)[s])
    <2>1. formula.kind \in Kinds
      BY <1>a DEF TypesHold, Formulas, Kinds
    <2>2. parts \in PartsOf(formula.kind)
      BY <1>a, <1>2 DEF PhaseHolds
    <2> DEFINE raw == RawSums(formula.kind, parts)
    <2>3. DOMAIN raw = {"e", "f", "g", "h"} /\ \A n \in {"e", "f", "g", "h"} : InRegisters(raw[n])
      BY <2>1, <2>2, SumsFit
    <2>4. s \in DOMAIN raw
      BY <1>2
    <2> HIDE DEF raw
    <2>5. InRegisters(raw[s])
      BY <2>3, <2>4
    <2> QED BY <2>5 DEF raw
  <1> QED BY <1>1, <1>2 DEF NothingWraps

\* No limb that the multiplier is given has more bits than it reads: what the
\* code checks by debug_assert!(limbs_are_ifma_operands(..)), and so not at all
\* in a release build, holds of every step of the lane.
THEOREM OperandsAlwaysFit == Spec => []OperandsFit
  <1>1. Spec => []IInv
    BY InitHolds, NextHolds, PTL DEF Spec
  <1> QED BY <1>1, InvariantFits, PTL

\* No difference falls below zero and no sum outgrows its register: the
\* multiples of p that subtract and the subtract_loose family add are enough.
THEOREM NothingEverWraps == Spec => []NothingWraps
  <1>1. Spec => []IInv
    BY InitHolds, NextHolds, PTL DEF Spec
  <1> QED BY <1>1, InvariantDoesNotWrap, PTL

-----------------------------------------------------------------------------
(***************************************************************************)
(* Residues.  The factors of the modulus are any numbers that divide it.   *)
(***************************************************************************)
\* The number that limbs stand for, of either sign
Horner(a1, a2, a3, a4, a5) == a1 + RADIX * (a2 + RADIX * (a3 + RADIX * (a4 + RADIX * a5)))
Value(a) == Horner(a[1], a[2], a[3], a[4], a[5])

\* RADIX^5 - FOLD
ModulusValue == RADIX * (RADIX * (RADIX * (RADIX * RADIX))) - FOLD

LEMMA HornerIsInt ==
  ASSUME NEW a1 \in Int, NEW a2 \in Int, NEW a3 \in Int, NEW a4 \in Int, NEW a5 \in Int
  PROVE  Horner(a1, a2, a3, a4, a5) \in Int
  BY Widths DEF Horner

LEMMA ValueIsInt == ASSUME NEW a \in [Limb -> Int] PROVE Value(a) \in Int
  BY HornerIsInt DEF Value, Limb

LEMMA Divided ==
  ASSUME NEW x \in Int, NEW m \in Nat \ {0}
  PROVE  x \div m \in Int /\ x % m \in 0..(m - 1) /\ x = m * (x \div m) + (x % m)
  OBVIOUS

\* Numbers that differ by a multiple of m have the same residue.
LEMMA DifferByMultiple ==
  ASSUME NEW m \in Nat \ {0}, NEW x \in Int, NEW y \in Int, NEW q \in Int, x = y + m * q
  PROVE  x % m = y % m
  <1> DEFINE qx == x \div m
             qy == y \div m
             rx == x % m
             ry == y % m
  <1>1. /\ qx \in Int /\ rx \in 0..(m - 1) /\ x = m * qx + rx
        /\ qy \in Int /\ ry \in 0..(m - 1) /\ y = m * qy + ry
    BY Divided
  <1> HIDE DEF qx, qy, rx, ry
  <1> DEFINE d == qx - qy - q
  <1>2. d \in Int /\ ry - rx = m * d
    BY <1>1
  <1> HIDE DEF d
  <1>3. d = 0
    <2>1. d >= 1 => m * d >= m
      BY <1>2
    <2>2. d <= -1 => m * d <= -m
      BY <1>2
    <2> QED BY <1>1, <1>2, <2>1, <2>2
  <1>4. rx = ry
    BY <1>1, <1>2, <1>3
  <1> QED BY <1>4 DEF rx, ry

\* Sums, differences and products may be taken of residues.
LEMMA ModSum ==
  ASSUME NEW m \in Nat \ {0}, NEW x \in Int, NEW y \in Int
  PROVE  ((x % m) + (y % m)) % m = (x + y) % m /\ ((x % m) + y) % m = (x + y) % m
  <1> DEFINE qx == x \div m
             qy == y \div m
             rx == x % m
             ry == y % m
             sum == x + y
             both == rx + ry
             one == rx + y
  <1>1. /\ qx \in Int /\ rx \in 0..(m - 1) /\ rx \in Int /\ x = m * qx + rx
        /\ qy \in Int /\ ry \in 0..(m - 1) /\ ry \in Int /\ y = m * qy + ry
    BY Divided
  <1> HIDE DEF qx, qy, rx, ry
  <1>2. sum = both + m * (qx + qy) /\ sum = one + m * qx
    BY <1>1
  <1>3. sum \in Int /\ both \in Int /\ one \in Int /\ qx + qy \in Int
    BY <1>1
  <1> HIDE DEF sum, both, one
  <1>4. sum % m = both % m /\ sum % m = one % m
    BY <1>1, <1>2, <1>3, DifferByMultiple
  <1> QED BY <1>4 DEF rx, ry, sum, both, one

LEMMA ModDifference ==
  ASSUME NEW m \in Nat \ {0}, NEW x \in Int, NEW y \in Int
  PROVE  ((x % m) - (y % m)) % m = (x - y) % m
  <1> DEFINE qx == x \div m
             qy == y \div m
             rx == x % m
             ry == y % m
  <1>1. /\ qx \in Int /\ rx \in 0..(m - 1) /\ rx \in Int /\ x = m * qx + rx
        /\ qy \in Int /\ ry \in 0..(m - 1) /\ ry \in Int /\ y = m * qy + ry
    BY Divided
  <1> HIDE DEF qx, qy, rx, ry
  <1>2. x - y = (rx - ry) + m * (qx - qy)
    BY <1>1
  <1>3. x - y \in Int /\ rx - ry \in Int /\ qx - qy \in Int
    BY <1>1
  <1>4. (x - y) % m = (rx - ry) % m
    BY <1>2, <1>3, DifferByMultiple
  <1> QED BY <1>4 DEF rx, ry

LEMMA ModProduct ==
  ASSUME NEW m \in Nat \ {0}, NEW x \in Int, NEW y \in Int
  PROVE  ((x % m) * (y % m)) % m = (x * y) % m /\ ((x % m) * y) % m = (x * y) % m
  <1> DEFINE qx == x \div m
             qy == y \div m
             rx == x % m
             ry == y % m
  <1>1. /\ qx \in Int /\ rx \in 0..(m - 1) /\ rx \in Int /\ x = m * qx + rx
        /\ qy \in Int /\ ry \in 0..(m - 1) /\ ry \in Int /\ y = m * qy + ry
    BY Divided
  <1> HIDE DEF qx, qy, rx, ry
  <1>2. x * y = rx * ry + m * (qx * (m * qy + ry) + rx * qy) /\ x * y = rx * y + m * (qx * y)
    BY <1>1
  <1>3. qx * (m * qy + ry) + rx * qy \in Int /\ qx * y \in Int /\ rx * ry \in Int /\ rx * y \in Int /\ x * y \in Int
    BY <1>1
  <1>4. (x * y) % m = (rx * ry) % m /\ (x * y) % m = (rx * y) % m
    BY <1>2, <1>3, DifferByMultiple
  <1> QED BY <1>4 DEF rx, ry

LEMMA ModIdempotent == ASSUME NEW m \in Nat \ {0}, NEW x \in Int PROVE (x % m) % m = x % m /\ x % m \in Int
  <1>1. x % m \in 0..(m - 1)
    BY Divided
  <1> QED BY <1>1

LEMMA FactorsAre == ASSUME NEW m \in Factors PROVE m \in Nat \ {0} /\ m > 1
  BY ExactAssumption

\* What Residue computes limb by limb is the residue of the number.
LEMMA ResidueIsOfValue ==
  ASSUME NEW m \in Nat \ {0}, NEW a \in [Limb -> Int]
  PROVE  Residue(a, m) = Value(a) % m
  <1> DEFINE Follows(f) == f = [i \in 1..6 |-> IF i = 6 THEN 0 ELSE (f[i + 1] * RADIX + a[i]) % m]
             r5 == (0 * RADIX + a[5]) % m
             r4 == (r5 * RADIX + a[4]) % m
             r3 == (r4 * RADIX + a[3]) % m
             r2 == (r3 * RADIX + a[2]) % m
             r1 == (r2 * RADIX + a[1]) % m
             witness == <<r1, r2, r3, r4, r5, 0>>
             above == CHOOSE f : Follows(f)
  <1>1. Follows(witness)
    <2> HIDE DEF r1, r2, r3, r4, r5
    <2>1. DOMAIN witness = 1..6 /\ witness = [i \in 1..6 |-> witness[i]]
      OBVIOUS
    <2>2. ASSUME NEW i \in 1..6
          PROVE  witness[i] = IF i = 6 THEN 0 ELSE (witness[i + 1] * RADIX + a[i]) % m
      <3>1. CASE i = 6
        BY <3>1
      <3>2. CASE i = 5
        BY <3>2 DEF r5
      <3>3. CASE i = 4
        BY <3>3 DEF r4
      <3>4. CASE i = 3
        BY <3>4 DEF r3
      <3>5. CASE i = 2
        BY <3>5 DEF r2
      <3>6. CASE i = 1
        BY <3>6 DEF r1
      <3> QED BY <3>1, <3>2, <3>3, <3>4, <3>5, <3>6
    <2> HIDE DEF witness
    <2> QED BY <2>1, <2>2
  <1>2. Follows(above)
    <2> HIDE DEF witness, Follows
    <2> QED BY <1>1
  <1>3. Residue(a, m) = above[1]
    BY DEF Residue
  <1> HIDE DEF above
  <1>4. above[1] = r1
    BY <1>2
  <1>5. a[1] \in Int /\ a[2] \in Int /\ a[3] \in Int /\ a[4] \in Int /\ a[5] \in Int /\ RADIX \in Int
    BY Widths DEF Limb
  <1>6. ASSUME NEW x \in Int, NEW y \in Int PROVE ((x % m) * RADIX + y) % m = (y + RADIX * x) % m
    <2> DEFINE q == x \div m
               r == x % m
    <2>1. q \in Int /\ r \in Int /\ x = m * q + r
      BY Divided
    <2> HIDE DEF q, r
    <2>2. y + RADIX * x = (r * RADIX + y) + m * (RADIX * q)
      BY <2>1, <1>5
    <2>3. y + RADIX * x \in Int /\ r * RADIX + y \in Int /\ RADIX * q \in Int
      BY <2>1, <1>5
    <2>4. (y + RADIX * x) % m = (r * RADIX + y) % m
      BY <2>2, <2>3, DifferByMultiple
    <2> QED BY <2>4 DEF r
  <1> DEFINE v5 == a[5]
             v4 == a[4] + RADIX * v5
             v3 == a[3] + RADIX * v4
             v2 == a[2] + RADIX * v3
             v1 == a[1] + RADIX * v2
  <1>7. v5 \in Int /\ v4 \in Int /\ v3 \in Int /\ v2 \in Int
    BY <1>5
  <1>8. r5 = v5 % m
    BY <1>5
  <1> HIDE DEF r5
  <1>9. r4 = v4 % m
    <2> HIDE DEF v5
    <2> QED BY <1>5, <1>6, <1>7, <1>8
  <1> HIDE DEF r4
  <1>10. r3 = v3 % m
    <2> HIDE DEF v4
    <2> QED BY <1>5, <1>6, <1>7, <1>9
  <1> HIDE DEF r3
  <1>11. r2 = v2 % m
    <2> HIDE DEF v3
    <2> QED BY <1>5, <1>6, <1>7, <1>10
  <1> HIDE DEF r2
  <1>12. r1 = v1 % m
    <2> HIDE DEF v2
    <2> QED BY <1>5, <1>6, <1>7, <1>11
  <1>13. Value(a) = v1
    BY DEF Value, Horner
  <1> QED BY <1>3, <1>4, <1>12, <1>13

\* A factor divides the modulus,
LEMMA FactorDivides == ASSUME NEW m \in Factors PROVE \E q \in Int : ModulusValue = m * q
  <1>1. Modulus \in [Limb -> Int]
    BY Widths DEF Modulus, Limb
  <1>2. Residue(Modulus, m) = 0 /\ m \in Nat \ {0}
    BY ExactAssumption
  <1>3. Value(Modulus) % m = 0 /\ Value(Modulus) \in Int
    BY <1>1, <1>2, ResidueIsOfValue, ValueIsInt
  <1>4. Value(Modulus) = ModulusValue
    <2>1. Value(Modulus) = Horner(RADIX - FOLD, RADIX - 1, RADIX - 1, RADIX - 1, RADIX - 1)
      BY DEF Value, Modulus
    <2>2. ASSUME NEW R \in Int, NEW F \in Int
          PROVE  (R - F) + R * ((R - 1) + R * ((R - 1) + R * ((R - 1) + R * (R - 1))))
                   = R * (R * (R * (R * R))) - F
      OBVIOUS
    <2> QED BY <2>1, <2>2, Widths DEF Horner, ModulusValue
  <1>5. ModulusValue = m * (ModulusValue \div m) + 0 /\ ModulusValue \div m \in Int
    BY <1>2, <1>3, <1>4, Divided
  <1>6. ModulusValue = m * (ModulusValue \div m)
    <2> DEFINE q == ModulusValue \div m
    <2>1. q \in Int /\ ModulusValue = m * q + 0
      BY <1>5
    <2> HIDE DEF q
    <2>2. m * q \in Int /\ ModulusValue = m * q
      BY <2>1, <1>2
    <2> QED BY <2>2 DEF q
  <1> QED BY <1>5, <1>6

\* so that what differs by multiples of the modulus has the same residues.
LEMMA SameResidue ==
  ASSUME NEW m \in Factors, NEW x \in Int, NEW y \in Int, NEW q \in Int, x = y + ModulusValue * q
  PROVE  x % m = y % m
  <1>1. PICK p \in Int : ModulusValue = m * p
    BY FactorDivides
  <1>2. m \in Nat \ {0}
    BY FactorsAre
  <1>3. p * q \in Int /\ x = y + m * (p * q)
    BY <1>1, <1>2
  <1> QED BY <1>2, <1>3, DifferByMultiple

-----------------------------------------------------------------------------
\* Carries keep the residues: what goes out of a limb comes into the next, and
\* what goes out of the last comes back FOLD times.
LEMMA CarriesTelescope ==
  ASSUME NEW m \in Factors,
         NEW h \in [Limb -> Int], NEW out \in [Limb -> Int], NEW c \in [Limb -> Int],
         h[1] + FOLD * c[5] = out[1] + RADIX * c[1], h[2] + c[1] = out[2] + RADIX * c[2],
         h[3] + c[2] = out[3] + RADIX * c[3], h[4] + c[3] = out[4] + RADIX * c[4],
         h[5] + c[4] = out[5] + RADIX * c[5]
  PROVE  Value(h) % m = Value(out) % m
  <1>1. ASSUME NEW R \in Int, NEW F \in Int,
               NEW h1 \in Int, NEW h2 \in Int, NEW h3 \in Int, NEW h4 \in Int, NEW h5 \in Int,
               NEW o1 \in Int, NEW o2 \in Int, NEW o3 \in Int, NEW o4 \in Int, NEW o5 \in Int,
               NEW c1 \in Int, NEW c2 \in Int, NEW c3 \in Int, NEW c4 \in Int, NEW c5 \in Int,
               h1 + F * c5 = o1 + R * c1, h2 + c1 = o2 + R * c2, h3 + c2 = o3 + R * c3,
               h4 + c3 = o4 + R * c4, h5 + c4 = o5 + R * c5
        PROVE  h1 + R * (h2 + R * (h3 + R * (h4 + R * h5)))
                 = (o1 + R * (o2 + R * (o3 + R * (o4 + R * o5)))) + (R * (R * (R * (R * R))) - F) * c5
    <2>1. /\ h1 = o1 + R * c1 - F * c5 /\ h2 = o2 + R * c2 - c1 /\ h3 = o3 + R * c3 - c2
          /\ h4 = o4 + R * c4 - c3 /\ h5 = o5 + R * c5 - c4
      BY <1>1
    <2>2. (o1 + R * c1 - F * c5) + R * ((o2 + R * c2 - c1) + R * ((o3 + R * c3 - c2)
            + R * ((o4 + R * c4 - c3) + R * (o5 + R * c5 - c4))))
            = (o1 + R * (o2 + R * (o3 + R * (o4 + R * o5)))) + (R * (R * (R * (R * R))) - F) * c5
      OBVIOUS
    <2> QED BY <2>1, <2>2, Zenon
  <1>2. /\ h[1] \in Int /\ h[2] \in Int /\ h[3] \in Int /\ h[4] \in Int /\ h[5] \in Int
        /\ out[1] \in Int /\ out[2] \in Int /\ out[3] \in Int /\ out[4] \in Int /\ out[5] \in Int
        /\ c[1] \in Int /\ c[2] \in Int /\ c[3] \in Int /\ c[4] \in Int /\ c[5] \in Int
        /\ RADIX \in Int /\ FOLD \in Int
    BY Widths DEF Limb
  <1>3. Value(h) = Value(out) + ModulusValue * c[5]
    <2>1. h[1] + RADIX * (h[2] + RADIX * (h[3] + RADIX * (h[4] + RADIX * h[5])))
            = (out[1] + RADIX * (out[2] + RADIX * (out[3] + RADIX * (out[4] + RADIX * out[5]))))
                + (RADIX * (RADIX * (RADIX * (RADIX * RADIX))) - FOLD) * c[5]
      <3> DEFINE R == RADIX
                 F == FOLD
                 h1 == h[1]
                 h2 == h[2]
                 h3 == h[3]
                 h4 == h[4]
                 h5 == h[5]
                 o1 == out[1]
                 o2 == out[2]
                 o3 == out[3]
                 o4 == out[4]
                 o5 == out[5]
                 c1 == c[1]
                 c2 == c[2]
                 c3 == c[3]
                 c4 == c[4]
                 c5 == c[5]
      <3>1. /\ h1 + F * c5 = o1 + R * c1 /\ h2 + c1 = o2 + R * c2 /\ h3 + c2 = o3 + R * c3
            /\ h4 + c3 = o4 + R * c4 /\ h5 + c4 = o5 + R * c5
        OBVIOUS
      <3>2. /\ h1 \in Int /\ h2 \in Int /\ h3 \in Int /\ h4 \in Int /\ h5 \in Int
            /\ o1 \in Int /\ o2 \in Int /\ o3 \in Int /\ o4 \in Int /\ o5 \in Int
            /\ c1 \in Int /\ c2 \in Int /\ c3 \in Int /\ c4 \in Int /\ c5 \in Int
            /\ R \in Int /\ F \in Int
        BY <1>2
      <3> HIDE DEF R, F, h1, h2, h3, h4, h5, o1, o2, o3, o4, o5, c1, c2, c3, c4, c5
      <3>3. h1 + R * (h2 + R * (h3 + R * (h4 + R * h5)))
              = (o1 + R * (o2 + R * (o3 + R * (o4 + R * o5)))) + (R * (R * (R * (R * R))) - F) * c5
        BY <1>1, <3>1, <3>2
      <3> QED BY <3>3 DEF R, F, h1, h2, h3, h4, h5, o1, o2, o3, o4, o5, c1, c2, c3, c4, c5
    <2> QED BY <2>1 DEF Value, Horner, ModulusValue
  <1> QED BY <1>2, <1>3, ValueIsInt, SameResidue

\* What a limb with its carry comes to, and the carry it passes on
Passed(l, sum) == /\ l = sum /\ l \in Nat
                  /\ l \div RADIX \in Nat /\ l % RADIX \in 0..(RADIX - 1)
                  /\ l = (l % RADIX) + RADIX * (l \div RADIX)

LEMMA PassedOn ==
  ASSUME NEW l \in Nat, l < REGISTER
  PROVE  Passed(Wrap(l), l)
  <1>1. l \in 0..(REGISTER - 1)
    BY Widths
  <1>2. l \div RADIX \in Nat /\ l % RADIX \in 0..(RADIX - 1) /\ l = RADIX * (l \div RADIX) + (l % RADIX)
    BY Widths, DivMod
  <1>3. l = (l % RADIX) + RADIX * (l \div RADIX)
    <2> DEFINE q == l \div RADIX
               r == l % RADIX
    <2>1. q \in Int /\ r \in Int /\ l = RADIX * q + r
      BY <1>2, Widths
    <2> HIDE DEF q, r
    <2>2. l = r + RADIX * q
      BY <2>1, Widths
    <2> QED BY <2>2 DEF q, r
  <1>4. Wrap(l) = l
    BY <1>1, WrapSmall
  <1>5. Passed(l, l)
    BY <1>2, <1>3 DEF Passed
  <1> QED BY <1>4, <1>5

\* A limb of a sum that fits its register
LEMMA PassedLimb ==
  ASSUME NEW x \in Nat, NEW q \in Nat, x + HEADROOM <= REGISTER, q <= HEADROOM - 1
  PROVE  LET l == Wrap(x + q) IN Passed(l, x + q) /\ l \div RADIX <= HEADROOM - 1
  <1> DEFINE l == x + q
  <1>1. l \in Nat /\ l < HEADROOM * RADIX /\ l < REGISTER
    BY Widths DEF REGISTER
  <1> HIDE DEF l
  <1>2. l \div RADIX \in Nat /\ l \div RADIX < HEADROOM
    BY <1>1, Widths, DivLess, OfRadix
  <1>3. l \div RADIX <= HEADROOM - 1
    BY <1>2, Widths
  <1>4. Passed(Wrap(l), l) /\ Wrap(l) = l
    BY <1>1, PassedOn DEF Passed
  <1> QED BY <1>3, <1>4 DEF l

\* One pass over sums that fit their registers, wrapping nothing
LEMMA ReducedResidue ==
  ASSUME NEW m \in Factors, NEW h \in [Limb -> Int], InRegisters(h)
  PROVE  Residue(Reduced(h), m) = Value(h) % m
  <1> DEFINE w == Wrapped(h)
             l1 == h[1]
             q1 == l1 \div RADIX
             l2 == Wrap(h[2] + q1)
             q2 == l2 \div RADIX
             l3 == Wrap(h[3] + q2)
             q3 == l3 \div RADIX
             l4 == Wrap(h[4] + q3)
             q4 == l4 \div RADIX
             l5 == Wrap(h[5] + q4)
             q5 == l5 \div RADIX
             r1 == l1 % RADIX
             r2 == l2 % RADIX
             r3 == l3 % RADIX
             r4 == l4 % RADIX
             r5 == l5 % RADIX
             out == Reduced(h)
  <1>1. ASSUME NEW i \in Limb
        PROVE  w[i] = h[i] /\ h[i] \in Nat /\ h[i] + HEADROOM <= REGISTER
    <2>1. h[i] \in Nat /\ h[i] + HEADROOM <= REGISTER
      BY DEF InRegisters
    <2>2. h[i] \in 0..(REGISTER - 1)
      BY <2>1, Widths
    <2> QED BY <2>1, <2>2, WrapSmall DEF Wrapped
  <1>2. /\ h[1] \in Nat /\ h[2] \in Nat /\ h[3] \in Nat /\ h[4] \in Nat /\ h[5] \in Nat
        /\ h[1] + HEADROOM <= REGISTER /\ h[2] + HEADROOM <= REGISTER /\ h[3] + HEADROOM <= REGISTER
        /\ h[4] + HEADROOM <= REGISTER /\ h[5] + HEADROOM <= REGISTER
    BY <1>1 DEF Limb
  <1>3. out = <<Wrap(r1 + Wrap(FOLD * q5)), r2, r3, r4, r5>>
    <2>1. w[1] = h[1] /\ w[2] = h[2] /\ w[3] = h[3] /\ w[4] = h[4] /\ w[5] = h[5]
      BY <1>1 DEF Limb
    <2> HIDE DEF w
    <2> QED BY <2>1 DEF Reduced, ReduceLoose, w
  <1>4. out \in Sums
    BY ReducedSums
  <1> HIDE DEF w, out
  <1>5. Passed(l1, h[1]) /\ q1 \in Nat /\ q1 <= HEADROOM - 1
    <2>1. h[1] < HEADROOM * RADIX /\ h[1] < REGISTER
      BY <1>2, Widths DEF REGISTER
    <2>2. q1 \in Nat /\ q1 < HEADROOM
      BY <2>1, <1>2, Widths, OfRadix, DivLess
    <2>3. Passed(Wrap(h[1]), h[1])
      BY <1>2, <2>1, PassedOn
    <2>4. Wrap(h[1]) = h[1]
      BY <2>3 DEF Passed
    <2>5. Passed(l1, h[1])
      BY <2>3, <2>4
    <2> HIDE DEF q1
    <2> QED BY <2>2, <2>5, Widths
  <1>6. Passed(l2, h[2] + q1) /\ q2 \in Nat /\ q2 <= HEADROOM - 1
    <2> HIDE DEF q1
    <2>1. Passed(l2, h[2] + q1) /\ q2 <= HEADROOM - 1
      BY <1>2, <1>5, PassedLimb, Zenon
    <2> QED BY <2>1 DEF Passed
  <1>7. Passed(l3, h[3] + q2) /\ q3 \in Nat /\ q3 <= HEADROOM - 1
    <2> HIDE DEF q2
    <2>1. Passed(l3, h[3] + q2) /\ q3 <= HEADROOM - 1
      BY <1>2, <1>6, PassedLimb, Zenon
    <2> QED BY <2>1 DEF Passed
  <1>8. Passed(l4, h[4] + q3) /\ q4 \in Nat /\ q4 <= HEADROOM - 1
    <2> HIDE DEF q3
    <2>1. Passed(l4, h[4] + q3) /\ q4 <= HEADROOM - 1
      BY <1>2, <1>7, PassedLimb, Zenon
    <2> QED BY <2>1 DEF Passed
  <1>9. Passed(l5, h[5] + q4) /\ q5 \in Nat /\ q5 <= HEADROOM - 1
    <2> HIDE DEF q4
    <2>1. Passed(l5, h[5] + q4) /\ q5 <= HEADROOM - 1
      BY <1>2, <1>8, PassedLimb, Zenon
    <2> QED BY <2>1 DEF Passed
  <1>10. /\ h[1] = r1 + RADIX * q1 /\ h[2] + q1 = r2 + RADIX * q2 /\ h[3] + q2 = r3 + RADIX * q3
         /\ h[4] + q3 = r4 + RADIX * q4 /\ h[5] + q4 = r5 + RADIX * q5
         /\ r1 \in 0..(RADIX - 1) /\ r2 \in 0..(RADIX - 1) /\ r3 \in 0..(RADIX - 1)
         /\ r4 \in 0..(RADIX - 1) /\ r5 \in 0..(RADIX - 1)
    <2> HIDE DEF l1, l2, l3, l4, l5
    <2>1. h[1] = r1 + RADIX * q1 /\ r1 \in 0..(RADIX - 1)
      BY <1>5 DEF Passed
    <2>2. h[2] + q1 = r2 + RADIX * q2 /\ r2 \in 0..(RADIX - 1)
      <3> HIDE DEF q1
      <3> QED BY <1>6 DEF Passed
    <2>3. h[3] + q2 = r3 + RADIX * q3 /\ r3 \in 0..(RADIX - 1)
      <3> HIDE DEF q2
      <3> QED BY <1>7 DEF Passed
    <2>4. h[4] + q3 = r4 + RADIX * q4 /\ r4 \in 0..(RADIX - 1)
      <3> HIDE DEF q3
      <3> QED BY <1>8 DEF Passed
    <2>5. h[5] + q4 = r5 + RADIX * q5 /\ r5 \in 0..(RADIX - 1)
      <3> HIDE DEF q4
      <3> QED BY <1>9 DEF Passed
    <2> QED BY <2>1, <2>2, <2>3, <2>4, <2>5
  <1> HIDE DEF l1, l2, l3, l4, l5, q1, q2, q3, q4, q5, r1, r2, r3, r4, r5
  <1>11. FOLD * q5 \in 0..(RADIX - 1)
    <2>1. q5 * FOLD <= HEADROOM * FOLD
      BY <1>9, Widths, TimesMonotone
    <2> QED BY <2>1, <1>9, Widths
  <1>12. out[1] = r1 + FOLD * q5 /\ out[2] = r2 /\ out[3] = r3 /\ out[4] = r4 /\ out[5] = r5
    <2>1. FOLD * q5 \in 0..(REGISTER - 1) /\ r1 + FOLD * q5 \in 0..(REGISTER - 1)
      BY <1>10, <1>11, Widths
    <2>2. Wrap(FOLD * q5) = FOLD * q5 /\ Wrap(r1 + FOLD * q5) = r1 + FOLD * q5
      BY <2>1, WrapSmall
    <2> QED BY <1>3, <2>2
  <1>13. /\ q1 \in Int /\ q2 \in Int /\ q3 \in Int /\ q4 \in Int /\ q5 \in Int
         /\ r1 \in Int /\ r2 \in Int /\ r3 \in Int /\ r4 \in Int /\ r5 \in Int
    BY <1>5, <1>6, <1>7, <1>8, <1>9, <1>10
  <1>14. out \in [Limb -> Int]
    BY <1>4 DEF Sums, Vector
  <1> DEFINE c == <<q1, q2, q3, q4, q5>>
  <1>15. c \in [Limb -> Int] /\ c[1] = q1 /\ c[2] = q2 /\ c[3] = q3 /\ c[4] = q4 /\ c[5] = q5
    BY <1>13 DEF Limb
  <1> HIDE DEF c
  <1>16. h[1] + FOLD * c[5] = out[1] + RADIX * c[1]
    <2>1. ASSUME NEW x \in Int, NEW y \in Int, NEW z \in Int, NEW f \in Int, x = y + z
          PROVE  x + f = (y + f) + z
      BY <2>1
    <2>2. FOLD * q5 \in Int /\ RADIX * q1 \in Int
      BY <1>13, Widths
    <2> QED BY <2>1, <2>2, <1>2, <1>10, <1>12, <1>13, <1>15
  <1>17. Value(h) % m = Value(out) % m
    BY <1>10, <1>12, <1>14, <1>15, <1>16, CarriesTelescope
  <1> QED BY <1>14, <1>17, ResidueIsOfValue, FactorsAre DEF out

\* The carry of limb 0 alone
LEMMA CarryLimb0Value ==
  ASSUME NEW a \in Vector, a[2] + a[1] \div RADIX < REGISTER
  PROVE  CarryLimb0(a) \in Vector /\ Value(CarryLimb0(a)) = Value(a)
  <1> DEFINE r == a[1] % RADIX
             q == a[1] \div RADIX
             x == a[3] + RADIX * (a[4] + RADIX * a[5])
  <1>1. a[1] \in Nat /\ a[2] \in Nat /\ a[3] \in Nat /\ a[4] \in Nat /\ a[5] \in Nat
    BY DEF Vector, Limb
  <1>2. q \in Nat /\ r \in Nat /\ a[1] = RADIX * q + r
    <2>1. q \in Nat /\ r \in 0..(RADIX - 1) /\ a[1] = RADIX * q + r
      BY <1>1, Widths, DivMod
    <2> HIDE DEF q, r
    <2> QED BY <2>1, Widths
  <1>3. CarryLimb0(a) = <<r, a[2] + q, a[3], a[4], a[5]>>
    <2>1. a[2] + q < REGISTER
      OBVIOUS
    <2>2. a[2] + q \in 0..(REGISTER - 1)
      <3> HIDE DEF q, r
      <3> QED BY <2>1, <1>1, <1>2, Widths
    <2>3. Wrap(a[2] + q) = a[2] + q
      BY <2>2, WrapSmall
    <2> QED BY <2>3 DEF CarryLimb0
  <1>4. x \in Int
    BY <1>1, Widths
  <1> HIDE DEF r, q
  <1>5. Value(CarryLimb0(a)) = r + RADIX * ((a[2] + q) + RADIX * x)
    BY <1>3 DEF Value, Horner
  <1>6. Value(a) = a[1] + RADIX * (a[2] + RADIX * x)
    BY DEF Value, Horner
  <1> HIDE DEF x
  <1>7. r + RADIX * ((a[2] + q) + RADIX * x) = a[1] + RADIX * (a[2] + RADIX * x)
    <2> DEFINE R == RADIX
               a1 == a[1]
               a2 == a[2]
    <2>1. R \in Int /\ a1 \in Int /\ a2 \in Int /\ a1 = R * q + r
      BY <1>1, <1>2, Widths
    <2> HIDE DEF R, a1, a2
    <2>2. r + R * ((a2 + q) + R * x) = (R * q + r) + R * (a2 + R * x)
      BY <1>2, <1>4, <2>1
    <2>3. r + R * ((a2 + q) + R * x) = a1 + R * (a2 + R * x)
      BY <2>1, <2>2, Zenon
    <2> QED BY <2>3 DEF R, a1, a2
  <1> QED BY <1>5, <1>6, <1>7, CarryLimb0Vector

-----------------------------------------------------------------------------
\* One carry along the columns of a product, which wraps nothing
ColumnPassed(l, c, lo, hi, carry) ==
    /\ l \in Nat /\ l % RADIX \in 0..(RADIX - 1)
    /\ c \in Nat /\ c <= l \div RADIX + 2 * hi
    /\ (lo + 2 * (RADIX * hi)) + carry = (l % RADIX) + RADIX * c

LEMMA CarryMostFits == CarryMost \in Nat /\ COLUMN * RADIX + CarryMost < REGISTER /\ CarryMost < REGISTER
  <1>1. COLUMN \in Nat /\ 3 * COLUMN + 1 <= HEADROOM /\ COLUMN * RADIX \in Nat /\ 3 * COLUMN + 1 < RADIX
    BY LooseWidths, Widths
  <1>2. (3 * COLUMN + 1) * RADIX <= HEADROOM * RADIX
    BY <1>1, Widths, TimesMonotone
  <1>3. (3 * COLUMN + 1) * RADIX = 3 * (COLUMN * RADIX) + RADIX
    BY <1>1, Widths
  <1> QED BY <1>1, <1>2, <1>3, Widths DEF CarryMost, REGISTER

LEMMA ColumnPasses ==
  ASSUME NEW lo \in Nat, NEW hi \in Nat, NEW carry \in Nat,
         lo < COLUMN * RADIX, hi < COLUMN * RADIX, carry <= CarryMost
  PROVE  LET l == Wrap(lo + carry)
             c == Wrap(l \div RADIX + 2 * hi)
         IN  ColumnPassed(l, c, lo, hi, carry) /\ l = lo + carry /\ c <= CarryMost
  <1> DEFINE l == lo + carry
             q == l \div RADIX
             r == l % RADIX
             c == q + 2 * hi
  <1>0. /\ COLUMN * RADIX \in Nat /\ CarryMost \in Nat /\ COLUMN * RADIX + CarryMost < REGISTER
        /\ COLUMN \in Nat /\ CarryMost < REGISTER /\ REGISTER \in Nat /\ RADIX \in Nat \ {0}
    BY LooseWidths, CarryMostFits, Widths
  <1>1. l \in Nat /\ l < REGISTER /\ Wrap(l) = l
    <2>1. l \in Nat /\ l \in 0..(REGISTER - 1)
      <3> DEFINE b == COLUMN * RADIX
      <3>1. b \in Nat /\ lo < b /\ b + CarryMost < REGISTER
        BY <1>0
      <3> HIDE DEF b
      <3> QED BY <3>1, <1>0
    <2> HIDE DEF l
    <2> QED BY <2>1, WrapSmall, <1>0
  <1>2. LET k == Wrap(lo + carry)
            d == Wrap(k \div RADIX + 2 * hi)
        IN  k \in Nat /\ d \in Nat /\ d <= CarryMost
    BY CarryStep
  <1>3. q \in Nat /\ r \in 0..(RADIX - 1) /\ l = RADIX * q + r
    <2> HIDE DEF l
    <2> QED BY <1>1, <1>0, DivMod
  \* The carry: at most that of three columns and the high part below
  <1>4. c \in Nat /\ c < REGISTER
    <2> DEFINE b == COLUMN * RADIX
    <2>1. b \in Nat /\ lo < b /\ hi < b /\ (3 * COLUMN + 1) * RADIX = 3 * b + RADIX /\ 3 * COLUMN + 1 < RADIX
      BY LooseWidths, Widths
    <2>2. carry <= 3 * COLUMN + 1 + 2 * b
      BY DEF CarryMost
    <2> HIDE DEF b
    <2>3. l < (3 * COLUMN + 1) * RADIX
      BY <2>1, <2>2, <1>0
    <2>4. q < 3 * COLUMN + 1
      <3>1. 3 * COLUMN + 1 \in Nat
        BY <1>0
      <3> HIDE DEF l
      <3> QED BY <2>3, <3>1, <1>0, <1>1, DivLess
    <2>5. 3 * COLUMN + 1 + 2 * b < REGISTER
      BY <1>0, <2>1 DEF CarryMost, b
    <2> HIDE DEF q, l
    <2> QED BY <1>0, <1>3, <2>1, <2>4, <2>5
  <1>5. Wrap(c) = c
    <2> HIDE DEF c
    <2>1. c \in 0..(REGISTER - 1)
      BY <1>0, <1>4
    <2> QED BY <2>1, WrapSmall
  <1>6. (lo + 2 * (RADIX * hi)) + carry = r + RADIX * c
    <2>1. lo + carry = RADIX * q + r
      BY <1>3
    <2> HIDE DEF q, r, l
    <2>2. RADIX * (q + 2 * hi) = RADIX * q + 2 * (RADIX * hi) /\ RADIX * q \in Int /\ RADIX * hi \in Int
      BY <1>0, <1>3
    <2> QED BY <2>1, <2>2, <1>0, <1>3
  <1>7. ColumnPassed(l, c, lo, hi, carry)
    <2>1. c <= q + 2 * hi
      BY <1>4
    <2> QED BY <1>1, <1>3, <1>4, <1>6, <2>1 DEF ColumnPassed
  <1>8. c <= CarryMost
    BY <1>1, <1>2, <1>5
  <1> QED BY <1>1, <1>5, <1>7, <1>8

\* What stands in the columns
Column(columns) == [k \in Limb |-> columns.lo[k] + 2 * (RADIX * columns.hi[k])]

LEMMA ReduceIfmaResidue ==
  ASSUME NEW m \in Factors, NEW columns \in BoundedColumns
  PROVE  /\ Column(columns) \in [Limb -> Int]
         /\ Residue(ReduceIfmaLoose(columns), m) = Value(Column(columns)) % m
  <1> DEFINE lo == columns.lo
             hi == columns.hi
             l1 == lo[1]
             c1 == Wrap(l1 \div RADIX + 2 * hi[1])
             l2 == Wrap(lo[2] + c1)
             c2 == Wrap(l2 \div RADIX + 2 * hi[2])
             l3 == Wrap(lo[3] + c2)
             c3 == Wrap(l3 \div RADIX + 2 * hi[3])
             l4 == Wrap(lo[4] + c3)
             c4 == Wrap(l4 \div RADIX + 2 * hi[4])
             l5 == Wrap(lo[5] + c4)
             c5 == Wrap(l5 \div RADIX + 2 * hi[5])
             out == ReduceIfmaLoose(columns)
             column == Column(columns)
  <1>1. /\ lo[1] \in Nat /\ lo[2] \in Nat /\ lo[3] \in Nat /\ lo[4] \in Nat /\ lo[5] \in Nat
        /\ hi[1] \in Nat /\ hi[2] \in Nat /\ hi[3] \in Nat /\ hi[4] \in Nat /\ hi[5] \in Nat
        /\ lo[1] < COLUMN * RADIX /\ lo[2] < COLUMN * RADIX /\ lo[3] < COLUMN * RADIX
        /\ lo[4] < COLUMN * RADIX /\ lo[5] < COLUMN * RADIX
        /\ hi[1] < COLUMN * RADIX /\ hi[2] < COLUMN * RADIX /\ hi[3] < COLUMN * RADIX
        /\ hi[4] < COLUMN * RADIX /\ hi[5] < COLUMN * RADIX
        /\ lo[5] < 10 * RADIX /\ hi[5] < 10 * RADIX
    BY DEF BoundedColumns, Columns, Vector, Limb
  <1>2. column \in [Limb -> Int] /\ \A k \in Limb : column[k] = lo[k] + 2 * (RADIX * hi[k])
    <2>1. \A k \in Limb : lo[k] \in Nat /\ hi[k] \in Nat
      BY DEF BoundedColumns, Columns, Vector
    <2> HIDE DEF lo, hi
    <2>2. \A k \in Limb : lo[k] + 2 * (RADIX * hi[k]) \in Int
      BY <2>1, Widths
    <2>3. column = [k \in Limb |-> lo[k] + 2 * (RADIX * hi[k])]
      BY DEF Column, lo, hi
    <2> QED BY <2>2, <2>3
  <1>3. out \in [Limb -> Int]
    BY ReduceIfmaLooseBound DEF Loosened, Vector
  <1>4. out = <<Wrap((l1 % RADIX) + Wrap(FOLD * c5)), l2 % RADIX, l3 % RADIX, l4 % RADIX, l5 % RADIX>>
    BY DEF ReduceIfmaLoose
  <1> HIDE DEF out, column, lo, hi
  <1>5. COLUMN \in Nat /\ COLUMN * RADIX \in Nat /\ 3 * COLUMN + 1 <= RADIX /\ CarryMost \in Nat
    BY LooseWidths, Widths, CarryMostFits
  <1>6. ColumnPassed(l1, c1, lo[1], hi[1], 0) /\ c1 <= CarryMost
    <2>1. 0 \in Nat /\ 0 <= CarryMost
      BY <1>5
    <2>2. LET l == Wrap(lo[1] + 0)
              c == Wrap(l \div RADIX + 2 * hi[1])
          IN  ColumnPassed(l, c, lo[1], hi[1], 0) /\ l = lo[1] + 0 /\ c <= CarryMost
      BY <1>1, <2>1, ColumnPasses, Zenon
    <2>3. lo[1] + 0 = lo[1] /\ Wrap(lo[1] + 0) = lo[1]
      BY <1>1, <2>2
    <2> QED BY <2>2, <2>3, Zenon
  <1>7. ColumnPassed(l2, c2, lo[2], hi[2], c1) /\ c2 <= CarryMost
    <2> HIDE DEF c1
    <2>1. c1 \in Nat
      BY <1>6 DEF ColumnPassed
    <2> QED BY <1>1, <1>6, <2>1, ColumnPasses, Zenon
  <1>8. ColumnPassed(l3, c3, lo[3], hi[3], c2) /\ c3 <= CarryMost
    <2> HIDE DEF c2
    <2>1. c2 \in Nat
      BY <1>7 DEF ColumnPassed
    <2> QED BY <1>1, <1>7, <2>1, ColumnPasses, Zenon
  <1>9. ColumnPassed(l4, c4, lo[4], hi[4], c3) /\ c4 <= CarryMost
    <2> HIDE DEF c3
    <2>1. c3 \in Nat
      BY <1>8 DEF ColumnPassed
    <2> QED BY <1>1, <1>8, <2>1, ColumnPasses, Zenon
  <1>10. ColumnPassed(l5, c5, lo[5], hi[5], c4) /\ l5 = lo[5] + c4
    <2> HIDE DEF c4
    <2>1. c4 \in Nat
      BY <1>9 DEF ColumnPassed
    <2> QED BY <1>1, <1>9, <2>1, ColumnPasses, Zenon
  <1> HIDE DEF l1, l2, l3, l4, l5, c1, c2, c3, c4, c5
  <1>11. /\ c1 \in Nat /\ c2 \in Nat /\ c3 \in Nat /\ c4 \in Nat /\ c5 \in Nat /\ l5 \in Nat
         /\ l1 % RADIX \in 0..(RADIX - 1) /\ c5 <= l5 \div RADIX + 2 * hi[5]
    BY <1>6, <1>7, <1>8, <1>9, <1>10 DEF ColumnPassed
  <1>12. c5 <= 20 * RADIX + 2 * COLUMN + 11
    <2>1. (2 * COLUMN + 11) * RADIX = 2 * (COLUMN * RADIX) + 11 * RADIX
      BY <1>5, Widths
    <2>2. l5 < (2 * COLUMN + 11) * RADIX
      BY <1>1, <1>5, <1>9, <1>10, <1>11, <2>1, Widths DEF CarryMost
    <2>3. l5 \div RADIX < 2 * COLUMN + 11 /\ l5 \div RADIX \in Nat
      <3>1. 2 * COLUMN + 11 \in Nat
        BY <1>5
      <3> QED BY <1>11, <2>2, <3>1, Widths, DivLess, OfRadix
    <2> QED BY <1>1, <1>5, <1>11, <2>3, Widths
  <1>13. FOLD * c5 \in Nat /\ RADIX + FOLD * c5 < REGISTER
    <2> DEFINE most == 20 * RADIX + 2 * COLUMN + 11
    <2>1. most \in Nat /\ c5 <= most /\ RADIX + FOLD * most <= LOOSENESS * RADIX
      BY <1>5, <1>12, LooseWidths, Widths
    <2> HIDE DEF most
    <2>2. c5 * FOLD <= most * FOLD
      BY <1>11, <2>1, Widths, TimesMonotone
    <2>3. FOLD * c5 \in Nat /\ FOLD * c5 <= FOLD * most /\ FOLD * most \in Nat
      BY <1>11, <2>1, <2>2, Widths
    <2>4. LOOSENESS * RADIX < REGISTER
      BY LooseNumbers, Widths
    <2>5. LOOSENESS * RADIX \in Nat
      BY LooseNumbers
    <2> QED BY <2>1, <2>3, <2>4, <2>5, Widths
  <1>14. /\ out[1] = (l1 % RADIX) + FOLD * c5
         /\ out[2] = l2 % RADIX /\ out[3] = l3 % RADIX /\ out[4] = l4 % RADIX /\ out[5] = l5 % RADIX
    <2>1. FOLD * c5 \in 0..(REGISTER - 1) /\ (l1 % RADIX) + FOLD * c5 \in 0..(REGISTER - 1)
      BY <1>11, <1>13, Widths
    <2>2. Wrap(FOLD * c5) = FOLD * c5 /\ Wrap((l1 % RADIX) + FOLD * c5) = (l1 % RADIX) + FOLD * c5
      BY <2>1, WrapSmall
    <2> QED BY <1>4, <2>2
  <1> DEFINE c == <<c1, c2, c3, c4, c5>>
  <1>15. c \in [Limb -> Int] /\ c[1] = c1 /\ c[2] = c2 /\ c[3] = c3 /\ c[4] = c4 /\ c[5] = c5
    BY <1>11 DEF Limb
  <1> HIDE DEF c
  <1>16. /\ column[1] + 0 = (l1 % RADIX) + RADIX * c[1] /\ column[2] + c[1] = out[2] + RADIX * c[2]
         /\ column[3] + c[2] = out[3] + RADIX * c[3] /\ column[4] + c[3] = out[4] + RADIX * c[4]
         /\ column[5] + c[4] = out[5] + RADIX * c[5]
    <2>1. 1 \in Limb /\ 2 \in Limb /\ 3 \in Limb /\ 4 \in Limb /\ 5 \in Limb
      BY DEF Limb
    <2>2. column[1] + 0 = (l1 % RADIX) + RADIX * c[1]
      BY <1>2, <1>6, <1>15, <2>1, Zenon DEF ColumnPassed
    <2>3. column[2] + c[1] = out[2] + RADIX * c[2]
      BY <1>2, <1>7, <1>14, <1>15, <2>1, Zenon DEF ColumnPassed
    <2>4. column[3] + c[2] = out[3] + RADIX * c[3]
      BY <1>2, <1>8, <1>14, <1>15, <2>1, Zenon DEF ColumnPassed
    <2>5. column[4] + c[3] = out[4] + RADIX * c[4]
      BY <1>2, <1>9, <1>14, <1>15, <2>1, Zenon DEF ColumnPassed
    <2>6. column[5] + c[4] = out[5] + RADIX * c[5]
      BY <1>2, <1>10, <1>14, <1>15, <2>1, Zenon DEF ColumnPassed
    <2> QED BY <2>2, <2>3, <2>4, <2>5, <2>6
  <1>17. column[1] + FOLD * c[5] = out[1] + RADIX * c[1]
    <2>1. ASSUME NEW x \in Int, NEW y \in Int, NEW z \in Int, NEW f \in Int, x + 0 = y + z
          PROVE  x + f = (y + f) + z
      BY <2>1
    <2>2. column[1] \in Int /\ l1 % RADIX \in Int /\ RADIX * c[1] \in Int /\ FOLD * c[5] \in Int
      BY <1>2, <1>11, <1>15, Widths DEF Limb
    <2>3. column[1] + FOLD * c[5] = ((l1 % RADIX) + FOLD * c[5]) + RADIX * c[1]
      BY <1>16, <2>1, <2>2
    <2> QED BY <1>14, <1>15, <2>3, Zenon
  <1>18. Value(column) % m = Value(out) % m
    BY <1>2, <1>3, <1>15, <1>16, <1>17, CarriesTelescope
  <1> QED BY <1>2, <1>3, <1>18, ResidueIsOfValue, FactorsAre DEF out, column

-----------------------------------------------------------------------------
\* What the multiplier returns in two halves is the whole product.
LEMMA Halves ==
  ASSUME NEW a \in Nat, NEW b \in Nat, a < IFMA, b < IFMA
  PROVE  Low(a, b) \in Nat /\ High(a, b) \in Nat /\ Low(a, b) + 2 * (RADIX * High(a, b)) = a * b
  <1> DEFINE p == a * b
  <1>1. a % IFMA = a /\ b % IFMA = b
    BY Widths
  <1>2. Low(a, b) = p % IFMA /\ High(a, b) = p \div IFMA
    BY <1>1 DEF Low, High
  <1>3. p \in Nat
    OBVIOUS
  <1> HIDE DEF p
  <1>4. p \div IFMA \in Nat /\ p % IFMA \in 0..(IFMA - 1) /\ p = IFMA * (p \div IFMA) + (p % IFMA)
    BY <1>3, Widths, DivMod
  <1>5. ASSUME NEW q \in Int, NEW r \in Int, p = IFMA * q + r PROVE r + 2 * (RADIX * q) = p
    BY <1>5, Widths DEF IFMA
  <1>6. p \div IFMA \in Int /\ p % IFMA \in Int
    BY <1>4, Widths
  <1>7. (p % IFMA) + 2 * (RADIX * (p \div IFMA)) = p
    BY <1>4, <1>5, <1>6
  <1>8. Low(a, b) \in Nat /\ High(a, b) \in Nat
    BY LowHigh
  <1> QED BY <1>2, <1>7, <1>8 DEF p

\* The sums of the columns of a product, which do not wrap
LEMMA ProductUnwrapped ==
  ASSUME NEW a \in Vector, NEW b \in Vector, NEW k \in Limb
  PROVE  /\ MultiplyAccum(a, b).lo[k] = LowTerm(a, b, k, 1) + LowTerm(a, b, k, 2) + LowTerm(a, b, k, 3)
                                          + LowTerm(a, b, k, 4) + LowTerm(a, b, k, 5)
         /\ MultiplyAccum(a, b).hi[k] = HighTerm(a, b, k, 1) + HighTerm(a, b, k, 2) + HighTerm(a, b, k, 3)
                                          + HighTerm(a, b, k, 4) + HighTerm(a, b, k, 5)
  <1> DEFINE l(i) == LowTerm(a, b, k, i)
             h(i) == HighTerm(a, b, k, i)
             low  == l(1) + l(2) + l(3) + l(4) + l(5)
             high == h(1) + h(2) + h(3) + h(4) + h(5)
  <1>1. MultiplyAccum(a, b).lo[k] = Wrap(low) /\ MultiplyAccum(a, b).hi[k] = Wrap(high)
    BY DEF MultiplyAccum
  <1>2. \A i \in Limb : /\ l(i) \in Nat /\ l(i) <= FOLD * (2 * RADIX)
                        /\ h(i) \in Nat /\ h(i) <= FOLD * (2 * RADIX)
                        /\ i <= k => l(i) < 2 * RADIX /\ h(i) < 2 * RADIX
    BY ProductTerm
  <1>3. 1 <= k /\ {1, 2, 3, 4, 5} \subseteq Limb
    BY DEF Limb
  <1> HIDE DEF l, h
  <1>4. low \in Nat /\ low < COLUMN * RADIX
    <2>1. /\ l(1) \in Nat /\ l(2) \in Nat /\ l(3) \in Nat /\ l(4) \in Nat /\ l(5) \in Nat
          /\ l(1) < 2 * RADIX /\ l(2) <= FOLD * (2 * RADIX) /\ l(3) <= FOLD * (2 * RADIX)
          /\ l(4) <= FOLD * (2 * RADIX) /\ l(5) <= FOLD * (2 * RADIX)
      BY <1>2, <1>3
    <2> QED BY <2>1, LooseWidths, Widths
  <1>5. high \in Nat /\ high < COLUMN * RADIX
    <2>1. /\ h(1) \in Nat /\ h(2) \in Nat /\ h(3) \in Nat /\ h(4) \in Nat /\ h(5) \in Nat
          /\ h(1) < 2 * RADIX /\ h(2) <= FOLD * (2 * RADIX) /\ h(3) <= FOLD * (2 * RADIX)
          /\ h(4) <= FOLD * (2 * RADIX) /\ h(5) <= FOLD * (2 * RADIX)
      BY <1>2, <1>3
    <2> QED BY <2>1, LooseWidths, Widths
  <1> HIDE DEF low, high
  <1>6. MultiplyAccum(a, b).lo[k] = low /\ MultiplyAccum(a, b).hi[k] = high
    BY <1>1, <1>4, <1>5, ColumnWrap
  <1> QED BY <1>6 DEF low, high, l, h

\* Both halves of a term
LEMMA TermValue ==
  ASSUME NEW a \in Vector, NEW b \in Vector, IsIfmaOperand(a), IsIfmaOperand(b),
         NEW k \in Limb, NEW i \in Limb
  PROVE  /\ LowTerm(a, b, k, i) \in Nat /\ HighTerm(a, b, k, i) \in Nat
         /\ LowTerm(a, b, k, i) + 2 * (RADIX * HighTerm(a, b, k, i))
              = IF i <= k THEN a[i] * b[k + 1 - i] ELSE FOLD * (a[i] * b[k + 6 - i])
  <1>1. LowTerm(a, b, k, i) \in Nat /\ HighTerm(a, b, k, i) \in Nat
    BY ProductTerm
  <1>2. CASE i <= k
    <2> DEFINE x == a[i]
               y == b[k + 1 - i]
    <2>1. x \in Nat /\ y \in Nat /\ x < IFMA /\ y < IFMA
      BY <1>2 DEF Vector, Limb, IsIfmaOperand
    <2> HIDE DEF x, y
    <2>2. Low(x, y) + 2 * (RADIX * High(x, y)) = x * y
      BY <2>1, Halves
    <2>3. LowTerm(a, b, k, i) = Low(x, y) /\ HighTerm(a, b, k, i) = High(x, y)
      BY <1>2 DEF LowTerm, HighTerm, x, y
    <2>4. LowTerm(a, b, k, i) + 2 * (RADIX * HighTerm(a, b, k, i)) = x * y
      BY <2>2, <2>3
    <2> QED BY <1>1, <1>2, <2>4 DEF x, y
  <1>3. CASE ~(i <= k)
    <2> DEFINE x == a[i]
               y == b[k + 6 - i]
    <2>1. x \in Nat /\ y \in Nat /\ x < IFMA /\ y < IFMA
      BY <1>3 DEF Vector, Limb, IsIfmaOperand
    <2> HIDE DEF x, y
    <2>2. Low(x, y) \in Nat /\ High(x, y) \in Nat /\ Low(x, y) + 2 * (RADIX * High(x, y)) = x * y
      BY <2>1, Halves
    <2>3. LowTerm(a, b, k, i) = FOLD * Low(x, y) /\ HighTerm(a, b, k, i) = FOLD * High(x, y)
      BY <1>3 DEF LowTerm, HighTerm, x, y
    <2>4. ASSUME NEW l \in Int, NEW h \in Int PROVE FOLD * l + 2 * (RADIX * (FOLD * h)) = FOLD * (l + 2 * (RADIX * h))
      BY Widths
    <2>5. LowTerm(a, b, k, i) + 2 * (RADIX * HighTerm(a, b, k, i)) = FOLD * (x * y)
      BY <2>2, <2>3, <2>4
    <2> QED BY <1>1, <1>3, <2>5 DEF x, y
  <1> QED BY <1>2, <1>3

LEMMA ProductColumn ==
  ASSUME NEW a \in Vector, NEW b \in Vector, IsIfmaOperand(a), IsIfmaOperand(b)
  PROVE  LET c == Column(MultiplyAccum(a, b))
         IN  /\ c[1] = a[1] * b[1] + FOLD * (a[2] * b[5]) + FOLD * (a[3] * b[4]) + FOLD * (a[4] * b[3]) + FOLD * (a[5] * b[2])
             /\ c[2] = a[1] * b[2] + a[2] * b[1] + FOLD * (a[3] * b[5]) + FOLD * (a[4] * b[4]) + FOLD * (a[5] * b[3])
             /\ c[3] = a[1] * b[3] + a[2] * b[2] + a[3] * b[1] + FOLD * (a[4] * b[5]) + FOLD * (a[5] * b[4])
             /\ c[4] = a[1] * b[4] + a[2] * b[3] + a[3] * b[2] + a[4] * b[1] + FOLD * (a[5] * b[5])
             /\ c[5] = a[1] * b[5] + a[2] * b[4] + a[3] * b[3] + a[4] * b[2] + a[5] * b[1]
  <1> DEFINE c == Column(MultiplyAccum(a, b))
             Term(k, i) == LowTerm(a, b, k, i) + 2 * (RADIX * HighTerm(a, b, k, i))
  <1>1. ASSUME NEW k \in Limb
        PROVE  c[k] = Term(k, 1) + Term(k, 2) + Term(k, 3) + Term(k, 4) + Term(k, 5)
    <2> DEFINE l(i) == LowTerm(a, b, k, i)
               h(i) == HighTerm(a, b, k, i)
    <2>1. c[k] = (l(1) + l(2) + l(3) + l(4) + l(5)) + 2 * (RADIX * (h(1) + h(2) + h(3) + h(4) + h(5)))
      BY ProductUnwrapped DEF Column
    <2>2. \A i \in Limb : l(i) \in Int /\ h(i) \in Int
      BY ProductTerm
    <2>3. {1, 2, 3, 4, 5} \subseteq Limb
      BY DEF Limb
    <2> HIDE DEF c, l, h
    <2>4. (l(1) + l(2) + l(3) + l(4) + l(5)) + 2 * (RADIX * (h(1) + h(2) + h(3) + h(4) + h(5)))
            = (l(1) + 2 * (RADIX * h(1))) + (l(2) + 2 * (RADIX * h(2))) + (l(3) + 2 * (RADIX * h(3)))
                + (l(4) + 2 * (RADIX * h(4))) + (l(5) + 2 * (RADIX * h(5)))
      BY <2>2, <2>3, Widths
    <2> QED BY <2>1, <2>4, Zenon DEF l, h
  <1>2. ASSUME NEW k \in Limb, NEW i \in Limb
        PROVE  Term(k, i) = IF i <= k THEN a[i] * b[k + 1 - i] ELSE FOLD * (a[i] * b[k + 6 - i])
    BY TermValue
  <1> HIDE DEF c, Term
  <1>3. {1, 2, 3, 4, 5} \subseteq Limb
    BY DEF Limb
  <1>4. /\ Term(1, 1) = a[1] * b[1] /\ Term(1, 2) = FOLD * (a[2] * b[5]) /\ Term(1, 3) = FOLD * (a[3] * b[4])
        /\ Term(1, 4) = FOLD * (a[4] * b[3]) /\ Term(1, 5) = FOLD * (a[5] * b[2])
    BY <1>2, <1>3
  <1>5. /\ Term(2, 1) = a[1] * b[2] /\ Term(2, 2) = a[2] * b[1] /\ Term(2, 3) = FOLD * (a[3] * b[5])
        /\ Term(2, 4) = FOLD * (a[4] * b[4]) /\ Term(2, 5) = FOLD * (a[5] * b[3])
    BY <1>2, <1>3
  <1>6. /\ Term(3, 1) = a[1] * b[3] /\ Term(3, 2) = a[2] * b[2] /\ Term(3, 3) = a[3] * b[1]
        /\ Term(3, 4) = FOLD * (a[4] * b[5]) /\ Term(3, 5) = FOLD * (a[5] * b[4])
    BY <1>2, <1>3
  <1>7. /\ Term(4, 1) = a[1] * b[4] /\ Term(4, 2) = a[2] * b[3] /\ Term(4, 3) = a[3] * b[2]
        /\ Term(4, 4) = a[4] * b[1] /\ Term(4, 5) = FOLD * (a[5] * b[5])
    BY <1>2, <1>3
  <1>8. /\ Term(5, 1) = a[1] * b[5] /\ Term(5, 2) = a[2] * b[4] /\ Term(5, 3) = a[3] * b[3]
        /\ Term(5, 4) = a[4] * b[2] /\ Term(5, 5) = a[5] * b[1]
    BY <1>2, <1>3
  <1>9. /\ c[1] = Term(1, 1) + Term(1, 2) + Term(1, 3) + Term(1, 4) + Term(1, 5)
        /\ c[2] = Term(2, 1) + Term(2, 2) + Term(2, 3) + Term(2, 4) + Term(2, 5)
        /\ c[3] = Term(3, 1) + Term(3, 2) + Term(3, 3) + Term(3, 4) + Term(3, 5)
        /\ c[4] = Term(4, 1) + Term(4, 2) + Term(4, 3) + Term(4, 4) + Term(4, 5)
        /\ c[5] = Term(5, 1) + Term(5, 2) + Term(5, 3) + Term(5, 4) + Term(5, 5)
    BY <1>1, <1>3
  <1> QED BY <1>4, <1>5, <1>6, <1>7, <1>8, <1>9, Zenon DEF c

\* Columns that are those of the product of the numbers have its residue: the
\* columns past the last are folded, as RADIX^5 is FOLD up to the modulus.
LEMMA ProductOfValues ==
  ASSUME NEW m \in Factors, NEW a \in [Limb -> Int], NEW b \in [Limb -> Int], NEW c \in [Limb -> Int],
         c[1] = a[1] * b[1] + FOLD * (a[2] * b[5]) + FOLD * (a[3] * b[4]) + FOLD * (a[4] * b[3]) + FOLD * (a[5] * b[2]),
         c[2] = a[1] * b[2] + a[2] * b[1] + FOLD * (a[3] * b[5]) + FOLD * (a[4] * b[4]) + FOLD * (a[5] * b[3]),
         c[3] = a[1] * b[3] + a[2] * b[2] + a[3] * b[1] + FOLD * (a[4] * b[5]) + FOLD * (a[5] * b[4]),
         c[4] = a[1] * b[4] + a[2] * b[3] + a[3] * b[2] + a[4] * b[1] + FOLD * (a[5] * b[5]),
         c[5] = a[1] * b[5] + a[2] * b[4] + a[3] * b[3] + a[4] * b[2] + a[5] * b[1]
  PROVE  Value(c) % m = (Value(a) * Value(b)) % m
  <1> DEFINE R == RADIX
             F == FOLD
             a1 == a[1]
             a2 == a[2]
             a3 == a[3]
             a4 == a[4]
             a5 == a[5]
             b1 == b[1]
             b2 == b[2]
             b3 == b[3]
             b4 == b[4]
             b5 == b[5]
             past == (a2 * b5 + a3 * b4 + a4 * b3 + a5 * b2)
                       + R * ((a3 * b5 + a4 * b4 + a5 * b3) + R * ((a4 * b5 + a5 * b4) + R * (a5 * b5)))
             folded == (a1 * b1 + F * (a2 * b5) + F * (a3 * b4) + F * (a4 * b3) + F * (a5 * b2))
                         + R * ((a1 * b2 + a2 * b1 + F * (a3 * b5) + F * (a4 * b4) + F * (a5 * b3))
                         + R * ((a1 * b3 + a2 * b2 + a3 * b1 + F * (a4 * b5) + F * (a5 * b4))
                         + R * ((a1 * b4 + a2 * b3 + a3 * b2 + a4 * b1 + F * (a5 * b5))
                         + R * (a1 * b5 + a2 * b4 + a3 * b3 + a4 * b2 + a5 * b1))))
             A == a1 + R * (a2 + R * (a3 + R * (a4 + R * a5)))
             B == b1 + R * (b2 + R * (b3 + R * (b4 + R * b5)))
             M == R * (R * (R * (R * R))) - F
  <1>1. /\ a1 \in Int /\ a2 \in Int /\ a3 \in Int /\ a4 \in Int /\ a5 \in Int
        /\ b1 \in Int /\ b2 \in Int /\ b3 \in Int /\ b4 \in Int /\ b5 \in Int /\ R \in Int /\ F \in Int
    BY Widths DEF Limb
  <1>2. Value(c) = folded /\ Value(a) = A /\ Value(b) = B /\ ModulusValue = M
    BY Zenon DEF Value, Horner, ModulusValue
  <1> HIDE DEF R, F, a1, a2, a3, a4, a5, b1, b2, b3, b4, b5
  <1>3. A * B = folded + M * past
    BY <1>1
  <1>4. past \in Int /\ A * B \in Int /\ folded \in Int /\ M \in Int
    BY <1>1
  <1> DEFINE product == A * B
  <1>5. product = folded + M * past /\ product \in Int
    BY <1>3, <1>4
  <1> HIDE DEF M, past, folded, product
  <1>6. product = folded + ModulusValue * past
    BY <1>2, <1>5, Zenon
  <1>7. product % m = folded % m
    <2>1. product \in Int /\ folded \in Int /\ past \in Int
      BY <1>4, <1>5
    <2> QED BY <1>6, <2>1, SameResidue
  <1> HIDE DEF A, B
  <1> QED BY <1>2, <1>7, Zenon DEF product

-----------------------------------------------------------------------------
LEMMA SquareUnwrapped ==
  ASSUME NEW a \in Vector, CarryLimb0(a) \in Vector, NEW k \in Limb
  PROVE  LET c == CarryLimb0(a)
         IN  /\ SquareAccum(a).lo[k] = LowOf(c, SquarePairs[k][1]) + LowOf(c, SquarePairs[k][2]) + LowOf(c, SquarePairs[k][3])
             /\ SquareAccum(a).hi[k] = HighOf(c, SquarePairs[k][1]) + HighOf(c, SquarePairs[k][2]) + HighOf(c, SquarePairs[k][3])
  <1> DEFINE c == CarryLimb0(a)
             low  == LowOf(c, SquarePairs[k][1]) + LowOf(c, SquarePairs[k][2]) + LowOf(c, SquarePairs[k][3])
             high == HighOf(c, SquarePairs[k][1]) + HighOf(c, SquarePairs[k][2]) + HighOf(c, SquarePairs[k][3])
  <1>1. SquareAccum(a).lo[k] = Wrap(low) /\ SquareAccum(a).hi[k] = Wrap(high)
    BY DEF SquareAccum
  <1>2. low \in Nat /\ low < COLUMN * RADIX /\ high \in Nat /\ high < COLUMN * RADIX
    BY PairSums
  <1> HIDE DEF low, high
  <1>3. SquareAccum(a).lo[k] = low /\ SquareAccum(a).hi[k] = high
    BY <1>1, <1>2, ColumnWrap
  <1> QED BY <1>3 DEF low, high

\* Both halves of a pair
LEMMA PairValue ==
  ASSUME NEW c \in Vector, IsIfmaOperand(c), NEW i \in Limb, NEW j \in Limb
  PROVE  LET weight == PairWeight(<<i, j>>)
         IN  /\ weight \in Nat /\ LowOf(c, <<i, j>>) \in Int /\ HighOf(c, <<i, j>>) \in Int
             /\ LowOf(c, <<i, j>>) + 2 * (RADIX * HighOf(c, <<i, j>>)) = weight * (c[i] * c[j])
  <1> DEFINE weight == PairWeight(<<i, j>>)
             x == c[i]
             y == c[j]
  <1>1. weight \in Nat
    BY Widths DEF PairWeight
  <1>2. x \in Nat /\ y \in Nat /\ x < IFMA /\ y < IFMA
    BY DEF Vector, IsIfmaOperand
  <1>3. LowOf(c, <<i, j>>) = weight * Low(x, y) /\ HighOf(c, <<i, j>>) = weight * High(x, y)
    BY DEF LowOf, HighOf
  <1> HIDE DEF weight, x, y
  <1>4. Low(x, y) \in Int /\ High(x, y) \in Int /\ Low(x, y) + 2 * (RADIX * High(x, y)) = x * y
    BY <1>2, Halves
  <1>5. ASSUME NEW l \in Int, NEW h \in Int PROVE weight * l + 2 * (RADIX * (weight * h)) = weight * (l + 2 * (RADIX * h))
    BY <1>1, Widths
  <1>6. LowOf(c, <<i, j>>) + 2 * (RADIX * HighOf(c, <<i, j>>)) = weight * (x * y)
    BY <1>3, <1>4, <1>5
  <1>7. LowOf(c, <<i, j>>) \in Int /\ HighOf(c, <<i, j>>) \in Int
    BY <1>1, <1>3, <1>4
  <1> QED BY <1>1, <1>6, <1>7 DEF weight, x, y

LEMMA SquareColumn ==
  ASSUME NEW a \in Vector, CarryLimb0(a) \in Vector, IsIfmaOperand(CarryLimb0(a))
  PROVE  LET c == CarryLimb0(a)
             s == Column(SquareAccum(a))
         IN  /\ s[1] = c[1] * c[1] + FOLD * (c[2] * c[5]) + FOLD * (c[3] * c[4]) + FOLD * (c[4] * c[3]) + FOLD * (c[5] * c[2])
             /\ s[2] = c[1] * c[2] + c[2] * c[1] + FOLD * (c[3] * c[5]) + FOLD * (c[4] * c[4]) + FOLD * (c[5] * c[3])
             /\ s[3] = c[1] * c[3] + c[2] * c[2] + c[3] * c[1] + FOLD * (c[4] * c[5]) + FOLD * (c[5] * c[4])
             /\ s[4] = c[1] * c[4] + c[2] * c[3] + c[3] * c[2] + c[4] * c[1] + FOLD * (c[5] * c[5])
             /\ s[5] = c[1] * c[5] + c[2] * c[4] + c[3] * c[3] + c[4] * c[2] + c[5] * c[1]
  <1> DEFINE c == CarryLimb0(a)
             s == Column(SquareAccum(a))
             Pair(i, j) == LowOf(c, <<i, j>>) + 2 * (RADIX * HighOf(c, <<i, j>>))
  <1>1. c \in Vector /\ IsIfmaOperand(c)
    OBVIOUS
  <1>2. ASSUME NEW k \in Limb
        PROVE  s[k] = (LowOf(c, SquarePairs[k][1]) + LowOf(c, SquarePairs[k][2]) + LowOf(c, SquarePairs[k][3]))
                        + 2 * (RADIX * (HighOf(c, SquarePairs[k][1]) + HighOf(c, SquarePairs[k][2])
                                          + HighOf(c, SquarePairs[k][3])))
    BY SquareUnwrapped DEF Column
  <1> HIDE DEF c, s
  <1>3. ASSUME NEW i \in Limb, NEW j \in Limb, NEW k \in Limb, NEW l \in Limb, NEW o \in Limb, NEW p \in Limb,
               NEW n \in Limb, SquarePairs[n] = << <<i, j>>, <<k, l>>, <<o, p>> >>
        PROVE  s[n] = PairWeight(<<i, j>>) * (c[i] * c[j]) + PairWeight(<<k, l>>) * (c[k] * c[l])
                        + PairWeight(<<o, p>>) * (c[o] * c[p])
    <2> DEFINE l1 == LowOf(c, <<i, j>>)
               l2 == LowOf(c, <<k, l>>)
               l3 == LowOf(c, <<o, p>>)
               h1 == HighOf(c, <<i, j>>)
               h2 == HighOf(c, <<k, l>>)
               h3 == HighOf(c, <<o, p>>)
    <2>1. s[n] = (l1 + l2 + l3) + 2 * (RADIX * (h1 + h2 + h3))
      BY <1>2, <1>3
    <2>2. l1 \in Int /\ h1 \in Int /\ l1 + 2 * (RADIX * h1) = PairWeight(<<i, j>>) * (c[i] * c[j])
      BY <1>1, PairValue, Zenon
    <2>3. l2 \in Int /\ h2 \in Int /\ l2 + 2 * (RADIX * h2) = PairWeight(<<k, l>>) * (c[k] * c[l])
      BY <1>1, PairValue, Zenon
    <2>4. l3 \in Int /\ h3 \in Int /\ l3 + 2 * (RADIX * h3) = PairWeight(<<o, p>>) * (c[o] * c[p])
      BY <1>1, PairValue, Zenon
    <2> HIDE DEF l1, l2, l3, h1, h2, h3
    <2>5. (l1 + l2 + l3) + 2 * (RADIX * (h1 + h2 + h3))
            = (l1 + 2 * (RADIX * h1)) + (l2 + 2 * (RADIX * h2)) + (l3 + 2 * (RADIX * h3))
      <3>1. l1 \in Int /\ h1 \in Int /\ l2 \in Int /\ h2 \in Int /\ l3 \in Int /\ h3 \in Int
        BY <2>2, <2>3, <2>4
      <3> QED BY <3>1, Widths
    <2> QED BY <2>1, <2>2, <2>3, <2>4, <2>5, Zenon
  <1>4. ASSUME NEW i \in Limb, NEW j \in Limb
        PROVE  /\ i = j => PairWeight(<<i, j>>) * (c[i] * c[j])
                             = IF i + j > 6 THEN FOLD * (c[i] * c[j]) ELSE c[i] * c[j]
               /\ i # j => PairWeight(<<i, j>>) * (c[i] * c[j])
                             = IF i + j > 6 THEN FOLD * (c[i] * c[j]) + FOLD * (c[j] * c[i])
                                            ELSE c[i] * c[j] + c[j] * c[i]
    <2> DEFINE x == c[i]
               y == c[j]
    <2>1. x \in Int /\ y \in Int
      BY <1>1 DEF Vector
    <2>2. PairWeight(<<i, j>>) = (IF i = j THEN 1 ELSE 2) * (IF i + j > 6 THEN FOLD ELSE 1)
      BY DEF PairWeight
    <2> HIDE DEF x, y
    <2>3. /\ (1 * 1) * (x * y) = x * y /\ (2 * 1) * (x * y) = x * y + y * x
          /\ (1 * FOLD) * (x * y) = FOLD * (x * y) /\ (2 * FOLD) * (x * y) = FOLD * (x * y) + FOLD * (y * x)
      BY <2>1, Widths
    <2>4. CASE i = j
      <3>1. PairWeight(<<i, j>>) * (x * y) = IF i + j > 6 THEN FOLD * (x * y) ELSE x * y
        BY <2>2, <2>3, <2>4, Zenon
      <3> QED BY <2>4, <3>1, Zenon DEF x, y
    <2>5. CASE i # j
      <3>1. PairWeight(<<i, j>>) * (x * y) = IF i + j > 6 THEN FOLD * (x * y) + FOLD * (y * x) ELSE x * y + y * x
        BY <2>2, <2>3, <2>5, Zenon
      <3> QED BY <2>5, <3>1, Zenon DEF x, y
    <2> QED BY <2>4, <2>5, Zenon
  <1>5. 1 \in Limb /\ 2 \in Limb /\ 3 \in Limb /\ 4 \in Limb /\ 5 \in Limb
    BY DEF Limb
  <1> DEFINE P(i, j) == c[i] * c[j]
  <1>6. \A i, j \in Limb : P(i, j) \in Int /\ FOLD * P(i, j) \in Int
    BY <1>1, Widths DEF Vector
  <1>7. s[1] = P(1, 1) + (FOLD * P(2, 5) + FOLD * P(5, 2)) + (FOLD * P(3, 4) + FOLD * P(4, 3))
    <2>1. SquarePairs[1] = << <<1, 1>>, <<2, 5>>, <<3, 4>> >>
      BY DEF SquarePairs
    <2>2. s[1] = PairWeight(<<1, 1>>) * P(1, 1) + PairWeight(<<2, 5>>) * P(2, 5) + PairWeight(<<3, 4>>) * P(3, 4)
      BY <1>3, <1>5, <2>1
    <2> QED BY <1>4, <1>5, <2>2
  <1>8. s[2] = (P(1, 2) + P(2, 1)) + (FOLD * P(3, 5) + FOLD * P(5, 3)) + FOLD * P(4, 4)
    <2>1. SquarePairs[2] = << <<1, 2>>, <<3, 5>>, <<4, 4>> >>
      BY DEF SquarePairs
    <2>2. s[2] = PairWeight(<<1, 2>>) * P(1, 2) + PairWeight(<<3, 5>>) * P(3, 5) + PairWeight(<<4, 4>>) * P(4, 4)
      BY <1>3, <1>5, <2>1
    <2> QED BY <1>4, <1>5, <2>2
  <1>9. s[3] = (P(1, 3) + P(3, 1)) + P(2, 2) + (FOLD * P(4, 5) + FOLD * P(5, 4))
    <2>1. SquarePairs[3] = << <<1, 3>>, <<2, 2>>, <<4, 5>> >>
      BY DEF SquarePairs
    <2>2. s[3] = PairWeight(<<1, 3>>) * P(1, 3) + PairWeight(<<2, 2>>) * P(2, 2) + PairWeight(<<4, 5>>) * P(4, 5)
      BY <1>3, <1>5, <2>1
    <2> QED BY <1>4, <1>5, <2>2
  <1>10. s[4] = (P(1, 4) + P(4, 1)) + (P(2, 3) + P(3, 2)) + FOLD * P(5, 5)
    <2>1. SquarePairs[4] = << <<1, 4>>, <<2, 3>>, <<5, 5>> >>
      BY DEF SquarePairs
    <2>2. s[4] = PairWeight(<<1, 4>>) * P(1, 4) + PairWeight(<<2, 3>>) * P(2, 3) + PairWeight(<<5, 5>>) * P(5, 5)
      BY <1>3, <1>5, <2>1
    <2> QED BY <1>4, <1>5, <2>2
  <1>11. s[5] = (P(1, 5) + P(5, 1)) + (P(2, 4) + P(4, 2)) + P(3, 3)
    <2>1. SquarePairs[5] = << <<1, 5>>, <<2, 4>>, <<3, 3>> >>
      BY DEF SquarePairs
    <2>2. s[5] = PairWeight(<<1, 5>>) * P(1, 5) + PairWeight(<<2, 4>>) * P(2, 4) + PairWeight(<<3, 3>>) * P(3, 3)
      BY <1>3, <1>5, <2>1
    <2> QED BY <1>4, <1>5, <2>2
  <1> HIDE DEF P
  <1>12. /\ s[1] = P(1, 1) + FOLD * P(2, 5) + FOLD * P(3, 4) + FOLD * P(4, 3) + FOLD * P(5, 2)
         /\ s[2] = P(1, 2) + P(2, 1) + FOLD * P(3, 5) + FOLD * P(4, 4) + FOLD * P(5, 3)
         /\ s[3] = P(1, 3) + P(2, 2) + P(3, 1) + FOLD * P(4, 5) + FOLD * P(5, 4)
         /\ s[4] = P(1, 4) + P(2, 3) + P(3, 2) + P(4, 1) + FOLD * P(5, 5)
         /\ s[5] = P(1, 5) + P(2, 4) + P(3, 3) + P(4, 2) + P(5, 1)
    BY <1>5, <1>6, <1>7, <1>8, <1>9, <1>10, <1>11
  <1> QED BY <1>12, Zenon DEF P, c, s

\* What is squared, or multiplied after a carry of its limb 0
LEMMA CarriedValue ==
  ASSUME NEW a \in Operands \cup Loosened
  PROVE  /\ a \in Vector /\ CarryLimb0(a) \in Vector /\ IsIfmaOperand(CarryLimb0(a))
         /\ Value(CarryLimb0(a)) = Value(a)
  <1>1. a \in Vector /\ a[1] \in Nat /\ a[2] \in Nat
    BY Subsets DEF Vector, Limb
  <1>2. IsIfmaOperand(CarryLimb0(a))
    BY OperandsAreRead, LooseCarried
  <1>3. a[1] < HEADROOM * RADIX /\ a[2] < 2 * RADIX
    <2>1. CASE a \in Operands
      <3>1. a[1] < 2 * RADIX /\ 31 * RADIX <= HEADROOM * RADIX /\ a[2] < RADIX + HEADROOM
        BY <2>1, Widths DEF Operands, REGISTER
      <3> QED BY <1>1, <3>1, Widths
    <2>2. CASE a \in Loosened
      <3>1. a[1] < LOOSENESS * RADIX /\ a[2] < RADIX /\ LOOSENESS * RADIX \in Nat /\ LOOSENESS * RADIX <= HEADROOM * RADIX
        BY <2>2, LooseFacts, LooseNumbers, Widths DEF REGISTER
      <3> QED BY <1>1, <3>1, Widths
    <2> QED BY <2>1, <2>2
  <1>4. a[1] \div RADIX < HEADROOM /\ a[1] \div RADIX \in Nat
    BY <1>1, <1>3, Widths, DivLess, OfRadix
  <1>5. a[2] + a[1] \div RADIX < REGISTER
    BY <1>1, <1>3, <1>4, Widths
  <1> QED BY <1>1, <1>2, <1>5, CarryLimb0Value

-----------------------------------------------------------------------------
\* The operations on residues: what Edwards calls Product, Square, Sum and
\* Difference of residues modulo m
LEMMA ProductResidue ==
  ASSUME NEW m \in Factors, NEW a \in Operands, NEW b \in Operands
  PROVE  /\ Residue(MultiplyLoose(a, b), m) = Mod(m)!Product(Residue(a, m), Residue(b, m))
         /\ Residue(Multiply(a, b), m) = Mod(m)!Product(Residue(a, m), Residue(b, m))
  <1> DEFINE loose == MultiplyLoose(a, b)
             c == Column(MultiplyAccum(a, b))
  <1>1. a \in Vector /\ b \in Vector /\ a \in [Limb -> Int] /\ b \in [Limb -> Int] /\ m \in Nat \ {0}
        /\ IsIfmaOperand(a) /\ IsIfmaOperand(b)
    BY Subsets, OperandsAreRead, FactorsAre DEF Vector
  <1>2. MultiplyAccum(a, b) \in BoundedColumns /\ loose \in Loosened
    BY <1>1, ProductColumns, ProductClasses
  <1>3. c \in [Limb -> Int] /\ Residue(loose, m) = Value(c) % m
    BY <1>2, ReduceIfmaResidue DEF MultiplyLoose
  <1>4. Value(c) % m = (Value(a) * Value(b)) % m
    <2>1. /\ c[1] = a[1] * b[1] + FOLD * (a[2] * b[5]) + FOLD * (a[3] * b[4]) + FOLD * (a[4] * b[3]) + FOLD * (a[5] * b[2])
          /\ c[2] = a[1] * b[2] + a[2] * b[1] + FOLD * (a[3] * b[5]) + FOLD * (a[4] * b[4]) + FOLD * (a[5] * b[3])
          /\ c[3] = a[1] * b[3] + a[2] * b[2] + a[3] * b[1] + FOLD * (a[4] * b[5]) + FOLD * (a[5] * b[4])
          /\ c[4] = a[1] * b[4] + a[2] * b[3] + a[3] * b[2] + a[4] * b[1] + FOLD * (a[5] * b[5])
          /\ c[5] = a[1] * b[5] + a[2] * b[4] + a[3] * b[3] + a[4] * b[2] + a[5] * b[1]
      BY <1>1, ProductColumn, Zenon
    <2> HIDE DEF c
    <2> QED BY <1>1, <1>3, <2>1, ProductOfValues, Zenon
  <1>5. Value(a) \in Int /\ Value(b) \in Int /\ Residue(a, m) = Value(a) % m /\ Residue(b, m) = Value(b) % m
    BY <1>1, ValueIsInt, ResidueIsOfValue
  <1>6. Mod(m)!Product(Residue(a, m), Residue(b, m)) = (Value(a) * Value(b)) % m
    BY <1>1, <1>5, ModProduct DEF Mod!Product
  <1>7. Multiply(a, b) = CarryLimb0(loose)
    BY DEF Multiply, MultiplyLoose, ReduceIfma
  <1>8. Residue(Multiply(a, b), m) = Residue(loose, m)
    <2>1. /\ loose \in [Limb -> Int] /\ CarryLimb0(loose) \in [Limb -> Int]
          /\ Value(CarryLimb0(loose)) = Value(loose)
      BY <1>2, CarriedValue DEF Vector
    <2> QED BY <1>1, <1>7, <2>1, ResidueIsOfValue
  <1> QED BY <1>3, <1>4, <1>6, <1>8

LEMMA SquareResidue ==
  ASSUME NEW m \in Factors, NEW a \in Operands \cup Loosened
  PROVE  /\ Residue(SquareLoose(a), m) = Mod(m)!Square(Residue(a, m))
         /\ Residue(Square(a), m) = Mod(m)!Square(Residue(a, m))
  <1> DEFINE loose == SquareLoose(a)
             b == CarryLimb0(a)
             c == Column(SquareAccum(a))
  <1>1. a \in Vector /\ b \in Vector /\ IsIfmaOperand(b) /\ Value(b) = Value(a)
    BY CarriedValue
  <1>2. SquareAccum(a) \in BoundedColumns /\ loose \in Loosened
    BY <1>1, SquareColumns, SquareClasses
  <1>3. c \in [Limb -> Int] /\ Residue(loose, m) = Value(c) % m
    BY <1>2, ReduceIfmaResidue DEF SquareLoose
  <1>4. Value(c) % m = (Value(b) * Value(b)) % m
    <2>1. /\ c[1] = b[1] * b[1] + FOLD * (b[2] * b[5]) + FOLD * (b[3] * b[4]) + FOLD * (b[4] * b[3]) + FOLD * (b[5] * b[2])
          /\ c[2] = b[1] * b[2] + b[2] * b[1] + FOLD * (b[3] * b[5]) + FOLD * (b[4] * b[4]) + FOLD * (b[5] * b[3])
          /\ c[3] = b[1] * b[3] + b[2] * b[2] + b[3] * b[1] + FOLD * (b[4] * b[5]) + FOLD * (b[5] * b[4])
          /\ c[4] = b[1] * b[4] + b[2] * b[3] + b[3] * b[2] + b[4] * b[1] + FOLD * (b[5] * b[5])
          /\ c[5] = b[1] * b[5] + b[2] * b[4] + b[3] * b[3] + b[4] * b[2] + b[5] * b[1]
      BY <1>1, SquareColumn, Zenon
    <2>2. b \in [Limb -> Int]
      BY <1>1 DEF Vector
    <2> HIDE DEF b, c
    <2> QED BY <1>3, <2>1, <2>2, ProductOfValues, Zenon
  <1>5. m \in Nat \ {0} /\ Value(a) \in Int /\ Residue(a, m) = Value(a) % m
    BY <1>1, FactorsAre, ValueIsInt, ResidueIsOfValue DEF Vector
  <1>6. Mod(m)!Square(Residue(a, m)) = (Value(a) * Value(a)) % m
    BY <1>5, ModProduct DEF Mod!Square, Mod!Product
  <1>7. Square(a) = CarryLimb0(loose)
    BY DEF Square, SquareLoose, ReduceIfma
  <1>8. Residue(Square(a), m) = Residue(loose, m)
    <2>1. /\ loose \in [Limb -> Int] /\ CarryLimb0(loose) \in [Limb -> Int]
          /\ Value(CarryLimb0(loose)) = Value(loose)
      BY <1>2, CarriedValue DEF Vector
    <2> QED BY <1>5, <1>7, <2>1, ResidueIsOfValue
  <1> QED BY <1>1, <1>3, <1>4, <1>6, <1>8

-----------------------------------------------------------------------------
LEMMA ResidueInRange ==
  ASSUME NEW m \in Factors, NEW a \in [Limb -> Int]
  PROVE  Residue(a, m) \in 0..(m - 1) /\ Residue(a, m) \in Int
  <1>1. m \in Nat \ {0} /\ Value(a) \in Int /\ Residue(a, m) = Value(a) % m
    BY FactorsAre, ValueIsInt, ResidueIsOfValue
  <1>2. Value(a) % m \in 0..(m - 1)
    BY <1>1, Divided
  <1> QED BY <1>1, <1>2

LEMMA OperandsAreLimbs == Operands \subseteq [Limb -> Int] /\ Loosened \subseteq [Limb -> Int] /\ Vector \subseteq [Limb -> Int]
  BY Subsets DEF Vector

LEMMA PlusResidue ==
  ASSUME NEW m \in Factors, NEW a \in [Limb -> Int], NEW b \in [Limb -> Int]
  PROVE  /\ Plus(a, b) \in [Limb -> Int]
         /\ Residue(Plus(a, b), m) = Mod(m)!Sum(Residue(a, m), Residue(b, m))
  <1> DEFINE c == Plus(a, b)
  <1>1. c \in [Limb -> Int] /\ \A i \in Limb : c[i] = a[i] + b[i]
    BY DEF Plus
  <1> HIDE DEF c
  <1>2. /\ a[1] \in Int /\ a[2] \in Int /\ a[3] \in Int /\ a[4] \in Int /\ a[5] \in Int
        /\ b[1] \in Int /\ b[2] \in Int /\ b[3] \in Int /\ b[4] \in Int /\ b[5] \in Int
        /\ c[1] = a[1] + b[1] /\ c[2] = a[2] + b[2] /\ c[3] = a[3] + b[3] /\ c[4] = a[4] + b[4] /\ c[5] = a[5] + b[5]
    BY <1>1 DEF Limb
  <1>3. Value(c) = Value(a) + Value(b)
    <2> DEFINE R == RADIX
               a1 == a[1]
               a2 == a[2]
               a3 == a[3]
               a4 == a[4]
               a5 == a[5]
               b1 == b[1]
               b2 == b[2]
               b3 == b[3]
               b4 == b[4]
               b5 == b[5]
    <2>1. /\ Value(a) = a1 + R * (a2 + R * (a3 + R * (a4 + R * a5)))
          /\ Value(b) = b1 + R * (b2 + R * (b3 + R * (b4 + R * b5)))
          /\ Value(c) = (a1 + b1) + R * ((a2 + b2) + R * ((a3 + b3) + R * ((a4 + b4) + R * (a5 + b5))))
      BY <1>2, Zenon DEF Value, Horner
    <2>2. /\ a1 \in Int /\ a2 \in Int /\ a3 \in Int /\ a4 \in Int /\ a5 \in Int
          /\ b1 \in Int /\ b2 \in Int /\ b3 \in Int /\ b4 \in Int /\ b5 \in Int /\ R \in Int
      BY <1>2, Widths
    <2> HIDE DEF R, a1, a2, a3, a4, a5, b1, b2, b3, b4, b5
    <2>3. (a1 + b1) + R * ((a2 + b2) + R * ((a3 + b3) + R * ((a4 + b4) + R * (a5 + b5))))
                   = (a1 + R * (a2 + R * (a3 + R * (a4 + R * a5)))) + (b1 + R * (b2 + R * (b3 + R * (b4 + R * b5))))
      BY <2>2
    <2> QED BY <2>1, <2>3, Zenon
  <1>4. m \in Nat \ {0} /\ Value(a) \in Int /\ Value(b) \in Int /\ Residue(a, m) = Value(a) % m /\ Residue(b, m) = Value(b) % m
        /\ Residue(c, m) = Value(c) % m
    BY <1>1, FactorsAre, ValueIsInt, ResidueIsOfValue
  <1>5. Residue(c, m) = Mod(m)!Sum(Residue(a, m), Residue(b, m))
    BY <1>3, <1>4, ModSum DEF Mod!Sum
  <1> QED BY <1>1, <1>5 DEF c

LEMMA MinusResidue ==
  ASSUME NEW m \in Factors, NEW bias \in Nat, NEW a \in [Limb -> Int], NEW b \in [Limb -> Int]
  PROVE  /\ Minus(bias, a, b) \in [Limb -> Int]
         /\ Residue(Minus(bias, a, b), m) = Mod(m)!Difference(Residue(a, m), Residue(b, m))
  <1> DEFINE c == Minus(bias, a, b)
  <1>1. c \in [Limb -> Int] /\ \A i \in Limb : c[i] = a[i] + bias * (IF i = 1 THEN RADIX - FOLD ELSE RADIX - 1) - b[i]
    BY Widths DEF Minus
  <1> HIDE DEF c
  <1>2. /\ a[1] \in Int /\ a[2] \in Int /\ a[3] \in Int /\ a[4] \in Int /\ a[5] \in Int
        /\ b[1] \in Int /\ b[2] \in Int /\ b[3] \in Int /\ b[4] \in Int /\ b[5] \in Int
        /\ c[1] = a[1] + bias * (RADIX - FOLD) - b[1] /\ c[2] = a[2] + bias * (RADIX - 1) - b[2]
        /\ c[3] = a[3] + bias * (RADIX - 1) - b[3] /\ c[4] = a[4] + bias * (RADIX - 1) - b[4]
        /\ c[5] = a[5] + bias * (RADIX - 1) - b[5]
    BY <1>1 DEF Limb
  <1>3. Value(c) = (Value(a) - Value(b)) + ModulusValue * bias
    <2> DEFINE R == RADIX
               F == FOLD
               a1 == a[1]
               a2 == a[2]
               a3 == a[3]
               a4 == a[4]
               a5 == a[5]
               b1 == b[1]
               b2 == b[2]
               b3 == b[3]
               b4 == b[4]
               b5 == b[5]
    <2>1. /\ Value(a) = a1 + R * (a2 + R * (a3 + R * (a4 + R * a5)))
          /\ Value(b) = b1 + R * (b2 + R * (b3 + R * (b4 + R * b5)))
          /\ Value(c) = (a1 + bias * (R - F) - b1) + R * ((a2 + bias * (R - 1) - b2) + R * ((a3 + bias * (R - 1) - b3)
                          + R * ((a4 + bias * (R - 1) - b4) + R * (a5 + bias * (R - 1) - b5))))
          /\ ModulusValue = R * (R * (R * (R * R))) - F
      BY <1>2, Zenon DEF Value, Horner, ModulusValue
    <2>2. /\ a1 \in Int /\ a2 \in Int /\ a3 \in Int /\ a4 \in Int /\ a5 \in Int
          /\ b1 \in Int /\ b2 \in Int /\ b3 \in Int /\ b4 \in Int /\ b5 \in Int
          /\ R \in Int /\ F \in Int /\ bias \in Int
      BY <1>2, Widths
    <2> HIDE DEF R, F, a1, a2, a3, a4, a5, b1, b2, b3, b4, b5
    <2>3. (a1 + bias * (R - F) - b1) + R * ((a2 + bias * (R - 1) - b2) + R * ((a3 + bias * (R - 1) - b3)
            + R * ((a4 + bias * (R - 1) - b4) + R * (a5 + bias * (R - 1) - b5))))
            = ((a1 + R * (a2 + R * (a3 + R * (a4 + R * a5)))) - (b1 + R * (b2 + R * (b3 + R * (b4 + R * b5)))))
                + (R * (R * (R * (R * R))) - F) * bias
      BY <2>2
    <2> QED BY <2>1, <2>3, Zenon
  <1> DEFINE difference == Value(a) - Value(b)
  <1>4. m \in Nat \ {0} /\ Value(a) \in Int /\ Value(b) \in Int /\ Residue(a, m) = Value(a) % m /\ Residue(b, m) = Value(b) % m
        /\ Residue(c, m) = Value(c) % m /\ Value(c) \in Int
    BY <1>1, FactorsAre, ValueIsInt, ResidueIsOfValue
  <1>5. Value(c) % m = difference % m
    <2>1. difference \in Int /\ bias \in Int
      BY <1>4
    <2> HIDE DEF difference
    <2> QED BY <1>3, <1>4, <2>1, SameResidue DEF difference
  <1>6. Residue(c, m) = Mod(m)!Difference(Residue(a, m), Residue(b, m))
    BY <1>4, <1>5, ModDifference DEF Mod!Difference
  <1> QED BY <1>1, <1>6 DEF c

\* The sums and differences of operands that are about to be multiplied
LEMMA AddResidue ==
  ASSUME NEW m \in Factors, NEW a \in Operands, NEW b \in Operands
  PROVE  Residue(AddLoose(a, b), m) = Mod(m)!Sum(Residue(a, m), Residue(b, m))
  <1>1. a \in [Limb -> Int] /\ b \in [Limb -> Int] /\ InRegisters(Plus(a, b))
    BY OperandsAreLimbs, SmallBiasEnough
  <1>2. Plus(a, b) \in [Limb -> Int] /\ Residue(Plus(a, b), m) = Mod(m)!Sum(Residue(a, m), Residue(b, m))
    BY <1>1, PlusResidue
  <1> QED BY <1>1, <1>2, ReducedResidue, ResidueIsOfValue, FactorsAre DEF AddLoose

LEMMA SubtractResidue ==
  ASSUME NEW m \in Factors, NEW a \in Operands, NEW b \in Operands
  PROVE  Residue(Subtract(a, b), m) = Mod(m)!Difference(Residue(a, m), Residue(b, m))
  <1>1. a \in [Limb -> Int] /\ b \in [Limb -> Int] /\ InRegisters(Minus(4, a, b))
    BY OperandsAreLimbs, SmallBiasEnough
  <1>2. Minus(4, a, b) \in [Limb -> Int] /\ Residue(Minus(4, a, b), m) = Mod(m)!Difference(Residue(a, m), Residue(b, m))
    BY <1>1, MinusResidue
  <1> QED BY <1>1, <1>2, ReducedResidue, ResidueIsOfValue, FactorsAre DEF Subtract

LEMMA ConstantResidues ==
  ASSUME NEW m \in Factors
  PROVE  /\ Residue(One, m) = 1 /\ Residue(Zero, m) = 0
         /\ TWO_D \in Operands /\ Residue(TWO_D, m) = Mod(m)!TwoD
  <1>1. m \in Nat \ {0} /\ m > 1
    BY FactorsAre
  <1>2. One \in [Limb -> Int] /\ Zero \in [Limb -> Int]
    BY DEF One, Zero, Limb
  <1>3. Value(One) = 1 /\ Value(Zero) = 0
    BY Widths DEF Value, Horner, One, Zero
  <1>4. Residue(One, m) = 1 /\ Residue(Zero, m) = 0
    BY <1>1, <1>2, <1>3, ResidueIsOfValue
  <1>5. TWO_D \in Operands
    BY LaneAssumption, Widths DEF Operands, Vector, Limb
  <1>6. Residue(D, m) \in Int
    BY LaneAssumption, ResidueInRange, OperandsAreLimbs
  <1>7. Residue(TWO_D, m) = (2 * Residue(D, m)) % m
    BY ExactAssumption
  <1>8. Residue(TWO_D, m) = Mod(m)!TwoD
    BY <1>6, <1>7 DEF Mod!TwoD, Mod!Sum
  <1> QED BY <1>4, <1>5, <1>8

-----------------------------------------------------------------------------
(***************************************************************************)
(* The identities of residues by which a formula may be written two ways   *)
(***************************************************************************)
LEMMA Doubled ==
  ASSUME NEW m \in Factors, NEW x \in Int
  PROVE  Mod(m)!Product(2, x) = Mod(m)!Sum(x, x)
  BY DEF Mod!Product, Mod!Sum

LEMMA NegatedTerms ==
  ASSUME NEW m \in Factors, NEW x \in Int, NEW y \in Int
  PROVE  /\ Mod(m)!Difference(x, Mod(m)!Negated(y)) = Mod(m)!Sum(x, y)
         /\ Mod(m)!Sum(x, Mod(m)!Negated(y)) = Mod(m)!Difference(x, y)
  <1>1. m \in Nat \ {0}
    BY FactorsAre
  <1> DEFINE n == -y
             r == n % m
             q == n \div m
  <1>2. n \in Int /\ q \in Int /\ r \in Int /\ n = m * q + r
    BY <1>1, Divided
  <1>3. Mod(m)!Negated(y) = r
    BY <1>1 DEF Mod!Negated, Mod!Difference
  <1>4. -y = n
    OBVIOUS
  <1> HIDE DEF n, r, q
  <1> DEFINE down == x - y
             up == x + y
             less == x - r
             more == x + r
             k == -q
  <1>5. up = less + m * k /\ down = more + m * q
    BY <1>1, <1>2, <1>4
  <1>6. up \in Int /\ down \in Int /\ less \in Int /\ more \in Int /\ k \in Int
    BY <1>2
  <1> HIDE DEF down, up, less, more, k
  <1>7. up % m = less % m /\ down % m = more % m
    <2>1. up % m = less % m
      BY <1>1, <1>2, <1>5, <1>6, DifferByMultiple
    <2>2. down % m = more % m
      BY <1>1, <1>2, <1>5, <1>6, DifferByMultiple
    <2> QED BY <2>1, <2>2
  <1> QED BY <1>3, <1>7 DEF Mod!Difference, Mod!Sum, down, up, less, more

LEMMA NegatedProduct ==
  ASSUME NEW m \in Factors, NEW x \in Int, NEW y \in Int, NEW z \in Int
  PROVE  Mod(m)!Product(Mod(m)!Product(x, Mod(m)!Negated(y)), z)
           = Mod(m)!Negated(Mod(m)!Product(Mod(m)!Product(x, y), z))
  <1>1. m \in Nat \ {0}
    BY FactorsAre
  <1> DEFINE n == -y
             r == n % m
             xr == x * r
             xn == x * n
             xy == x * y
             xyz == xy * z
  <1>2. n \in Int /\ r \in Int /\ xn \in Int /\ xy \in Int
    BY <1>1, ModIdempotent
  <1>3. Mod(m)!Negated(y) = r
    BY <1>1 DEF Mod!Negated, Mod!Difference
  <1>4. Mod(m)!Product(Mod(m)!Product(x, r), z) = ((xr % m) * z) % m
    BY DEF Mod!Product
  <1>5. xr % m = xn % m
    <2>1. (r * x) % m = (n * x) % m
      BY <1>1, <1>2, ModProduct
    <2>2. r * x = xr /\ n * x = xn
      BY <1>2
    <2> QED BY <2>1, <2>2
  <1>6. ((xn % m) * z) % m = (xn * z) % m
    <2> HIDE DEF xn
    <2> QED BY <1>1, <1>2, ModProduct
  <1>7. xn * z = -xyz /\ xyz \in Int /\ 0 - xyz = -xyz
    BY <1>2
  <1>8. ((xy % m) * z) % m = xyz % m
    <2> HIDE DEF xy
    <2> QED BY <1>1, <1>2, ModProduct
  <1>9. Mod(m)!Negated(Mod(m)!Product(Mod(m)!Product(x, y), z)) = (0 - (xyz % m)) % m
    <2>1. Mod(m)!Product(Mod(m)!Product(x, y), z) = xyz % m
      BY <1>8 DEF Mod!Product
    <2> HIDE DEF xyz
    <2> QED BY <2>1 DEF Mod!Negated, Mod!Difference
  <1>10. (0 - (xyz % m)) % m = (0 - xyz) % m
    <2> HIDE DEF xyz
    <2>0. 0 \in Int
      OBVIOUS
    <2>1. ((0 % m) - (xyz % m)) % m = (0 - xyz) % m
      BY <1>1, <1>7, <2>0, ModDifference, Zenon
    <2>2. 0 % m = 0
      BY <1>1
    <2> QED BY <2>1, <2>2
  <1> HIDE DEF xyz, xy, xn, xr, r, n
  <1> QED BY <1>3, <1>4, <1>5, <1>6, <1>7, <1>9, <1>10

LEMMA DifferenceOfSum ==
  ASSUME NEW m \in Factors, NEW x \in Int, NEW y \in Int, NEW z \in Int
  PROVE  Mod(m)!Difference(x, Mod(m)!Sum(y, z)) = Mod(m)!Difference(Mod(m)!Difference(x, y), z)
  <1>1. m \in Nat \ {0}
    BY FactorsAre
  <1> DEFINE s == y + z
             d == x - y
             rs == s % m
             qs == s \div m
             rd == d % m
             qd == d \div m
  <1>2. /\ s \in Int /\ rs \in Int /\ qs \in Int /\ s = m * qs + rs
        /\ d \in Int /\ rd \in Int /\ qd \in Int /\ d = m * qd + rd
    BY <1>1, Divided
  <1>3. Mod(m)!Difference(x, Mod(m)!Sum(y, z)) = (x - rs) % m /\ Mod(m)!Difference(Mod(m)!Difference(x, y), z) = (rd - z) % m
    BY DEF Mod!Difference, Mod!Sum
  <1> HIDE DEF rs, qs, rd, qd
  <1> DEFINE left == x - rs
             right == rd - z
  <1>4. left = right + m * (qs + qd) /\ left \in Int /\ right \in Int /\ qs + qd \in Int
    <2>1. x - y = m * qd + rd /\ y + z = m * qs + rs
      BY <1>2
    <2> HIDE DEF s, d
    <2> QED BY <2>1, <1>1, <1>2
  <1> HIDE DEF left, right
  <1>5. left % m = right % m
    BY <1>1, <1>4, DifferByMultiple
  <1> QED BY <1>3, <1>5 DEF left, right

-----------------------------------------------------------------------------
(***************************************************************************)
(* The formulas for points on residues                                     *)
(***************************************************************************)
\* The sums as they are reduced
SumsOf(kind, s) == [n \in DOMAIN RawSums(kind, s) |-> Reduced(RawSums(kind, s)[n])]

LEMMA SumsResidue ==
  ASSUME NEW m \in Factors, NEW kind \in Kinds, NEW s \in PartsOf(kind), NEW n \in {"e", "f", "g", "h"}
  PROVE  /\ SumsOf(kind, s)[n] \in Operands
         /\ Residue(SumsOf(kind, s)[n], m) = Residue(RawSums(kind, s)[n], m)
  <1> DEFINE raw == RawSums(kind, s)
  <1>1. DOMAIN raw = {"e", "f", "g", "h"} /\ InRegisters(raw[n]) /\ raw[n] \in [Limb -> Int]
    BY SumsFit
  <1>2. SumsOf(kind, s)[n] = Reduced(raw[n])
    BY <1>1 DEF SumsOf
  <1> HIDE DEF raw
  <1>3. Reduced(raw[n]) \in Operands
    BY <1>1, ReducedSums, SumsAreOperands
  <1>4. Residue(Reduced(raw[n]), m) = Residue(raw[n], m)
    BY <1>1, ReducedResidue, ResidueIsOfValue, FactorsAre
  <1> QED BY <1>2, <1>3, <1>4 DEF raw

\* The products of the sums
LEMMA PointResidue ==
  ASSUME NEW m \in Factors, NEW kind, NEW computeT \in BOOLEAN, NEW s,
         s.e \in Operands, s.f \in Operands, s.g \in Operands, s.h \in Operands
  PROVE  LET p == PointOf(kind, s, computeT)
             R(a) == Residue(a, m)
         IN  /\ R(p.x) = Mod(m)!Product(R(s.e), R(s.f))
             /\ R(p.y) = Mod(m)!Product(R(s.g), R(s.h))
             /\ kind # "torsion" => R(p.z) = Mod(m)!Product(R(s.f), R(s.g))
             /\ R(p.t) = IF computeT THEN Mod(m)!Product(R(s.e), R(s.h)) ELSE 0
  BY ProductResidue, ConstantResidues DEF PointOf

\* The sums of a doubling, of whatever products
LEMMA DoubleSumsResidue ==
  ASSUME NEW m \in Factors, NEW s,
         s.a \in [Limb -> Int], s.b \in [Limb -> Int], s.c \in [Limb -> Int], s.d \in [Limb -> Int]
  PROVE  LET r == DoubleSums(s)
             R(a) == Residue(a, m)
         IN  /\ R(r.e) = Mod(m)!Difference(R(s.d), Mod(m)!Sum(R(s.a), R(s.b)))
             /\ R(r.f) = Mod(m)!Difference(Mod(m)!Difference(R(s.b), R(s.a)), Mod(m)!Sum(R(s.c), R(s.c)))
             /\ R(r.g) = Mod(m)!Difference(R(s.b), R(s.a))
             /\ R(r.h) = Mod(m)!Negated(Mod(m)!Sum(R(s.a), R(s.b)))
  <1> DEFINE r == DoubleSums(s)
             R(a) == Residue(a, m)
  <1>0. LOOSE_BIAS \in Nat /\ Zero \in [Limb -> Int]
    BY LooseWidths, ZeroAndOne, OperandsAreLimbs
  <1>1. Plus(s.a, s.b) \in [Limb -> Int] /\ R(Plus(s.a, s.b)) = Mod(m)!Sum(R(s.a), R(s.b))
    BY PlusResidue
  <1>2. Plus(s.c, s.c) \in [Limb -> Int] /\ R(Plus(s.c, s.c)) = Mod(m)!Sum(R(s.c), R(s.c))
    BY PlusResidue
  <1>3. /\ Plus(s.a, Plus(s.c, s.c)) \in [Limb -> Int]
        /\ R(Plus(s.a, Plus(s.c, s.c))) = Mod(m)!Sum(R(s.a), Mod(m)!Sum(R(s.c), R(s.c)))
    BY <1>2, PlusResidue
  <1>4. R(r.e) = Mod(m)!Difference(R(s.d), Mod(m)!Sum(R(s.a), R(s.b)))
    BY <1>0, <1>1, MinusResidue DEF DoubleSums
  <1>5. R(r.f) = Mod(m)!Difference(R(s.b), Mod(m)!Sum(R(s.a), Mod(m)!Sum(R(s.c), R(s.c))))
    BY <1>0, <1>3, MinusResidue DEF DoubleSums
  <1>6. R(r.f) = Mod(m)!Difference(Mod(m)!Difference(R(s.b), R(s.a)), Mod(m)!Sum(R(s.c), R(s.c)))
    <2>1. R(s.a) \in Int /\ R(s.b) \in Int /\ Mod(m)!Sum(R(s.c), R(s.c)) \in Int
      BY <1>2, ResidueInRange
    <2> QED BY <1>5, <2>1, DifferenceOfSum
  <1>7. R(r.g) = Mod(m)!Difference(R(s.b), R(s.a))
    BY <1>0, MinusResidue DEF DoubleSums
  <1>8. R(r.h) = Mod(m)!Negated(Mod(m)!Sum(R(s.a), R(s.b)))
    <2>1. R(r.h) = Mod(m)!Difference(R(Zero), Mod(m)!Sum(R(s.a), R(s.b)))
      BY <1>0, <1>1, MinusResidue DEF DoubleSums
    <2> QED BY <2>1, ConstantResidues DEF Mod!Negated
  <1> QED BY <1>4, <1>6, <1>7, <1>8

\* The sums of an addition; bias is 4 or LOOSE_BIAS.
LEMMA AddSumsResidue ==
  ASSUME NEW m \in Factors, NEW bias \in Nat, NEW s,
         s.a \in [Limb -> Int], s.b \in [Limb -> Int], s.c \in [Limb -> Int], s.d \in [Limb -> Int]
  PROVE  LET r == AddSums(bias, s)
             R(a) == Residue(a, m)
         IN  /\ R(r.e) = Mod(m)!Difference(R(s.b), R(s.a)) /\ R(r.f) = Mod(m)!Difference(R(s.d), R(s.c))
             /\ R(r.g) = Mod(m)!Sum(R(s.d), R(s.c)) /\ R(r.h) = Mod(m)!Sum(R(s.b), R(s.a))
  BY PlusResidue, MinusResidue DEF AddSums

\* double_impl
LEMMA DoublePartsResidue ==
  ASSUME NEW m \in Factors, NEW p \in Points, NEW affineZ \in BOOLEAN
  PROVE  LET s == DoubleProducts(p, affineZ)
             R(a) == Residue(a, m)
         IN  /\ R(s.a) = Mod(m)!Square(R(p.x)) /\ R(s.b) = Mod(m)!Square(R(p.y))
             /\ R(s.c) = IF affineZ THEN 1 ELSE Mod(m)!Square(R(p.z))
             /\ R(s.d) = Mod(m)!Square(Mod(m)!Sum(R(p.x), R(p.y)))
  <1>1. p.x \in Operands /\ p.y \in Operands /\ p.z \in Operands /\ AddLoose(p.x, p.y) \in Operands
    BY PointCoordinates, SumClasses
  <1>2. /\ Residue(SquareLoose(p.x), m) = Mod(m)!Square(Residue(p.x, m))
        /\ Residue(SquareLoose(p.y), m) = Mod(m)!Square(Residue(p.y, m))
        /\ Residue(SquareLoose(p.z), m) = Mod(m)!Square(Residue(p.z, m))
        /\ Residue(SquareLoose(AddLoose(p.x, p.y)), m) = Mod(m)!Square(Residue(AddLoose(p.x, p.y), m))
    BY <1>1, SquareResidue
  <1>3. Residue(AddLoose(p.x, p.y), m) = Mod(m)!Sum(Residue(p.x, m), Residue(p.y, m))
    BY <1>1, AddResidue
  <1> QED BY <1>2, <1>3, ConstantResidues DEF DoubleProducts

LEMMA DoubleExact ==
  ASSUME NEW m \in Factors, NEW p \in Points, NEW affineZ \in BOOLEAN, NEW computeT \in BOOLEAN,
         NEW kind \in {"double", "doubleAffine"}
  PROVE  LET q == PointOf(kind, SumsOf(kind, DoubleProducts(p, affineZ)), computeT)
         IN  \A c \in {"x", "y", "z", "t"} :
                 Residue(q[c], m) = Mod(m)!DoubleImpl(ResiduesOf(p, m), computeT, affineZ)[c]
  <1> DEFINE s == DoubleProducts(p, affineZ)
             r == SumsOf(kind, s)
             q == PointOf(kind, r, computeT)
             R(a) == Residue(a, m)
             P == ResiduesOf(p, m)
  <1>1. s \in PartsOf(kind) /\ kind \in Kinds
    BY DoubleParts DEF PartsOf, Kinds
  <1>2. /\ s.a \in [Limb -> Int] /\ s.b \in [Limb -> Int] /\ s.c \in [Limb -> Int] /\ s.d \in [Limb -> Int]
    BY DoubleParts, OperandsAreLimbs
  <1>3. P.x = R(p.x) /\ P.y = R(p.y) /\ P.z = R(p.z)
    BY DEF ResiduesOf, Points
  <1>4. /\ R(s.a) = Mod(m)!Square(R(p.x)) /\ R(s.b) = Mod(m)!Square(R(p.y))
        /\ R(s.c) = IF affineZ THEN 1 ELSE Mod(m)!Square(R(p.z))
        /\ R(s.d) = Mod(m)!Square(Mod(m)!Sum(R(p.x), R(p.y)))
    BY DoublePartsResidue
  <1>5. RawSums(kind, s) = DoubleSums(s)
    BY DEF RawSums
  <1> HIDE DEF s, P
  <1>6. /\ r.e \in Operands /\ r.f \in Operands /\ r.g \in Operands /\ r.h \in Operands
        /\ R(r.e) = R(DoubleSums(s).e) /\ R(r.f) = R(DoubleSums(s).f)
        /\ R(r.g) = R(DoubleSums(s).g) /\ R(r.h) = R(DoubleSums(s).h)
    BY <1>1, <1>5, SumsResidue
  <1> HIDE DEF r
  <1>7. LET d == DoubleSums(s)
        IN  /\ R(d.e) = Mod(m)!Difference(R(s.d), Mod(m)!Sum(R(s.a), R(s.b)))
            /\ R(d.f) = Mod(m)!Difference(Mod(m)!Difference(R(s.b), R(s.a)), Mod(m)!Sum(R(s.c), R(s.c)))
            /\ R(d.g) = Mod(m)!Difference(R(s.b), R(s.a))
            /\ R(d.h) = Mod(m)!Negated(Mod(m)!Sum(R(s.a), R(s.b)))
    BY <1>2, DoubleSumsResidue
  <1>8. /\ R(q.x) = Mod(m)!Product(R(r.e), R(r.f)) /\ R(q.y) = Mod(m)!Product(R(r.g), R(r.h))
        /\ R(q.z) = Mod(m)!Product(R(r.f), R(r.g))
        /\ R(q.t) = IF computeT THEN Mod(m)!Product(R(r.e), R(r.h)) ELSE 0
    BY <1>6, PointResidue
  <1> HIDE DEF q
  <1> DEFINE a  == Mod(m)!Square(P.x)
             b  == Mod(m)!Square(P.y)
             z2 == IF affineZ THEN 1 ELSE Mod(m)!Square(P.z)
             e  == Mod(m)!Difference(Mod(m)!Square(Mod(m)!Sum(P.x, P.y)), Mod(m)!Sum(a, b))
             g  == Mod(m)!Difference(b, a)
             f  == Mod(m)!Difference(g, Mod(m)!Sum(z2, z2))
             h  == Mod(m)!Negated(Mod(m)!Sum(a, b))
  <1>9. R(r.e) = e /\ R(r.f) = f /\ R(r.g) = g /\ R(r.h) = h
    BY <1>3, <1>4, <1>6, <1>7, Zenon
  <1>10. Mod(m)!DoubleImpl(P, computeT, affineZ)
           = [x |-> Mod(m)!Product(e, f), y |-> Mod(m)!Product(g, h), z |-> Mod(m)!Product(f, g),
              t |-> IF computeT THEN Mod(m)!Product(e, h) ELSE 0]
    BY Zenon DEF Mod!DoubleImpl
  <1> HIDE DEF e, f, g, h
  <1>11. \A c \in {"x", "y", "z", "t"} : R(q[c]) = Mod(m)!DoubleImpl(P, computeT, affineZ)[c]
    BY <1>8, <1>9, <1>10
  <1> QED BY <1>11 DEF q, r, s, P

\* The doubling of the torsion check, of which only t is used
LEMMA TorsionDoubleExact ==
  ASSUME NEW m \in Factors, NEW p \in Points
  PROVE  LET s == [DoubleProducts(p, TRUE) EXCEPT !.c = Zero]
         IN  Residue(PointOf("torsionProduct", SumsOf("torsionProduct", s), TRUE).t, m)
               = Mod(m)!DoubleImpl(ResiduesOf(p, m), TRUE, TRUE).t
  <1> DEFINE u == DoubleProducts(p, TRUE)
             s == [u EXCEPT !.c = Zero]
             kind == "torsionProduct"
             r == SumsOf(kind, s)
             q == PointOf(kind, r, TRUE)
             R(a) == Residue(a, m)
             P == ResiduesOf(p, m)
  <1>1. u \in [a : Loosened, b : Loosened, c : Loosened, d : Loosened]
    BY DoubleParts
  <1>2. P.x = R(p.x) /\ P.y = R(p.y)
    BY DEF ResiduesOf, Points
  <1>3. /\ R(u.a) = Mod(m)!Square(R(p.x)) /\ R(u.b) = Mod(m)!Square(R(p.y))
        /\ R(u.d) = Mod(m)!Square(Mod(m)!Sum(R(p.x), R(p.y)))
    BY DoublePartsResidue
  <1> HIDE DEF u, P
  <1>4. s.a = u.a /\ s.b = u.b /\ s.d = u.d /\ s \in PartsOf(kind) /\ kind \in Kinds
        /\ s.a \in [Limb -> Int] /\ s.b \in [Limb -> Int] /\ s.c \in [Limb -> Int] /\ s.d \in [Limb -> Int]
    BY <1>1, ZeroAndOne, OperandsAreLimbs DEF PartsOf, Kinds
  <1> HIDE DEF s
  <1>5. RawSums(kind, s).e = DoubleSums(s).e /\ RawSums(kind, s).h = DoubleSums(s).h
    BY DEF RawSums, DoubleSums
  <1>6. /\ r.e \in Operands /\ r.f \in Operands /\ r.g \in Operands /\ r.h \in Operands
        /\ R(r.e) = R(DoubleSums(s).e) /\ R(r.h) = R(DoubleSums(s).h)
    <2> HIDE DEF kind
    <2> QED BY <1>4, <1>5, SumsResidue
  <1> HIDE DEF r
  <1>7. LET d == DoubleSums(s)
        IN  /\ R(d.e) = Mod(m)!Difference(R(s.d), Mod(m)!Sum(R(s.a), R(s.b)))
            /\ R(d.h) = Mod(m)!Negated(Mod(m)!Sum(R(s.a), R(s.b)))
    BY <1>4, DoubleSumsResidue
  <1>8. R(q.t) = Mod(m)!Product(R(r.e), R(r.h))
    BY <1>6, PointResidue
  <1> HIDE DEF q
  <1>9. Mod(m)!DoubleImpl(P, TRUE, TRUE).t
          = Mod(m)!Product(Mod(m)!Difference(Mod(m)!Square(Mod(m)!Sum(P.x, P.y)),
                                             Mod(m)!Sum(Mod(m)!Square(P.x), Mod(m)!Square(P.y))),
                           Mod(m)!Negated(Mod(m)!Sum(Mod(m)!Square(P.x), Mod(m)!Square(P.y))))
    BY DEF Mod!DoubleImpl
  <1>10. R(q.t) = Mod(m)!DoubleImpl(P, TRUE, TRUE).t
    BY <1>2, <1>3, <1>4, <1>6, <1>7, <1>8, <1>9, Zenon
  <1> QED BY <1>10 DEF q, r, s, u, P

-----------------------------------------------------------------------------
\* The sums and the point of an addition, of whatever products
LEMMA AddedPoint ==
  ASSUME NEW m \in Factors, NEW kind \in Kinds \ {"torsion"}, NEW s \in PartsOf(kind),
         NEW computeT \in BOOLEAN, NEW bias \in Nat, RawSums(kind, s) = AddSums(bias, s),
         NEW a, NEW b, NEW c, NEW d,
         Residue(s.a, m) = a, Residue(s.b, m) = b, Residue(s.c, m) = c, Residue(s.d, m) = d
  PROVE  LET q == PointOf(kind, SumsOf(kind, s), computeT)
             e == Mod(m)!Difference(b, a)
             f == Mod(m)!Difference(d, c)
             g == Mod(m)!Sum(d, c)
             h == Mod(m)!Sum(b, a)
         IN  /\ Residue(q.x, m) = Mod(m)!Product(e, f) /\ Residue(q.y, m) = Mod(m)!Product(g, h)
             /\ Residue(q.z, m) = Mod(m)!Product(f, g)
             /\ Residue(q.t, m) = IF computeT THEN Mod(m)!Product(e, h) ELSE 0
  <1> DEFINE r == SumsOf(kind, s)
             q == PointOf(kind, r, computeT)
             R(n) == Residue(n, m)
  <1>1. s.a \in [Limb -> Int] /\ s.b \in [Limb -> Int] /\ s.c \in [Limb -> Int] /\ s.d \in [Limb -> Int]
    BY OperandsAreLimbs DEF PartsOf
  <1>2. kind \in Kinds
    OBVIOUS
  <1>3. /\ r.e \in Operands /\ r.f \in Operands /\ r.g \in Operands /\ r.h \in Operands
        /\ R(r.e) = R(AddSums(bias, s).e) /\ R(r.f) = R(AddSums(bias, s).f)
        /\ R(r.g) = R(AddSums(bias, s).g) /\ R(r.h) = R(AddSums(bias, s).h)
    BY <1>2, SumsResidue
  <1> HIDE DEF r
  <1>4. LET u == AddSums(bias, s)
        IN  /\ R(u.e) = Mod(m)!Difference(b, a) /\ R(u.f) = Mod(m)!Difference(d, c)
            /\ R(u.g) = Mod(m)!Sum(d, c) /\ R(u.h) = Mod(m)!Sum(b, a)
    BY <1>1, AddSumsResidue
  <1>5. /\ R(q.x) = Mod(m)!Product(R(r.e), R(r.f)) /\ R(q.y) = Mod(m)!Product(R(r.g), R(r.h))
        /\ R(q.z) = Mod(m)!Product(R(r.f), R(r.g))
        /\ R(q.t) = IF computeT THEN Mod(m)!Product(R(r.e), R(r.h)) ELSE 0
    BY <1>3, PointResidue
  <1> HIDE DEF q
  <1>6. /\ R(q.x) = Mod(m)!Product(Mod(m)!Difference(b, a), Mod(m)!Difference(d, c))
        /\ R(q.y) = Mod(m)!Product(Mod(m)!Sum(d, c), Mod(m)!Sum(b, a))
        /\ R(q.z) = Mod(m)!Product(Mod(m)!Difference(d, c), Mod(m)!Sum(d, c))
        /\ R(q.t) = IF computeT THEN Mod(m)!Product(Mod(m)!Difference(b, a), Mod(m)!Sum(b, a)) ELSE 0
    BY <1>3, <1>4, <1>5, Zenon
  <1> QED BY <1>6 DEF q, r

\* add_impl
LEMMA AddPartsResidue ==
  ASSUME NEW m \in Factors, NEW p \in Points, NEW q \in Points, NEW affineRhs \in BOOLEAN
  PROVE  LET s == AddProducts(p, q, affineRhs)
             R(n) == Residue(n, m)
         IN  /\ R(s.a) = Mod(m)!Product(Mod(m)!Difference(R(p.y), R(p.x)), Mod(m)!Difference(R(q.y), R(q.x)))
             /\ R(s.b) = Mod(m)!Product(Mod(m)!Sum(R(p.y), R(p.x)), Mod(m)!Sum(R(q.y), R(q.x)))
             /\ R(s.c) = Mod(m)!Product(Mod(m)!Product(R(p.t), R(q.t)), Mod(m)!TwoD)
             /\ R(s.d) = IF affineRhs THEN Mod(m)!Sum(R(p.z), R(p.z))
                                      ELSE Mod(m)!Product(2, Mod(m)!Product(R(p.z), R(q.z)))
  <1> DEFINE s == AddProducts(p, q, affineRhs)
             R(n) == Residue(n, m)
  <1>1. /\ p.x \in Operands /\ p.y \in Operands /\ p.z \in Operands /\ p.t \in Operands
        /\ q.x \in Operands /\ q.y \in Operands /\ q.z \in Operands /\ q.t \in Operands
        /\ Subtract(p.y, p.x) \in Operands /\ Subtract(q.y, q.x) \in Operands
        /\ AddLoose(p.y, p.x) \in Operands /\ AddLoose(q.y, q.x) \in Operands
        /\ Multiply(p.t, q.t) \in Operands /\ Multiply(p.z, q.z) \in Operands
    BY PointCoordinates, SumClasses, ProductClasses
  <1>2. /\ R(Subtract(p.y, p.x)) = Mod(m)!Difference(R(p.y), R(p.x))
        /\ R(Subtract(q.y, q.x)) = Mod(m)!Difference(R(q.y), R(q.x))
        /\ R(AddLoose(p.y, p.x)) = Mod(m)!Sum(R(p.y), R(p.x))
        /\ R(AddLoose(q.y, q.x)) = Mod(m)!Sum(R(q.y), R(q.x))
    BY <1>1, AddResidue, SubtractResidue
  <1>3. R(s.a) = Mod(m)!Product(Mod(m)!Difference(R(p.y), R(p.x)), Mod(m)!Difference(R(q.y), R(q.x)))
    <2>1. R(Multiply(Subtract(p.y, p.x), Subtract(q.y, q.x)))
            = Mod(m)!Product(R(Subtract(p.y, p.x)), R(Subtract(q.y, q.x)))
      BY <1>1, ProductResidue
    <2> QED BY <1>2, <2>1 DEF AddProducts
  <1>4. R(s.b) = Mod(m)!Product(Mod(m)!Sum(R(p.y), R(p.x)), Mod(m)!Sum(R(q.y), R(q.x)))
    <2>1. R(Multiply(AddLoose(p.y, p.x), AddLoose(q.y, q.x)))
            = Mod(m)!Product(R(AddLoose(p.y, p.x)), R(AddLoose(q.y, q.x)))
      BY <1>1, ProductResidue
    <2> QED BY <1>2, <2>1 DEF AddProducts
  <1>5. R(s.c) = Mod(m)!Product(Mod(m)!Product(R(p.t), R(q.t)), Mod(m)!TwoD)
    <2>1. R(Multiply(p.t, q.t)) = Mod(m)!Product(R(p.t), R(q.t))
      BY <1>1, ProductResidue
    <2>2. R(Multiply(Multiply(p.t, q.t), TWO_D)) = Mod(m)!Product(R(Multiply(p.t, q.t)), R(TWO_D))
      BY <1>1, ConstantResidues, ProductResidue
    <2> QED BY <2>1, <2>2, ConstantResidues DEF AddProducts
  <1>6. R(s.d) = IF affineRhs THEN Mod(m)!Sum(R(p.z), R(p.z))
                              ELSE Mod(m)!Product(2, Mod(m)!Product(R(p.z), R(q.z)))
    <2>1. CASE affineRhs
      <3>1. R(AddLoose(p.z, p.z)) = Mod(m)!Sum(R(p.z), R(p.z))
        BY <1>1, AddResidue
      <3> QED BY <2>1, <3>1 DEF AddProducts, DoubleLoose
    <2>2. CASE ~affineRhs
      <3> DEFINE z == Multiply(p.z, q.z)
      <3>1. R(z) = Mod(m)!Product(R(p.z), R(q.z)) /\ z \in Operands
        BY <1>1, ProductResidue
      <3>2. R(AddLoose(z, z)) = Mod(m)!Sum(R(z), R(z)) /\ R(z) \in Int
        BY <3>1, AddResidue, ResidueInRange, OperandsAreLimbs
      <3>3. Mod(m)!Product(2, R(z)) = Mod(m)!Sum(R(z), R(z))
        BY <3>2, Doubled
      <3>4. s.d = AddLoose(z, z)
        BY <2>2 DEF AddProducts, DoubleLoose
      <3> HIDE DEF z, s
      <3> QED BY <2>2, <3>1, <3>2, <3>3, <3>4
    <2> QED BY <2>1, <2>2
  <1> QED BY <1>3, <1>4, <1>5, <1>6

LEMMA AddExact ==
  ASSUME NEW m \in Factors, NEW p \in Points, NEW q \in Points, NEW kind \in {"add", "addAffine"}
  PROVE  LET affineRhs == kind = "addAffine"
             sum == PointOf(kind, SumsOf(kind, AddProducts(p, q, affineRhs)), TRUE)
         IN  \A n \in {"x", "y", "z", "t"} :
                 Residue(sum[n], m) = Mod(m)!AddImpl(ResiduesOf(p, m), ResiduesOf(q, m), affineRhs)[n]
  <1> DEFINE affineRhs == kind = "addAffine"
             s == AddProducts(p, q, affineRhs)
             sum == PointOf(kind, SumsOf(kind, s), TRUE)
             R(n) == Residue(n, m)
             P == ResiduesOf(p, m)
             Q == ResiduesOf(q, m)
             a == Mod(m)!Product(Mod(m)!Difference(P.y, P.x), Mod(m)!Difference(Q.y, Q.x))
             b == Mod(m)!Product(Mod(m)!Sum(P.y, P.x), Mod(m)!Sum(Q.y, Q.x))
             c == Mod(m)!Product(Mod(m)!Product(P.t, Q.t), Mod(m)!TwoD)
             d == IF affineRhs THEN Mod(m)!Sum(P.z, P.z) ELSE Mod(m)!Product(2, Mod(m)!Product(P.z, Q.z))
             e == Mod(m)!Difference(b, a)
             f == Mod(m)!Difference(d, c)
             g == Mod(m)!Sum(d, c)
             h == Mod(m)!Sum(b, a)
  <1>1. P.x = R(p.x) /\ P.y = R(p.y) /\ P.z = R(p.z) /\ P.t = R(p.t)
        /\ Q.x = R(q.x) /\ Q.y = R(q.y) /\ Q.z = R(q.z) /\ Q.t = R(q.t)
    BY DEF ResiduesOf, Points
  <1>2. affineRhs \in BOOLEAN
    OBVIOUS
  <1>3. s \in PartsOf(kind) /\ kind \in Kinds \ {"torsion"}
    BY <1>2, AddParts DEF PartsOf, Kinds
  <1>4. RawSums(kind, s) = AddSums(4, s)
    BY DEF RawSums
  <1> HIDE DEF P, Q, affineRhs
  <1>5. R(s.a) = a /\ R(s.b) = b /\ R(s.c) = c /\ R(s.d) = d
    BY <1>1, <1>2, AddPartsResidue
  <1>6. Mod(m)!AddImpl(P, Q, affineRhs)
          = [x |-> Mod(m)!Product(e, f), y |-> Mod(m)!Product(g, h), z |-> Mod(m)!Product(f, g), t |-> Mod(m)!Product(e, h)]
    BY Zenon DEF Mod!AddImpl
  <1> HIDE DEF s, a, b, c, d
  <1>7. /\ R(sum.x) = Mod(m)!Product(e, f) /\ R(sum.y) = Mod(m)!Product(g, h)
        /\ R(sum.z) = Mod(m)!Product(f, g) /\ R(sum.t) = Mod(m)!Product(e, h)
    <2> DEFINE computeT == TRUE
    <2>1. computeT \in BOOLEAN /\ 4 \in Nat
      OBVIOUS
    <2> HIDE DEF computeT
    <2>2. LET q1 == PointOf(kind, SumsOf(kind, s), computeT)
          IN  /\ R(q1.x) = Mod(m)!Product(e, f) /\ R(q1.y) = Mod(m)!Product(g, h)
              /\ R(q1.z) = Mod(m)!Product(f, g)
              /\ R(q1.t) = IF computeT THEN Mod(m)!Product(e, h) ELSE 0
      BY <1>3, <1>4, <1>5, <2>1, AddedPoint
    <2> QED BY <2>2 DEF computeT
  <1> HIDE DEF sum, e, f, g, h
  <1>8. \A n \in {"x", "y", "z", "t"} : R(sum[n]) = Mod(m)!AddImpl(P, Q, affineRhs)[n]
    BY <1>6, <1>7
  <1> QED BY <1>8 DEF sum, s, P, Q, affineRhs

\* add_selected_cached_refs_assign
LEMMA CachedExact ==
  ASSUME NEW m \in Factors, NEW p \in Points, NEW entry \in Entries, NEW computeT \in BOOLEAN
  PROVE  LET sum == PointOf("addCached", SumsOf("addCached", AddCachedProducts(p, entry)), computeT)
         IN  \A n \in {"x", "y", "z", "t"} :
                 Residue(sum[n], m) = Mod(m)!AddCached(ResiduesOf(p, m), ResiduesOf(entry, m), computeT)[n]
  <1> DEFINE kind == "addCached"
             s == AddCachedProducts(p, entry)
             sum == PointOf(kind, SumsOf(kind, s), computeT)
             R(n) == Residue(n, m)
             P == ResiduesOf(p, m)
             C == ResiduesOf(entry, m)
             a == Mod(m)!Product(Mod(m)!Difference(P.y, P.x), C.yMinusX)
             b == Mod(m)!Product(Mod(m)!Sum(P.y, P.x), C.yPlusX)
             k == Mod(m)!Product(P.t, C.t2d)
             d == IF "z2" \in DOMAIN C THEN Mod(m)!Product(P.z, C.z2) ELSE Mod(m)!Sum(P.z, P.z)
             e == Mod(m)!Difference(b, a)
             f == Mod(m)!Difference(d, k)
             g == Mod(m)!Sum(d, k)
             h == Mod(m)!Sum(b, a)
  <1>1. P.x = R(p.x) /\ P.y = R(p.y) /\ P.z = R(p.z) /\ P.t = R(p.t)
    BY DEF ResiduesOf, Points
  <1>2. /\ C.yPlusX = R(entry.yPlusX) /\ C.yMinusX = R(entry.yMinusX) /\ C.t2d = R(entry.t2d)
        /\ DOMAIN C = DOMAIN entry /\ ("z2" \in DOMAIN entry => C.z2 = R(entry.z2))
    BY DEF ResiduesOf, Entries
  <1>3. /\ entry.yMinusX \in Operands /\ entry.yPlusX \in Operands /\ entry.t2d \in Operands
        /\ "z2" \in DOMAIN entry => entry.z2 \in Operands
    BY DEF Entries
  <1>4. /\ p.x \in Operands /\ p.y \in Operands /\ p.z \in Operands /\ p.t \in Operands
        /\ Subtract(p.y, p.x) \in Operands /\ AddLoose(p.y, p.x) \in Operands
    BY PointCoordinates, SumClasses
  <1>5. s \in PartsOf(kind) /\ kind \in Kinds \ {"torsion"}
    BY CachedParts DEF PartsOf, Kinds
  <1>6. RawSums(kind, s) = AddSums(LOOSE_BIAS, s) /\ LOOSE_BIAS \in Nat
    BY LooseWidths DEF RawSums
  <1> HIDE DEF P, C
  <1>7. R(s.a) = a
    <2>1. R(MultiplyLoose(Subtract(p.y, p.x), entry.yMinusX))
            = Mod(m)!Product(R(Subtract(p.y, p.x)), R(entry.yMinusX))
      BY <1>3, <1>4, ProductResidue
    <2>2. R(Subtract(p.y, p.x)) = Mod(m)!Difference(R(p.y), R(p.x))
      BY <1>4, SubtractResidue
    <2> QED BY <1>1, <1>2, <2>1, <2>2 DEF AddCachedProducts
  <1>8. R(s.b) = b
    <2>1. R(MultiplyLoose(AddLoose(p.y, p.x), entry.yPlusX))
            = Mod(m)!Product(R(AddLoose(p.y, p.x)), R(entry.yPlusX))
      BY <1>3, <1>4, ProductResidue
    <2>2. R(AddLoose(p.y, p.x)) = Mod(m)!Sum(R(p.y), R(p.x))
      BY <1>4, AddResidue
    <2> QED BY <1>1, <1>2, <2>1, <2>2 DEF AddCachedProducts
  <1>9. R(s.c) = k
    <2>1. R(MultiplyLoose(p.t, entry.t2d)) = Mod(m)!Product(R(p.t), R(entry.t2d))
      BY <1>3, <1>4, ProductResidue
    <2> QED BY <1>1, <1>2, <2>1 DEF AddCachedProducts
  <1>10. R(s.d) = d
    <2>1. CASE "z2" \in DOMAIN entry
      <3>1. R(MultiplyLoose(p.z, entry.z2)) = Mod(m)!Product(R(p.z), R(entry.z2))
        BY <2>1, <1>3, <1>4, ProductResidue
      <3> QED BY <2>1, <1>1, <1>2, <3>1 DEF AddCachedProducts
    <2>2. CASE "z2" \notin DOMAIN entry
      <3>1. R(AddLoose(p.z, p.z)) = Mod(m)!Sum(R(p.z), R(p.z))
        BY <1>4, AddResidue
      <3> QED BY <2>2, <1>1, <1>2, <3>1 DEF AddCachedProducts, DoubleLoose
    <2> QED BY <2>1, <2>2
  <1>11. Mod(m)!AddCached(P, C, computeT)
           = [x |-> Mod(m)!Product(e, f), y |-> Mod(m)!Product(g, h), z |-> Mod(m)!Product(f, g),
              t |-> IF computeT THEN Mod(m)!Product(e, h) ELSE 0]
    BY Zenon DEF Mod!AddCached
  <1> HIDE DEF s, a, b, k, d, kind
  <1>12. /\ R(sum.x) = Mod(m)!Product(e, f) /\ R(sum.y) = Mod(m)!Product(g, h)
         /\ R(sum.z) = Mod(m)!Product(f, g) /\ R(sum.t) = IF computeT THEN Mod(m)!Product(e, h) ELSE 0
    BY <1>5, <1>6, <1>7, <1>8, <1>9, <1>10, AddedPoint
  <1> HIDE DEF sum, e, f, g, h
  <1>13. \A n \in {"x", "y", "z", "t"} : R(sum[n]) = Mod(m)!AddCached(P, C, computeT)[n]
    BY <1>11, <1>12
  <1> QED BY <1>13 DEF sum, s, P, C, kind

-----------------------------------------------------------------------------
\* The same at residues: an addition of the opposite
LEMMA OppositeAdded ==
  ASSUME NEW m \in Factors,
         NEW P \in [{"x", "y", "z", "t"} -> Int], NEW Q \in [{"x", "y", "z", "t"} -> Int]
  PROVE  LET a == Mod(m)!Product(Mod(m)!Difference(P.y, P.x), Mod(m)!Sum(Q.y, Q.x))
             b == Mod(m)!Product(Mod(m)!Sum(P.y, P.x), Mod(m)!Difference(Q.y, Q.x))
             c == Mod(m)!Product(Mod(m)!Product(P.t, Q.t), Mod(m)!TwoD)
             d == Mod(m)!Sum(P.z, P.z)
             difference == Mod(m)!AddAffineRhs(P, Opposite(Q, m))
         IN  /\ difference.x = Mod(m)!Product(Mod(m)!Difference(b, a), Mod(m)!Sum(d, c))
             /\ difference.y = Mod(m)!Product(Mod(m)!Difference(d, c), Mod(m)!Sum(b, a))
  <1> DEFINE a == Mod(m)!Product(Mod(m)!Difference(P.y, P.x), Mod(m)!Sum(Q.y, Q.x))
             b == Mod(m)!Product(Mod(m)!Sum(P.y, P.x), Mod(m)!Difference(Q.y, Q.x))
             c == Mod(m)!Product(Mod(m)!Product(P.t, Q.t), Mod(m)!TwoD)
             d == Mod(m)!Sum(P.z, P.z)
             O == Opposite(Q, m)
             a2 == Mod(m)!Product(Mod(m)!Difference(P.y, P.x), Mod(m)!Difference(O.y, O.x))
             b2 == Mod(m)!Product(Mod(m)!Sum(P.y, P.x), Mod(m)!Sum(O.y, O.x))
             c2 == Mod(m)!Product(Mod(m)!Product(P.t, O.t), Mod(m)!TwoD)
  <1>1. P.x \in Int /\ P.y \in Int /\ P.z \in Int /\ P.t \in Int /\ Q.x \in Int /\ Q.y \in Int /\ Q.t \in Int
    OBVIOUS
  <1>2. O.x = Mod(m)!Negated(Q.x) /\ O.y = Q.y /\ O.t = Mod(m)!Negated(Q.t)
    BY DEF Opposite
  <1>3. /\ Mod(m)!AddAffineRhs(P, O).x = Mod(m)!Product(Mod(m)!Difference(b2, a2), Mod(m)!Difference(d, c2))
        /\ Mod(m)!AddAffineRhs(P, O).y = Mod(m)!Product(Mod(m)!Sum(d, c2), Mod(m)!Sum(b2, a2))
    BY DEF Mod!AddAffineRhs, Mod!AddImpl
  <1> HIDE DEF O
  <1>4. a2 = a
    <2>1. Mod(m)!Difference(Q.y, Mod(m)!Negated(Q.x)) = Mod(m)!Sum(Q.y, Q.x)
      BY <1>1, NegatedTerms
    <2> QED BY <1>2, <2>1, Zenon
  <1>5. b2 = b
    <2>1. Mod(m)!Sum(Q.y, Mod(m)!Negated(Q.x)) = Mod(m)!Difference(Q.y, Q.x)
      BY <1>1, NegatedTerms
    <2> QED BY <1>2, <2>1, Zenon
  <1>6. c2 = Mod(m)!Negated(c)
    <2>1. Mod(m)!TwoD \in Int
      BY ConstantResidues, ResidueInRange, OperandsAreLimbs
    <2>2. Mod(m)!Product(Mod(m)!Product(P.t, Mod(m)!Negated(Q.t)), Mod(m)!TwoD) = Mod(m)!Negated(c)
      BY <1>1, <2>1, NegatedProduct
    <2> QED BY <1>2, <2>2, Zenon
  <1>7. c \in Int /\ d \in Int
    <2>1. m \in Nat \ {0}
      BY FactorsAre
    <2>2. Mod(m)!TwoD \in Int /\ Mod(m)!Product(P.t, Q.t) \in Int
      <3>1. Mod(m)!TwoD \in Int
        BY ConstantResidues, ResidueInRange, OperandsAreLimbs
      <3> DEFINE tt == P.t * Q.t
      <3>2. tt \in Int
        BY <1>1
      <3> HIDE DEF tt
      <3>3. tt % m \in Int
        BY <2>1, <3>2, Divided
      <3> QED BY <3>1, <3>3 DEF Mod!Product, tt
    <2> DEFINE ptq == Mod(m)!Product(P.t, Q.t)
               twoD == Mod(m)!TwoD
               p == ptq * twoD
    <2>3. ptq \in Int /\ twoD \in Int
      BY <2>2
    <2> HIDE DEF ptq, twoD
    <2>4. p \in Int
      BY <2>3
    <2>5. c = p % m
      BY DEF Mod!Product, ptq, twoD
    <2> HIDE DEF p, c
    <2>6. c \in Int
      BY <2>1, <2>4, <2>5, Divided
    <2>7. d \in Int
      BY <1>1, <2>1 DEF Mod!Sum
    <2> QED BY <2>6, <2>7
  <1> HIDE DEF a, b, c, d, a2, b2, c2
  <1>8. Mod(m)!Difference(d, c2) = Mod(m)!Sum(d, c) /\ Mod(m)!Sum(d, c2) = Mod(m)!Difference(d, c)
    BY <1>6, <1>7, NegatedTerms
  <1>9. /\ Mod(m)!AddAffineRhs(P, O).x = Mod(m)!Product(Mod(m)!Difference(b, a), Mod(m)!Sum(d, c))
        /\ Mod(m)!AddAffineRhs(P, O).y = Mod(m)!Product(Mod(m)!Difference(d, c), Mod(m)!Sum(b, a))
    BY <1>3, <1>4, <1>5, <1>8, Zenon
  <1> QED BY <1>9 DEF O, a, b, c, d

\* subtract_affine_and_check_8_torsion, up to X and Y of the difference
LEMMA TorsionExact ==
  ASSUME NEW m \in Factors, NEW p \in Points, NEW q \in Points, NEW computeT \in BOOLEAN
  PROVE  LET difference == PointOf("torsion", SumsOf("torsion", TorsionProducts(p, q)), computeT)
         IN  \A n \in {"x", "y"} :
                 Residue(difference[n], m)
                   = Mod(m)!AddAffineRhs(ResiduesOf(p, m), Opposite(ResiduesOf(q, m), m))[n]
  <1> DEFINE kind == "torsion"
             s == TorsionProducts(p, q)
             u == TorsionSums(s)
             r == SumsOf(kind, s)
             difference == PointOf(kind, r, computeT)
             R(n) == Residue(n, m)
             P == ResiduesOf(p, m)
             Q == ResiduesOf(q, m)
             a == Mod(m)!Product(Mod(m)!Difference(P.y, P.x), Mod(m)!Sum(Q.y, Q.x))
             b == Mod(m)!Product(Mod(m)!Sum(P.y, P.x), Mod(m)!Difference(Q.y, Q.x))
             c == Mod(m)!Product(Mod(m)!Product(P.t, Q.t), Mod(m)!TwoD)
             d == Mod(m)!Sum(P.z, P.z)
             expected == Mod(m)!AddAffineRhs(P, Opposite(Q, m))
  <1>1. P.x = R(p.x) /\ P.y = R(p.y) /\ P.z = R(p.z) /\ P.t = R(p.t)
        /\ Q.x = R(q.x) /\ Q.y = R(q.y) /\ Q.t = R(q.t)
    BY DEF ResiduesOf, Points
  <1>2. P \in [{"x", "y", "z", "t"} -> Int] /\ Q \in [{"x", "y", "z", "t"} -> Int]
    <2>1. ASSUME NEW v \in Points
          PROVE  ResiduesOf(v, m) \in [{"x", "y", "z", "t"} -> Int]
      <3>1. DOMAIN v = {"x", "y", "z", "t"} /\ \A n \in {"x", "y", "z", "t"} : v[n] \in [Limb -> Int]
        BY OperandsAreLimbs DEF Points
      <3>2. \A n \in {"x", "y", "z", "t"} : Residue(v[n], m) \in Int
        BY <3>1, ResidueInRange
      <3> QED BY <3>1, <3>2 DEF ResiduesOf
    <2> QED BY <2>1
  <1>3. /\ p.x \in Operands /\ p.y \in Operands /\ p.z \in Operands /\ p.t \in Operands
        /\ q.x \in Operands /\ q.y \in Operands /\ q.t \in Operands
        /\ Subtract(p.y, p.x) \in Operands /\ Subtract(q.y, q.x) \in Operands
        /\ AddLoose(p.y, p.x) \in Operands /\ AddLoose(q.y, q.x) \in Operands
        /\ Multiply(p.t, q.t) \in Operands
    BY PointCoordinates, SumClasses, ProductClasses
  <1>4. /\ R(Subtract(p.y, p.x)) = Mod(m)!Difference(R(p.y), R(p.x))
        /\ R(Subtract(q.y, q.x)) = Mod(m)!Difference(R(q.y), R(q.x))
        /\ R(AddLoose(p.y, p.x)) = Mod(m)!Sum(R(p.y), R(p.x))
        /\ R(AddLoose(q.y, q.x)) = Mod(m)!Sum(R(q.y), R(q.x))
    BY <1>3, AddResidue, SubtractResidue
  <1>5. s \in PartsOf(kind) /\ kind \in Kinds
    BY TorsionParts DEF PartsOf, Kinds
  <1>6. s.a \in [Limb -> Int] /\ s.b \in [Limb -> Int] /\ s.c \in [Limb -> Int] /\ s.d \in [Limb -> Int]
    BY <1>5, OperandsAreLimbs DEF PartsOf
  <1>7. RawSums(kind, s) = u
    BY DEF RawSums
  <1> HIDE DEF P, Q
  <1>8. R(s.a) = a
    <2>1. R(Multiply(Subtract(p.y, p.x), AddLoose(q.y, q.x)))
            = Mod(m)!Product(R(Subtract(p.y, p.x)), R(AddLoose(q.y, q.x)))
      BY <1>3, ProductResidue
    <2> QED BY <1>1, <1>4, <2>1 DEF TorsionProducts
  <1>9. R(s.b) = b
    <2>1. R(Multiply(AddLoose(p.y, p.x), Subtract(q.y, q.x)))
            = Mod(m)!Product(R(AddLoose(p.y, p.x)), R(Subtract(q.y, q.x)))
      BY <1>3, ProductResidue
    <2> QED BY <1>1, <1>4, <2>1 DEF TorsionProducts
  <1>10. R(s.c) = c
    <2>1. R(Multiply(p.t, q.t)) = Mod(m)!Product(R(p.t), R(q.t))
      BY <1>3, ProductResidue
    <2>2. R(Multiply(Multiply(p.t, q.t), TWO_D)) = Mod(m)!Product(R(Multiply(p.t, q.t)), R(TWO_D))
      BY <1>3, ConstantResidues, ProductResidue
    <2> QED BY <1>1, <2>1, <2>2, ConstantResidues DEF TorsionProducts
  <1>11. R(s.d) = d
    <2>1. R(AddLoose(p.z, p.z)) = Mod(m)!Sum(R(p.z), R(p.z))
      BY <1>3, AddResidue
    <2> QED BY <1>1, <2>1 DEF TorsionProducts, DoubleLoose
  <1> HIDE DEF s
  <1>12. /\ R(u.e) = Mod(m)!Difference(R(s.b), R(s.a)) /\ R(u.f) = Mod(m)!Sum(R(s.d), R(s.c))
         /\ R(u.g) = Mod(m)!Difference(R(s.d), R(s.c)) /\ R(u.h) = Mod(m)!Sum(R(s.b), R(s.a))
    BY <1>6, PlusResidue, MinusResidue DEF TorsionSums
  <1> HIDE DEF u
  <1>13. /\ r.e \in Operands /\ r.f \in Operands /\ r.g \in Operands /\ r.h \in Operands
         /\ R(r.e) = R(u.e) /\ R(r.f) = R(u.f) /\ R(r.g) = R(u.g) /\ R(r.h) = R(u.h)
    <2> HIDE DEF kind
    <2> QED BY <1>5, <1>7, SumsResidue
  <1> HIDE DEF r
  <1>14. R(difference.x) = Mod(m)!Product(R(r.e), R(r.f)) /\ R(difference.y) = Mod(m)!Product(R(r.g), R(r.h))
    BY <1>13, PointResidue
  <1>15. /\ expected.x = Mod(m)!Product(Mod(m)!Difference(b, a), Mod(m)!Sum(d, c))
         /\ expected.y = Mod(m)!Product(Mod(m)!Difference(d, c), Mod(m)!Sum(b, a))
    BY <1>2, OppositeAdded
  <1> HIDE DEF difference, a, b, c, d, expected
  <1>16. R(difference.x) = expected.x /\ R(difference.y) = expected.y
    BY <1>8, <1>9, <1>10, <1>11, <1>12, <1>13, <1>14, <1>15, Zenon
  <1> QED BY <1>16 DEF difference, r, s, P, Q, expected, kind

-----------------------------------------------------------------------------
\* What is at hand between the steps of a formula belongs to that formula.
CourseHolds ==
    /\ phase # "idle" =>
         /\ formula.kind # "none"
         /\ formula.kind \in {"add", "addAffine", "torsionProduct"} => formula.computeT
    /\ phase = "sums" => parts = Products(formula)
    /\ phase = "result" => sums = SumsOf(formula.kind, Products(formula))

\* The kinds of the formulas that the lane begins
LEMMA NextMultipleKind ==
  ASSUME multiples \in Seq(Points), Len(multiples) >= 1, Len(multiples) < 8
  PROVE  NextMultiple.kind # "none" /\ NextMultiple.computeT
  <1> DEFINE n == Len(multiples)
  <1>1. n \in {1, 2, 3, 4, 5, 6, 7}
    <2>1. n \in Nat /\ n >= 1 /\ n < 8
      OBVIOUS
    <2> HIDE DEF n
    <2>2. n = 1 \/ n = 2 \/ n = 3 \/ n = 4 \/ n = 5 \/ n = 6 \/ n = 7
      BY <2>1
    <2> QED BY <2>2
  <1> HIDE DEF n
  <1>2. CASE n = 1
    BY <1>2 DEF NextMultiple, Formula, n
  <1>3. CASE n = 2
    BY <1>3 DEF NextMultiple, Formula, n
  <1>4. CASE n = 3
    BY <1>4 DEF NextMultiple, Formula, n
  <1>5. CASE n = 4
    BY <1>5 DEF NextMultiple, Formula, n
  <1>6. CASE n = 5
    BY <1>6 DEF NextMultiple, Formula, n
  <1>7. CASE n = 6
    BY <1>7 DEF NextMultiple, Formula, n
  <1>8. CASE n = 7
    BY <1>8 DEF NextMultiple, Formula, n
  <1> QED BY <1>1, <1>2, <1>3, <1>4, <1>5, <1>6, <1>7, <1>8

LEMMA LadderKind ==
  ASSUME NEW step \in StepNames
  PROVE  LadderFormula(step).kind \in {"double", "addCached"}
  BY DEF StepNames, LadderFormula, Formula

LEMMA CourseStarts == Init => CourseHolds
  BY DEF Init, CourseHolds

LEMMA CourseKept == IInv /\ CourseHolds /\ [Next]_vars => CourseHolds'
  <1> SUFFICES ASSUME IInv, CourseHolds, [Next]_vars PROVE CourseHolds'
    OBVIOUS
  <1>t. TypesHold /\ StageHolds
    BY DEF IInv
  <1>1. CASE UNCHANGED <<formula, parts, sums, phase>>
    BY <1>1 DEF CourseHolds
  <1>2. CASE TakeProducts
    BY <1>2 DEF TakeProducts, CourseHolds
  <1>3. CASE TakeSums
    BY <1>3 DEF TakeSums, CourseHolds, SumsOf
  <1>4. ASSUME phase' = "idle" PROVE CourseHolds'
    BY <1>4 DEF CourseHolds
  <1>5. ASSUME phase' = "products", formula'.kind # "none",
               formula'.kind \in {"add", "addAffine", "torsionProduct"} => formula'.computeT
        PROVE  CourseHolds'
    BY <1>5 DEF CourseHolds
  <1>6. CASE BeginMultiple
    <2>1. NextMultiple.kind # "none" /\ NextMultiple.computeT
      BY <1>t, <1>6, NextMultipleKind DEF TypesHold, StageHolds, BeginMultiple
    <2> QED BY <1>5, <1>6, <2>1 DEF BeginMultiple, Begin
  <1>7. CASE BeginLadderStep
    <2> DEFINE step == LadderSteps[position]
    <2>1. step \in StepNames
      <3>1. position \in 1..Len(LadderSteps)
        BY <1>t, <1>7, StepsNamed DEF StageHolds, BeginLadderStep
      <3> QED BY <3>1, StepsNamed, Indexed
    <2>2. formula' = LadderFormula(step) /\ phase' = "products"
      BY <1>7 DEF BeginLadderStep, Begin
    <2> HIDE DEF step
    <2> QED BY <1>5, <2>1, <2>2, LadderKind
  <1>8. CASE BeginTorsion
    <2>1. phase' = "products" /\ (\/ formula' = Formula("torsion", acc, multiples[1], FALSE)
                                  \/ formula' = Formula("torsionProduct", acc, acc, TRUE))
      BY <1>8 DEF BeginTorsion, Begin
    <2> QED BY <1>5, <2>1 DEF Formula
  <1>9. CASE BeginSmallOrder
    BY <1>5, <1>9 DEF BeginSmallOrder, Begin, Formula
  <1>10. CASE KeepMultiple \/ KeepAccumulator \/ KeepDifference \/ ScoreTorsion
    <2>1. TakeResult
      BY <1>10 DEF KeepMultiple, KeepAccumulator, KeepDifference, ScoreTorsion
    <2> QED BY <1>4, <2>1 DEF TakeResult
  <1>11. CASE Setup \/ SquareInChain \/ MultiplyInChain \/ Finish \/ LoadTopDigit \/ LeaveLadder
    BY <1>1, <1>11 DEF Setup, SquareInChain, MultiplyInChain, Finish, LoadTopDigit, LeaveLadder
  <1>12. CASE ScoreDecoded \/ Compress \/ ScoreSmallOrder \/ NextLane
    BY <1>1, <1>12 DEF ScoreDecoded, Compress, ScoreSmallOrder, NextLane
  <1>13. CASE UNCHANGED vars
    BY <1>1, <1>13 DEF vars
  <1> QED BY <1>2, <1>3, <1>6, <1>7, <1>8, <1>9, <1>10, <1>11, <1>12, <1>13 DEF Next

-----------------------------------------------------------------------------
\* Every kind of formula, against Edwards
LEMMA FormulasFollow == IInv /\ CourseHolds => FormulasExact
  <1> SUFFICES ASSUME IInv, CourseHolds, phase = "result", NEW m \in Factors,
                      NEW c \in CASE formula.kind = "torsion" -> {"x", "y"}
                                  [] formula.kind = "torsionProduct" -> {"t"}
                                  [] OTHER -> {"x", "y", "z", "t"}
               PROVE  Residue(Result[c], m) = ExpectedResult(m)[c]
    BY Zenon DEF FormulasExact
  <1> DEFINE kind == formula.kind
             left == formula.left
             right == formula.right
             t == formula.computeT
  <1>1. /\ formula \in Formulas /\ kind \in Kinds \ {"none"} /\ left \in Points /\ t \in BOOLEAN
        /\ kind \in {"add", "addAffine", "torsionProduct"} => t = TRUE
    BY DEF IInv, TypesHold, CourseHolds, Formulas, Kinds
  <1>2. Result = PointOf(kind, SumsOf(kind, Products(formula)), t)
    BY DEF CourseHolds, Result
  <1>3. CASE kind = "double"
    <2>1. Products(formula) = DoubleProducts(left, FALSE)
      BY <1>3 DEF Products
    <2>2. ExpectedResult(m) = Mod(m)!DoubleImpl(ResiduesOf(left, m), t, FALSE)
      BY <1>3 DEF ExpectedResult
    <2>3. c \in {"x", "y", "z", "t"}
      BY <1>3
    <2> HIDE DEF left, t, kind
    <2>4. \A n \in {"x", "y", "z", "t"} :
              Residue(PointOf(kind, SumsOf(kind, DoubleProducts(left, FALSE)), t)[n], m)
                = Mod(m)!DoubleImpl(ResiduesOf(left, m), t, FALSE)[n]
      <3> DEFINE affineZ == FALSE
      <3>1. kind \in {"double", "doubleAffine"} /\ affineZ \in BOOLEAN
        BY <1>3
      <3> HIDE DEF affineZ
      <3>2. \A n \in {"x", "y", "z", "t"} :
                Residue(PointOf(kind, SumsOf(kind, DoubleProducts(left, affineZ)), t)[n], m)
                  = Mod(m)!DoubleImpl(ResiduesOf(left, m), t, affineZ)[n]
        BY <1>1, <3>1, DoubleExact
      <3> QED BY <3>2 DEF affineZ
    <2> QED BY <1>2, <2>1, <2>2, <2>3, <2>4
  <1>4. CASE kind = "doubleAffine"
    <2>1. Products(formula) = DoubleProducts(left, TRUE)
      BY <1>4 DEF Products
    <2>2. ExpectedResult(m) = Mod(m)!DoubleImpl(ResiduesOf(left, m), t, TRUE)
      BY <1>4 DEF ExpectedResult
    <2>3. c \in {"x", "y", "z", "t"}
      BY <1>4
    <2> HIDE DEF left, t, kind
    <2>4. \A n \in {"x", "y", "z", "t"} :
              Residue(PointOf(kind, SumsOf(kind, DoubleProducts(left, TRUE)), t)[n], m)
                = Mod(m)!DoubleImpl(ResiduesOf(left, m), t, TRUE)[n]
      <3> DEFINE affineZ == TRUE
      <3>1. kind \in {"double", "doubleAffine"} /\ affineZ \in BOOLEAN
        BY <1>4
      <3> HIDE DEF affineZ
      <3>2. \A n \in {"x", "y", "z", "t"} :
                Residue(PointOf(kind, SumsOf(kind, DoubleProducts(left, affineZ)), t)[n], m)
                  = Mod(m)!DoubleImpl(ResiduesOf(left, m), t, affineZ)[n]
        BY <1>1, <3>1, DoubleExact
      <3> QED BY <3>2 DEF affineZ
    <2> QED BY <1>2, <2>1, <2>2, <2>3, <2>4
  <1>5. CASE kind = "torsionProduct"
    <2>1. Products(formula) = [DoubleProducts(left, TRUE) EXCEPT !.c = Zero]
      BY <1>5 DEF Products
    <2>2. ExpectedResult(m) = Mod(m)!DoubleImpl(ResiduesOf(left, m), TRUE, TRUE)
      BY <1>5 DEF ExpectedResult
    <2>3. c = "t"
      BY <1>5
    <2>4. t = TRUE
      BY <1>1, <1>5
    <2> HIDE DEF left, t, kind
    <2>5. Residue(PointOf("torsionProduct", SumsOf("torsionProduct", [DoubleProducts(left, TRUE) EXCEPT !.c = Zero]), TRUE).t, m)
            = Mod(m)!DoubleImpl(ResiduesOf(left, m), TRUE, TRUE).t
      BY <1>1, TorsionDoubleExact
    <2> QED BY <1>2, <1>5, <2>1, <2>2, <2>3, <2>4, <2>5
  <1>6. CASE kind \in {"add", "addAffine"}
    <2> DEFINE affineRhs == kind = "addAffine"
    <2>1. Products(formula) = AddProducts(left, right, affineRhs) /\ right \in Points
      BY <1>1, <1>6 DEF Products, Formulas
    <2>2. ExpectedResult(m) = Mod(m)!AddImpl(ResiduesOf(left, m), ResiduesOf(right, m), affineRhs)
      BY <1>6 DEF ExpectedResult, Mod!Add, Mod!AddAffineRhs
    <2>3. c \in {"x", "y", "z", "t"}
      BY <1>6
    <2>4. t = TRUE
      BY <1>1, <1>6
    <2> HIDE DEF left, right, t, kind
    <2>5. \A n \in {"x", "y", "z", "t"} :
              Residue(PointOf(kind, SumsOf(kind, AddProducts(left, right, affineRhs)), TRUE)[n], m)
                = Mod(m)!AddImpl(ResiduesOf(left, m), ResiduesOf(right, m), affineRhs)[n]
      <3>1. kind \in {"add", "addAffine"} /\ left \in Points /\ right \in Points
        BY <1>1, <1>6, <2>1
      <3> QED BY <3>1, AddExact, Zenon
    <2> QED BY <1>2, <2>1, <2>2, <2>3, <2>4, <2>5
  <1>7. CASE kind = "addCached"
    <2>1. Products(formula) = AddCachedProducts(left, right) /\ right \in Entries
      BY <1>1, <1>7 DEF Products, Formulas
    <2>2. ExpectedResult(m) = Mod(m)!AddCached(ResiduesOf(left, m), ResiduesOf(right, m), t)
      BY <1>7 DEF ExpectedResult
    <2>3. c \in {"x", "y", "z", "t"}
      BY <1>7
    <2> HIDE DEF left, right, t, kind
    <2>4. \A n \in {"x", "y", "z", "t"} :
              Residue(PointOf("addCached", SumsOf("addCached", AddCachedProducts(left, right)), t)[n], m)
                = Mod(m)!AddCached(ResiduesOf(left, m), ResiduesOf(right, m), t)[n]
      BY <1>1, <2>1, CachedExact
    <2> QED BY <1>2, <1>7, <2>1, <2>2, <2>3, <2>4
  <1>8. CASE kind = "torsion"
    <2>1. Products(formula) = TorsionProducts(left, right) /\ right \in Points
      BY <1>1, <1>8 DEF Products, Formulas
    <2>2. ExpectedResult(m) = Mod(m)!AddAffineRhs(ResiduesOf(left, m), Opposite(ResiduesOf(right, m), m))
      BY <1>8 DEF ExpectedResult
    <2>3. c \in {"x", "y"}
      BY <1>8
    <2> HIDE DEF left, right, t, kind
    <2>4. \A n \in {"x", "y"} :
              Residue(PointOf("torsion", SumsOf("torsion", TorsionProducts(left, right)), t)[n], m)
                = Mod(m)!AddAffineRhs(ResiduesOf(left, m), Opposite(ResiduesOf(right, m), m))[n]
      BY <1>1, <2>1, TorsionExact
    <2> QED BY <1>2, <1>8, <2>1, <2>2, <2>3, <2>4
  <1> QED BY <1>1, <1>3, <1>4, <1>5, <1>6, <1>7, <1>8 DEF Kinds

\* Every formula of point.rs that the lane evaluates on limbs yields, modulo
\* each factor of p, the point that the same formula yields on residues.
THEOREM FormulasAlwaysExact == Spec => []FormulasExact
  <1>1. Spec => [](IInv /\ CourseHolds)
    BY InitHolds, NextHolds, CourseStarts, CourseKept, PTL DEF Spec
  <1> QED BY <1>1, FormulasFollow, PTL

-----------------------------------------------------------------------------
(***************************************************************************)
(* The powers of a chain                                                   *)
(***************************************************************************)
\* A set of natural numbers that is not empty has a least element.
LEMMA HasLeast ==
  ASSUME NEW T \in SUBSET Nat, T # {}
  PROVE  \E x \in T : \A y \in T : x <= y
  <1>1. PICK x \in T : \A y \in T : ~ (<<y, x>> \in OpToRel(<, Nat))
    BY NatLessThanWellFounded, WFMin
  <1>2. \A y \in T : ~ (y < x)
    BY <1>1 DEF OpToRel
  <1> QED BY <1>2

\* What SquaredTimes asks of its function, and what comes of it
Squares(f, a, n, m) ==
    f = [i \in 0..n |-> IF i = 0 THEN a ELSE LET before == f[i - 1] IN (before * before) % m]

LEMMA SquaredIsInt ==
  ASSUME NEW m \in Nat \ {0}, NEW x \in Int
  PROVE  (x * x) % m \in 0..(m - 1) /\ (x * x) % m \in Int
  <1> DEFINE xx == x * x
  <1>1. xx \in Int
    OBVIOUS
  <1> HIDE DEF xx
  <1>2. xx % m \in 0..(m - 1)
    BY <1>1, Divided
  <1> QED BY <1>2 DEF xx

LEMMA SquaresValues ==
  ASSUME NEW m \in Nat \ {0}, NEW a \in Int, NEW n \in Nat, NEW f, Squares(f, a, n, m)
  PROVE  f[0] = a /\ \A i \in 1..n : f[i] = (f[i - 1] * f[i - 1]) % m
  <1> DEFINE value(i) == IF i = 0 THEN a ELSE LET before == f[i - 1] IN (before * before) % m
  <1>1. \A i \in 0..n : f[i] = value(i)
    <2> DEFINE g == [i \in 0..n |-> value(i)]
    <2>1. f = g
      BY DEF Squares
    <2>2. \A i \in 0..n : g[i] = value(i)
      OBVIOUS
    <2> HIDE DEF g, value
    <2> QED BY <2>1, <2>2
  <1>2. 0 \in 0..n /\ \A i \in 1..n : i \in 0..n /\ i # 0
    OBVIOUS
  <1> QED BY <1>1, <1>2

\* Two such functions agree as far as both go.
LEMMA SquaresAgree ==
  ASSUME NEW m \in Nat \ {0}, NEW a \in Int, NEW n \in Nat, NEW k \in Nat, n <= k,
         NEW f, NEW g, Squares(f, a, n, m), Squares(g, a, k, m)
  PROVE  \A i \in 0..n : f[i] = g[i]
  <1> DEFINE bad == {i \in 0..n : f[i] # g[i]}
  <1>1. SUFFICES ASSUME bad # {} PROVE FALSE
    OBVIOUS
  <1>2. PICK i \in bad : \A j \in bad : i <= j
    <2>1. bad \in SUBSET Nat
      OBVIOUS
    <2> HIDE DEF bad
    <2> QED BY <1>1, <2>1, HasLeast
  <1>3. f[0] = a /\ g[0] = a /\ (\A j \in 1..n : f[j] = (f[j - 1] * f[j - 1]) % m)
        /\ \A j \in 1..k : g[j] = (g[j - 1] * g[j - 1]) % m
    BY SquaresValues
  <1>4. i \in 1..n /\ i \in 1..k /\ i - 1 \in 0..n /\ f[i] # g[i]
    BY <1>3
  <1>5. f[i - 1] = g[i - 1]
    BY <1>2, <1>4
  <1>6. f[i] = (f[i - 1] * f[i - 1]) % m /\ g[i] = (g[i - 1] * g[i - 1]) % m
    BY <1>3, <1>4
  <1> QED BY <1>4, <1>5, <1>6

\* There is one.
LEMMA SquaresExist ==
  ASSUME NEW m \in Nat \ {0}, NEW a \in Int, NEW n \in Nat
  PROVE  \E f : f \in [0..n -> Int] /\ Squares(f, a, n, m)
  <1> DEFINE Good(k) == \E f : f \in [0..k -> Int] /\ Squares(f, a, k, m)
             bad == {k \in 0..n : ~Good(k)}
  <1>1. SUFFICES ASSUME bad # {} PROVE FALSE
    <2>1. n \in 0..n
      OBVIOUS
    <2> QED BY <2>1
  <1>2. PICK k \in bad : \A j \in bad : k <= j
    <2>1. bad \in SUBSET Nat
      OBVIOUS
    <2> HIDE DEF bad
    <2> QED BY <1>1, <2>1, HasLeast
  <1>3. k \in 0..n /\ ~Good(k)
    OBVIOUS
  <1>4. k # 0
    <2> DEFINE f == [j \in 0..0 |-> a]
    <2>1. f \in [0..0 -> Int] /\ Squares(f, a, 0, m)
      BY DEF Squares
    <2> HIDE DEF f
    <2>2. Good(0)
      BY <2>1
    <2> QED BY <1>3, <2>2
  <1>5. Good(k - 1)
    BY <1>2, <1>3, <1>4
  <1>6. PICK f : f \in [0..(k - 1) -> Int] /\ Squares(f, a, k - 1, m)
    BY <1>5
  <1> DEFINE last == (f[k - 1] * f[k - 1]) % m
             g == [j \in 0..k |-> IF j < k THEN f[j] ELSE last]
  <1>7. f[0] = a /\ \A j \in 1..(k - 1) : f[j] = (f[j - 1] * f[j - 1]) % m
    <2>1. PICK before \in Nat : before = k - 1
      BY <1>3, <1>4
    <2>2. Squares(f, a, before, m)
      BY <1>6, <2>1
    <2>3. f[0] = a /\ \A j \in 1..before : f[j] = (f[j - 1] * f[j - 1]) % m
      BY <2>2, SquaresValues
    <2> QED BY <2>1, <2>3
  <1>8. last \in Int
    <2>1. f[k - 1] \in Int
      BY <1>3, <1>4, <1>6
    <2> QED BY <2>1, SquaredIsInt
  <1> HIDE DEF last
  <1>9. g \in [0..k -> Int]
    BY <1>3, <1>6, <1>8
  <1>10. ASSUME NEW j \in 0..k
         PROVE  g[j] = IF j = 0 THEN a ELSE LET before == g[j - 1] IN (before * before) % m
    <2>1. CASE j = 0
      BY <1>3, <1>4, <1>7, <2>1
    <2>2. CASE j \in 1..(k - 1)
      <3>1. g[j] = f[j] /\ g[j - 1] = f[j - 1]
        BY <1>3, <2>2
      <3> HIDE DEF g
      <3> QED BY <1>7, <2>2, <3>1
    <2>3. CASE j = k
      <3>1. g[j] = last /\ g[j - 1] = f[k - 1] /\ j # 0
        BY <1>3, <1>4, <2>3
      <3> HIDE DEF g
      <3> QED BY <3>1 DEF last
    <2>4. j = 0 \/ j \in 1..(k - 1) \/ j = k
      BY <1>3
    <2> HIDE DEF g
    <2> QED BY <2>1, <2>2, <2>3, <2>4
  <1>11. Squares(g, a, k, m)
    <2>1. g = [j \in 0..k |-> g[j]]
      BY <1>9
    <2> HIDE DEF g
    <2> QED BY <1>10, <2>1 DEF Squares
  <1> HIDE DEF g
  <1>12. Good(k)
    BY <1>9, <1>11
  <1> QED BY <1>3, <1>12

\* What it is to square once more
LEMMA SquaredOnceMore ==
  ASSUME NEW m \in Nat \ {0}, NEW a \in Int, NEW n \in Nat
  PROVE  /\ SquaredTimes(a, n, m) \in Int /\ SquaredTimes(a, 0, m) = a
         /\ SquaredTimes(a, n + 1, m) = (SquaredTimes(a, n, m) * SquaredTimes(a, n, m)) % m
  <1>1. ASSUME NEW k \in Nat
        PROVE  \E f : f \in [0..k -> Int] /\ Squares(f, a, k, m) /\ SquaredTimes(a, k, m) = f[k]
    <2> DEFINE chosen == CHOOSE f : Squares(f, a, k, m)
    <2>1. PICK f : f \in [0..k -> Int] /\ Squares(f, a, k, m)
      BY SquaresExist
    <2>2. Squares(chosen, a, k, m)
      BY <2>1, Zenon
    <2>3. \A j \in 0..k : chosen[j] = f[j]
      <3> HIDE DEF chosen
      <3> QED BY <2>1, <2>2, SquaresAgree
    <2>4. SquaredTimes(a, k, m) = chosen[k]
      BY Zenon DEF SquaredTimes, Squares
    <2> HIDE DEF chosen
    <2> QED BY <2>1, <2>3, <2>4
  <1>2. PICK f : f \in [0..n -> Int] /\ Squares(f, a, n, m) /\ SquaredTimes(a, n, m) = f[n]
    BY <1>1
  <1>n. PICK next \in Nat : next = n + 1
    OBVIOUS
  <1>3. 0 \in Nat /\ n <= next /\ next \in 1..next /\ next - 1 = n
    BY <1>n
  <1>4. PICK g : g \in [0..next -> Int] /\ Squares(g, a, next, m) /\ SquaredTimes(a, next, m) = g[next]
    BY <1>1, <1>3
  <1>5. PICK h : h \in [0..0 -> Int] /\ Squares(h, a, 0, m) /\ SquaredTimes(a, 0, m) = h[0]
    BY <1>1, <1>3
  <1>6. \A i \in 0..n : f[i] = g[i]
    <2>1. Squares(f, a, n, m) /\ Squares(g, a, next, m) /\ n <= next
      BY <1>2, <1>3, <1>4
    <2> QED BY <2>1, SquaresAgree
  <1>7. f[n] \in Int /\ f[n] = g[n]
    BY <1>2, <1>6
  <1>8. g[next] = (g[n] * g[n]) % m
    <2>0. Squares(g, a, next, m)
      BY <1>4
    <2>1. \A i \in 1..next : g[i] = (g[i - 1] * g[i - 1]) % m
      BY <2>0, SquaresValues
    <2>2. g[next] = (g[next - 1] * g[next - 1]) % m
      BY <1>3, <2>1
    <2> QED BY <1>3, <2>2
  <1>9. h[0] = a
    BY <1>3, <1>5, SquaresValues
  <1>10. SquaredTimes(a, next, m) = (SquaredTimes(a, n, m) * SquaredTimes(a, n, m)) % m
    BY <1>2, <1>4, <1>7, <1>8
  <1> QED BY <1>2, <1>5, <1>7, <1>9, <1>10, <1>n

-----------------------------------------------------------------------------
(***************************************************************************)
(* The exponents of the chains, bit by bit                                 *)
(***************************************************************************)
Shifted(S, k) == {i + k : i \in S}

\* The bits of the power that a step makes of those before it
Grown(f, step) == Shifted(f[step.of], step.times) \cup (IF step.by = 0 THEN {} ELSE f[step.by])

\* And whether the two that are multiplied have none in common
Apart(f, step) == step.by = 0 \/ Shifted(f[step.of], step.times) \cap f[step.by] = {}

LEMMA MadeFields ==
  ASSUME NEW of, NEW times, NEW by
  PROVE  Made(of, times, by).of = of /\ Made(of, times, by).times = times /\ Made(of, times, by).by = by
  BY DEF Made

\* Each step of the code makes the next of these exponents of the earlier ones.
LEMMA BitsGrow ==
  ASSUME NEW f
  PROVE  /\ f[1] = {0} => Grown(f, Made(1, 1, 0)) = {1} /\ Apart(f, Made(1, 1, 0))
         /\ f[1] = {0} /\ f[2] = {1} => Grown(f, Made(2, 2, 1)) = {0, 3} /\ Apart(f, Made(2, 2, 1))
         /\ f[2] = {1} /\ f[3] = {0, 3} => Grown(f, Made(2, 0, 3)) = {0, 1, 3} /\ Apart(f, Made(2, 0, 3))
         /\ f[3] = {0, 3} /\ f[4] = {0, 1, 3} => Grown(f, Made(4, 1, 3)) = 0..4 /\ Apart(f, Made(4, 1, 3))
         /\ f[5] = 0..4 => Grown(f, Made(5, 5, 5)) = 0..9 /\ Apart(f, Made(5, 5, 5))
         /\ f[6] = 0..9 => Grown(f, Made(6, 10, 6)) = 0..19 /\ Apart(f, Made(6, 10, 6))
         /\ f[7] = 0..19 => Grown(f, Made(7, 20, 7)) = 0..39 /\ Apart(f, Made(7, 20, 7))
         /\ f[6] = 0..9 /\ f[8] = 0..39 => Grown(f, Made(8, 10, 6)) = 0..49 /\ Apart(f, Made(8, 10, 6))
         /\ f[9] = 0..49 => Grown(f, Made(9, 50, 9)) = 0..99 /\ Apart(f, Made(9, 50, 9))
         /\ f[10] = 0..99 => Grown(f, Made(10, 100, 10)) = 0..199 /\ Apart(f, Made(10, 100, 10))
         /\ f[9] = 0..49 /\ f[11] = 0..199 => Grown(f, Made(11, 50, 9)) = 0..249 /\ Apart(f, Made(11, 50, 9))
         /\ f[1] = {0} /\ f[12] = 0..249 => Grown(f, Made(12, 2, 1)) = PowBits /\ Apart(f, Made(12, 2, 1))
         /\ f[4] = {0, 1, 3} /\ f[12] = 0..249 => Grown(f, Made(12, 5, 4)) = InvertBits /\ Apart(f, Made(12, 5, 4))
  <1>1. ASSUME f[1] = {0} PROVE Grown(f, Made(1, 1, 0)) = {1} /\ Apart(f, Made(1, 1, 0))
    <2> DEFINE step == Made(1, 1, 0)
    <2>1. step.of = 1 /\ step.times = 1 /\ step.by = 0
      BY MadeFields
    <2>2. Shifted({0}, 1) = {1}
      BY DEF Shifted
    <2> HIDE DEF step
    <2>3. Shifted(f[step.of], step.times) = {1}
      BY <1>1, <2>1, <2>2
    <2> QED BY <2>1, <2>3 DEF Grown, Apart, step
  <1>2. ASSUME f[1] = {0}, f[2] = {1} PROVE Grown(f, Made(2, 2, 1)) = {0, 3} /\ Apart(f, Made(2, 2, 1))
    <2> DEFINE step == Made(2, 2, 1)
    <2>1. step.of = 2 /\ step.times = 2 /\ step.by = 1
      BY MadeFields
    <2>2. Shifted({1}, 2) = {3}
      BY DEF Shifted
    <2> HIDE DEF step
    <2>3. Shifted(f[step.of], step.times) = {3}
      BY <1>2, <2>1, <2>2
    <2>4. {3} \cup {0} = {0, 3}
      <3>1. \A x : x \in {3} \cup {0} <=> x \in {0, 3}
        OBVIOUS
      <3> QED BY <3>1
    <2>5. {3} \cap {0} = {}
      <3>1. \A x \in {3} : x \notin {0}
        OBVIOUS
      <3> QED BY <3>1
    <2>6. Shifted(f[step.of], step.times) \cap f[step.by] = {}
      BY <1>2, <2>1, <2>3, <2>5
    <2>7. Shifted(f[step.of], step.times) \cup f[step.by] = {0, 3}
      BY <1>2, <2>1, <2>3, <2>4
    <2>8. step.by # 0
      BY <2>1
    <2>9. Grown(f, step) = {0, 3} /\ Apart(f, step)
      BY <2>6, <2>7, <2>8 DEF Grown, Apart
    <2> QED BY <2>9 DEF step
  <1>3. ASSUME f[2] = {1}, f[3] = {0, 3} PROVE Grown(f, Made(2, 0, 3)) = {0, 1, 3} /\ Apart(f, Made(2, 0, 3))
    <2> DEFINE step == Made(2, 0, 3)
    <2>1. step.of = 2 /\ step.times = 0 /\ step.by = 3
      BY MadeFields
    <2>2. Shifted({1}, 0) = {1}
      BY DEF Shifted
    <2> HIDE DEF step
    <2>3. Shifted(f[step.of], step.times) = {1}
      BY <1>3, <2>1, <2>2
    <2>4. {1} \cup {0, 3} = {0, 1, 3}
      <3>1. \A x : x \in {1} \cup {0, 3} <=> x \in {0, 1, 3}
        OBVIOUS
      <3> QED BY <3>1
    <2>5. {1} \cap {0, 3} = {}
      <3>1. \A x \in {1} : x \notin {0, 3}
        OBVIOUS
      <3> QED BY <3>1
    <2>6. Shifted(f[step.of], step.times) \cap f[step.by] = {}
      BY <1>3, <2>1, <2>3, <2>5
    <2>7. Shifted(f[step.of], step.times) \cup f[step.by] = {0, 1, 3}
      BY <1>3, <2>1, <2>3, <2>4
    <2>8. step.by # 0
      BY <2>1
    <2>9. Grown(f, step) = {0, 1, 3} /\ Apart(f, step)
      BY <2>6, <2>7, <2>8 DEF Grown, Apart
    <2> QED BY <2>9 DEF step
  <1>4. ASSUME f[3] = {0, 3}, f[4] = {0, 1, 3} PROVE Grown(f, Made(4, 1, 3)) = 0..4 /\ Apart(f, Made(4, 1, 3))
    <2> DEFINE step == Made(4, 1, 3)
    <2>1. step.of = 4 /\ step.times = 1 /\ step.by = 3
      BY MadeFields
    <2>2. Shifted({0, 1, 3}, 1) = {1, 2, 4}
      BY DEF Shifted
    <2> HIDE DEF step
    <2>3. Shifted(f[step.of], step.times) = {1, 2, 4}
      BY <1>4, <2>1, <2>2
    <2>4. {1, 2, 4} \cup {0, 3} = 0..4
      <3>1. \A x : x \in {1, 2, 4} \cup {0, 3} <=> x \in 0..4
        OBVIOUS
      <3> QED BY <3>1
    <2>5. {1, 2, 4} \cap {0, 3} = {}
      <3>1. \A x \in {1, 2, 4} : x \notin {0, 3}
        OBVIOUS
      <3> QED BY <3>1
    <2>6. Shifted(f[step.of], step.times) \cap f[step.by] = {}
      BY <1>4, <2>1, <2>3, <2>5
    <2>7. Shifted(f[step.of], step.times) \cup f[step.by] = 0..4
      BY <1>4, <2>1, <2>3, <2>4
    <2>8. step.by # 0
      BY <2>1
    <2>9. Grown(f, step) = 0..4 /\ Apart(f, step)
      BY <2>6, <2>7, <2>8 DEF Grown, Apart
    <2> QED BY <2>9 DEF step
  <1>5. ASSUME f[5] = 0..4 PROVE Grown(f, Made(5, 5, 5)) = 0..9 /\ Apart(f, Made(5, 5, 5))
    <2> DEFINE step == Made(5, 5, 5)
    <2>1. step.of = 5 /\ step.times = 5 /\ step.by = 5
      BY MadeFields
    <2>2. Shifted(0..4, 5) = 5..9
      BY DEF Shifted
    <2> HIDE DEF step
    <2>3. Shifted(f[step.of], step.times) = 5..9
      BY <1>5, <2>1, <2>2
    <2>4. (5..9) \cup (0..4) = 0..9
      <3>1. \A x : x \in (5..9) \cup (0..4) <=> x \in 0..9
        OBVIOUS
      <3> QED BY <3>1
    <2>5. (5..9) \cap (0..4) = {}
      <3>1. \A x \in (5..9) : x \notin (0..4)
        OBVIOUS
      <3> QED BY <3>1
    <2>6. Shifted(f[step.of], step.times) \cap f[step.by] = {}
      BY <1>5, <2>1, <2>3, <2>5
    <2>7. Shifted(f[step.of], step.times) \cup f[step.by] = 0..9
      BY <1>5, <2>1, <2>3, <2>4
    <2>8. step.by # 0
      BY <2>1
    <2>9. Grown(f, step) = 0..9 /\ Apart(f, step)
      BY <2>6, <2>7, <2>8 DEF Grown, Apart
    <2> QED BY <2>9 DEF step
  <1>6. ASSUME f[6] = 0..9 PROVE Grown(f, Made(6, 10, 6)) = 0..19 /\ Apart(f, Made(6, 10, 6))
    <2> DEFINE step == Made(6, 10, 6)
    <2>1. step.of = 6 /\ step.times = 10 /\ step.by = 6
      BY MadeFields
    <2>2. Shifted(0..9, 10) = 10..19
      BY DEF Shifted
    <2> HIDE DEF step
    <2>3. Shifted(f[step.of], step.times) = 10..19
      BY <1>6, <2>1, <2>2
    <2>4. (10..19) \cup (0..9) = 0..19
      <3>1. \A x : x \in (10..19) \cup (0..9) <=> x \in 0..19
        OBVIOUS
      <3> QED BY <3>1
    <2>5. (10..19) \cap (0..9) = {}
      <3>1. \A x \in (10..19) : x \notin (0..9)
        OBVIOUS
      <3> QED BY <3>1
    <2>6. Shifted(f[step.of], step.times) \cap f[step.by] = {}
      BY <1>6, <2>1, <2>3, <2>5
    <2>7. Shifted(f[step.of], step.times) \cup f[step.by] = 0..19
      BY <1>6, <2>1, <2>3, <2>4
    <2>8. step.by # 0
      BY <2>1
    <2>9. Grown(f, step) = 0..19 /\ Apart(f, step)
      BY <2>6, <2>7, <2>8 DEF Grown, Apart
    <2> QED BY <2>9 DEF step
  <1>7. ASSUME f[7] = 0..19 PROVE Grown(f, Made(7, 20, 7)) = 0..39 /\ Apart(f, Made(7, 20, 7))
    <2> DEFINE step == Made(7, 20, 7)
    <2>1. step.of = 7 /\ step.times = 20 /\ step.by = 7
      BY MadeFields
    <2>2. Shifted(0..19, 20) = 20..39
      BY DEF Shifted
    <2> HIDE DEF step
    <2>3. Shifted(f[step.of], step.times) = 20..39
      BY <1>7, <2>1, <2>2
    <2>4. (20..39) \cup (0..19) = 0..39
      <3>1. \A x : x \in (20..39) \cup (0..19) <=> x \in 0..39
        OBVIOUS
      <3> QED BY <3>1
    <2>5. (20..39) \cap (0..19) = {}
      <3>1. \A x \in (20..39) : x \notin (0..19)
        OBVIOUS
      <3> QED BY <3>1
    <2>6. Shifted(f[step.of], step.times) \cap f[step.by] = {}
      BY <1>7, <2>1, <2>3, <2>5
    <2>7. Shifted(f[step.of], step.times) \cup f[step.by] = 0..39
      BY <1>7, <2>1, <2>3, <2>4
    <2>8. step.by # 0
      BY <2>1
    <2>9. Grown(f, step) = 0..39 /\ Apart(f, step)
      BY <2>6, <2>7, <2>8 DEF Grown, Apart
    <2> QED BY <2>9 DEF step
  <1>8. ASSUME f[6] = 0..9, f[8] = 0..39 PROVE Grown(f, Made(8, 10, 6)) = 0..49 /\ Apart(f, Made(8, 10, 6))
    <2> DEFINE step == Made(8, 10, 6)
    <2>1. step.of = 8 /\ step.times = 10 /\ step.by = 6
      BY MadeFields
    <2>2. Shifted(0..39, 10) = 10..49
      BY DEF Shifted
    <2> HIDE DEF step
    <2>3. Shifted(f[step.of], step.times) = 10..49
      BY <1>8, <2>1, <2>2
    <2>4. (10..49) \cup (0..9) = 0..49
      <3>1. \A x : x \in (10..49) \cup (0..9) <=> x \in 0..49
        OBVIOUS
      <3> QED BY <3>1
    <2>5. (10..49) \cap (0..9) = {}
      <3>1. \A x \in (10..49) : x \notin (0..9)
        OBVIOUS
      <3> QED BY <3>1
    <2>6. Shifted(f[step.of], step.times) \cap f[step.by] = {}
      BY <1>8, <2>1, <2>3, <2>5
    <2>7. Shifted(f[step.of], step.times) \cup f[step.by] = 0..49
      BY <1>8, <2>1, <2>3, <2>4
    <2>8. step.by # 0
      BY <2>1
    <2>9. Grown(f, step) = 0..49 /\ Apart(f, step)
      BY <2>6, <2>7, <2>8 DEF Grown, Apart
    <2> QED BY <2>9 DEF step
  <1>9. ASSUME f[9] = 0..49 PROVE Grown(f, Made(9, 50, 9)) = 0..99 /\ Apart(f, Made(9, 50, 9))
    <2> DEFINE step == Made(9, 50, 9)
    <2>1. step.of = 9 /\ step.times = 50 /\ step.by = 9
      BY MadeFields
    <2>2. Shifted(0..49, 50) = 50..99
      BY DEF Shifted
    <2> HIDE DEF step
    <2>3. Shifted(f[step.of], step.times) = 50..99
      BY <1>9, <2>1, <2>2
    <2>4. (50..99) \cup (0..49) = 0..99
      <3>1. \A x : x \in (50..99) \cup (0..49) <=> x \in 0..99
        OBVIOUS
      <3> QED BY <3>1
    <2>5. (50..99) \cap (0..49) = {}
      <3>1. \A x \in (50..99) : x \notin (0..49)
        OBVIOUS
      <3> QED BY <3>1
    <2>6. Shifted(f[step.of], step.times) \cap f[step.by] = {}
      BY <1>9, <2>1, <2>3, <2>5
    <2>7. Shifted(f[step.of], step.times) \cup f[step.by] = 0..99
      BY <1>9, <2>1, <2>3, <2>4
    <2>8. step.by # 0
      BY <2>1
    <2>9. Grown(f, step) = 0..99 /\ Apart(f, step)
      BY <2>6, <2>7, <2>8 DEF Grown, Apart
    <2> QED BY <2>9 DEF step
  <1>10. ASSUME f[10] = 0..99 PROVE Grown(f, Made(10, 100, 10)) = 0..199 /\ Apart(f, Made(10, 100, 10))
    <2> DEFINE step == Made(10, 100, 10)
    <2>1. step.of = 10 /\ step.times = 100 /\ step.by = 10
      BY MadeFields
    <2>2. Shifted(0..99, 100) = 100..199
      BY DEF Shifted
    <2> HIDE DEF step
    <2>3. Shifted(f[step.of], step.times) = 100..199
      BY <1>10, <2>1, <2>2
    <2>4. (100..199) \cup (0..99) = 0..199
      <3>1. \A x : x \in (100..199) \cup (0..99) <=> x \in 0..199
        OBVIOUS
      <3> QED BY <3>1
    <2>5. (100..199) \cap (0..99) = {}
      <3>1. \A x \in (100..199) : x \notin (0..99)
        OBVIOUS
      <3> QED BY <3>1
    <2>6. Shifted(f[step.of], step.times) \cap f[step.by] = {}
      BY <1>10, <2>1, <2>3, <2>5
    <2>7. Shifted(f[step.of], step.times) \cup f[step.by] = 0..199
      BY <1>10, <2>1, <2>3, <2>4
    <2>8. step.by # 0
      BY <2>1
    <2>9. Grown(f, step) = 0..199 /\ Apart(f, step)
      BY <2>6, <2>7, <2>8 DEF Grown, Apart
    <2> QED BY <2>9 DEF step
  <1>11. ASSUME f[9] = 0..49, f[11] = 0..199 PROVE Grown(f, Made(11, 50, 9)) = 0..249 /\ Apart(f, Made(11, 50, 9))
    <2> DEFINE step == Made(11, 50, 9)
    <2>1. step.of = 11 /\ step.times = 50 /\ step.by = 9
      BY MadeFields
    <2>2. Shifted(0..199, 50) = 50..249
      BY DEF Shifted
    <2> HIDE DEF step
    <2>3. Shifted(f[step.of], step.times) = 50..249
      <3>1. f[step.of] = f[11] /\ f[11] = 0..199 /\ step.times = 50
        BY <1>11, <2>1
      <3>2. Shifted(f[step.of], step.times) = Shifted(0..199, 50)
        BY <3>1
      <3> QED BY <3>2, <2>2
    <2>4. (50..249) \cup (0..49) = 0..249
      <3>1. \A x : x \in (50..249) \cup (0..49) <=> x \in 0..249
        OBVIOUS
      <3> QED BY <3>1
    <2>5. (50..249) \cap (0..49) = {}
      <3>1. \A x \in (50..249) : x \notin (0..49)
        OBVIOUS
      <3> QED BY <3>1
    <2>6. Shifted(f[step.of], step.times) \cap f[step.by] = {}
      BY <1>11, <2>1, <2>3, <2>5
    <2>7. Shifted(f[step.of], step.times) \cup f[step.by] = 0..249
      BY <1>11, <2>1, <2>3, <2>4
    <2>8. step.by # 0
      BY <2>1
    <2>9. Grown(f, step) = 0..249 /\ Apart(f, step)
      BY <2>6, <2>7, <2>8 DEF Grown, Apart
    <2> QED BY <2>9 DEF step
  <1>12. ASSUME f[1] = {0}, f[12] = 0..249 PROVE Grown(f, Made(12, 2, 1)) = PowBits /\ Apart(f, Made(12, 2, 1))
    <2> DEFINE step == Made(12, 2, 1)
    <2>1. step.of = 12 /\ step.times = 2 /\ step.by = 1
      BY MadeFields
    <2>2. Shifted(0..249, 2) = 2..251
      BY DEF Shifted
    <2> HIDE DEF step
    <2>3. Shifted(f[step.of], step.times) = 2..251
      <3>1. f[step.of] = f[12] /\ f[12] = 0..249 /\ step.times = 2
        BY <1>12, <2>1
      <3>2. Shifted(f[step.of], step.times) = Shifted(0..249, 2)
        BY <3>1
      <3> QED BY <3>2, <2>2
    <2>4. (2..251) \cup {0} = PowBits
      <3>1. \A x : x \in (2..251) \cup {0} <=> x \in PowBits
        BY DEF PowBits
      <3> QED BY <3>1
    <2>5. (2..251) \cap {0} = {}
      <3>1. \A x \in (2..251) : x \notin {0}
        OBVIOUS
      <3> QED BY <3>1
    <2>6. Shifted(f[step.of], step.times) \cap f[step.by] = {}
      BY <1>12, <2>1, <2>3, <2>5
    <2>7. Shifted(f[step.of], step.times) \cup f[step.by] = PowBits
      BY <1>12, <2>1, <2>3, <2>4
    <2>8. step.by # 0
      BY <2>1
    <2>9. Grown(f, step) = PowBits /\ Apart(f, step)
      BY <2>6, <2>7, <2>8 DEF Grown, Apart
    <2> QED BY <2>9 DEF step
  <1>13. ASSUME f[4] = {0, 1, 3}, f[12] = 0..249 PROVE Grown(f, Made(12, 5, 4)) = InvertBits /\ Apart(f, Made(12, 5, 4))
    <2> DEFINE step == Made(12, 5, 4)
    <2>1. step.of = 12 /\ step.times = 5 /\ step.by = 4
      BY MadeFields
    <2>2. Shifted(0..249, 5) = 5..254
      BY DEF Shifted
    <2> HIDE DEF step
    <2>3. Shifted(f[step.of], step.times) = 5..254
      <3>1. f[step.of] = f[12] /\ f[12] = 0..249 /\ step.times = 5
        BY <1>13, <2>1
      <3>2. Shifted(f[step.of], step.times) = Shifted(0..249, 5)
        BY <3>1
      <3> QED BY <3>2, <2>2
    <2>4. (5..254) \cup {0, 1, 3} = InvertBits
      <3>1. \A x : x \in (5..254) \cup {0, 1, 3} <=> x \in InvertBits
        BY DEF InvertBits
      <3> QED BY <3>1
    <2>5. (5..254) \cap {0, 1, 3} = {}
      <3>1. \A x \in (5..254) : x \notin {0, 1, 3}
        OBVIOUS
      <3> QED BY <3>1
    <2>6. Shifted(f[step.of], step.times) \cap f[step.by] = {}
      BY <1>13, <2>1, <2>3, <2>5
    <2>7. Shifted(f[step.of], step.times) \cup f[step.by] = InvertBits
      BY <1>13, <2>1, <2>3, <2>4
    <2>8. step.by # 0
      BY <2>1
    <2>9. Grown(f, step) = InvertBits /\ Apart(f, step)
      BY <2>6, <2>7, <2>8 DEF Grown, Apart
    <2> QED BY <2>9 DEF step
  <1> QED BY <1>1, <1>2, <1>3, <1>4, <1>5, <1>6, <1>7, <1>8, <1>9, <1>10, <1>11, <1>12, <1>13

-----------------------------------------------------------------------------
\* The steps of the code's chains, one by one
Step(n, last) ==
    CASE n = 1 -> Made(1, 1, 0)  [] n = 2 -> Made(2, 2, 1)   [] n = 3 -> Made(2, 0, 3)
      [] n = 4 -> Made(4, 1, 3)  [] n = 5 -> Made(5, 5, 5)   [] n = 6 -> Made(6, 10, 6)
      [] n = 7 -> Made(7, 20, 7) [] n = 8 -> Made(8, 10, 6)  [] n = 9 -> Made(9, 50, 9)
      [] n = 10 -> Made(10, 100, 10) [] n = 11 -> Made(11, 50, 9) [] n = 12 -> last

Whole(steps, last) == Len(steps) = 12 /\ DOMAIN steps = 1..12 /\ \A n \in 1..12 : steps[n] = Step(n, last)

LEMMA StepsAre ==
  ASSUME NEW last \in {Made(12, 2, 1), Made(12, 5, 4)}
  PROVE  Whole(Append(SharedSteps, last), last)
  <1>1. PICK S : SharedSteps \in Seq(S) /\ last \in S
    <2>1. /\ SharedSteps \in Seq([of : Nat, times : Nat, by : Nat])
          /\ last \in [of : Nat, times : Nat, by : Nat]
      BY DEF SharedSteps, Made
    <2> QED BY <2>1, Zenon
  <1>2. PICK shared : shared = SharedSteps
    OBVIOUS
  <1>3. PICK k : k = Len(shared)
    OBVIOUS
  <1>4. k = 11 /\ k \in Nat
    BY <1>2, <1>3 DEF SharedSteps
  <1>5. \A n \in 1..11 : shared[n] = Step(n, last)
    <2>1. /\ shared[1] = Step(1, last) /\ shared[2] = Step(2, last) /\ shared[3] = Step(3, last)
          /\ shared[4] = Step(4, last) /\ shared[5] = Step(5, last) /\ shared[6] = Step(6, last)
          /\ shared[7] = Step(7, last) /\ shared[8] = Step(8, last) /\ shared[9] = Step(9, last)
          /\ shared[10] = Step(10, last) /\ shared[11] = Step(11, last)
      BY <1>2 DEF SharedSteps, Step
    <2> QED BY <2>1
  <1>6. shared \in Seq(S) /\ last \in S
    BY <1>1, <1>2, Zenon
  <1>7. PICK steps : steps = Append(shared, last)
    OBVIOUS
  <1>8. steps \in Seq(S) /\ Len(steps) = k + 1 /\ steps[k + 1] = last /\ \A n \in 1..k : steps[n] = shared[n]
    <2>1. Len(shared) = k
      BY <1>3
    <2> QED BY <1>6, <1>7, <2>1
  <1>9. Len(steps) = 12 /\ DOMAIN steps = 1..12 /\ steps[12] = last
    BY <1>4, <1>8
  <1>10. \A n \in 1..11 : steps[n] = Step(n, last)
    BY <1>4, <1>5, <1>8
  <1>11. Step(12, last) = last
    BY DEF Step
  <1>12. \A n \in 1..12 : n \in 1..11 \/ n = 12
    OBVIOUS
  <1>13. Whole(steps, last)
    BY <1>9, <1>10, <1>11, <1>12 DEF Whole
  <1> QED BY <1>2, <1>7, <1>13

LEMMA EachStep ==
  ASSUME NEW last, NEW steps, Whole(steps, last)
  PROVE  /\ Len(steps) = 12 /\ DOMAIN steps = 1..12
         /\ steps[1] = Made(1, 1, 0) /\ steps[2] = Made(2, 2, 1) /\ steps[3] = Made(2, 0, 3)
         /\ steps[4] = Made(4, 1, 3) /\ steps[5] = Made(5, 5, 5) /\ steps[6] = Made(6, 10, 6)
         /\ steps[7] = Made(7, 20, 7) /\ steps[8] = Made(8, 10, 6) /\ steps[9] = Made(9, 50, 9)
         /\ steps[10] = Made(10, 100, 10) /\ steps[11] = Made(11, 50, 9) /\ steps[12] = last
  BY DEF Whole, Step

\* What ExponentBits asks of its function
IsBits(f, steps) ==
    f = [n \in 1..(Len(steps) + 1) |->
            IF n = 1 THEN {0}
            ELSE LET step == steps[n - 1]
                 IN  {i + step.times : i \in f[step.of]} \cup (IF step.by = 0 THEN {} ELSE f[step.by])]

LEMMA BitsValues ==
  ASSUME NEW steps, Len(steps) = 12, NEW f
  PROVE  IsBits(f, steps) <=> /\ f = [n \in 1..13 |-> f[n]]
                              /\ f[1] = {0}
                              /\ \A n \in 2..13 : f[n] = Grown(f, steps[n - 1])
  <1> DEFINE value(n) == IF n = 1 THEN {0} ELSE Grown(f, steps[n - 1])
  <1>1. IsBits(f, steps) <=> f = [n \in 1..13 |-> value(n)]
    BY DEF IsBits, Grown, Shifted
  <1> HIDE DEF value
  <1>2. f = [n \in 1..13 |-> value(n)] <=> f = [n \in 1..13 |-> f[n]] /\ \A n \in 1..13 : f[n] = value(n)
    OBVIOUS
  <1>3. (\A n \in 1..13 : f[n] = value(n)) <=> f[1] = value(1) /\ \A n \in 2..13 : f[n] = value(n)
    OBVIOUS
  <1>4. value(1) = {0} /\ \A n \in 2..13 : value(n) = Grown(f, steps[n - 1])
    BY DEF value
  <1> QED BY <1>1, <1>2, <1>3, <1>4

\* The bits of every power, whichever step is the last
LastBits(last) == IF last = Made(12, 2, 1) THEN PowBits ELSE InvertBits

BitsOf(n, last) ==
    CASE n = 1 -> {0} [] n = 2 -> {1} [] n = 3 -> {0, 3} [] n = 4 -> {0, 1, 3} [] n = 5 -> 0..4
      [] n = 6 -> 0..9 [] n = 7 -> 0..19 [] n = 8 -> 0..39 [] n = 9 -> 0..49 [] n = 10 -> 0..99
      [] n = 11 -> 0..199 [] n = 12 -> 0..249 [] n = 13 -> LastBits(last)

\* The first power has the exponent 1, and each step makes its own of the
\* earlier ones.
LEMMA StepsGrow ==
  ASSUME NEW last \in {Made(12, 2, 1), Made(12, 5, 4)}, NEW steps, Whole(steps, last),
         NEW f, f[1] = {0}, NEW n \in 1..12, \A k \in 1..n : f[k] = BitsOf(k, last)
  PROVE  Grown(f, steps[n]) = BitsOf(n + 1, last) /\ Apart(f, steps[n])
  <1>1. CASE n = 1
    <2>1. f[1] = {0}
      <3>1. 1 \in 1..n
        BY <1>1
      <3>2. BitsOf(1, last) = {0}
        BY DEF BitsOf
      <3> QED BY <3>1, <3>2
    <2>2. BitsOf(n + 1, last) = {1}
      BY <1>1 DEF BitsOf
    <2>3. steps[n] = Made(1, 1, 0)
      BY <1>1, EachStep
    <2>4. Grown(f, Made(1, 1, 0)) = {1} /\ Apart(f, Made(1, 1, 0))
      BY <2>1, BitsGrow
    <2> QED BY <2>2, <2>3, <2>4
  <1>2. CASE n = 2
    <2>1. f[1] = {0} /\ f[2] = {1}
      <3>1. 1 \in 1..n /\ 2 \in 1..n
        BY <1>2
      <3>2. BitsOf(1, last) = {0} /\ BitsOf(2, last) = {1}
        BY DEF BitsOf
      <3> QED BY <3>1, <3>2
    <2>2. BitsOf(n + 1, last) = {0, 3}
      BY <1>2 DEF BitsOf
    <2>3. steps[n] = Made(2, 2, 1)
      BY <1>2, EachStep
    <2>4. Grown(f, Made(2, 2, 1)) = {0, 3} /\ Apart(f, Made(2, 2, 1))
      BY <2>1, BitsGrow
    <2> QED BY <2>2, <2>3, <2>4
  <1>3. CASE n = 3
    <2>1. f[2] = {1} /\ f[3] = {0, 3}
      <3>1. 2 \in 1..n /\ 3 \in 1..n
        BY <1>3
      <3>2. BitsOf(2, last) = {1} /\ BitsOf(3, last) = {0, 3}
        BY DEF BitsOf
      <3> QED BY <3>1, <3>2
    <2>2. BitsOf(n + 1, last) = {0, 1, 3}
      BY <1>3 DEF BitsOf
    <2>3. steps[n] = Made(2, 0, 3)
      BY <1>3, EachStep
    <2>4. Grown(f, Made(2, 0, 3)) = {0, 1, 3} /\ Apart(f, Made(2, 0, 3))
      BY <2>1, BitsGrow
    <2> QED BY <2>2, <2>3, <2>4
  <1>4. CASE n = 4
    <2>1. f[3] = {0, 3} /\ f[4] = {0, 1, 3}
      <3>1. 3 \in 1..n /\ 4 \in 1..n
        BY <1>4
      <3>2. BitsOf(3, last) = {0, 3} /\ BitsOf(4, last) = {0, 1, 3}
        BY DEF BitsOf
      <3> QED BY <3>1, <3>2
    <2>2. BitsOf(n + 1, last) = 0..4
      BY <1>4 DEF BitsOf
    <2>3. steps[n] = Made(4, 1, 3)
      BY <1>4, EachStep
    <2>4. Grown(f, Made(4, 1, 3)) = 0..4 /\ Apart(f, Made(4, 1, 3))
      BY <2>1, BitsGrow
    <2> QED BY <2>2, <2>3, <2>4
  <1>5. CASE n = 5
    <2>1. f[5] = 0..4
      <3>1. 5 \in 1..n
        BY <1>5
      <3>2. BitsOf(5, last) = 0..4
        BY DEF BitsOf
      <3> QED BY <3>1, <3>2
    <2>2. BitsOf(n + 1, last) = 0..9
      BY <1>5 DEF BitsOf
    <2>3. steps[n] = Made(5, 5, 5)
      BY <1>5, EachStep
    <2>4. Grown(f, Made(5, 5, 5)) = 0..9 /\ Apart(f, Made(5, 5, 5))
      BY <2>1, BitsGrow
    <2> QED BY <2>2, <2>3, <2>4
  <1>6. CASE n = 6
    <2>1. f[6] = 0..9
      <3>1. 6 \in 1..n
        BY <1>6
      <3>2. BitsOf(6, last) = 0..9
        BY DEF BitsOf
      <3> QED BY <3>1, <3>2
    <2>2. BitsOf(n + 1, last) = 0..19
      BY <1>6 DEF BitsOf
    <2>3. steps[n] = Made(6, 10, 6)
      BY <1>6, EachStep
    <2>4. Grown(f, Made(6, 10, 6)) = 0..19 /\ Apart(f, Made(6, 10, 6))
      BY <2>1, BitsGrow
    <2> QED BY <2>2, <2>3, <2>4
  <1>7. CASE n = 7
    <2>1. f[7] = 0..19
      <3>1. 7 \in 1..n
        BY <1>7
      <3>2. BitsOf(7, last) = 0..19
        BY DEF BitsOf
      <3> QED BY <3>1, <3>2
    <2>2. BitsOf(n + 1, last) = 0..39
      BY <1>7 DEF BitsOf
    <2>3. steps[n] = Made(7, 20, 7)
      BY <1>7, EachStep
    <2>4. Grown(f, Made(7, 20, 7)) = 0..39 /\ Apart(f, Made(7, 20, 7))
      BY <2>1, BitsGrow
    <2> QED BY <2>2, <2>3, <2>4
  <1>8. CASE n = 8
    <2>1. f[6] = 0..9 /\ f[8] = 0..39
      <3>1. 6 \in 1..n /\ 8 \in 1..n
        BY <1>8
      <3>2. BitsOf(6, last) = 0..9 /\ BitsOf(8, last) = 0..39
        BY DEF BitsOf
      <3> QED BY <3>1, <3>2
    <2>2. BitsOf(n + 1, last) = 0..49
      BY <1>8 DEF BitsOf
    <2>3. steps[n] = Made(8, 10, 6)
      BY <1>8, EachStep
    <2>4. Grown(f, Made(8, 10, 6)) = 0..49 /\ Apart(f, Made(8, 10, 6))
      BY <2>1, BitsGrow
    <2> QED BY <2>2, <2>3, <2>4
  <1>9. CASE n = 9
    <2>1. f[9] = 0..49
      <3>1. 9 \in 1..n
        BY <1>9
      <3>2. BitsOf(9, last) = 0..49
        BY DEF BitsOf
      <3> QED BY <3>1, <3>2
    <2>2. BitsOf(n + 1, last) = 0..99
      BY <1>9 DEF BitsOf
    <2>3. steps[n] = Made(9, 50, 9)
      BY <1>9, EachStep
    <2>4. Grown(f, Made(9, 50, 9)) = 0..99 /\ Apart(f, Made(9, 50, 9))
      BY <2>1, BitsGrow
    <2> QED BY <2>2, <2>3, <2>4
  <1>10. CASE n = 10
    <2>1. f[10] = 0..99
      <3>1. 10 \in 1..n
        BY <1>10
      <3>2. BitsOf(10, last) = 0..99
        BY DEF BitsOf
      <3> QED BY <3>1, <3>2
    <2>2. BitsOf(n + 1, last) = 0..199
      BY <1>10 DEF BitsOf
    <2>3. steps[n] = Made(10, 100, 10)
      BY <1>10, EachStep
    <2>4. Grown(f, Made(10, 100, 10)) = 0..199 /\ Apart(f, Made(10, 100, 10))
      BY <2>1, BitsGrow
    <2> QED BY <2>2, <2>3, <2>4
  <1>11. CASE n = 11
    <2>1. f[9] = 0..49 /\ f[11] = 0..199
      <3>1. 9 \in 1..n /\ 11 \in 1..n
        BY <1>11
      <3>2. BitsOf(9, last) = 0..49 /\ BitsOf(11, last) = 0..199
        BY DEF BitsOf
      <3> QED BY <3>1, <3>2
    <2>2. BitsOf(n + 1, last) = 0..249
      BY <1>11 DEF BitsOf
    <2>3. steps[n] = Made(11, 50, 9)
      BY <1>11, EachStep
    <2>4. Grown(f, Made(11, 50, 9)) = 0..249 /\ Apart(f, Made(11, 50, 9))
      BY <2>1, BitsGrow
    <2> QED BY <2>2, <2>3, <2>4
  <1>12. CASE n = 12
    <2>1. f[1] = {0} /\ f[4] = {0, 1, 3} /\ f[12] = 0..249
      <3>1. 1 \in 1..n /\ 4 \in 1..n /\ 12 \in 1..n
        BY <1>12
      <3>2. BitsOf(1, last) = {0} /\ BitsOf(4, last) = {0, 1, 3} /\ BitsOf(12, last) = 0..249
        BY DEF BitsOf
      <3> QED BY <3>1, <3>2
    <2>2. BitsOf(n + 1, last) = LastBits(last)
      BY <1>12 DEF BitsOf
    <2>3. steps[n] = last
      BY <1>12, EachStep
    <2>4. /\ Grown(f, Made(12, 2, 1)) = PowBits /\ Apart(f, Made(12, 2, 1))
          /\ Grown(f, Made(12, 5, 4)) = InvertBits /\ Apart(f, Made(12, 5, 4))
      BY <2>1, BitsGrow
    <2>5. Made(12, 2, 1) # Made(12, 5, 4)
      <3>1. Made(12, 2, 1).times = 2 /\ Made(12, 5, 4).times = 5
        BY MadeFields
      <3> QED BY <3>1
    <2>6. Grown(f, last) = LastBits(last) /\ Apart(f, last)
      BY <2>4, <2>5 DEF LastBits
    <2> QED BY <2>2, <2>3, <2>6
  <1>13. n \in {1, 2, 3, 4, 5, 6, 7, 8, 9, 10, 11, 12}
    OBVIOUS
  <1> QED BY <1>1, <1>2, <1>3, <1>4, <1>5, <1>6, <1>7, <1>8, <1>9, <1>10, <1>11, <1>12, <1>13

LEMMA ExponentsAre ==
  ASSUME NEW last \in {Made(12, 2, 1), Made(12, 5, 4)}, NEW steps, Whole(steps, last)
  PROVE  ExponentBits(steps)[13] = LastBits(last) /\ HasNoCarry(steps)
  <1> DEFINE chosen == CHOOSE f : IsBits(f, steps)
  <1>1. Len(steps) = 12 /\ DOMAIN steps = 1..12
    BY EachStep
  <1>2. BitsOf(1, last) = {0} /\ BitsOf(13, last) = LastBits(last)
    BY DEF BitsOf
  <1>3. \E f : IsBits(f, steps)
    <2>1. PICK g : g = [n \in 1..13 |-> BitsOf(n, last)]
      OBVIOUS
    <2>2. g = [n \in 1..13 |-> g[n]] /\ \A n \in 1..13 : g[n] = BitsOf(n, last)
      BY <2>1
    <2>3. g[1] = {0}
      BY <1>2, <2>2
    <2>4. ASSUME NEW n \in 2..13 PROVE g[n] = Grown(g, steps[n - 1])
      <3>1. PICK k \in 1..12 : n = k + 1 /\ k = n - 1
        OBVIOUS
      <3>2. \A i \in 1..k : g[i] = BitsOf(i, last)
        BY <2>2
      <3>3. Grown(g, steps[k]) = BitsOf(k + 1, last)
        BY <2>3, <3>2, StepsGrow
      <3> QED BY <2>2, <3>1, <3>3
    <2> QED BY <1>1, <2>2, <2>3, <2>4, BitsValues
  <1>4. IsBits(chosen, steps)
    BY <1>3, Zenon
  <1>5. ExponentBits(steps) = chosen
    BY Zenon DEF ExponentBits, IsBits
  <1> HIDE DEF chosen
  <1>6. chosen[1] = {0} /\ \A n \in 2..13 : chosen[n] = Grown(chosen, steps[n - 1])
    BY <1>1, <1>4, BitsValues
  <1>7. \A n \in 1..13 : \A k \in 1..n : chosen[k] = BitsOf(k, last)
    <2> DEFINE P(n) == \A k \in 1..n : chosen[k] = BitsOf(k, last)
    <2>1. P(1)
      <3>1. \A k \in 1..1 : k = 1
        OBVIOUS
      <3> QED BY <1>2, <1>6, <3>1
    <2>2. ASSUME NEW n \in 1..12, P(n) PROVE P(n + 1)
      <3>1. Grown(chosen, steps[n]) = BitsOf(n + 1, last)
        BY <1>6, <2>2, StepsGrow
      <3>2. n + 1 \in 2..13 /\ (n + 1) - 1 = n
        OBVIOUS
      <3>3. chosen[n + 1] = BitsOf(n + 1, last)
        BY <1>6, <3>1, <3>2
      <3>4. \A k \in 1..(n + 1) : k \in 1..n \/ k = n + 1
        OBVIOUS
      <3> QED BY <2>2, <3>3, <3>4
    <2> HIDE DEF P
    <2>3. P(2) /\ P(3) /\ P(4) /\ P(5) /\ P(6) /\ P(7)
      BY <2>1, <2>2
    <2>4. P(8) /\ P(9) /\ P(10) /\ P(11) /\ P(12) /\ P(13)
      BY <2>2, <2>3
    <2>5. \A n \in 1..13 : P(n)
      BY <2>1, <2>3, <2>4
    <2> QED BY <2>5 DEF P
  <1>8. chosen[13] = LastBits(last)
    BY <1>2, <1>7
  <1>9. \A n \in 1..12 : Apart(chosen, steps[n])
    <2> TAKE n \in 1..12
    <2>1. \A k \in 1..n : chosen[k] = BitsOf(k, last)
      BY <1>7
    <2> QED BY <1>6, <2>1, StepsGrow
  <1>10. HasNoCarry(steps)
    <2>1. \A n \in 1..12 : \/ steps[n].by = 0
                           \/ {i + steps[n].times : i \in chosen[steps[n].of]} \cap chosen[steps[n].by] = {}
      BY <1>9, Zenon DEF Apart, Shifted
    <2> QED BY <1>1, <1>5, <2>1, Zenon DEF HasNoCarry
  <1> QED BY <1>5, <1>8, <1>10

-----------------------------------------------------------------------------
(***************************************************************************)
(* A chain under way makes the powers that its steps say.                  *)
(***************************************************************************)
\* The power that step k made
PowerIsRight(c, k, m) ==
    Residue(c.powers[k + 1], m)
      = (SquaredTimes(Residue(c.powers[c.steps[k].of], m), c.steps[k].times, m)
           * (IF c.steps[k].by = 0 THEN 1 ELSE Residue(c.powers[c.steps[k].by], m))) % m

\* What the step under way has at hand
OutIsRight(c, m) ==
    LET step == c.steps[Len(c.powers)]
    IN  /\ c.left \in 0..step.times
        /\ Residue(c.out, m) = SquaredTimes(Residue(c.powers[step.of], m), step.times - c.left, m)

PowersAreRight(c) ==
    /\ Len(c.powers) <= 13
    /\ \A m \in Factors : /\ \A k \in 1..(Len(c.powers) - 1) : PowerIsRight(c, k, m)
                          /\ Len(c.powers) <= 12 => OutIsRight(c, m)

LEMMA OperandResidue ==
  ASSUME NEW m \in Factors, NEW a \in Operands \cup Loosened
  PROVE  Residue(a, m) \in 0..(m - 1) /\ Residue(a, m) \in Int /\ m \in Nat \ {0}
  BY ResidueInRange, OperandsAreLimbs, FactorsAre

LEMMA FieldsOfChain ==
  ASSUME NEW steps, NEW powers, NEW out, NEW left
  PROVE  LET c == Chain(steps, powers, out, left)
         IN  c.steps = steps /\ c.powers = powers /\ c.out = out /\ c.left = left
  BY DEF Chain

LEMMA StartedRight ==
  ASSUME NEW steps \in Steps, NEW z \in Operands
  PROVE  PowersAreRight(Started(steps, z))
  <1> DEFINE c == Started(steps, z)
             times == steps[1].times
  <1>1. steps[1].of = 1 /\ times \in Nat
    <2>1. 1 \in 1..12 /\ \A n \in 1..1 : n = 1
      OBVIOUS
    <2>2. steps[1].of \in 1..1 /\ times \in Nat
      BY <2>1, StepsRefer
    <2> QED BY <2>1, <2>2
  <1>2. c.steps = steps /\ c.powers = <<z>> /\ c.out = z /\ c.left = times
    BY DEF Started
  <1>3. Len(<<z>>) = 1 /\ <<z>>[1] = z
    OBVIOUS
  <1> HIDE DEF c, times
  <1>4. ASSUME NEW m \in Factors PROVE OutIsRight(c, m)
    <2>1. SquaredTimes(Residue(z, m), 0, m) = Residue(z, m)
      BY OperandResidue, SquaredOnceMore
    <2>2. times - times = 0 /\ times \in 0..times
      BY <1>1
    <2>3. c.steps[Len(c.powers)].of = 1 /\ c.steps[Len(c.powers)].times = times /\ c.powers[1] = z
      BY <1>1, <1>2, <1>3 DEF times
    <2> QED BY <1>2, <2>1, <2>2, <2>3 DEF OutIsRight
  <1>5. Len(c.powers) <= 13 /\ 1..(Len(c.powers) - 1) = {}
    BY <1>2, <1>3
  <1> QED BY <1>4, <1>5 DEF PowersAreRight, c

\* One squaring, loose or not
LEMMA SquaredRight ==
  ASSUME NEW steps \in Steps, NEW powers \in Seq(Operands), Len(powers) >= 1, Len(powers) <= 12,
         NEW out \in Operands \cup Loosened, NEW left \in Nat, left > 0,
         PowersAreRight(Chain(steps, powers, out, left))
  PROVE  PowersAreRight(Squared(Chain(steps, powers, out, left)))
  <1> DEFINE next == IF left > 1 THEN SquareLoose(out) ELSE Square(out)
             before == left - 1
             c == Chain(steps, powers, out, left)
             d == Squared(c)
             n == Len(powers)
             times == steps[n].times
             of == steps[n].of
  <1>1. c.steps = steps /\ c.powers = powers /\ c.out = out /\ c.left = left
    BY FieldsOfChain
  <1>2. d.steps = steps /\ d.powers = powers /\ d.out = next /\ d.left = before
    BY DEF Squared, Chain
  <1>3. n \in Nat /\ n >= 1 /\ n <= 12
    OBVIOUS
  <1> HIDE DEF c, d, next, n
  <1>4. n \in 1..12
    BY <1>3
  <1>5. of \in 1..n /\ times \in Nat
    BY <1>4, StepsRefer
  <1>6. powers[of] \in Operands
    BY <1>5 DEF n
  <1> HIDE DEF before, times, of
  <1>7. ASSUME NEW m \in Factors PROVE OutIsRight(d, m) /\ \A k \in 1..(n - 1) : PowerIsRight(d, k, m)
    <2>1. OutIsRight(c, m) /\ \A k \in 1..(n - 1) : PowerIsRight(c, k, m)
      BY <1>1, <1>3 DEF PowersAreRight, c, n
    <2>2. left \in 0..times /\ Residue(out, m) = SquaredTimes(Residue(powers[of], m), times - left, m)
      BY <1>1, <2>1 DEF OutIsRight, n, times, of
    <2>3. Residue(next, m) = (Residue(out, m) * Residue(out, m)) % m
      <3>1. Residue(SquareLoose(out), m) = Mod(m)!Square(Residue(out, m))
            /\ Residue(Square(out), m) = Mod(m)!Square(Residue(out, m))
        BY SquareResidue
      <3>2. Mod(m)!Square(Residue(out, m)) = (Residue(out, m) * Residue(out, m)) % m
        BY Zenon DEF Mod!Square, Mod!Product
      <3>3. Residue(next, m) = Mod(m)!Square(Residue(out, m))
        BY <3>1 DEF next
      <3> QED BY <3>2, <3>3
    <2>4. Residue(next, m) = SquaredTimes(Residue(powers[of], m), times - before, m)
      <3> DEFINE a == Residue(powers[of], m)
                 k == times - left
      <3>1. a \in Int /\ m \in Nat \ {0}
        BY <1>6, OperandResidue
      <3>2. k \in Nat /\ times - before = k + 1
        BY <1>5, <2>2 DEF before
      <3> HIDE DEF a, k
      <3>3. SquaredTimes(a, k + 1, m) = (SquaredTimes(a, k, m) * SquaredTimes(a, k, m)) % m
        BY <3>1, <3>2, SquaredOnceMore
      <3>4. Residue(out, m) = SquaredTimes(a, k, m)
        BY <2>2 DEF a, k
      <3>5. Residue(next, m) = SquaredTimes(a, k + 1, m)
        BY <2>3, <3>3, <3>4
      <3> QED BY <3>2, <3>5 DEF a
    <2>5. before \in 0..times
      BY <1>5, <2>2 DEF before
    <2>6. OutIsRight(d, m)
      BY <1>2, <2>4, <2>5 DEF OutIsRight, n, times, of
    <2>7. \A k \in 1..(n - 1) : PowerIsRight(d, k, m)
      BY <1>1, <1>2, <2>1, Zenon DEF PowerIsRight
    <2> QED BY <2>6, <2>7
  <1>8. Len(d.powers) = n /\ n <= 13
    BY <1>2, <1>3 DEF n
  <1>9. PowersAreRight(d)
    BY <1>7, <1>8, Zenon DEF PowersAreRight
  <1> QED BY <1>9 DEF c, d

\* The multiplication that ends a step
LEMMA MultipliedRight ==
  ASSUME NEW steps \in Steps, NEW powers \in Seq(Operands), Len(powers) >= 1, Len(powers) <= 12,
         NEW out \in Operands, PowersAreRight(Chain(steps, powers, out, 0))
  PROVE  PowersAreRight(Multiplied(Chain(steps, powers, out, 0)))
  <1> DEFINE n == Len(powers)
             by == steps[n].by
             of == steps[n].of
             times == steps[n].times
             power == IF by = 0 THEN out ELSE Multiply(out, powers[by])
             made == Append(powers, power)
             c == Chain(steps, powers, out, 0)
             d == Multiplied(c)
             next == steps[n + 1]
  <1>1. c.steps = steps /\ c.powers = powers /\ c.out = out /\ c.left = 0
    BY FieldsOfChain
  <1>2. n \in Nat /\ n >= 1 /\ n <= 12
    OBVIOUS
  <1>3. n \in 1..12
    <2> HIDE DEF n
    <2> QED BY <1>2
  <1>4. Len(steps) = 12 /\ of \in 1..n /\ times \in Nat /\ by \in 0..n
    <2> HIDE DEF n
    <2> QED BY <1>3, StepsRefer
  <1>5. powers[of] \in Operands /\ (by # 0 => powers[by] \in Operands)
    BY <1>4
  <1>6. power \in Operands
    <2>1. CASE by = 0
      BY <2>1
    <2>2. CASE by # 0
      BY <1>5, <2>2, ProductClasses, Subsets
    <2> QED BY <2>1, <2>2
  <1> HIDE DEF power
  <1>7. made \in Seq(Operands) /\ Len(made) = n + 1 /\ made[n + 1] = power /\ \A k \in 1..n : made[k] = powers[k]
    BY <1>6, Appended
  <1> HIDE DEF made, next, by, of, times
  <1>8. d.steps = steps /\ d.powers = made /\ (n < 12 => d.out = made[next.of] /\ d.left = next.times)
    <2>0. Len(steps) = 12
      BY <1>4
    <2>1. CASE Len(made) > 12
      <3>1. d = Chain(steps, made, power, 0)
        BY <2>0, <2>1 DEF Multiplied, CurrentStep, Chain, made, power, by
      <3>2. ~(n < 12)
        <4> HIDE DEF n
        <4> QED BY <1>2, <1>7, <2>1
      <3> HIDE DEF d, n
      <3> QED BY <3>1, <3>2, FieldsOfChain
    <2>2. CASE ~(Len(made) > 12)
      <3>1. d = Chain(steps, made, made[steps[Len(made)].of], steps[Len(made)].times)
        BY <2>0, <2>2 DEF Multiplied, CurrentStep, Chain, made, power, by
      <3>2. d = Chain(steps, made, made[next.of], next.times)
        <4> HIDE DEF d, n
        <4> QED BY <1>7, <3>1 DEF next
      <3> HIDE DEF d, n
      <3> QED BY <3>2, FieldsOfChain
    <2> QED BY <2>1, <2>2
  <1>9. next = steps[n + 1]
    BY DEF next
  <1> HIDE DEF c, d, n
  <1>10. n < 12 => next.of \in 1..(n + 1) /\ next.times \in Nat
    <2>1. SUFFICES ASSUME n < 12 PROVE next.of \in 1..(n + 1) /\ next.times \in Nat
      OBVIOUS
    <2>2. PICK k \in 1..12 : k = n + 1
      BY <1>2, <2>1
    <2> QED BY <1>9, <2>2, StepsRefer
  <1>11. ASSUME NEW m \in Factors
         PROVE  /\ \A k \in 1..n : PowerIsRight(d, k, m)
                /\ n < 12 => OutIsRight(d, m)
    <2>1. OutIsRight(c, m) /\ \A k \in 1..(n - 1) : PowerIsRight(c, k, m)
      BY <1>1, <1>2 DEF PowersAreRight, c, n
    <2>2. Residue(out, m) = SquaredTimes(Residue(powers[of], m), times, m)
      <3>1. Residue(out, m) = SquaredTimes(Residue(powers[of], m), times - 0, m)
        BY <1>1, <2>1, Zenon DEF OutIsRight, n, of, times
      <3> QED BY <1>4, <3>1
    <2>3. Residue(power, m) = (Residue(out, m) * (IF by = 0 THEN 1 ELSE Residue(powers[by], m))) % m
      <3>1. CASE by = 0
        <4>1. power = out
          BY <3>1 DEF power
        <4>2. Residue(out, m) \in 0..(m - 1) /\ m \in Nat \ {0}
          BY OperandResidue
        <4>3. (Residue(out, m) * 1) % m = Residue(out, m)
          BY <4>2
        <4> QED BY <3>1, <4>1, <4>3
      <3>2. CASE by # 0
        <4>1. power = Multiply(out, powers[by])
          BY <3>2 DEF power
        <4>2. Residue(Multiply(out, powers[by]), m) = Mod(m)!Product(Residue(out, m), Residue(powers[by], m))
          BY <1>5, <3>2, ProductResidue
        <4>3. Mod(m)!Product(Residue(out, m), Residue(powers[by], m)) = (Residue(out, m) * Residue(powers[by], m)) % m
          BY Zenon DEF Mod!Product
        <4> QED BY <3>2, <4>1, <4>2, <4>3, Zenon
      <3> QED BY <3>1, <3>2
    <2>4. PowerIsRight(d, n, m)
      <3>1. made[of] = powers[of] /\ (by # 0 => made[by] = powers[by])
        BY <1>4, <1>7
      <3>2. Residue(made[n + 1], m)
              = (SquaredTimes(Residue(made[of], m), times, m) * (IF by = 0 THEN 1 ELSE Residue(made[by], m))) % m
        BY <1>7, <2>2, <2>3, <3>1
      <3> QED BY <1>8, <3>2 DEF PowerIsRight, of, by, times
    <2>5. ASSUME NEW k \in 1..(n - 1) PROVE PowerIsRight(d, k, m)
      <3>1. k \in 1..12 /\ k \in 1..n /\ k + 1 \in 1..n /\ k \in Nat
        BY <1>2
      <3>2. steps[k].of \in 1..k /\ steps[k].by \in 0..k
        BY <3>1, StepsRefer
      <3>3. steps[k].of \in 1..n /\ (steps[k].by # 0 => steps[k].by \in 1..n)
        BY <1>2, <3>1, <3>2
      <3>4. /\ made[k + 1] = powers[k + 1] /\ made[steps[k].of] = powers[steps[k].of]
            /\ steps[k].by # 0 => made[steps[k].by] = powers[steps[k].by]
        BY <1>7, <3>1, <3>3
      <3>5. PowerIsRight(c, k, m)
        BY <2>1
      <3> QED BY <1>1, <1>8, <3>4, <3>5 DEF PowerIsRight
    <2>6. \A k \in 1..n : PowerIsRight(d, k, m)
      <3>1. \A k \in 1..n : k \in 1..(n - 1) \/ k = n
        BY <1>2
      <3> QED BY <2>4, <2>5, <3>1
    <2>7. ASSUME n < 12 PROVE OutIsRight(d, m)
      <3>1. made[next.of] \in Operands
        BY <1>7, <1>10, <2>7
      <3> DEFINE a == Residue(made[next.of], m)
      <3>2. a \in Int /\ m \in Nat \ {0}
        BY <3>1, OperandResidue
      <3>3. SquaredTimes(a, 0, m) = a
        <4> HIDE DEF a
        <4> QED BY <3>2, SquaredOnceMore
      <3>4. next.times - next.times = 0 /\ next.times \in 0..next.times
        BY <1>10, <2>7
      <3>5. d.steps[Len(d.powers)] = next
        BY <1>7, <1>8, <1>9
      <3> QED BY <1>8, <2>7, <3>3, <3>4, <3>5 DEF OutIsRight
    <2> QED BY <2>6, <2>7
  <1>12. Len(d.powers) = n + 1 /\ (n + 1) - 1 = n /\ n + 1 <= 13 /\ (n + 1 <= 12 => n < 12)
    BY <1>2, <1>7, <1>8
  <1>13. PowersAreRight(d)
    BY <1>11, <1>12 DEF PowersAreRight
  <1> QED BY <1>13 DEF c, d

-----------------------------------------------------------------------------
\* The chain of the lane: each of the two where it belongs
ChainFollows ==
    /\ policy \in Policies
    /\ stage = "power"  => chain.steps = PowSteps
    /\ stage = "invert" => chain.steps = InvertSteps
    /\ PowersAreRight(chain)

LEMMA ChainStarts == Init => ChainFollows
  <1> SUFFICES ASSUME Init PROVE ChainFollows
    OBVIOUS
  <1>1. chain = Started(PowSteps, Zero) /\ stage = "setup" /\ policy \in Policies
    BY DEF Init
  <1>2. PowersAreRight(Started(PowSteps, Zero))
    BY StartedRight, ZeroAndOne DEF Steps
  <1> QED BY <1>1, <1>2 DEF ChainFollows

LEMMA ChainSquaresRight ==
  ASSUME TypesHold, PowersAreRight(chain), ~IsDone(chain), chain.left > 0
  PROVE  PowersAreRight(Squared(chain))
  <1>1. /\ chain = Chain(chain.steps, chain.powers, chain.out, chain.left)
        /\ chain.steps \in Steps /\ chain.powers \in Seq(Operands)
        /\ Len(chain.powers) >= 1 /\ chain.out \in Operands \cup Loosened /\ chain.left \in Nat
    BY ChainFields DEF TypesHold
  <1>2. Len(chain.powers) <= 12
    <2>1. Len(chain.steps) = 12 /\ Len(chain.powers) \in Nat
      BY <1>1, StepsRefer
    <2> QED BY <2>1 DEF IsDone
  <1>3. PowersAreRight(Chain(chain.steps, chain.powers, chain.out, chain.left))
    BY <1>1, Zenon
  <1>4. PowersAreRight(Squared(Chain(chain.steps, chain.powers, chain.out, chain.left)))
    BY <1>1, <1>2, <1>3, SquaredRight
  <1> QED BY <1>1, <1>4, Zenon

LEMMA ChainMultipliesRight ==
  ASSUME TypesHold, PowersAreRight(chain), ~IsDone(chain), chain.left = 0
  PROVE  PowersAreRight(Multiplied(chain))
  <1>1. /\ chain = Chain(chain.steps, chain.powers, chain.out, chain.left)
        /\ chain.steps \in Steps /\ chain.powers \in Seq(Operands)
        /\ Len(chain.powers) >= 1 /\ chain.out \in Operands
    BY ChainFields DEF TypesHold
  <1>2. Len(chain.powers) <= 12
    <2>1. Len(chain.steps) = 12 /\ Len(chain.powers) \in Nat
      BY <1>1, StepsRefer
    <2> QED BY <2>1 DEF IsDone
  <1>3. chain = Chain(chain.steps, chain.powers, chain.out, 0)
    BY <1>1, Zenon
  <1>4. PowersAreRight(Chain(chain.steps, chain.powers, chain.out, 0))
    BY <1>3, Zenon
  <1>5. PowersAreRight(Multiplied(Chain(chain.steps, chain.powers, chain.out, 0)))
    BY <1>1, <1>2, <1>4, MultipliedRight
  <1> QED BY <1>3, <1>5, Zenon

LEMMA ChainKept == IInv /\ ChainFollows /\ [Next]_vars => ChainFollows'
  <1> SUFFICES ASSUME IInv, ChainFollows, [Next]_vars PROVE ChainFollows'
    OBVIOUS
  <1>t. TypesHold /\ PowersAreRight(chain)
    BY DEF IInv, ChainFollows
  <1>1. ASSUME policy' = policy, chain' = chain, stage' = stage \/ stage' \notin {"power", "invert"} PROVE ChainFollows'
    BY <1>1 DEF ChainFollows
  <1>2. CASE Setup
    <2> DEFINE yy == Square(encoding.y)
               z == Multiply(Subtract(yy, One), Add(One, Multiply(D, yy)))
    <2>1. chain' = Started(PowSteps, z) /\ stage' = "power" /\ policy' = policy
      BY <1>2 DEF Setup
    <2>2. z \in Operands
      <3>1. Started(PowSteps, z) \in Chains
        BY <1>t, SetupTypes
      <3> HIDE DEF z
      <3>2. <<z>> \in Seq(Operands) /\ Len(<<z>>) = 1 /\ <<z>>[1] = z
        BY <3>1 DEF Started, Chains
      <3> QED BY <3>2
    <2> HIDE DEF z
    <2>3. PowersAreRight(Started(PowSteps, z)) /\ Started(PowSteps, z).steps = PowSteps
      <3>1. Started(PowSteps, z).steps = PowSteps
        BY DEF Started
      <3> QED BY <2>2, <3>1, StartedRight DEF Steps
    <2> QED BY <2>1, <2>3 DEF ChainFollows
  <1>3. CASE SquareInChain
    <2>1. PowersAreRight(Squared(chain)) /\ chain' = Squared(chain) /\ stage' = stage /\ policy' = policy
      BY <1>t, <1>3, ChainSquaresRight DEF SquareInChain
    <2>2. Squared(chain).steps = chain.steps
      BY <1>t, ChainFields DEF Squared, TypesHold, Chain
    <2> QED BY <2>1, <2>2 DEF ChainFollows
  <1>4. CASE MultiplyInChain
    <2>1. PowersAreRight(Multiplied(chain)) /\ chain' = Multiplied(chain) /\ stage' = stage /\ policy' = policy
      BY <1>t, <1>4, ChainMultipliesRight DEF MultiplyInChain
    <2>2. Multiplied(chain).steps = chain.steps
      BY <1>t, ChainFields DEF Multiplied, TypesHold, Chain
    <2> QED BY <2>1, <2>2 DEF ChainFollows
  <1>5. CASE LeaveLadder
    <2>1. CASE policy = "Dalek"
      <3>1. chain' = Started(InvertSteps, acc.z) /\ stage' = "invert" /\ policy' = policy
        BY <1>5, <2>1 DEF LeaveLadder
      <3>2. PowersAreRight(Started(InvertSteps, acc.z))
        BY <1>t, StartedRight DEF TypesHold, Points, Steps
      <3>3. Started(InvertSteps, acc.z).steps = InvertSteps
        BY DEF Started
      <3> QED BY <3>1, <3>2, <3>3 DEF ChainFollows
    <2>2. CASE policy # "Dalek"
      <3>1. chain' = chain
        BY <1>5, <2>2 DEF LeaveLadder
      <3>2. stage' \notin {"power", "invert"}
        BY <1>5, <2>2 DEF LeaveLadder, ChainFollows, Policies
      <3>3. policy' = policy
        BY <1>5 DEF LeaveLadder
      <3> QED BY <1>1, <3>1, <3>2, <3>3
    <2> QED BY <2>1, <2>2
  <1>6. CASE NextLane
    <2>1. chain' = Started(PowSteps, Zero) /\ stage' = "setup" /\ policy' \in Policies
      BY <1>6 DEF NextLane
    <2>2. PowersAreRight(Started(PowSteps, Zero))
      BY StartedRight, ZeroAndOne DEF Steps
    <2> QED BY <2>1, <2>2 DEF ChainFollows
  <1>7. CASE Finish \/ TakeProducts \/ TakeSums \/ BeginMultiple \/ KeepMultiple \/ LoadTopDigit
    BY <1>1, <1>7 DEF Finish, TakeProducts, TakeSums, BeginMultiple, KeepMultiple, LoadTopDigit
  <1>8. CASE BeginLadderStep \/ KeepAccumulator \/ BeginTorsion \/ KeepDifference \/ ScoreTorsion
    BY <1>1, <1>8 DEF BeginLadderStep, KeepAccumulator, BeginTorsion, KeepDifference, ScoreTorsion
  <1>9. CASE ScoreDecoded \/ Compress \/ BeginSmallOrder \/ ScoreSmallOrder
    BY <1>1, <1>9 DEF ScoreDecoded, Compress, BeginSmallOrder, ScoreSmallOrder
  <1>10. CASE UNCHANGED vars
    BY <1>1, <1>10 DEF vars
  <1> QED BY <1>2, <1>3, <1>4, <1>5, <1>6, <1>7, <1>8, <1>9, <1>10 DEF Next

LEMMA ChainsFollow == IInv /\ ChainFollows => ChainsExact
  <1> SUFFICES ASSUME IInv, ChainFollows, stage \in {"power", "invert"}, IsDone(chain)
               PROVE  /\ ExponentBits(chain.steps)[Len(chain.powers)] = IF stage = "power" THEN PowBits ELSE InvertBits
                      /\ HasNoCarry(chain.steps)
                      /\ \A n \in DOMAIN chain.steps, m \in Factors :
                             LET step  == chain.steps[n]
                                 power == [k \in DOMAIN chain.powers |-> Residue(chain.powers[k], m)]
                             IN  power[n + 1] = (SquaredTimes(power[step.of], step.times, m)
                                                   * (IF step.by = 0 THEN 1 ELSE power[step.by])) % m
    BY Zenon DEF ChainsExact
  <1>1. /\ chain.steps \in Steps /\ chain.powers \in Seq(Operands) /\ PowersAreRight(chain)
    BY ChainFields DEF IInv, TypesHold, ChainFollows
  <1>2. PICK steps, powers : steps = chain.steps /\ powers = chain.powers
    OBVIOUS
  <1>3. steps \in Steps /\ powers \in Seq(Operands) /\ Len(powers) = 13 /\ Len(steps) = 12
    <2>1. Len(steps) = 12
      BY <1>1, <1>2, StepsRefer
    <2>2. Len(powers) > 12 /\ Len(powers) <= 13 /\ Len(powers) \in Nat
      BY <1>1, <1>2, <2>1 DEF IsDone, PowersAreRight
    <2>3. PICK n \in Nat : n = Len(powers)
      BY <2>2
    <2>4. n = 13
      BY <2>2, <2>3
    <2> QED BY <1>1, <1>2, <2>1, <2>3, <2>4, Zenon
  <1>4. /\ DOMAIN steps = 1..12 /\ HasNoCarry(steps)
        /\ ExponentBits(steps)[13] = IF stage = "power" THEN PowBits ELSE InvertBits
    <2>1. CASE stage = "power"
      <3> DEFINE last == Made(12, 2, 1)
      <3>1. steps = Append(SharedSteps, last)
        BY <1>2, <2>1 DEF ChainFollows, PowSteps
      <3> HIDE DEF last
      <3>2. last \in {Made(12, 2, 1), Made(12, 5, 4)} /\ LastBits(last) = PowBits
        BY DEF last, LastBits
      <3>3. Whole(steps, last)
        BY <3>1, <3>2, StepsAre
      <3> QED BY <2>1, <3>2, <3>3, ExponentsAre, EachStep
    <2>2. CASE stage = "invert"
      <3> DEFINE last == Made(12, 5, 4)
      <3>1. steps = Append(SharedSteps, last)
        BY <1>2, <2>2 DEF ChainFollows, InvertSteps
      <3>2. last # Made(12, 2, 1)
        <4>1. Made(12, 2, 1).times = 2 /\ Made(12, 5, 4).times = 5
          BY MadeFields
        <4> QED BY <4>1
      <3> HIDE DEF last
      <3>3. last \in {Made(12, 2, 1), Made(12, 5, 4)} /\ LastBits(last) = InvertBits
        BY <3>2 DEF last, LastBits
      <3>4. Whole(steps, last)
        BY <3>1, <3>3, StepsAre
      <3> QED BY <2>2, <3>3, <3>4, ExponentsAre, EachStep
    <2> QED BY <2>1, <2>2
  <1>5. ASSUME NEW n \in 1..12, NEW m \in Factors
        PROVE  LET step  == steps[n]
                   power == [k \in DOMAIN powers |-> Residue(powers[k], m)]
               IN  power[n + 1] = (SquaredTimes(power[step.of], step.times, m)
                                     * (IF step.by = 0 THEN 1 ELSE power[step.by])) % m
    <2> DEFINE power == [k \in DOMAIN powers |-> Residue(powers[k], m)]
    <2>1. \A k \in 1..13 : power[k] = Residue(powers[k], m)
      BY <1>3
    <2>2. steps[n].of \in 1..n /\ steps[n].by \in 0..n
      BY <1>3, StepsRefer
    <2>3. n + 1 \in 1..13 /\ steps[n].of \in 1..13 /\ (steps[n].by # 0 => steps[n].by \in 1..13) /\ n \in 1..(13 - 1)
      BY <2>2
    <2>4. PowerIsRight(chain, n, m)
      BY <1>1, <1>2, <1>3, <2>3 DEF PowersAreRight
    <2> HIDE DEF power
    <2>5. power[n + 1] = (SquaredTimes(power[steps[n].of], steps[n].times, m)
                            * (IF steps[n].by = 0 THEN 1 ELSE power[steps[n].by])) % m
      BY <1>2, <2>1, <2>3, <2>4 DEF PowerIsRight
    <2> QED BY <2>5 DEF power
  <1>6. \A n \in DOMAIN steps, m \in Factors :
            LET step  == steps[n]
                power == [k \in DOMAIN powers |-> Residue(powers[k], m)]
            IN  power[n + 1] = (SquaredTimes(power[step.of], step.times, m)
                                  * (IF step.by = 0 THEN 1 ELSE power[step.by])) % m
    BY <1>4, <1>5, Zenon
  <1>7. ExponentBits(steps)[Len(powers)] = IF stage = "power" THEN PowBits ELSE InvertBits
    BY <1>3, <1>4
  <1>8. HasNoCarry(steps)
    BY <1>4
  <1> QED
    <2>1. ExponentBits(chain.steps)[Len(chain.powers)] = IF stage = "power" THEN PowBits ELSE InvertBits
      BY <1>2, <1>7
    <2>2. HasNoCarry(chain.steps)
      BY <1>2, <1>8
    <2>3. \A n \in DOMAIN chain.steps, m \in Factors :
              LET step  == chain.steps[n]
                  power == [k \in DOMAIN chain.powers |-> Residue(chain.powers[k], m)]
              IN  power[n + 1] = (SquaredTimes(power[step.of], step.times, m)
                                    * (IF step.by = 0 THEN 1 ELSE power[step.by])) % m
      BY <1>2, <1>6
    <2> QED BY <2>1, <2>2, <2>3

\* Both addition chains of field.rs end with the power they are meant for, and
\* on the way every power is, modulo each factor of p, the one its step says.
THEOREM ChainsAlwaysExact == Spec => []ChainsExact
  <1>1. Spec => [](IInv /\ ChainFollows)
    BY InitHolds, NextHolds, ChainStarts, ChainKept, PTL DEF Spec
  <1> QED BY <1>1, ChainsFollow, PTL

-----------------------------------------------------------------------------
(***************************************************************************)
(* The canonical form                                                      *)
(***************************************************************************)
Normal == {a \in Vector : \A i \in Limb : a[i] < RADIX}

\* Less than FOLD headrooms come back in limb 0 on the first pass.
LEMMA FirstPass ==
  ASSUME NEW h \in Registers
  PROVE  ReduceLoose(h) \in Sums /\ ReduceLoose(h)[1] < RADIX + FOLD * (HEADROOM - 1)
  <1> DEFINE l1 == h[1]
             l2 == Wrap(h[2] + l1 \div RADIX)
             l3 == Wrap(h[3] + l2 \div RADIX)
             l4 == Wrap(h[4] + l3 \div RADIX)
             l5 == Wrap(h[5] + l4 \div RADIX)
             top == l5 \div RADIX
  <1>1. /\ h[1] \in Nat /\ h[2] \in Nat /\ h[3] \in Nat /\ h[4] \in Nat /\ h[5] \in Nat
    BY Widths DEF Registers, Limb
  <1>2. l1 \in Nat
    BY <1>1
  <1>3. l2 \in Nat
    BY <1>1, <1>2, Carried
  <1>4. l3 \in Nat
    BY <1>1, <1>3, Carried
  <1>5. l4 \in Nat
    BY <1>1, <1>4, Carried
  <1>6. l5 \in Nat /\ l5 \in 0..(REGISTER - 1)
    BY <1>1, <1>5, Carried
  <1>7. ReduceLoose(h)[1] = Wrap((l1 % RADIX) + Wrap(FOLD * top))
    BY DEF ReduceLoose
  <1>8. top < HEADROOM /\ top \in Nat
    <2> HIDE DEF l5
    <2> QED BY <1>6, Widths, DivLess, OfRadix DEF REGISTER
  <1>9. l1 % RADIX \in 0..(RADIX - 1)
    BY <1>2, OfRadix
  <1> HIDE DEF top, l1
  <1>10. FOLD * top \in Nat /\ FOLD * top <= FOLD * (HEADROOM - 1) /\ FOLD * (HEADROOM - 1) < RADIX
    <2> DEFINE most == HEADROOM - 1
    <2>1. most \in Nat /\ most <= HEADROOM /\ top <= most
      BY <1>8, Widths
    <2> HIDE DEF most
    <2>2. FOLD * top = top * FOLD /\ FOLD * most = most * FOLD /\ FOLD * HEADROOM = HEADROOM * FOLD
      BY <1>8, <2>1, Widths
    <2>3. FOLD * top <= FOLD * most /\ FOLD * most <= FOLD * HEADROOM /\ FOLD * top \in Nat /\ FOLD * most \in Nat
      BY <1>8, <2>1, <2>2, Widths, TimesMonotone
    <2>4. FOLD * most < RADIX
      BY <2>3, Widths
    <2> QED BY <2>3, <2>4 DEF most
  <1> DEFINE back == FOLD * top
             most == FOLD * (HEADROOM - 1)
             low == l1 % RADIX
  <1>11. most \in Nat
    BY Widths
  <1> HIDE DEF back, most, low
  <1>12. back \in Nat /\ back <= most /\ most < RADIX /\ low \in 0..(RADIX - 1)
    BY <1>9, <1>10 DEF back, most, low
  <1>13. Wrap(back) = back
    BY <1>11, <1>12, Widths, WrapSmall
  <1>14. Wrap(low + back) = low + back
    BY <1>11, <1>12, Widths, WrapSmall
  <1>15. ReduceLoose(h)[1] = low + back
    BY <1>7, <1>13, <1>14 DEF back, low
  <1> QED BY <1>11, <1>12, <1>15, Widths, ReduceLooseSums DEF most

\* One limb of the second pass passes on at most what it is passed.
LEMMA PassesNoMore ==
  ASSUME NEW x \in Nat, x < RADIX, NEW q \in {0, 1}
  PROVE  LET l == Wrap(x + q)
         IN  l = x + q /\ l % RADIX \in 0..(RADIX - 1) /\ l \div RADIX \in {0, 1} /\ l \div RADIX <= q
  <1> DEFINE l == x + q
  <1>1. l \in Nat /\ l <= RADIX /\ l < REGISTER /\ (q = 0 => l < RADIX)
    BY Widths
  <1>2. Wrap(l) = l
    BY <1>1, Widths, WrapSmall
  <1> HIDE DEF l
  <1>3. l \div RADIX \in Nat /\ l % RADIX \in 0..(RADIX - 1) /\ l = RADIX * (l \div RADIX) + (l % RADIX)
    BY <1>1, Widths, DivMod
  <1>4. l \div RADIX < 2
    <2>1. l < 2 * RADIX
      BY <1>1, Widths
    <2> QED BY <1>1, <2>1, Widths, DivLess
  <1>5. q = 0 => l \div RADIX < 1
    <2>1. q = 0 => l < 1 * RADIX
      BY <1>1, Widths
    <2> QED BY <1>1, <2>1, Widths, DivLess
  <1>6. l \div RADIX \in {0, 1} /\ l \div RADIX <= q
    BY <1>3, <1>4, <1>5
  <1> QED BY <1>2, <1>3, <1>6 DEF l

\* If a carry comes back on the second pass, limb 0 has just passed one on, and
\* has room for it.
LEMMA SecondPass ==
  ASSUME NEW s \in Sums, s[1] < RADIX + FOLD * (HEADROOM - 1)
  PROVE  ReduceLoose(s) \in Normal
  <1> DEFINE l1 == s[1]
             q1 == l1 \div RADIX
             l2 == Wrap(s[2] + q1)
             q2 == l2 \div RADIX
             l3 == Wrap(s[3] + q2)
             q3 == l3 \div RADIX
             l4 == Wrap(s[4] + q3)
             q4 == l4 \div RADIX
             l5 == Wrap(s[5] + q4)
             q5 == l5 \div RADIX
  <1>1. /\ l1 \in Nat /\ l1 < 2 * RADIX /\ s[2] \in Nat /\ s[2] < RADIX /\ s[3] \in Nat /\ s[3] < RADIX
        /\ s[4] \in Nat /\ s[4] < RADIX /\ s[5] \in Nat /\ s[5] < RADIX
    BY DEF Sums, Vector, Limb
  <1>2. ReduceLoose(s) = <<Wrap((l1 % RADIX) + Wrap(FOLD * q5)),
                           l2 % RADIX, l3 % RADIX, l4 % RADIX, l5 % RADIX>>
    BY DEF ReduceLoose
  <1>3. /\ q1 \in {0, 1} /\ l1 % RADIX \in 0..(RADIX - 1) /\ l1 = RADIX * q1 + (l1 % RADIX)
    <2> HIDE DEF l1
    <2>1. q1 \in Nat /\ l1 % RADIX \in 0..(RADIX - 1) /\ l1 = RADIX * q1 + (l1 % RADIX)
      BY <1>1, Widths, DivMod
    <2>2. q1 < 2
      BY <1>1, Widths, DivLess
    <2> QED BY <2>1, <2>2
  <1> HIDE DEF q1
  <1>4. l2 % RADIX \in 0..(RADIX - 1) /\ q2 \in {0, 1} /\ q2 <= q1
    BY <1>1, <1>3, PassesNoMore
  <1> HIDE DEF l2, q2
  <1>5. l3 % RADIX \in 0..(RADIX - 1) /\ q3 \in {0, 1} /\ q3 <= q2
    BY <1>1, <1>4, PassesNoMore
  <1> HIDE DEF l3, q3
  <1>6. l4 % RADIX \in 0..(RADIX - 1) /\ q4 \in {0, 1} /\ q4 <= q3
    BY <1>1, <1>5, PassesNoMore
  <1> HIDE DEF l4, q4
  <1>7. l5 % RADIX \in 0..(RADIX - 1) /\ q5 \in {0, 1} /\ q5 <= q4
    BY <1>1, <1>6, PassesNoMore
  <1> HIDE DEF l5, q5
  <1>8. q5 = 0 \/ (q5 = 1 /\ q1 = 1)
    BY <1>3, <1>4, <1>5, <1>6, <1>7
  <1>9. Wrap((l1 % RADIX) + Wrap(FOLD * q5)) \in 0..(RADIX - 1)
    <2> DEFINE low == l1 % RADIX
               back == FOLD * q5
    <2>1. low \in 0..(RADIX - 1) /\ back \in Nat /\ low + back \in 0..(RADIX - 1)
      <3>1. CASE q5 = 0
        <4>1. back = 0
          BY <3>1, Widths
        <4> QED BY <1>3, <4>1, Widths
      <3>2. CASE q5 = 1 /\ q1 = 1
        <4>1. back = FOLD
          BY <3>2, Widths
        <4>2. low = l1 - RADIX
          <5> HIDE DEF l1
          <5> QED BY <1>1, <1>3, <3>2, Widths
        <4>3. FOLD * (HEADROOM - 1) = FOLD * HEADROOM - FOLD /\ FOLD * HEADROOM \in Nat
          BY Widths
        <4>4. low < FOLD * HEADROOM - FOLD
          BY <1>1, <4>2, <4>3, Widths
        <4> HIDE DEF low, back, l1
        <4>5. low \in Nat
          BY <1>3, Widths DEF low
        <4> QED BY <4>1, <4>3, <4>4, <4>5, Widths
      <3> QED BY <1>8, <3>1, <3>2
    <2> HIDE DEF low, back
    <2>2. RADIX <= REGISTER
      BY Widths
    <2>3. Wrap(back) = back
      BY <2>1, <2>2, Widths, WrapSmall
    <2>4. Wrap(low + back) = low + back
      BY <2>1, <2>2, Widths, WrapSmall
    <2> QED BY <2>1, <2>3, <2>4 DEF low, back
  <1> HIDE DEF l1
  <1> QED BY <1>2, <1>4, <1>5, <1>6, <1>7, <1>9, Widths DEF Normal, Vector, Limb

\* A pass over limbs that carry nothing out of their registers keeps the residue.
LEMMA FitRegisters ==
  ASSUME NEW h \in Vector, InRegisters(h)
  PROVE  h \in Registers /\ Wrapped(h) = h
  <1>1. h = [i \in Limb |-> h[i]] /\ \A i \in Limb : h[i] \in Nat
    BY DEF Vector
  <1>2. \A i \in Limb : h[i] \in 0..(REGISTER - 1)
    BY <1>1, Widths DEF InRegisters
  <1>3. h \in Registers
    BY <1>1, <1>2 DEF Registers
  <1>4. \A i \in Limb : Wrap(h[i]) = h[i]
    BY <1>2, WrapSmall
  <1> QED BY <1>1, <1>3, <1>4 DEF Wrapped

LEMMA PassKeepsResidue ==
  ASSUME NEW m \in Factors, NEW h \in Vector, InRegisters(h)
  PROVE  Residue(ReduceLoose(h), m) = Residue(h, m)
  <1>1. h \in [Limb -> Int] /\ m \in Nat \ {0} /\ Wrapped(h) = h
    BY OperandsAreLimbs, FactorsAre, FitRegisters
  <1>2. Residue(Reduced(h), m) = Value(h) % m
    BY <1>1, ReducedResidue
  <1>3. Residue(h, m) = Value(h) % m
    BY <1>1, ResidueIsOfValue
  <1> QED BY <1>1, <1>2, <1>3 DEF Reduced

LEMMA SumsFitRegisters == ASSUME NEW s \in Sums \cup Operands PROVE s \in Vector /\ InRegisters(s)
  <1>1. s \in Vector
    BY Subsets
  <1>2. \A i \in Limb : s[i] \in Nat /\ s[i] < 2 * RADIX
    BY <1>1, Widths DEF Sums, Operands, Vector, Limb
  <1> QED BY <1>1, <1>2, Widths DEF InRegisters

LEMMA TwicePassed ==
  ASSUME NEW h \in Vector, InRegisters(h)
  PROVE  LET r == ReduceLoose(ReduceLoose(h))
         IN  r \in Normal /\ \A m \in Factors : Residue(r, m) = Residue(h, m)
  <1> DEFINE s == ReduceLoose(h)
  <1>1. h \in Registers
    BY FitRegisters
  <1>2. s \in Sums /\ s[1] < RADIX + FOLD * (HEADROOM - 1)
    BY <1>1, FirstPass
  <1>3. \A m \in Factors : Residue(s, m) = Residue(h, m)
    BY PassKeepsResidue
  <1> HIDE DEF s
  <1>4. s \in Vector /\ InRegisters(s)
    BY <1>2, SumsFitRegisters
  <1>5. \A m \in Factors : Residue(ReduceLoose(s), m) = Residue(s, m)
    BY <1>4, PassKeepsResidue
  <1>6. ReduceLoose(s) \in Normal
    BY <1>2, SecondPass
  <1> QED BY <1>3, <1>5, <1>6 DEF s

\* The modulus off a value that has reached it
LEMMA ModulusTaken ==
  ASSUME NEW m \in Factors, NEW r \in Normal, \A i \in 2..5 : r[i] = RADIX - 1, r[1] >= RADIX - FOLD
  PROVE  Residue(<<r[1] - (RADIX - FOLD), 0, 0, 0, 0>>, m) = Residue(r, m)
  <1> DEFINE c == <<r[1] - (RADIX - FOLD), 0, 0, 0, 0>>
             tail == RADIX * ((RADIX - 1) + RADIX * ((RADIX - 1) + RADIX * ((RADIX - 1) + RADIX * (RADIX - 1))))
  <1>1. /\ r[1] \in Nat /\ r[2] = RADIX - 1 /\ r[3] = RADIX - 1 /\ r[4] = RADIX - 1 /\ r[5] = RADIX - 1
        /\ r \in [Limb -> Int] /\ r[1] - (RADIX - FOLD) \in Nat
    BY Widths DEF Normal, Vector, Limb
  <1>2. m \in Nat \ {0} /\ Residue(Modulus, m) = 0 /\ Modulus \in [Limb -> Int] /\ c \in [Limb -> Int]
    BY <1>1, ExactAssumption, FactorsAre, Widths DEF Modulus, Limb
  <1>3. tail \in Int
    BY Widths
  <1>4. Value(r) = r[1] + tail
    BY <1>1 DEF Value, Horner
  <1>5. Value(Modulus) = (RADIX - FOLD) + tail
    BY DEF Value, Horner, Modulus
  <1>6. Value(c) = r[1] - (RADIX - FOLD)
    <2>1. Value(c) = (r[1] - (RADIX - FOLD)) + RADIX * (0 + RADIX * (0 + RADIX * (0 + RADIX * 0)))
      BY DEF Value, Horner
    <2>2. RADIX * (0 + RADIX * (0 + RADIX * (0 + RADIX * 0))) = 0
      BY Widths
    <2> QED BY <1>1, <2>1, <2>2
  <1> DEFINE x == Value(r)
             y == Value(c)
             p == Value(Modulus)
  <1>7. p % m = 0 /\ p \in Int
    BY <1>2, ResidueIsOfValue, ValueIsInt
  <1>8. PICK q \in Int : p = m * q
    <2> HIDE DEF p
    <2>1. p \div m \in Int /\ p = m * (p \div m) + 0
      BY <1>2, <1>7, Divided
    <2> DEFINE q == p \div m
    <2> HIDE DEF q
    <2>2. q \in Int /\ p = m * q + 0
      BY <2>1 DEF q
    <2>3. p = m * q
      BY <1>2, <2>2
    <2> QED BY <2>2, <2>3
  <1>9. x \in Int /\ y \in Int
    BY <1>1, <1>2, ValueIsInt
  <1> HIDE DEF tail, c
  <1>10. x = y + p
    BY <1>1, <1>3, <1>4, <1>5, <1>6, Widths
  <1> HIDE DEF x, y, p
  <1>11. x % m = y % m
    BY <1>2, <1>8, <1>9, <1>10, DifferByMultiple
  <1> QED BY <1>1, <1>2, <1>11, ResidueIsOfValue DEF x, y, c

LEMMA CanonicalForm ==
  ASSUME NEW h \in Vector, InRegisters(h)
  PROVE  IsCanonical(Canonical(h)) /\ \A m \in Factors : Residue(Canonical(h), m) = Residue(h, m)
  <1> DEFINE r == ReduceLoose(ReduceLoose(h))
             c == <<r[1] - (RADIX - FOLD), 0, 0, 0, 0>>
             isGe == (\A i \in 2..5 : r[i] = RADIX - 1) /\ r[1] >= RADIX - FOLD
  <1>1. r \in Normal /\ \A m \in Factors : Residue(r, m) = Residue(h, m)
    BY TwicePassed
  <1>2. Canonical(h) = IF isGe THEN c ELSE r
    BY DEF Canonical
  <1> HIDE DEF r
  <1>3. \A i \in Limb : r[i] \in 0..(RADIX - 1)
    BY <1>1, Widths DEF Normal, Vector
  <1>4. CASE isGe
    <2>1. \A m \in Factors : Residue(c, m) = Residue(r, m)
      BY <1>1, <1>4, ModulusTaken
    <2>2. r[1] \in 0..(RADIX - 1) /\ r[1] >= RADIX - FOLD
      BY <1>3, <1>4 DEF Limb
    <2>3. c[1] \in 0..(RADIX - 1) /\ c[2] = 0 /\ c[3] = 0 /\ c[4] = 0 /\ c[5] = 0
      BY <2>2, Widths
    <2> HIDE DEF c
    <2>4. \A i \in Limb : c[i] \in 0..(RADIX - 1)
      BY <2>3, Widths DEF Limb
    <2>5. c[2] < RADIX - 1 /\ 2 \in 2..5
      BY <2>3, Widths
    <2>6. IsCanonical(c)
      BY <2>4, <2>5 DEF IsCanonical
    <2> QED BY <1>1, <1>2, <1>4, <2>1, <2>6
  <1>5. CASE ~isGe
    <2>1. IsCanonical(r)
      <3>1. CASE ~(r[1] >= RADIX - FOLD)
        <4>1. r[1] \in 0..(RADIX - 1)
          BY <1>3 DEF Limb
        <4>2. r[1] < RADIX - FOLD
          BY <3>1, <4>1, Widths
        <4> QED BY <1>3, <4>2 DEF IsCanonical
      <3>2. CASE ~\A i \in 2..5 : r[i] = RADIX - 1
        <4>1. PICK i \in 2..5 : r[i] # RADIX - 1
          BY <3>2
        <4>2. r[i] < RADIX - 1
          BY <1>3, <4>1, Widths DEF Limb
        <4> QED BY <1>3, <4>1, <4>2 DEF IsCanonical
      <3> QED BY <1>5, <3>1, <3>2
    <2> QED BY <1>1, <1>2, <1>5, <2>1
  <1> QED BY <1>4, <1>5

LEMMA ExaminedFit == IInv => \A v \in Examined : v \in Vector /\ InRegisters(v)
  <1> SUFFICES ASSUME IInv, NEW v \in Examined PROVE v \in Vector /\ InRegisters(v)
    OBVIOUS
  <1>t. TypesHold /\ StageHolds
    BY DEF IInv
  <1>1. /\ setup.u \in Vector /\ setup.v \in Vector /\ chain.out \in Vector
        /\ acc.x \in Vector /\ acc.y \in Vector /\ acc.z \in Vector
    BY <1>t, Subsets DEF TypesHold, Chains, Points
  <1>2. ASSUME v \in Operands \cup Sums PROVE v \in Vector /\ InRegisters(v)
    BY <1>2, SumsFitRegisters
  <1>3. CASE stage = "power" /\ IsDone(chain)
    <2>1. FirstRoot \in Operands
      BY <1>1, ProductClasses DEF FirstRoot
    <2>2. FirstRoot \in Vector
      BY <2>1, Subsets
    <2>3. Square(FirstRoot) \in Vector
      BY <2>2, SquareClasses, Subsets
    <2>4. VX2 \in Vector
      BY <1>1, <2>3, ProductClasses, Subsets DEF VX2
    <2>5. Subtract(VX2, setup.u) \in Operands /\ AddLoose(VX2, setup.u) \in Operands
      BY <1>1, <2>4, SumClasses
    <2>6. v \in {FirstRoot, Subtract(VX2, setup.u), AddLoose(VX2, setup.u)}
      BY <1>3 DEF Examined
    <2> QED BY <1>2, <2>1, <2>5, <2>6
  <1>4. CASE stage = "invert" /\ IsDone(chain)
    <2>1. v \in {Multiply(acc.x, chain.out), Multiply(acc.y, chain.out)}
      BY <1>4 DEF Examined
    <2>2. Multiply(acc.x, chain.out) \in Operands /\ Multiply(acc.y, chain.out) \in Operands
      BY <1>1, ProductClasses
    <2> QED BY <1>2, <2>1, <2>2
  <1>5. CASE stage = "compare"
    <2>1. v = Subtract(acc.x, Multiply(multiples[1].x, acc.z))
      BY <1>5 DEF Examined
    <2>2. multiples[1] \in Points
      <3>1. multiples \in Seq(Points) /\ Len(multiples) >= 1
        BY <1>t, <1>5 DEF TypesHold, StageHolds
      <3> QED BY <3>1
    <2>3. multiples[1].x \in Vector
      BY <2>2, Subsets DEF Points
    <2>4. Multiply(multiples[1].x, acc.z) \in Vector
      BY <1>1, <2>3, ProductClasses, Subsets
    <2>5. Subtract(acc.x, Multiply(multiples[1].x, acc.z)) \in Operands
      BY <1>1, <2>4, SumClasses
    <2> QED BY <1>2, <2>1, <2>5
  <1>6. CASE stage = "torsion" /\ phase = "result"
    <2>1. v = Result.t
      BY <1>6 DEF Examined
    <2>2. Result.t \in Operands
      BY <1>6, ResultIsPoint DEF Points
    <2> QED BY <1>2, <2>1, <2>2
  <1>7. CASE stage = "setup"
    <2>1. v \in Loose
      BY <1>7 DEF Examined
    <2> QED BY <2>1, ExactAssumption
  <1> QED BY <1>3, <1>4, <1>5, <1>6, <1>7 DEF Examined

\* Whatever is compared, found zero or asked for its parity is first brought to
\* the one form below p that has its residues: two passes suffice, and p is
\* taken off exactly when it has to be.
THEOREM CanonicalAlwaysExact == Spec => []CanonicalExact
  <1>1. IInv => CanonicalExact
    BY ExaminedFit, CanonicalForm DEF CanonicalExact
  <1> QED BY <1>1, InitHolds, NextHolds, PTL DEF Spec
=============================================================================
