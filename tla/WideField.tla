----------------------------- MODULE WideField -----------------------------
(***************************************************************************)
(* One lane of the field arithmetic of                                     *)
(* src/src/wide/avx512ifma/field.rs, on limbs and registers.               *)
(*                                                                         *)
(* A field element is five limbs of 51 bits in registers of 64 bits, and   *)
(* the multiplier reads the low 52 bits of a register only.  The widths    *)
(* are parameters: RADIX is 2^51 in the code, HEADROOM the 2^13 that a     *)
(* register has beyond it, FOLD the 19 of 2^255 - 19.  Limb i of the code  *)
(* is element i + 1 here.                                                  *)
(***************************************************************************)
EXTENDS Integers

CONSTANTS RADIX,      \* 2^51 in the code
          HEADROOM,   \* 2^13: a register holds as many times the radix
          FOLD,       \* 19
          LOOSENESS,  \* 2^9: a loose limb 0 is below as many times the radix
          LOOSE_BIAS  \* 2048

Limb     == 1..5
Vector   == [Limb -> Nat]
REGISTER == HEADROOM * RADIX
IFMA     == 2 * RADIX          \* what the multiplier reads of an operand

\* What the widths have to be to each other; those of the code are
\* (CodeWidthsFit in LimbLaneProofs).
WidthsFit(radix, headroom, fold, looseness, bias) ==
    LET column == 2 * (1 + 4 * fold)
    IN  /\ {radix, headroom, fold, looseness, bias} \subseteq Nat \ {0}
        /\ fold * headroom < radix
        /\ 4 * fold <= radix
        /\ 3 * column + 1 <= headroom
        /\ radix + fold * (20 * radix + 2 * column + 11) <= looseness * radix
        /\ 3 * (looseness * radix) <= bias * (radix - fold)
        /\ (looseness + bias) * radix + headroom <= headroom * radix

ASSUME FieldAssumption == WidthsFit(RADIX, HEADROOM, FOLD, LOOSENESS, LOOSE_BIAS)

Zero == <<0, 0, 0, 0, 0>>
One  == <<1, 0, 0, 0, 0>>

Wrap(n)    == n % REGISTER
Wrapped(h) == [i \in Limb |-> Wrap(h[i])]

\* limbs_are_ifma_operands
IsIfmaOperand(a) == \A i \in Limb : a[i] < IFMA

\* What a product leaves without the carry of its limb 0
IsLoose(a) == a[1] < LOOSENESS * RADIX /\ \A i \in 2..5 : a[i] < RADIX

\* Sums that no register overflows on, nor on the carry of the limb below
InRegisters(h) == \A i \in Limb : 0 <= h[i] /\ h[i] + HEADROOM <= REGISTER

-----------------------------------------------------------------------------
(***************************************************************************)
(* Carries                                                                 *)
(***************************************************************************)
CarryLimb0(h) == <<h[1] % RADIX, Wrap(h[2] + h[1] \div RADIX), h[3], h[4], h[5]>>

\* A pass whose last carry comes back as it is (faulty)
ReduceLooseUnfolded(h) ==
    LET l1 == h[1]
        l2 == Wrap(h[2] + l1 \div RADIX)
        l3 == Wrap(h[3] + l2 \div RADIX)
        l4 == Wrap(h[4] + l3 \div RADIX)
        l5 == Wrap(h[5] + l4 \div RADIX)
    IN  <<Wrap((l1 % RADIX) + l5 \div RADIX), l2 % RADIX, l3 % RADIX, l4 % RADIX, l5 % RADIX>>

\* reduce_loose: one pass, whose last carry comes back FOLD times in limb 0.
ReduceLoose(h) ==
    LET l1 == h[1]
        l2 == Wrap(h[2] + l1 \div RADIX)
        l3 == Wrap(h[3] + l2 \div RADIX)
        l4 == Wrap(h[4] + l3 \div RADIX)
        l5 == Wrap(h[5] + l4 \div RADIX)
    IN  <<Wrap((l1 % RADIX) + Wrap(FOLD * (l5 \div RADIX))),
          l2 % RADIX, l3 % RADIX, l4 % RADIX, l5 % RADIX>>

\* reduce_ifma_loose: the same over the columns of a product, the high parts
\* of which count for two radices each.
ReduceIfmaLoose(columns) ==
    LET lo == columns.lo
        hi == columns.hi
        l1 == lo[1]
        c1 == Wrap(l1 \div RADIX + 2 * hi[1])
        l2 == Wrap(lo[2] + c1)
        c2 == Wrap(l2 \div RADIX + 2 * hi[2])
        l3 == Wrap(lo[3] + c2)
        c3 == Wrap(l3 \div RADIX + 2 * hi[3])
        l4 == Wrap(lo[4] + c3)
        c4 == Wrap(l4 \div RADIX + 2 * hi[4])
        l5 == Wrap(lo[5] + c4)
        c5 == Wrap(l5 \div RADIX + 2 * hi[5])
    IN  <<Wrap((l1 % RADIX) + Wrap(FOLD * c5)), l2 % RADIX, l3 % RADIX, l4 % RADIX, l5 % RADIX>>

ReduceIfma(columns) == CarryLimb0(ReduceIfmaLoose(columns))

-----------------------------------------------------------------------------
(***************************************************************************)
(* Sums and differences, before the pass that reduces them.  A multiple of *)
(* p is added to a difference so that no limb of it falls below zero.      *)
(***************************************************************************)
Plus(a, b) == [i \in Limb |-> a[i] + b[i]]

Minus(bias, a, b) ==
    [i \in Limb |-> a[i] + bias * (IF i = 1 THEN RADIX - FOLD ELSE RADIX - 1) - b[i]]

Reduced(h) == ReduceLoose(Wrapped(h))

AddLoose(a, b) == Reduced(Plus(a, b))
Add(a, b)      == CarryLimb0(AddLoose(a, b))
DoubleLoose(a) == AddLoose(a, a)
Twice(a)       == Add(a, a)
Subtract(a, b) == Reduced(Minus(4, a, b))
Negate(a)      == Subtract(Zero, a)

-----------------------------------------------------------------------------
(***************************************************************************)
(* Products                                                                *)
(***************************************************************************)
\* vpmadd52lo and vpmadd52hi
Low(a, b)  == ((a % IFMA) * (b % IFMA)) % IFMA
High(a, b) == ((a % IFMA) * (b % IFMA)) \div IFMA

\* The product of limb i of a that falls into column k; those of the columns
\* past the last come back FOLD times.
LowTerm(a, b, k, i)  == IF i <= k THEN Low(a[i], b[k + 1 - i]) ELSE FOLD * Low(a[i], b[k + 6 - i])
HighTerm(a, b, k, i) == IF i <= k THEN High(a[i], b[k + 1 - i]) ELSE FOLD * High(a[i], b[k + 6 - i])

MultiplyAccum(a, b) ==
    [lo |-> [k \in Limb |-> Wrap(LowTerm(a, b, k, 1) + LowTerm(a, b, k, 2) + LowTerm(a, b, k, 3)
                                   + LowTerm(a, b, k, 4) + LowTerm(a, b, k, 5))],
     hi |-> [k \in Limb |-> Wrap(HighTerm(a, b, k, 1) + HighTerm(a, b, k, 2) + HighTerm(a, b, k, 3)
                                   + HighTerm(a, b, k, 4) + HighTerm(a, b, k, 5))]]

\* The three products of each column of a square, as the code writes them out
SquarePairs == << << <<1, 1>>, <<2, 5>>, <<3, 4>> >>,
                  << <<1, 2>>, <<3, 5>>, <<4, 4>> >>,
                  << <<1, 3>>, <<2, 2>>, <<4, 5>> >>,
                  << <<1, 4>>, <<2, 3>>, <<5, 5>> >>,
                  << <<1, 5>>, <<2, 4>>, <<3, 3>> >> >>

\* Two different limbs count twice.
PairWeight(pair) == (IF pair[1] = pair[2] THEN 1 ELSE 2) * (IF pair[1] + pair[2] > 6 THEN FOLD ELSE 1)

LowOf(c, pair)  == PairWeight(pair) * Low(c[pair[1]], c[pair[2]])
HighOf(c, pair) == PairWeight(pair) * High(c[pair[1]], c[pair[2]])

\* square_accum, which carries limb 0 of its operand itself
SquareAccum(a) ==
    LET c == CarryLimb0(a)
    IN  [lo |-> [k \in Limb |-> Wrap(LowOf(c, SquarePairs[k][1]) + LowOf(c, SquarePairs[k][2])
                                       + LowOf(c, SquarePairs[k][3]))],
         hi |-> [k \in Limb |-> Wrap(HighOf(c, SquarePairs[k][1]) + HighOf(c, SquarePairs[k][2])
                                       + HighOf(c, SquarePairs[k][3]))]]

MultiplyLoose(a, b) == ReduceIfmaLoose(MultiplyAccum(a, b))
Multiply(a, b)      == ReduceIfma(MultiplyAccum(a, b))
SquareLoose(a)      == ReduceIfmaLoose(SquareAccum(a))
Square(a)           == ReduceIfma(SquareAccum(a))

-----------------------------------------------------------------------------
(***************************************************************************)
(* Comparisons, on the canonical form                                      *)
(***************************************************************************)
\* One pass only (faulty)
CanonicalAfterOnePass(h) ==
    LET r    == ReduceLoose(h)
        isGe == (\A i \in 2..5 : r[i] = RADIX - 1) /\ r[1] >= RADIX - FOLD
    IN  IF isGe THEN <<r[1] - (RADIX - FOLD), 0, 0, 0, 0>> ELSE r

\* canonical: two passes (carry_reduce_twice), then p is taken off if the high
\* limbs are full and limb 0 has reached its own.
Canonical(h) ==
    LET r    == ReduceLoose(ReduceLoose(h))
        isGe == (\A i \in 2..5 : r[i] = RADIX - 1) /\ r[1] >= RADIX - FOLD
    IN  IF isGe THEN <<r[1] - (RADIX - FOLD), 0, 0, 0, 0>> ELSE r

\* The stored limbs looked at, not the canonical ones (faulty)
IsZeroUnreduced(a) == a = Zero

IsZero(a)    == Canonical(a) = Zero
IsOdd(a)     == Canonical(a)[1] % 2 = 1
Equals(a, b) == IsZero(Subtract(a, b))
=============================================================================
