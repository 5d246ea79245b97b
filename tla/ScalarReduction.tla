-------------------------- MODULE ScalarReduction --------------------------
(***************************************************************************)
(* The reduction of a challenge hash modulo the order of the base point    *)
(* and its recoding (src/src/scalar/wide.rs), one lane of it.  Its upper   *)
(* and lower halves are multiplied by R^2 and R, each product is reduced   *)
(* by Montgomery's method, which divides by R, and the two are added.      *)
(*                                                                         *)
(* The width of a limb is a parameter; the number of limbs and the limb of *)
(* the order that is zero are the code's.  The cutting of words into limbs *)
(* is in ScalarPacking.                                                    *)
(***************************************************************************)
EXTENDS ScalarPacking, Radix16

CONSTANTS LIMB_RADIX,      \* 2^52 in the code
          SCALAR_L,        \* the limbs of the order
          SCALAR_LFACTOR,  \* minus its inverse modulo a limb
          SCALAR_R,        \* R, two to all the bits of five limbs, reduced
          SCALAR_RR,       \* its square, reduced
          Hashes           \* challenge hashes, each the limbs of both halves

LimbIndices == 0..4
Columns     == 0..8
B           == LIMB_RADIX
LimbValues  == 0..(B - 1)
Limbs       == [LimbIndices -> LimbValues]

Total(f) == f[0] + f[1] + f[2] + f[3] + f[4]
Value(a) == a[0] + B * (a[1] + B * (a[2] + B * (a[3] + B * a[4])))
Order    == Value(SCALAR_L)

\* A value of five limbs modulo the order, limb by limb from the highest
Residue(a) == LET read[n \in 0..5] == IF n = 0 THEN 0 ELSE (read[n - 1] * B + a[5 - n]) % Order
              IN  read[5]

\* v * R modulo the order, a limb at a time
TimesR(v) == LET times[n \in 0..5] == IF n = 0 THEN v ELSE (times[n - 1] * B) % Order
             IN  times[5]

\* Constants of limbs below a radix, whose last limbs, and what a last column
\* may carry besides, leave room in a limb; those of the code are such
\* (CodeLimbsFit in ScalarReductionProofs).
LimbsFit(radix, l, r, rr, factor) ==
    /\ radix \in Nat \ {0} /\ factor \in 0..(radix - 1)
    /\ {l, r, rr} \subseteq [LimbIndices -> 0..(radix - 1)]
    /\ \A b \in {l, r, rr} : b[4] + l[4] + 12 <= radix

ASSUME LimbAssumption == /\ LimbsFit(LIMB_RADIX, SCALAR_L, SCALAR_R, SCALAR_RR, SCALAR_LFACTOR)
                         /\ \A h \in Hashes : {h.lo, h.hi} \subseteq Limbs

\* What the constants are to each other
ASSUME MontgomeryAssumption ==
    /\ SCALAR_L[3] = 0 /\ Order \in Scalars
    /\ (SCALAR_LFACTOR * SCALAR_L[0] + 1) % B = 0
    /\ Value(SCALAR_R) = TimesR(1) /\ Value(SCALAR_RR) = TimesR(TimesR(1))

VARIABLES
    hash,       \* the hash at hand
    half,       \* the half in the multiplication, "hi" and then "lo"
    columns,    \* of the product, each a sum of low and a sum of high parts
    column,     \* the column to be reduced next
    quotients,  \* the multiples of the order added to clear the columns so far
    carry,
    result,     \* the limbs that come out of the reduction
    upper,      \* the upper half reduced
    rest,       \* of the reduced scalar, what is still to be recoded
    digits,     \* the digits recoded so far
    phase

vars == <<hash, half, columns, column, quotients, carry, result, upper, rest, digits, phase>>

\* What digits stand for
OfDigits(d) == LET sum[n \in 0..Len(d)] == IF n = 0 THEN 0 ELSE sum[n - 1] + d[n] * Weight[n - 1]
               IN  sum[Len(d)]

NoLimbs   == [i \in LimbIndices |-> 0]
NoColumns == [c \in Columns |-> [lo |-> 0, hi |-> 0]]

-----------------------------------------------------------------------------
\* vpmadd52lo and vpmadd52hi of two operands, of which only as many bits as a
\* limb has are read
Low(a, b)  == ((a % B) * (b % B)) % B
High(a, b) == ((a % B) * (b % B)) \div B

\* The differences of the limbs, each less what the one before borrows
Differences(a, b) ==
    LET Borrow(d) == IF d < 0 THEN 1 ELSE 0
        d0 == a[0] - b[0]
        d1 == a[1] - b[1] - Borrow(d0)
        d2 == a[2] - b[2] - Borrow(d1)
        d3 == a[3] - b[3] - Borrow(d2)
        d4 == a[4] - b[4] - Borrow(d3)
    IN  << d0, d1, d2, d3, d4 >>

\* A sum with its carries, the one out of the last limb lost
Added(a, b) ==
    LET s0 == a[0] + b[0]
        s1 == a[1] + b[1] + s0 \div B
        s2 == a[2] + b[2] + s1 \div B
        s3 == a[3] + b[3] + s2 \div B
        s4 == a[4] + b[4] + s3 \div B
    IN  [i \in LimbIndices |-> << s0, s1, s2, s3, s4 >>[i + 1] % B]

\* A difference that stays as it is when it borrows (faulty)
SubtractedWrapping(a, b) == [i \in LimbIndices |-> Differences(a, b)[i + 1] % B]

\* sub: the difference, and where it borrows the order is added back.
Subtracted(a, b) ==
    LET differences == Differences(a, b)
        difference  == [i \in LimbIndices |-> differences[i + 1] % B]
    IN  IF differences[5] < 0 THEN Added(difference, SCALAR_L) ELSE difference

\* mul_internal: the sums of the low and of the high parts of the products
\* that fall into each column
Convolved(a, b) ==
    LET In(c, i) == c - i \in LimbIndices
    IN  [c \in Columns |->
            [lo |-> Total([i \in LimbIndices |-> IF In(c, i) THEN Low(a[i], b[c - i]) ELSE 0]),
             hi |-> Total([i \in LimbIndices |-> IF In(c, i) THEN High(a[i], b[c - i]) ELSE 0])]]

\* Column c with the multiples of the order that the quotients before it add.
\* The limb that is zero is left out.
WithMultiples(c) ==
    LET In(i) == c - i \in {1, 2, 4}
    IN  [lo |-> columns[c].lo
                + Total([i \in LimbIndices |-> IF In(i) THEN Low(quotients[i + 1], SCALAR_L[c - i]) ELSE 0]),
         hi |-> columns[c].hi
                + Total([i \in LimbIndices |-> IF In(i) THEN High(quotients[i + 1], SCALAR_L[c - i]) ELSE 0])]

-----------------------------------------------------------------------------
Init == /\ hash \in Hashes
        /\ half = "hi"
        /\ columns = NoColumns
        /\ column = 0
        /\ quotients = << >>
        /\ carry = 0
        /\ result = NoLimbs /\ upper = NoLimbs
        /\ rest = 0
        /\ digits = << >>
        /\ phase = "multiply"

Multiply ==
    /\ phase = "multiply"
    /\ LET a == IF half = "hi" THEN hash.hi ELSE hash.lo
           b == IF half = "hi" THEN SCALAR_RR ELSE SCALAR_R
       IN  columns' = Convolved(a, b)
    /\ phase' = "eliminate"
    /\ UNCHANGED <<hash, half, column, quotients, carry, result, upper, rest, digits>>

\* eliminate_low_limb of one of the first five columns
Eliminate ==
    /\ phase = "eliminate"
    /\ LET s        == WithMultiples(column)
           low      == s.lo + carry
           quotient == Low(low, SCALAR_LFACTOR)
           cleared  == low + Low(quotient, SCALAR_L[0])
       IN  /\ quotients' = Append(quotients, quotient)
           /\ carry' = s.hi + High(quotient, SCALAR_L[0]) + cleared \div B
    /\ column' = column + 1
    /\ phase' = IF column = 4 THEN "split" ELSE "eliminate"
    /\ UNCHANGED <<hash, half, columns, result, upper, rest, digits>>

\* A carry that is not brought down to the next column (faulty)
SplitUnshifted ==
    /\ phase = "split"
    /\ LET s   == WithMultiples(column)
           low == s.lo + carry
           up  == s.hi + low
       IN  /\ carry' = up
           /\ result' = [result EXCEPT ![column - 5] = low % B,
                                       ![4] = IF column = 8 THEN up ELSE @]
    /\ column' = column + 1
    /\ phase' = IF column = 8 THEN "subtract" ELSE "split"
    /\ UNCHANGED <<hash, half, columns, quotients, upper, rest, digits>>

\* split_output_limb of one of the last four columns; what the last one
\* carries is the last limb.
Split ==
    /\ phase = "split"
    /\ LET s   == WithMultiples(column)
           low == s.lo + carry
           up  == s.hi + low \div B
       IN  /\ carry' = up
           /\ result' = [result EXCEPT ![column - 5] = low % B,
                                       ![4] = IF column = 8 THEN up ELSE @]
    /\ column' = column + 1
    /\ phase' = IF column = 8 THEN "subtract" ELSE "split"
    /\ UNCHANGED <<hash, half, columns, quotients, upper, rest, digits>>

Reset == /\ columns' = NoColumns
         /\ column' = 0
         /\ quotients' = << >>
         /\ carry' = 0

\* The end of montgomery_reduce, of the upper half
KeepUpper == /\ phase = "subtract" /\ half = "hi"
             /\ upper' = Subtracted(result, SCALAR_L)
             /\ result' = NoLimbs
             /\ half' = "lo"
             /\ phase' = "multiply"
             /\ Reset
             /\ UNCHANGED <<hash, rest, digits>>

\* The end of montgomery_reduce, of the lower half, and the sum of the two
AddHalves == /\ phase = "subtract" /\ half = "lo"
             /\ result' = Subtracted(Added(upper, Subtracted(result, SCALAR_L)), SCALAR_L)
             /\ rest' = Value(result')
             /\ upper' = NoLimbs
             /\ phase' = "recode"
             /\ Reset
             /\ UNCHANGED <<hash, half, digits>>

\* to_radix16, a byte at a time: two digits and the carry into the next byte
Recode ==
    /\ phase = "recode"
    /\ LET byte   == rest % 256
           biased == byte + 8 * 16 + 8 + carry
       IN  /\ digits' = digits \o << (biased % 16) - 8, ((biased \div 16) % 16) - 8 >>
           /\ carry' = biased \div 256
    /\ rest' = rest \div 256
    /\ phase' = IF Len(digits') = DIGITS THEN "done" ELSE "recode"
    /\ UNCHANGED <<hash, half, columns, column, quotients, result, upper>>

\* The next chunk's hash
Again(h) == /\ phase = "done"
            /\ hash' = h
            /\ half' = "hi"
            /\ result' = NoLimbs
            /\ digits' = << >>
            /\ phase' = "multiply"
            /\ UNCHANGED <<columns, column, quotients, carry, upper, rest>>

Next == \/ Multiply \/ Eliminate \/ Split \/ KeepUpper \/ AddHalves \/ Recode
        \/ \E h \in Hashes : Again(h)

Spec == Init /\ [][Next]_vars

-----------------------------------------------------------------------------
\* Every limb holds the bits of the hash, or of the scalar, that belong there,
\* each once: no shift of from_wide_words or words drops or doubles a bit.
PackingExact ==
    phase = "multiply" =>
        /\ \A j \in 0..9 : LimbsOfWords[j + 1] = Bits(52 * j, IF j = 9 THEN 44 ELSE 52)
        /\ \A w \in 0..3 : WordsOfLimbs[w + 1] = Bits(64 * w, IF w = 3 THEN 61 ELSE 64)

\* No column comes near the twelve bits a register has beyond a limb, nor does
\* it with the multiples of the order and the carry that are added to it; and the
\* last limb, which nothing masks, fits the others' width.
ColumnsFit ==
    /\ \A c \in Columns : columns[c].lo < 16 * B /\ columns[c].hi < 16 * B
    /\ carry < 16 * B
    /\ phase \in {"eliminate", "split"} =>
          WithMultiples(column).lo + carry < 32 * B /\ WithMultiples(column).hi < 32 * B
    /\ result[4] \in LimbValues

\* The digits are those of the hash modulo the order, all between -8 and 7, and
\* nothing is carried out of the last byte: neither the Montgomery factors nor
\* the missing products of the zero limb, nor a result one order too large
\* after either of three subtractions, shows in the challenge.
DigitsExact ==
    phase = "done" =>
        /\ OfDigits(digits) = (TimesR(Residue(hash.hi)) + Residue(hash.lo)) % Order
        /\ \A i \in 1..DIGITS : digits[i] \in -8..7
        /\ carry = 0
=============================================================================
