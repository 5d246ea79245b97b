------------------------------ MODULE LimbLane ------------------------------
(***************************************************************************)
(* One lane of a chunk on limbs: the decoding of an encoding, the          *)
(* multiples of its table, a ladder of four digits and the checks of the   *)
(* result (src/src/wide/avx512ifma/decode.rs, tables.rs, multiscalar.rs,   *)
(* point.rs).  Lane has the same course on residues of a small curve; here *)
(* the matter is which values are left unreduced, and what then reads      *)
(* them.                                                                   *)
(*                                                                         *)
(* Every formula for points has the same shape: products a, b, c, d of the *)
(* coordinates, sums e, f, g, h of those, and products of the sums.  It is *)
(* three steps here, so that what lies in the registers between them can   *)
(* be looked at.                                                           *)
(***************************************************************************)
EXTENDS PowChain

CONSTANTS
    D, TWO_D, SQRT_M1,  \* the limbs of the constants
    Encodings,          \* encodings: the limbs of y, and the sign
    Digits              \* the digits of k and s, those of s by pairs, that a ladder may run on

ASSUME LaneAssumption ==
    /\ \A v \in {D, TWO_D, SQRT_M1} : v \in Vector /\ \A i \in Limb : v[i] < RADIX
    /\ Encodings \subseteq [y : Vector, sign : BOOLEAN]
    /\ \A enc \in Encodings : \A i \in Limb : enc.y[i] < RADIX
    /\ Digits \subseteq [key : [0..3 -> -8..8], base : [0..1 -> -1..1]]

VARIABLES
    policy,     \* which of the three checks ends the lane
    encoding,
    setup,      \* u, v and y of decompress_setup
    chain,      \* the addition chain under way
    multiples,  \* P, 2P, ..., as far as the table has come
    digits,
    acc,        \* the accumulator of the ladder
    position,   \* how many steps of the ladder or the check have begun
    formula,    \* the formula for points being evaluated
    parts,      \* its first products
    sums,       \* and their sums
    output,     \* what the check found
    stage, phase

vars == <<policy, encoding, setup, chain, multiples, digits, acc, position,
          formula, parts, sums, output, stage, phase>>

Policies == {"Zip215", "Dalek", "DalekDecoded"}

Formula(kind, left, right, computeT) ==
    [kind |-> kind, left |-> left, right |-> right, computeT |-> computeT]

NoPoint   == [x |-> Zero, y |-> One, z |-> One, t |-> Zero]
NoFormula == Formula("none", NoPoint, NoPoint, FALSE)
NoParts   == [a |-> Zero, b |-> Zero, c |-> Zero, d |-> Zero]
NoSums    == [e |-> Zero, f |-> Zero, g |-> Zero, h |-> Zero]
NoDigits  == [key |-> [i \in 0..3 |-> 0], base |-> [i \in 0..1 |-> 0]]
NoOutput  == [holds |-> FALSE, y |-> Zero, odd |-> FALSE]

Init == /\ policy \in Policies
        /\ encoding \in Encodings
        /\ setup = [u |-> Zero, v |-> Zero, y |-> Zero]
        /\ chain = Started(PowSteps, Zero)
        /\ multiples = << >>
        /\ digits = NoDigits
        /\ acc = NoPoint
        /\ position = 0
        /\ formula = NoFormula /\ parts = NoParts /\ sums = NoSums
        /\ output = NoOutput
        /\ stage = "setup" /\ phase = "idle"

-----------------------------------------------------------------------------
(***************************************************************************)
(* Decoding                                                                *)
(***************************************************************************)
\* decompress_setup
Setup == /\ stage = "setup"
         /\ LET yy == Square(encoding.y)
                u  == Subtract(yy, One)
                v  == Add(One, Multiply(D, yy))
            IN  /\ setup' = [u |-> u, v |-> v, y |-> encoding.y]
                /\ chain' = Started(PowSteps, Multiply(u, v))
         /\ stage' = "power"
         /\ UNCHANGED <<policy, encoding, multiples, digits, acc, position,
                        formula, parts, sums, output, phase>>

SquareInChain == /\ stage \in {"power", "invert"} /\ ~IsDone(chain) /\ chain.left > 0
                 /\ chain' = Squared(chain)
                 /\ UNCHANGED <<policy, encoding, setup, multiples, digits, acc, position,
                                formula, parts, sums, output, stage, phase>>

MultiplyInChain == /\ stage \in {"power", "invert"} /\ ~IsDone(chain) /\ chain.left = 0
                   /\ chain' = Multiplied(chain)
                   /\ UNCHANGED <<policy, encoding, setup, multiples, digits, acc, position,
                                  formula, parts, sums, output, stage, phase>>

\* The root of decompress_finish: x, and v times its square
FirstRoot == Multiply(setup.u, chain.out)
VX2       == Multiply(setup.v, Square(FirstRoot))

\* decompress_finish.  A lane that has no root goes on with what it has.
Finish == /\ stage = "power" /\ IsDone(chain)
          /\ LET primary   == Equals(VX2, setup.u)
                 alternate == IsZero(AddLoose(VX2, setup.u))
                 root      == IF ~primary /\ alternate THEN Multiply(FirstRoot, SQRT_M1) ELSE FirstRoot
                 x         == IF IsOdd(root) # encoding.sign THEN Negate(root) ELSE root
             IN  multiples' = <<[x |-> x, y |-> setup.y, z |-> One, t |-> Multiply(x, setup.y)]>>
          /\ stage' = "table"
          /\ UNCHANGED <<policy, encoding, setup, chain, digits, acc, position,
                         formula, parts, sums, output, phase>>

-----------------------------------------------------------------------------
(***************************************************************************)
(* Formulas for points                                                     *)
(***************************************************************************)
\* double_impl
DoubleProducts(p, affineZ) ==
    [a |-> SquareLoose(p.x),
     b |-> SquareLoose(p.y),
     c |-> IF affineZ THEN One ELSE SquareLoose(p.z),
     d |-> SquareLoose(AddLoose(p.x, p.y))]

\* add_impl
AddProducts(p, q, affineRhs) ==
    [a |-> Multiply(Subtract(p.y, p.x), Subtract(q.y, q.x)),
     b |-> Multiply(AddLoose(p.y, p.x), AddLoose(q.y, q.x)),
     c |-> Multiply(Multiply(p.t, q.t), TWO_D),
     d |-> DoubleLoose(IF affineRhs THEN p.z ELSE Multiply(p.z, q.z))]

\* add_selected_cached_refs_assign, of a projective or an affine entry
AddCachedProducts(p, entry) ==
    [a |-> MultiplyLoose(Subtract(p.y, p.x), entry.yMinusX),
     b |-> MultiplyLoose(AddLoose(p.y, p.x), entry.yPlusX),
     c |-> MultiplyLoose(p.t, entry.t2d),
     d |-> IF "z2" \in DOMAIN entry THEN MultiplyLoose(p.z, entry.z2) ELSE DoubleLoose(p.z)]

\* subtract_affine_and_check_8_torsion, up to X and Y of the difference
TorsionProducts(p, r) ==
    [a |-> Multiply(Subtract(p.y, p.x), AddLoose(r.y, r.x)),
     b |-> Multiply(AddLoose(p.y, p.x), Subtract(r.y, r.x)),
     c |-> Multiply(Multiply(p.t, r.t), TWO_D),
     d |-> DoubleLoose(p.z)]

Products(q) ==
    CASE q.kind = "double"       -> DoubleProducts(q.left, FALSE)
      [] q.kind = "doubleAffine" -> DoubleProducts(q.left, TRUE)
      [] q.kind = "torsionProduct" -> [DoubleProducts(q.left, TRUE) EXCEPT !.c = Zero]
      [] q.kind = "add"          -> AddProducts(q.left, q.right, FALSE)
      [] q.kind = "addAffine"    -> AddProducts(q.left, q.right, TRUE)
      [] q.kind = "addCached"    -> AddCachedProducts(q.left, q.right)
      [] q.kind = "torsion"      -> TorsionProducts(q.left, q.right)
      [] OTHER                   -> NoParts

\* The sums of the doubling: subtract_loose_sum, subtract_loose_sum_with_doubled_rhs,
\* subtract_loose and negate_loose_sum.  What is written c here is the Z^2.
DoubleSums(s) == [e |-> Minus(LOOSE_BIAS, s.d, Plus(s.a, s.b)),
                  f |-> Minus(LOOSE_BIAS, s.b, Plus(s.a, Plus(s.c, s.c))),
                  g |-> Minus(LOOSE_BIAS, s.b, s.a),
                  h |-> Minus(LOOSE_BIAS, Zero, Plus(s.a, s.b))]

\* Of the additions, whose differences take `bias` times p
AddSums(bias, s) == [e |-> Minus(bias, s.b, s.a), f |-> Minus(bias, s.d, s.c),
                     g |-> Plus(s.d, s.c),        h |-> Plus(s.b, s.a)]

TorsionSums(s) == [e |-> Minus(4, s.b, s.a), f |-> Plus(s.d, s.c),
                   g |-> Minus(4, s.d, s.c), h |-> Plus(s.b, s.a)]

\* The small bias in the addition of loose products (faulty)
RawSumsSmallBias(kind, s) ==
    CASE kind \in {"double", "doubleAffine"} -> DoubleSums(s)
      [] kind = "torsionProduct"    -> [DoubleSums(s) EXCEPT !.f = Zero, !.g = Zero]
      [] kind \in {"add", "addAffine", "addCached"} -> AddSums(4, s)
      [] kind = "torsion"           -> TorsionSums(s)
      [] OTHER                      -> NoSums

\* The sums before they are reduced: subtract, with the small bias, is for
\* products that were carried, subtract_loose for those that were not.
RawSums(kind, s) ==
    CASE kind \in {"double", "doubleAffine"} -> DoubleSums(s)
      [] kind = "torsionProduct"    -> [DoubleSums(s) EXCEPT !.f = Zero, !.g = Zero]
      [] kind \in {"add", "addAffine"} -> AddSums(4, s)
      [] kind = "addCached"         -> AddSums(LOOSE_BIAS, s)
      [] kind = "torsion"           -> TorsionSums(s)
      [] OTHER                      -> NoSums

\* The torsion check needs no Z of the difference, and of twice it only T.
PointOf(kind, s, computeT) ==
    [x |-> Multiply(s.e, s.f), y |-> Multiply(s.g, s.h),
     z |-> IF kind = "torsion" THEN One ELSE Multiply(s.f, s.g),
     t |-> IF computeT THEN Multiply(s.e, s.h) ELSE Zero]

Result == PointOf(formula.kind, sums, formula.computeT)

Begin(f) == /\ formula' = f
            /\ phase' = "products"

TakeProducts == /\ phase = "products"
                /\ parts' = Products(formula)
                /\ phase' = "sums"
                /\ UNCHANGED <<policy, encoding, setup, chain, multiples, digits, acc, position,
                               formula, sums, output, stage>>

TakeSums == /\ phase = "sums"
            /\ LET raw == RawSums(formula.kind, parts)
               IN  sums' = [s \in DOMAIN raw |-> Reduced(raw[s])]
            /\ phase' = "result"
            /\ UNCHANGED <<policy, encoding, setup, chain, multiples, digits, acc, position,
                           formula, parts, output, stage>>

\* The formula is done with; where its result goes is up to the caller.
TakeResult == /\ phase = "result"
              /\ formula' = NoFormula /\ parts' = NoParts /\ sums' = NoSums
              /\ phase' = "idle"

-----------------------------------------------------------------------------
(***************************************************************************)
(* The table                                                               *)
(***************************************************************************)
\* for_each_table_multiple
NextMultiple ==
    LET p == multiples
    IN  CASE Len(p) = 1 -> Formula("doubleAffine", p[1], p[1], TRUE)
          [] Len(p) = 2 -> Formula("addAffine", p[2], p[1], TRUE)
          [] Len(p) = 3 -> Formula("double", p[2], p[2], TRUE)
          [] Len(p) = 4 -> Formula("addAffine", p[4], p[1], TRUE)
          [] Len(p) = 5 -> Formula("double", p[3], p[3], TRUE)
          [] Len(p) = 6 -> Formula("add", p[4], p[3], TRUE)
          [] Len(p) = 7 -> Formula("double", p[4], p[4], TRUE)

BeginMultiple == /\ stage = "table" /\ phase = "idle" /\ Len(multiples) < 8
                 /\ Begin(NextMultiple)
                 /\ UNCHANGED <<policy, encoding, setup, chain, multiples, digits, acc, position,
                                parts, sums, output, stage>>

KeepMultiple == /\ stage = "table"
                /\ TakeResult
                /\ multiples' = Append(multiples, Result)
                /\ UNCHANGED <<policy, encoding, setup, chain, digits, acc, position, output, stage>>

\* write_cached_multiple: the entry of a point and that of its opposite
CachedEntry(p, isNegative) ==
    LET plus  == Add(p.y, p.x)
        minus == Subtract(p.y, p.x)
        t2d   == Multiply(p.t, TWO_D)
    IN  [yPlusX  |-> IF isNegative THEN minus ELSE plus,
         yMinusX |-> IF isNegative THEN plus ELSE minus,
         z2      |-> Twice(p.z),
         t2d     |-> IF isNegative THEN Negate(t2d) ELSE t2d]

CachedIdentity == [yPlusX |-> One, yMinusX |-> One, z2 |-> <<2, 0, 0, 0, 0>>, t2d |-> Zero]

Magnitude(digit) == IF digit < 0 THEN -digit ELSE digit

KeyEntry(digit) == IF digit = 0 THEN CachedIdentity
                   ELSE CachedEntry(multiples[Magnitude(digit)], digit < 0)

\* affine_basepoint_entries.  The decoded point stands in for the multiples of
\* the base point; its z is one, and so is the reciprocal.
BaseEntry(digit) ==
    LET x     == Multiply(multiples[1].x, One)
        y     == Multiply(multiples[1].y, One)
        plus  == Add(y, x)
        minus == Subtract(y, x)
        t2d   == Multiply(Multiply(x, y), TWO_D)
    IN  CASE digit = 0  -> [yPlusX |-> One, yMinusX |-> One, t2d |-> Zero]
          [] digit = 1  -> [yPlusX |-> plus, yMinusX |-> minus, t2d |-> t2d]
          [] digit = -1 -> [yPlusX |-> minus, yMinusX |-> plus, t2d |-> Negate(t2d)]

-----------------------------------------------------------------------------
(***************************************************************************)
(* The ladder                                                              *)
(***************************************************************************)
\* from_cached_refs_without_t
FromCachedWithoutT(entry) == [x |-> Subtract(entry.yPlusX, entry.yMinusX),
                              y |-> AddLoose(entry.yPlusX, entry.yMinusX),
                              z |-> entry.z2, t |-> Zero]

LoadTopDigit == /\ stage = "table" /\ phase = "idle" /\ Len(multiples) = 8
                /\ digits' \in Digits
                /\ acc' = FromCachedWithoutT(KeyEntry(-digits'.key[3]))
                /\ position' = 1
                /\ stage' = "ladder"
                /\ UNCHANGED <<policy, encoding, setup, chain, multiples,
                               formula, parts, sums, output, phase>>

\* mul_s_base_minus_k_public for four digits: the upper pair, then the lower
Doublings  == << "double", "double", "double", "doubleT" >>
UpperSteps == Doublings \o << "base1", "key2" >> \o Doublings \o << "key1" >>
LowerSteps == Doublings \o << "base0", "key0" >>

LadderSteps == UpperSteps \o LowerSteps

LadderFormula(step) ==
    CASE step = "double"  -> Formula("double", acc, acc, FALSE)
      [] step = "doubleT" -> Formula("double", acc, acc, TRUE)
      [] step = "base1"   -> Formula("addCached", acc, BaseEntry(digits.base[1]), TRUE)
      [] step = "base0"   -> Formula("addCached", acc, BaseEntry(digits.base[0]), TRUE)
      [] step = "key2"    -> Formula("addCached", acc, KeyEntry(-digits.key[2]), FALSE)
      [] step = "key1"    -> Formula("addCached", acc, KeyEntry(-digits.key[1]), FALSE)
      [] step = "key0"    -> Formula("addCached", acc, KeyEntry(-digits.key[0]), policy = "Zip215")

BeginLadderStep == /\ stage = "ladder" /\ phase = "idle" /\ position <= Len(LadderSteps)
                   /\ Begin(LadderFormula(LadderSteps[position]))
                   /\ UNCHANGED <<policy, encoding, setup, chain, multiples, digits, acc, position,
                                  parts, sums, output, stage>>

KeepAccumulator == /\ stage \in {"ladder", "smallOrder"}
                   /\ TakeResult
                   /\ acc' = Result
                   /\ position' = position + 1
                   /\ UNCHANGED <<policy, encoding, setup, chain, multiples, digits, output, stage>>

\* The result goes to the check of its policy.
LeaveLadder == /\ stage = "ladder" /\ phase = "idle" /\ position > Len(LadderSteps)
               /\ stage' = CASE policy = "Zip215" -> "torsion"
                             [] policy = "Dalek" -> "invert"
                             [] policy = "DalekDecoded" -> "compare"
               /\ chain' = IF policy = "Dalek" THEN Started(InvertSteps, acc.z) ELSE chain
               /\ position' = 1
               /\ UNCHANGED <<policy, encoding, setup, multiples, digits, acc,
                              formula, parts, sums, output, phase>>

-----------------------------------------------------------------------------
(***************************************************************************)
(* The checks.  The decoded point stands in for R.                         *)
(***************************************************************************)
\* subtract_affine_and_check_8_torsion: first the difference, then twice it
BeginTorsion == /\ stage = "torsion" /\ phase = "idle" /\ position <= 2
                /\ Begin(IF position = 1 THEN Formula("torsion", acc, multiples[1], FALSE)
                                         ELSE Formula("torsionProduct", acc, acc, TRUE))
                /\ UNCHANGED <<policy, encoding, setup, chain, multiples, digits, acc, position,
                               parts, sums, output, stage>>

KeepDifference == /\ stage = "torsion" /\ position = 1
                  /\ TakeResult
                  /\ acc' = Result
                  /\ position' = 2
                  /\ UNCHANGED <<policy, encoding, setup, chain, multiples, digits, output, stage>>

ScoreTorsion == /\ stage = "torsion" /\ position = 2
                /\ TakeResult
                /\ output' = [output EXCEPT !.holds = IsZero(Result.t)]
                /\ stage' = "done"
                /\ UNCHANGED <<policy, encoding, setup, chain, multiples, digits, acc, position>>

\* equals_affine_lanes
ScoreDecoded == /\ stage = "compare"
                /\ LET r == multiples[1]
                   IN  output' = [output EXCEPT !.holds = /\ Equals(acc.x, Multiply(r.x, acc.z))
                                                          /\ Equals(acc.y, Multiply(r.y, acc.z))]
                /\ stage' = "done"
                /\ UNCHANGED <<policy, encoding, setup, chain, multiples, digits, acc, position,
                               formula, parts, sums, phase>>

\* compress_with_z_inverse
Compress == /\ stage = "invert" /\ IsDone(chain)
            /\ output' = [output EXCEPT !.y = Canonical(Multiply(acc.y, chain.out)),
                                        !.odd = IsOdd(Multiply(acc.x, chain.out))]
            /\ stage' = "smallOrder"
            /\ UNCHANGED <<policy, encoding, setup, chain, multiples, digits, acc, position,
                           formula, parts, sums, phase>>

\* is_small_order_lanes: three doublings, then x = 0 and y = z
BeginSmallOrder == /\ stage = "smallOrder" /\ phase = "idle" /\ position <= 3
                   /\ Begin(Formula("double", acc, acc, FALSE))
                   /\ UNCHANGED <<policy, encoding, setup, chain, multiples, digits, acc, position,
                                  parts, sums, output, stage>>

ScoreSmallOrder == /\ stage = "smallOrder" /\ phase = "idle" /\ position = 4
                   /\ output' = [output EXCEPT !.holds = IsZero(acc.x) /\ Equals(acc.y, acc.z)]
                   /\ stage' = "done"
                   /\ UNCHANGED <<policy, encoding, setup, chain, multiples, digits, acc, position,
                                  formula, parts, sums, phase>>

\* The next chunk takes the lane.
NextLane == /\ stage = "done"
            /\ policy' \in Policies /\ encoding' \in Encodings /\ digits' = NoDigits
            /\ setup' = [u |-> Zero, v |-> Zero, y |-> Zero]
            /\ chain' = Started(PowSteps, Zero)
            /\ multiples' = << >>
            /\ acc' = NoPoint
            /\ position' = 0
            /\ output' = NoOutput
            /\ stage' = "setup"
            /\ UNCHANGED <<formula, parts, sums, phase>>

Next == \/ Setup \/ SquareInChain \/ MultiplyInChain \/ Finish
        \/ TakeProducts \/ TakeSums
        \/ BeginMultiple \/ KeepMultiple
        \/ LoadTopDigit \/ BeginLadderStep \/ KeepAccumulator \/ LeaveLadder
        \/ BeginTorsion \/ KeepDifference \/ ScoreTorsion
        \/ ScoreDecoded
        \/ Compress \/ BeginSmallOrder \/ ScoreSmallOrder
        \/ NextLane

Spec == Init /\ [][Next]_vars

-----------------------------------------------------------------------------
\* What the next products read of the coordinates, and of sums of them
FactorsFit(p) == \A c \in {p.x, p.y, p.z, p.t} : IsIfmaOperand(c) /\ IsIfmaOperand(CarryLimb0(c))

\* No limb that the multiplier is given has more bits than it reads, which the
\* code asserts in debug builds only: neither a coordinate of a point, an entry
\* of a table, a sum of products or a power of a chain that is multiplied, nor
\* a value left loose in a chain once its limb 0 has been carried.
OperandsFit ==
    /\ phase = "products" =>
         /\ FactorsFit(formula.left)
         /\ \A f \in DOMAIN formula.right : IsIfmaOperand(formula.right[f])
    /\ phase = "result" => \A s \in DOMAIN sums : IsIfmaOperand(sums[s])
    /\ stage \in {"power", "invert"} =>
         /\ IsIfmaOperand(CarryLimb0(chain.out))
         /\ chain.left = 0 => IsIfmaOperand(chain.out)
         /\ \A n \in DOMAIN chain.powers : IsIfmaOperand(chain.powers[n])

\* No difference falls below zero and no sum outgrows its register, or it would
\* be off by a power of two: the multiple of p that is added is large enough for
\* what is subtracted, and small enough for what it is added to.
NothingWraps ==
    /\ phase = "products" => /\ InRegisters(Minus(4, formula.left.y, formula.left.x))
                             /\ InRegisters(Plus(formula.left.y, formula.left.x))
                             /\ InRegisters(Plus(formula.left.z, formula.left.z))
    /\ phase = "sums" => LET raw == RawSums(formula.kind, parts)
                         IN  \A s \in DOMAIN raw : InRegisters(raw[s])
=============================================================================
