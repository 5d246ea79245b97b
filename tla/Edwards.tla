------------------------------ MODULE Edwards ------------------------------
(***************************************************************************)
(* The arithmetic of one lane of a WidePoint                               *)
(* (src/src/wide/avx512ifma/point.rs): points of the twisted Edwards curve *)
(* -x^2 + y^2 = 1 + d x^2 y^2 in extended coordinates, by the formulas of  *)
(* the code, over a field small enough to enumerate.  A field element is   *)
(* its residue; how limbs hold it is left out.                             *)
(*                                                                         *)
(* The last part is the curve as a textbook defines it, for comparison.    *)
(***************************************************************************)
EXTENDS Integers, Sequences, FiniteSets

CONSTANTS
    FIELD_P,   \* the field modulus, 5 mod 8 like 2^255 - 19
    CURVE_D,   \* the d of the curve, not a square
    L          \* the order of the base point: the curve has 8L points

ASSUME EdwardsAssumption ==
    /\ FIELD_P \in Nat /\ FIELD_P % 8 = 5
    /\ CURVE_D \in 1..(FIELD_P - 1)
    /\ L \in Nat \ {0, 1}

Field == 0..(FIELD_P - 1)

Sum(a, b)        == (a + b) % FIELD_P
Difference(a, b) == (a - b) % FIELD_P
Product(a, b)    == (a * b) % FIELD_P
Square(a)        == Product(a, a)
Negated(a)       == Difference(0, a)
TwoD             == Sum(CURVE_D, CURVE_D)

Power(a, n) == LET power[i \in 0..n] == IF i = 0 THEN 1
                                        ELSE Product(Square(power[i \div 2]), IF i % 2 = 1 THEN a ELSE 1)
               IN  power[n]

\* invert; zero stays zero.
Inverted(a) == Power(a, FIELD_P - 2)

\* The modulus is a prime, so that this is the inverse of all but zero.
ASSUME InverseAssumption == \A a \in Field \ {0} : Product(a, Inverted(a)) = 1

-----------------------------------------------------------------------------
(***************************************************************************)
(* Extended points [x, y, z, t]: the affine point is (x/z, y/z), and t is  *)
(* xy/z, or zero where the code does not compute it.                       *)
(***************************************************************************)
HasT(p) == Product(p.t, p.z) = Product(p.x, p.y)

\* double_impl
DoubleImpl(p, computeT, affineZ) ==
    LET a  == Square(p.x)
        b  == Square(p.y)
        z2 == IF affineZ THEN 1 ELSE Square(p.z)
        e  == Difference(Square(Sum(p.x, p.y)), Sum(a, b))
        g  == Difference(b, a)
        f  == Difference(g, Sum(z2, z2))
        h  == Negated(Sum(a, b))
    IN  [x |-> Product(e, f), y |-> Product(g, h), z |-> Product(f, g),
         t |-> IF computeT THEN Product(e, h) ELSE 0]

Double(p)           == DoubleImpl(p, TRUE, FALSE)
DoubleWithoutT(p)   == DoubleImpl(p, FALSE, FALSE)
DoubleFromAffine(p) == DoubleImpl(p, TRUE, TRUE)

\* The last doubling without T as well (faulty)
DoubleFourTimesWithoutT(p) == DoubleWithoutT(DoubleWithoutT(DoubleWithoutT(DoubleWithoutT(p))))

\* One doubling short (faulty)
DoubleThreeTimes(p) == Double(DoubleWithoutT(DoubleWithoutT(p)))

\* double_four_times_assign
DoubleFourTimes(p) == Double(DoubleWithoutT(DoubleWithoutT(DoubleWithoutT(p))))

\* add_impl
AddImpl(p, q, affineRhs) ==
    LET a == Product(Difference(p.y, p.x), Difference(q.y, q.x))
        b == Product(Sum(p.y, p.x), Sum(q.y, q.x))
        c == Product(Product(p.t, q.t), TwoD)
        d == IF affineRhs THEN Sum(p.z, p.z) ELSE Product(2, Product(p.z, q.z))
        e == Difference(b, a)
        f == Difference(d, c)
        g == Sum(d, c)
        h == Sum(b, a)
    IN  [x |-> Product(e, f), y |-> Product(g, h), z |-> Product(f, g), t |-> Product(e, h)]

Add(p, q)          == AddImpl(p, q, FALSE)
AddAffineRhs(p, q) == AddImpl(p, q, TRUE)

\* add_selected_cached_refs_assign: c is a cached point, affine if it has no z2.
AddCached(p, c, computeT) ==
    LET a == Product(Difference(p.y, p.x), c.yMinusX)
        b == Product(Sum(p.y, p.x), c.yPlusX)
        k == Product(p.t, c.t2d)
        d == IF "z2" \in DOMAIN c THEN Product(p.z, c.z2) ELSE Sum(p.z, p.z)
        e == Difference(b, a)
        f == Difference(d, k)
        g == Sum(d, k)
        h == Sum(b, a)
    IN  [x |-> Product(e, f), y |-> Product(g, h), z |-> Product(f, g),
         t |-> IF computeT THEN Product(e, h) ELSE 0]

\* from_cached_refs_without_t
FromCachedWithoutT(c) == [x |-> Difference(c.yPlusX, c.yMinusX), y |-> Sum(c.yPlusX, c.yMinusX),
                          z |-> c.z2, t |-> 0]

\* As if eight times an affine point were affine (faulty)
IsSmallOrderAffine(p) ==
    LET p8 == DoubleWithoutT(DoubleWithoutT(DoubleWithoutT(p)))
    IN  p8.x = 0 /\ p8.y = 1

\* is_small_order_lanes
IsSmallOrderPoint(p) ==
    LET p8 == DoubleWithoutT(DoubleWithoutT(DoubleWithoutT(p)))
    IN  p8.x = 0 /\ p8.y = p8.z

\* equals_affine_lanes
EqualsAffine(p, r) == p.x = Product(r.x, p.z) /\ p.y = Product(r.y, p.z)

\* The x of the difference tested instead: no cofactor (faulty)
SubtractAndCheckIdentity(p, r) ==
    LET a == Product(Difference(p.y, p.x), Sum(r.y, r.x))
        b == Product(Sum(p.y, p.x), Difference(r.y, r.x))
    IN  a = b

\* subtract_affine_and_check_8_torsion: xy = 0 at twice the difference.
SubtractAffineAndCheck8Torsion(p, r) ==
    LET a  == Product(Difference(p.y, p.x), Sum(r.y, r.x))
        b  == Product(Sum(p.y, p.x), Difference(r.y, r.x))
        c  == Product(Product(p.t, r.t), TwoD)
        d  == Sum(p.z, p.z)
        e  == Difference(b, a)
        f  == Sum(d, c)
        g  == Difference(d, c)
        h  == Sum(b, a)
        x  == Product(e, f)
        y  == Product(g, h)
        xx == Square(x)
        yy == Square(y)
        e2 == Difference(Square(Sum(x, y)), Sum(xx, yy))
        h2 == Negated(Sum(xx, yy))
    IN  Product(e2, h2) = 0

\* compress_with_z_inverse: y, and the parity of x beside it
CompressWithZInverse(p, zinv) == [y    |-> Product(p.y, zinv),
                                  sign |-> Product(p.x, zinv) % 2 = 1]

-----------------------------------------------------------------------------
(***************************************************************************)
(* The curve by its definition                                             *)
(***************************************************************************)
OnCurve(x, y) == Difference(Square(y), Square(x)) = Sum(1, Product(CURVE_D, Product(Square(x), Square(y))))

CurvePoints == {p \in [x : Field, y : Field] : OnCurve(p.x, p.y)}

Neutral == [x |-> 0, y |-> 1]

\* The group law in affine coordinates
Plus(p, q) ==
    LET xy == Product(CURVE_D, Product(Product(p.x, q.x), Product(p.y, q.y)))
    IN  [x |-> Product(Sum(Product(p.x, q.y), Product(q.x, p.y)), Inverted(Sum(1, xy))),
         y |-> Product(Sum(Product(p.y, q.y), Product(p.x, q.x)), Inverted(Difference(1, xy)))]

\* The multiples of p from zero on, as many as the curve has points, by doubling
\* and adding
MultiplesOf(p) == LET multiple[n \in 0..(8 * L - 1)] ==
                          IF n = 0 THEN Neutral
                          ELSE IF n % 2 = 1 THEN Plus(multiple[n - 1], p)
                          ELSE Plus(multiple[n \div 2], multiple[n \div 2])
                  IN  [n \in 0..(8 * L - 1) |-> multiple[n]]

Generates(p) == Cardinality({MultiplesOf(p)[n] : n \in 0..(8 * L - 1)}) = 8 * L

\* The group of the curve is cyclic.
ASSUME GeneratorAssumption == \E p \in CurvePoints : Generates(p)

\* A generator of the whole group: the point of each residue is its multiple.
Generated == MultiplesOf(CHOOSE p \in CurvePoints : Generates(p))

PointAt(n)   == Generated[n % (8 * L)]
ResidueOf(p) == CHOOSE n \in 0..(8 * L - 1) : Generated[n] = p

\* What a textbook proves of the curve: d is not a square, its points are the
\* multiples of the generator, and they add up as their residues do.
ASSUME GroupAssumption ==
    /\ \A a \in Field : Square(a) # CURVE_D
    /\ CurvePoints = {PointAt(n) : n \in 0..(8 * L - 1)}
    /\ \A m, n \in 0..(8 * L - 1) : Plus(PointAt(m), PointAt(n)) = PointAt(m + n)

Affine(p) == LET zinv == Inverted(p.z) IN [x |-> Product(p.x, zinv), y |-> Product(p.y, zinv)]
=============================================================================
