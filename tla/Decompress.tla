----------------------------- MODULE Decompress -----------------------------
(***************************************************************************)
(* The decoding of one lane (src/src/wide/avx512ifma/decode.rs) and the    *)
(* table of signed multiples built from what it yields                     *)
(* (src/src/wide/avx512ifma/tables.rs, src/src/edwards.rs).                *)
(*                                                                         *)
(* An encoding is a y of as many bits as the modulus has, which need not   *)
(* be below the modulus, and a sign.                                       *)
(***************************************************************************)
EXTENDS Edwards

CONSTANTS SQRT_M1,   \* a square root of -1
          Y_LIMIT,   \* the y of an encoding is below it: 2^255 in the code
          Unset      \* a slot of a table that nothing was written to

ASSUME DecompressAssumption ==
    /\ SQRT_M1 \in Field /\ Square(SQRT_M1) = FIELD_P - 1
    /\ Y_LIMIT \in Nat /\ Y_LIMIT >= FIELD_P
    /\ Unset \notin [yPlusX : Field, yMinusX : Field, z2 : Field, t2d : Field]

EncodedBytes == [y : 0..(Y_LIMIT - 1), sign : BOOLEAN]

\* r_encoding_has_canonical_y
HasCanonicalY(bytes) == bytes.y < FIELD_P

\* decompress_finish that takes the first root it finds (faulty)
DecompressFirstRoot(bytes, computeT) ==
    LET y   == bytes.y % FIELD_P
        u   == Difference(Square(y), 1)
        v   == Sum(1, Product(CURVE_D, Square(y)))
        x   == Product(u, Power(Product(u, v), (FIELD_P - 5) \div 8))
        vx2 == Product(v, Square(x))
        pos == IF (x % 2 = 1) # bytes.sign THEN Negated(x) ELSE x
    IN  [point |-> [x |-> pos, y |-> y, z |-> 1, t |-> IF computeT THEN Product(pos, y) ELSE 0],
         valid |-> vx2 = u,
         xZero |-> x = 0]

\* decompress_setup, the exponentiation, and decompress_finish.  The point of a
\* lane that is not valid is garbage, but it is there.
DecompressPoint(bytes, computeT) ==
    LET y         == bytes.y % FIELD_P
        u         == Difference(Square(y), 1)
        v         == Sum(1, Product(CURVE_D, Square(y)))
        root      == Product(u, Power(Product(u, v), (FIELD_P - 5) \div 8))
        vx2       == Product(v, Square(root))
        primary   == vx2 = u
        alternate == Sum(vx2, u) = 0
        x         == IF ~primary /\ alternate THEN Product(root, SQRT_M1) ELSE root
        signed    == IF (x % 2 = 1) # bytes.sign THEN Negated(x) ELSE x
    IN  [point |-> [x |-> signed, y |-> y, z |-> 1, t |-> IF computeT THEN Product(signed, y) ELSE 0],
         valid |-> primary \/ alternate,
         xZero |-> x = 0]

-----------------------------------------------------------------------------
SignedDigits == (-8)..8

Cached(p) == [yPlusX |-> Sum(p.y, p.x), yMinusX |-> Difference(p.y, p.x),
              z2 |-> Sum(p.z, p.z), t2d |-> Product(p.t, TwoD)]

\* The opposite point swaps two coordinates and negates one.
CachedOpposite(p) == [yPlusX |-> Difference(p.y, p.x), yMinusX |-> Sum(p.y, p.x),
                      z2 |-> Sum(p.z, p.z), t2d |-> Negated(Product(p.t, TwoD))]

CachedIdentity == [yPlusX |-> 1, yMinusX |-> 1, z2 |-> 2, t2d |-> 0]

\* PointTable::decode_destination, and the table of invalid lanes
DecodeDestination == [digit \in SignedDigits |-> IF digit = 0 THEN CachedIdentity ELSE Unset]
IdentityTable     == [digit \in SignedDigits |-> CachedIdentity]

\* set_multiple of write_cached_multiple
SetMultiple(table, multiple, p) ==
    [table EXCEPT ![multiple] = Cached(p), ![-multiple] = CachedOpposite(p)]

\* The multiples of for_each_table_multiple with [6]P from the wrong one (faulty)
TableMultipleSlipped(p) ==
    LET p2 == DoubleFromAffine(p)
        p3 == AddAffineRhs(p2, p)
        p4 == Double(p2)
    IN  <<p, p2, p3, p4, AddAffineRhs(p4, p), Double(p4), Add(p4, p3), Double(p4)>>

\* The points that for_each_table_multiple hands to the writer, in its order
TableMultiple(p) ==
    LET p2 == DoubleFromAffine(p)
        p3 == AddAffineRhs(p2, p)
        p4 == Double(p2)
    IN  <<p, p2, p3, p4, AddAffineRhs(p4, p), Double(p3), Add(p4, p3), Double(p4)>>
=============================================================================
