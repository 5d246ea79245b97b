------------------------------- MODULE Curve -------------------------------
(***************************************************************************)
(* The points of the curve and their encodings, as far as verification     *)
(* tells them apart.  The group of Ed25519 is cyclic of order 8L, so a     *)
(* point is named by a residue modulo 8L and the group is exact; only the  *)
(* coordinates are abstract (src/src/wide/avx512ifma/decode.rs, point.rs,  *)
(* multiscalar.rs).                                                        *)
(*                                                                         *)
(* An encoding is what a decoder and the byte comparisons of the policies  *)
(* see of 32 bytes: whether they decode, the point they decode to (for     *)
(* bytes that do not, the garbage the arithmetic leaves in their lane),    *)
(* the sign bit, and whether y is below the field modulus.                 *)
(***************************************************************************)
EXTENDS Integers

CONSTANT L   \* the order of the base point

ASSUME CurveAssumption == L \in Nat \ {0, 1}

Order  == 8 * L
Points == 0..(Order - 1)

Identity == 0
Base     == 8

Minus(p, q)    == (p - q) % Order
Multiple(n, p) == (n * p) % Order

\* x = 0 holds of the identity and of the point of order two.
XIsZero(p) == p \in {0, 4 * L}

\* Of a point and its opposite exactly one has an odd x, unless x = 0.
XIsOdd(p) == p > 4 * L

\* is_small_order_lanes, public_key_small_order_lanes: [8]P is the identity.
IsSmallOrder(p) == Multiple(8, p) = Identity

\* subtract_affine_and_check_8_torsion: [8](P - R) is the identity.
EqualUpToTorsion(p, r) == IsSmallOrder(Minus(p, r))

\* mul_s_base_minus_k_public: [s]B - [k]P, from the table of P.
Combination(s, k, p) == Minus(Multiple(s, Base), Multiple(k, p))

-----------------------------------------------------------------------------
\* A sign bit that disagrees with the parity of x selects the opposite point,
\* so only x = 0 has an encoding with the wrong one.
Encodings ==
    {e \in [onCurve : BOOLEAN, point : Points, signBit : BOOLEAN, canonicalY : BOOLEAN] :
        e.onCurve /\ ~XIsZero(e.point) => (e.signBit <=> XIsOdd(e.point))}

\* compress_with_z_inverse
Compressed(p) == [onCurve |-> TRUE, point |-> p, signBit |-> XIsOdd(p), canonicalY |-> TRUE]
=============================================================================
