----------------------------- MODULE MCLimbLane -----------------------------
(***************************************************************************)
(* Limbs of 11 bits that the multiplier reads 12 of, in registers of 20    *)
(* bits: p is 2^55 - 3.  The bounds stand to each other as the code's do.  *)
(* Both signs of a y of zero, one, minus one, all ones (p + 2) and four    *)
(* mixed values.  Three ladders: the base point alone, and two with digits *)
(* at their ends.                                                          *)
(***************************************************************************)
EXTENDS LimbLaneExact

MCD      == <<1343, 155, 829, 1022, 1823>>
MCTwoD   == <<641, 311, 1658, 2044, 1598>>
MCSqrtM1 == <<1831, 165, 1734, 735, 1299>>

MCEncodings == {[y |-> y, sign |-> s] : s \in BOOLEAN,
                y \in {Zero, One, <<2047, 2047, 2047, 2047, 2047>>, <<2044, 2047, 2047, 2047, 2047>>,
                       <<1234, 2047, 0, 777, 2046>>, <<0, 0, 0, 0, 1024>>,
                       <<2047, 0, 2047, 0, 2047>>, <<1, 2, 4, 8, 16>>}}

Ladder(k3, k2, k1, k0, b1, b0) ==
    [key  |-> [i \in 0..3 |-> CASE i = 0 -> k0 [] i = 1 -> k1 [] i = 2 -> k2 [] i = 3 -> k3],
     base |-> [i \in 0..1 |-> IF i = 0 THEN b0 ELSE b1]]

MCDigits == {Ladder(0, 0, 0, 0, 0, 1), Ladder(-8, 7, -8, -1, -1, 1), Ladder(3, -8, 0, 5, 1, 0)}

\* Limb 0 at the edges of p, of the radix, and of what a carry adds to it; the
\* others empty, full or, in limb 1, with the carry of a loose limb 0
MCLoose == {<<l0, l1, l2, l3, l4>> : l0 \in {0, 1, 2044, 2045, 2046, 2047, 2048, 3583},
                                     l1 \in {0, 2046, 2047}, l2 \in {0, 2047},
                                     l3 \in {0, 2047}, l4 \in {0, 2047}}
           \cup {<<l0, l1, 2047, 2047, l4>> : l0 \in {0, 3, 2047}, l1 \in {2048, 2111}, l4 \in {0, 2047}}

MCFactors == {5, 1871, 2207, 2621}
=============================================================================
