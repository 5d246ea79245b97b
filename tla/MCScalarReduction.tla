------------------------- MODULE MCScalarReduction -------------------------
(***************************************************************************)
(* Limbs of five bits: an order of 21 bits, as far above a power of two    *)
(* and with the same limb zero as the code's, and hashes of 48 bits.  The  *)
(* limbs of the hashes are zero, one, all ones or mixed: every pattern of  *)
(* them in the lower half, and the ends of the range in the upper.         *)
(***************************************************************************)
EXTENDS ScalarReduction

FiveLimbs(l0, l1, l2, l3, l4) ==
    [i \in LimbIndices |-> CASE i = 0 -> l0 [] i = 1 -> l1 [] i = 2 -> l2 [] i = 3 -> l3 [] i = 4 -> l4]

MCOrder  == FiveLimbs(19, 29, 2, 0, 1)
MCR      == FiveLimbs(19, 10, 5, 29, 0)
MCRR     == FiveLimbs(6, 24, 31, 26, 0)

Lower == [LimbIndices -> {0, 13, 31}]
Upper == {NoLimbs, FiveLimbs(1, 0, 0, 0, 0), FiveLimbs(18, 29, 2, 0, 1), MCOrder,
          FiveLimbs(31, 31, 31, 31, 7), FiveLimbs(0, 0, 0, 0, 7), FiveLimbs(9, 27, 4, 16, 5)}
MCHashes == {[lo |-> l, hi |-> h] : l \in Lower, h \in Upper}
=============================================================================
