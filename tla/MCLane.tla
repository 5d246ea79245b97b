------------------------------- MODULE MCLane -------------------------------
(***************************************************************************)
(* The curve of order 24 over the field of 29 elements, and every encoding *)
(* a key can have: points of each order (1, 2, 3, 4, 6, 8, 12, 24), y of   *)
(* no point, the three y that are not canonical, and both signs of each.   *)
(* The scalars reach both ends of the range, the digits -8 and 7 in a row, *)
(* and carries through all of them.                                       *)
(***************************************************************************)
EXTENDS Lane

MCKeys        == EncodedBytes
MCSignScalars == {0, 5, 489335, 559240, 1193046, 2097151}
MCChallenges  == {0, 8, 489335, 559240, 1193046, 2097150}
=============================================================================
