-------------------------- MODULE MCBasepointTable --------------------------
(***************************************************************************)
(* The full table of 136 multiples, on the curve of order 40 over the      *)
(* field of 37 elements, of each of its four points of prime order: the    *)
(* multiples wrap around many times, so blocks add equal points, opposite  *)
(* points and the identity.                                                *)
(***************************************************************************)
EXTENDS BasepointTable

MCBasePoints == {PointAt(8 * n) : n \in 1..4}
=============================================================================
