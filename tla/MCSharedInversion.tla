------------------------- MODULE MCSharedInversion -------------------------
(***************************************************************************)
(* Points of small and of full order, each with several Z, and queues of   *)
(* one, two, three and four of them.                                       *)
(***************************************************************************)
EXTENDS SharedInversion

Scaled(p, z) == [x |-> Product(p.x, z), y |-> Product(p.y, z), z |-> z, t |-> 0]

MCResults == {Scaled(PointAt(n), z) : n \in {1, 3}, z \in {1, 2}} \cup {Scaled(PointAt(0), 28), Scaled(PointAt(8), 5)}
=============================================================================
