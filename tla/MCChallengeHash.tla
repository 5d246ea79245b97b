-------------------------- MODULE MCChallengeHash --------------------------
(***************************************************************************)
(* Two lanes, and messages that end on both sides of every boundary: of a  *)
(* word, of the half block behind the prefix, of the length trailer, and   *)
(* of a block, up to four blocks.  A word counts up to 2047, so that the   *)
(* bits of the longer messages take both words of their length.  Arbitrary *)
(* words and bytes.                                                        *)
(***************************************************************************)
EXTENDS ChallengeDigest

MCLengths == {0, 1, 7, 8, 46, 47, 48, 49, 55, 56, 63, 64, 65, 120, 175, 176, 191, 192, 303, 320}

\* Some word for each number: the bits by a quadratic residue or so
WordOf(n) == {b \in Bit : (b * b * 7 + n * b * 5 + n * n + 3 * n) % 11 < 5}

MCIV      == [n \in 1..8 |-> WordOf(n)]
MCK       == [n \in 0..79 |-> WordOf(n + 20)]
MCContent == [at \in 0..383 |-> (at * at * 7 + at * 89 + 200) % 256]
=============================================================================
