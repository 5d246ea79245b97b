---------------------------- MODULE SampleInputs ----------------------------
(***************************************************************************)
(* The kinds of input the policies tell apart, on a curve whose base point *)
(* has order three: 24 points, of which the eight multiples of three are   *)
(* the small-order ones.  For the model-checked instances only.            *)
(***************************************************************************)
EXTENDS Policy

Malformed(p) == [onCurve |-> FALSE, point |-> p, signBit |-> FALSE, canonicalY |-> TRUE]
Large(e)     == [e EXCEPT !.canonicalY = FALSE]
Flipped(e)   == [e EXCEPT !.signBit = ~e.signBit]

KeyA == Compressed(16)   \* a multiple of the base point
KeyB == Compressed(19)   \* one with a torsion component
KeyS == Compressed(3)    \* of order eight

Input(key, r, s, len) == [key |-> key, r |-> r, s |-> s, k |-> 1, len |-> len]
Signed(key, s, len)   == Input(key, Compressed(Combination(s, 1, key.point)), s, len)

Good    == Signed(KeyA, 1, 47)
GoodB   == Signed(KeyB, 1, 47)
WeakKey == Signed(KeyS, 1, 47)
WeakR   == Signed(KeyA, 2, 47)            \* [2]B - A is the identity
Torsion == Input(KeyA, Compressed(19), 1, 47)
LargeY  == Input(KeyA, Large(Compressed(16)), 1, 47)
MinusR  == Input(KeyA, Flipped(Compressed(0)), 2, 47)
NoR     == Input(KeyA, Malformed(16), 1, 47)
WrongR  == Input(KeyA, Compressed(8), 1, 48)
NoKey   == Input(Malformed(16), Compressed(16), 1, 47)
LargeS  == Input(KeyA, Compressed(16), 4, 47)

Kinds == {Good, GoodB, WeakKey, WeakR, Torsion, LargeY, MinusR, NoR, WrongR, NoKey, LargeS}
Pairs == {<< >>} \cup [1..1 -> Kinds] \cup [1..2 -> Kinds]
=============================================================================
