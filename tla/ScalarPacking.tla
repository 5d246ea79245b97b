--------------------------- MODULE ScalarPacking ---------------------------
(***************************************************************************)
(* How WideScalar52 (src/src/scalar/wide.rs) cuts the eight words of a     *)
(* challenge hash into ten limbs of 52 bits, and packs five limbs into     *)
(* four words, by shifts whose amounts are written out one by one.  At the *)
(* code's own widths: a register is a function from its 64 bits to the     *)
(* bits of the source that were or-ed into them.                           *)
(***************************************************************************)
EXTENDS Integers, Sequences

Register == 0..63

Srl(r, n)  == [t \in Register |-> IF t + n \in Register THEN r[t + n] ELSE {}]
Sll(r, n)  == [t \in Register |-> IF t - n \in Register THEN r[t - n] ELSE {}]
Or(r, q)   == [t \in Register |-> r[t] \cup q[t]]
Masked52(r) == [t \in Register |-> IF t < 52 THEN r[t] ELSE {}]

\* The bits of a source from `first` on, `width` of them
Bits(first, width) == [t \in Register |-> IF t < width THEN {first + t} ELSE {}]

Word(i) == Bits(64 * i, 64)

\* The end of one word and the beginning of the next
Straddling(i, right, left) == Masked52(Or(Srl(Word(i), right), Sll(Word(i + 1), left)))

\* from_wide_words: the five limbs of lo and the five of hi
LimbsOfWords == << Masked52(Word(0)),
                   Straddling(0, 52, 12),
                   Straddling(1, 40, 24),
                   Straddling(2, 28, 36),
                   Straddling(3, 16, 48),
                   Masked52(Srl(Word(4), 4)),
                   Straddling(4, 56, 8),
                   Straddling(5, 44, 20),
                   Straddling(6, 32, 32),
                   Srl(Word(7), 20) >>

\* A reduced scalar has 253 bits: 45 of them in its last limb.
Limb(j) == Bits(52 * j, IF j = 4 THEN 45 ELSE 52)

\* words, with a shift that loses the end of a limb (faulty)
WordsOfLimbsSlipped == << Or(Limb(0), Sll(Limb(1), 52)),
                          Or(Srl(Limb(1), 12), Sll(Limb(2), 40)),
                          Or(Srl(Limb(2), 28), Sll(Limb(3), 28)),
                          Or(Srl(Limb(3), 36), Sll(Limb(4), 16)) >>

\* words
WordsOfLimbs == << Or(Limb(0), Sll(Limb(1), 52)),
                   Or(Srl(Limb(1), 12), Sll(Limb(2), 40)),
                   Or(Srl(Limb(2), 24), Sll(Limb(3), 28)),
                   Or(Srl(Limb(3), 36), Sll(Limb(4), 16)) >>
=============================================================================
