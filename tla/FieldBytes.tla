----------------------------- MODULE FieldBytes -----------------------------
(***************************************************************************)
(* How the 32 bytes of an encoding are cut into five limbs of 51 bits      *)
(* (Fe51::from_bytes_unchecked in src/src/field.rs) and how canonical      *)
(* limbs are packed into four words again (WideFe::to_bytes_lanes), by     *)
(* offsets and shifts that are written out one by one.  A register is the  *)
(* function of ScalarPacking, from its bits to the bits of the source that *)
(* are or-ed into them.                                                    *)
(***************************************************************************)
EXTENDS ScalarPacking

Masked51(r) == [t \in Register |-> IF t < 51 THEN r[t] ELSE {}]

\* load_u64_le: eight bytes from a byte offset on
LoadedAt(offset) == Bits(8 * offset, 64)

\* from_bytes_unchecked
LimbsOfBytes == << Masked51(LoadedAt(0)),
                   Masked51(Srl(LoadedAt(6), 3)),
                   Masked51(Srl(LoadedAt(12), 6)),
                   Masked51(Srl(LoadedAt(19), 1)),
                   Masked51(Srl(LoadedAt(24), 12)) >>

\* A canonical limb of a field element; below, i is the code's index.
FieldLimb(i) == Bits(51 * i, 51)

\* Fits FieldLimb(2) one bit too far to the left (faulty)
PackedSlipped == << Or(FieldLimb(0), Sll(FieldLimb(1), 51)),
                    Or(Srl(FieldLimb(1), 13), Sll(FieldLimb(2), 39)),
                    Or(Srl(FieldLimb(2), 26), Sll(FieldLimb(3), 25)),
                    Or(Srl(FieldLimb(3), 39), Sll(FieldLimb(4), 12)) >>

\* The words of to_bytes_lanes
Packed == << Or(FieldLimb(0), Sll(FieldLimb(1), 51)),
             Or(Srl(FieldLimb(1), 13), Sll(FieldLimb(2), 38)),
             Or(Srl(FieldLimb(2), 26), Sll(FieldLimb(3), 25)),
             Or(Srl(FieldLimb(3), 39), Sll(FieldLimb(4), 12)) >>
=============================================================================
