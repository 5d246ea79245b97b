----------------------------- MODULE MCVerifier -----------------------------
(***************************************************************************)
(* Verifier with two lanes.  The short batches hold every kind of input    *)
(* the policies tell apart, in every pair; the long ones are enough to be  *)
(* sorted, to fill the queue and to leave some of it for the last flush.   *)
(***************************************************************************)
EXTENDS Verifier, SampleInputs

MCBatches == Pairs \cup [1..3 -> {Good, GoodB, LargeS}] \cup [1..5 -> {Good, WrongR}]
                   \cup [1..5 -> {Good, GoodB}]
MCKeys    == {KeyA, KeyB, KeyS}
MCCapacities == {1, 2}
=============================================================================
