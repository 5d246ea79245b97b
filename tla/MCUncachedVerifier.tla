------------------------- MODULE MCUncachedVerifier -------------------------
(***************************************************************************)
(* UncachedVerifier with two lanes on the inputs of MCVerifier: every kind *)
(* the policies tell apart in every pair, and batches of five that are     *)
(* sorted.                                                                 *)
(***************************************************************************)
EXTENDS UncachedVerifier, SampleInputs

MCBatches == Pairs \cup [1..3 -> {Good, NoKey, LargeS}] \cup [1..5 -> {Good, WrongR}]
=============================================================================
