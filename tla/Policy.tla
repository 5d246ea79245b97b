------------------------------- MODULE Policy -------------------------------
(***************************************************************************)
(* The two acceptance policies (src/src/verifier/policy.rs), lane by lane. *)
(* Each has two ways to score a lane: at once, when the chunk had to       *)
(* decode a key and decoded R with it, and after queueing, when all it has *)
(* is the result of the ladder and the encoding of R.                      *)
(***************************************************************************)
EXTENDS Curve

Policies == {"Zip215", "Dalek"}

\* One signature to verify.  s is its scalar, k the challenge its R, key and
\* message hash to, len the length of the message.
Inputs == [key : Encodings, r : Encodings, s : Nat, k : 0..(L - 1), len : Nat]

\* scalar::is_canonical, and the digits of a lane: zero unless s is canonical
IsCanonical(s) == s < L
Digits(s)      == IF IsCanonical(s) THEN s ELSE 0

\* reject_small_order_keys, of a lane that was valid before
RejectsKey(policy, p) == policy = "Dalek" /\ IsSmallOrder(p)

zip215_lane_accepts(equation_holds, input_valid, r_valid) ==
    equation_holds /\ input_valid /\ r_valid

\* score_zip215_lanes
ScoreZip215(p, r, valid) ==
    zip215_lane_accepts(EqualUpToTorsion(p, r.point), valid, r.onCurve)

\* score_dalek_lanes of an encoding that need not be canonical (faulty)
ScoreDalekAnyY(p, r, valid) ==
    /\ p = r.point
    /\ valid
    /\ r.onCurve
    /\ ~(XIsZero(r.point) /\ r.signBit)
    /\ ~IsSmallOrder(r.point)

\* score_dalek_lanes: R was decoded, and its encoding is judged on its own.
ScoreDalek(p, r, valid) ==
    /\ p = r.point
    /\ valid
    /\ r.onCurve
    /\ r.canonicalY
    /\ ~(XIsZero(r.point) /\ r.signBit)
    /\ ~IsSmallOrder(r.point)

\* flush_dalek_queue: the result is compressed and the bytes are compared.
FlushDalek(p, r, valid) == Compressed(p) = r /\ valid /\ ~IsSmallOrder(p)

\* verify_lanes and verify_decoded_lanes, of a chunk whose R is decoded
Score(policy, p, r, valid) ==
    IF policy = "Dalek" THEN ScoreDalek(p, r, valid) ELSE ScoreZip215(p, r, valid)

\* flush_queue, of a chunk that was queued
Flush(policy, p, r, valid) ==
    IF policy = "Dalek" THEN FlushDalek(p, r, valid) ELSE ScoreZip215(p, r, valid)
=============================================================================
