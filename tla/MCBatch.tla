------------------------------ MODULE MCBatch ------------------------------
(***************************************************************************)
(* Batch with two lanes on batches of up to five messages, of lengths on   *)
(* both sides of the first block boundary and past the second: from the    *)
(* empty batch to one more than the size gate of four, so that the tail is *)
(* full, padded or absent and the sort runs or not.  The longest begin with*)
(* a message of two blocks, so that no sort leaves them as they are.       *)
(***************************************************************************)
EXTENDS Batch
MCLengths == {47, 48, 176}
MCBatches == UNION {[1..n -> MCLengths] : n \in 0..4} \cup {b \in [1..5 -> {47, 48}] : b[1] = 48}
=============================================================================
