----------------------------- MODULE ChunkPlan -----------------------------
(***************************************************************************)
(* How a batch is cut into SIMD chunks (src/src/batch.rs): the decision to *)
(* reorder, the orders a sort may leave, and the lanes of each chunk.      *)
(* Inputs and lanes are numbered from one.  A batch is the sequence of the *)
(* lengths of its messages: nothing else of an input is looked at here.    *)
(***************************************************************************)
EXTENDS Integers, Sequences

CONSTANTS LANES,      \* SIMD_LANES: the lanes of a chunk, 8 in the code
          USIZE_MAX   \* the largest usize

ASSUME PlanAssumption == LANES \in Nat \ {0} /\ USIZE_MAX \in Nat

Lanes == 1..LANES

SaturatingAdd(a, b) == IF a + b > USIZE_MAX THEN USIZE_MAX ELSE a + b

\* ceil(a / b)
DivCeil(a, b) == (a \div b) + IF a % b = 0 THEN 0 ELSE 1

\* The SHA-512 blocks of R || A || M with one byte and a length of padding.
ChallengeBlockCount(messageLen) == DivCeil(SaturatingAdd(messageLen, 64 + 1 + 16), 128)

HasMixedBlockCounts(lens) ==
    \E i \in DOMAIN lens : ChallengeBlockCount(lens[i]) # ChallengeBlockCount(lens[1])

\* Whether a batch is visited in block-count order.
Reorders(lens) == Len(lens) >= LANES * 2 /\ HasMixedBlockCounts(lens)

InOrder(n) == [i \in 1..n |-> i]

\* The orders of the inputs in which block counts never decrease: the sort is
\* unstable, so ties fall in any order.
SortedOrders(lens) ==
    {o \in [DOMAIN lens -> DOMAIN lens] :
        \A i, j \in DOMAIN lens :
            i < j => /\ o[i] # o[j]
                     /\ ChallengeBlockCount(lens[o[i]]) <= ChallengeBlockCount(lens[o[j]])}

\* The sort appended to the list of an earlier batch (faulty)
SortedBehind(lens, before) == {before \o o : o \in SortedOrders(lens)}

\* What sort_indices_by_block_count may leave in a list that held `before`,
\* which it empties first.
SortedInto(lens, before) == SortedOrders(lens)

\* The input in each lane of the chunk that begins after `pos` inputs: the
\* lanes past the last input repeat it.
ChunkIndices(order, pos) ==
    [lane \in Lanes |-> IF pos + lane <= Len(order)
                        THEN order[pos + lane]
                        ELSE order[Len(order)]]

\* The lanes of that chunk that hold inputs of their own.
ActiveLanes(order, pos) ==
    IF pos + LANES <= Len(order) THEN LANES ELSE Len(order) - pos
=============================================================================
