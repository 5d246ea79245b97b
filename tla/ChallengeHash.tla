---------------------------- MODULE ChallengeHash ----------------------------
(***************************************************************************)
(* hash_ed25519_challenge_words (src/src/sha512.rs): SHA-512 of R || A || M*)
(* in every lane of a chunk at once, whatever the lengths of the messages. *)
(* All lanes take as many steps as the longest message has blocks; a block *)
(* is assembled by one of three paths, and the lanes that are through keep *)
(* the state they have.                                                    *)
(*                                                                         *)
(* The state of a lane is the sequence of the blocks compressed into it;   *)
(* ChallengeDigest compresses them.  A byte of R || A || M is named by its *)
(* place in them, from 256 on; the bytes below are themselves.             *)
(***************************************************************************)
EXTENDS ChunkPlan

CONSTANT MessageLengths   \* the lengths a message may have

\* The numbers of a u64, which are those of a usize: 2^64
WORD == USIZE_MAX + 1

\* No slice is so long that the count of its blocks saturates.
ASSUME HashAssumption ==
    /\ WORD % 8 = 0
    /\ \A n \in MessageLengths : n \in Nat /\ n + 81 <= USIZE_MAX

VARIABLES
    lens,    \* the length of the message of each lane
    words,   \* the words of the block at hand, lane by lane
    state,   \* the blocks compressed in each lane
    block,   \* block_index
    phase

vars == <<lens, words, state, block, phase>>

Zero == 0
Outside == -1   \* what a read past the end of a message would yield
Stream(offset) == 256 + offset

TotalLen(lane)    == 64 + lens[lane]
BlockCount(lane)  == ChallengeBlockCount(lens[lane])
BitLen(lane)      == (8 * TotalLen(lane)) % WORD
LengthStart(lane) == BlockCount(lane) * 128 - 16
MaxBlockCount == CHOOSE n \in {BlockCount(l) : l \in Lanes} : \A l \in Lanes : BlockCount(l) <= n
MinTotal      == CHOOSE n \in {TotalLen(l) : l \in Lanes} : \A l \in Lanes : n <= TotalLen(l)

-----------------------------------------------------------------------------
(***************************************************************************)
(* Words: eight bytes, the first one the most significant.  Their numbers  *)
(* in a block and the offsets of their bytes begin at zero.                *)
(***************************************************************************)
ZeroWord == [j \in 1..8 |-> Zero]

\* The bytes of a word that is a number
BigEndian(n) ==
    LET high == (n \div 65536) \div 65536
    IN  << (high \div 16777216) % 256, (high \div 65536) % 256, (high \div 256) % 256, high % 256,
           (n \div 16777216) % 256, (n \div 65536) % 256, (n \div 256) % 256, n % 256 >>

\* encoded_prefix_words: R and A
PrefixWord(w) == [j \in 1..8 |-> Stream(8 * w + j - 1)]

\* read_be_u64_slice of the message of a lane
MessageWord(lane, at) ==
    [j \in 1..8 |-> IF at + j - 1 \in 0..(lens[lane] - 1) THEN Stream(64 + at + j - 1) ELSE Outside]

\* mixed_message_tail_word: the end of the message, the mark, and zeros
TailWord(lane, offset) ==
    [j \in 1..8 |-> LET at == offset + j - 1
                    IN  IF at < TotalLen(lane) THEN Stream(at)
                        ELSE IF at = TotalLen(lane) THEN 128
                        ELSE Zero]

\* The bits of the length that BitLen has lost: total_len >> 61
HighWord(lane) == BigEndian(TotalLen(lane) \div (WORD \div 8))

\* A word of zeros from the end of the message on (faulty)
MixedBlockWordUnmarked(lane, offset) ==
    IF offset + 8 <= TotalLen(lane) THEN MessageWord(lane, offset - 64)
    ELSE IF offset = LengthStart(lane) + 8 THEN BigEndian(BitLen(lane))
    ELSE IF offset >= TotalLen(lane) /\ offset + 8 <= LengthStart(lane) + 8
         THEN IF offset = LengthStart(lane) THEN HighWord(lane) ELSE ZeroWord
    ELSE TailWord(lane, offset)

\* mixed_block_word, behind the prefix
MixedBlockWord(lane, offset) ==
    IF offset + 8 <= TotalLen(lane) THEN MessageWord(lane, offset - 64)
    ELSE IF offset = LengthStart(lane) + 8 THEN BigEndian(BitLen(lane))
    ELSE IF offset > TotalLen(lane) /\ offset + 8 <= LengthStart(lane) + 8
         THEN IF offset = LengthStart(lane) THEN HighWord(lane) ELSE ZeroWord
    ELSE TailWord(lane, offset)

-----------------------------------------------------------------------------
Init == /\ lens = [lane \in Lanes |-> 0]
        /\ words = << >>
        /\ state = [lane \in Lanes |-> << >>]
        /\ block = 0
        /\ phase = "idle"

Begin == /\ phase = "idle"
         /\ lens' \in [Lanes -> MessageLengths]
         /\ state' = [lane \in Lanes |-> << >>]
         /\ block' = 0
         /\ phase' = "hashing"
         /\ UNCHANGED words

HasBlocks == phase = "hashing" /\ block < MaxBlockCount

FirstIsData == block = 0 /\ MinTotal >= 128

\* Without the length of the block itself (faulty)
BlockIsDataPastEnd == block >= 1 /\ block * 128 <= MinTotal

BlockIsData == block >= 1 /\ block * 128 + 128 <= MinTotal

Compressed(active, assembled) ==
    [lane \in Lanes |-> IF lane \in active THEN Append(state[lane], assembled[lane]) ELSE state[lane]]

\* first_data_block_words: the prefix and the first half block of each message
HashFirstData == /\ HasBlocks
                 /\ FirstIsData
                 /\ words' = [lane \in Lanes |-> [w \in 0..15 |->
                        IF w < 8 THEN PrefixWord(w) ELSE MessageWord(lane, 8 * (w - 8))]]
                 /\ state' = Compressed(Lanes, words')
                 /\ block' = block + 1
                 /\ UNCHANGED <<lens, phase>>

\* message_data_block_words
HashData == /\ HasBlocks
            /\ BlockIsData
            /\ words' = [lane \in Lanes |-> [w \in 0..15 |->
                    MessageWord(lane, block * 128 - 64 + 8 * w)]]
            /\ state' = Compressed(Lanes, words')
            /\ block' = block + 1
            /\ UNCHANGED <<lens, phase>>

\* active_mask
Active == {lane \in Lanes : block < BlockCount(lane)}

\* generic_mixed_block_words, and the blend of the lanes that are through
HashMixed == /\ HasBlocks
             /\ ~FirstIsData /\ ~BlockIsData
             /\ words' = [lane \in Lanes |-> [w \in 0..15 |->
                    IF block = 0 /\ w < 8 THEN PrefixWord(w)
                    ELSE MixedBlockWord(lane, block * 128 + 8 * w)]]
             /\ state' = Compressed(Active, words')
             /\ block' = block + 1
             /\ UNCHANGED <<lens, phase>>

Return == /\ phase = "hashing"
          /\ block = MaxBlockCount
          /\ phase' = "done"
          /\ UNCHANGED <<lens, words, state, block>>

\* The digests are taken, and the next chunk begins afresh.
Leave == /\ phase = "done"
         /\ lens' = [lane \in Lanes |-> 0]
         /\ words' = << >>
         /\ state' = [lane \in Lanes |-> << >>]
         /\ block' = 0
         /\ phase' = "idle"

Next == Begin \/ HashFirstData \/ HashData \/ HashMixed \/ Return \/ Leave

Spec == Init /\ [][Next]_vars

-----------------------------------------------------------------------------
\* Byte `at` of the padded message, by the definition of SHA-512: the mark, then
\* zeros up to the two words of the length in bits that end the last block.
PaddedByte(len, at) ==
    LET total  == 64 + len
        bits   == 8 * total
        blocks == CHOOSE n \in 1..(total + 1) : n * 128 >= total + 17 /\ (n - 1) * 128 < total + 17
    IN  IF at < total THEN Stream(at)
        ELSE IF at = total THEN 128
        ELSE IF at >= blocks * 128 - 8 THEN BigEndian(bits % WORD)[at - (blocks * 128 - 8) + 1]
        ELSE IF at >= blocks * 128 - 16 THEN BigEndian(bits \div WORD)[at - (blocks * 128 - 16) + 1]
        ELSE Zero

PaddedBlocks(len) == CHOOSE n \in 1..(len + 65) : n * 128 >= len + 81 /\ (n - 1) * 128 < len + 81

\* Each lane hashes exactly its own padded message, whatever the lengths of the
\* messages beside it and whichever paths assemble its blocks.
DigestsExact ==
    phase = "done" =>
        \A lane \in Lanes :
            /\ Len(state[lane]) = PaddedBlocks(lens[lane])
            /\ \A b \in 1..Len(state[lane]), w \in 0..15, j \in 1..8 :
                  state[lane][b][w][j] = PaddedByte(lens[lane], 128 * (b - 1) + 8 * w + j - 1)

\* No path reads past the end of a message, not even for a lane that is through
\* and whose words are thrown away: the slices taken there would panic.
ReadsInside ==
    words # << >> => \A lane \in Lanes, w \in 0..15, j \in 1..8 : words[lane][w][j] # Outside
=============================================================================
