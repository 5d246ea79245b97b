-------------------------- MODULE ChallengeDigest --------------------------
(***************************************************************************)
(* The digests of ChallengeHash: the blocks of a lane, with bytes for the  *)
(* names of bytes, run through the compression of Compression, and the     *)
(* words of the final state swapped (digest_words_from_state).             *)
(***************************************************************************)
EXTENDS ChallengeHash, Compression

CONSTANT Content   \* the bytes of R || A || M, by their place

ASSUME ContentAssumption ==
    \A len \in MessageLengths : 0..(63 + len) \subseteq DOMAIN Content
                                /\ \A at \in 0..(63 + len) : Content[at] \in 0..255

ByteOf(name) == IF name < 256 THEN name ELSE Content[name - 256]

\* Bit b of eight bytes, the first of which is the most significant
WordOfBytes(bytes) ==
    {b \in Bit : (ByteOf(bytes[8 - (b \div 8)]) \div 2^(b % 8)) % 2 = 1}

BlockOfNames(block_) == [w \in 0..15 |-> WordOfBytes(block_[w])]

\* digest_words_from_state, of the state after all blocks
DigestWords(blocks) ==
    LET after[n \in 0..Len(blocks)] ==
            IF n = 0 THEN IV ELSE CompressBlock(after[n - 1], BlockOfNames(blocks[n]))
        last == after[Len(blocks)]
    IN  [w \in 1..8 |-> ByteSwapped(last[w])]

\* The digest by the definition of SHA-512, as the number whose bits are these:
\* byte after byte, the first one the least significant, each byte being the next
\* one down of a word of the state.
Digest(len) ==
    LET blockAt(n) == [w \in 0..15 |-> WordOfBytes([j \in 1..8 |->
                          PaddedByte(len, 128 * (n - 1) + 8 * w + j - 1)])]
        after[n \in 0..PaddedBlocks(len)] ==
            IF n = 0 THEN IV ELSE Sha512Block(after[n - 1], blockAt(n))
        last == after[PaddedBlocks(len)]
    IN  {m \in 0..511 : 8 * (7 - ((m \div 8) % 8)) + (m % 8) \in last[(m \div 64) + 1]}

\* Where the messages are of one length, the words handed to the reduction are
\* the digest of R || A || M as a little-endian number: compressing in place, the
\* schedule written over as it is read, does what the definition of SHA-512 says.
\* For lanes of different lengths DigestsExact says that they do the same.
DigestsAreSha512 ==
    phase = "done" /\ (\A lane \in Lanes : lens[lane] = lens[1]) =>
        LET words_ == DigestWords(state[1])
        IN  UNION {{64 * (w - 1) + b : b \in words_[w]} : w \in 1..8} = Digest(lens[1])
=============================================================================
