---------------------------- MODULE Compression ----------------------------
(***************************************************************************)
(* The compression function of src/src/sha512.rs, for one lane: a schedule *)
(* that lives in sixteen words and is written over as it is read, and      *)
(* eight registers that change places.  A word is the set of its bits that *)
(* are one.  ChallengeHash says which words the blocks are made of.        *)
(***************************************************************************)
EXTENDS Integers, Sequences, FiniteSets

CONSTANTS IV,   \* the initial state
          K     \* the constants of the rounds

Bit  == 0..63
Word == SUBSET Bit

ASSUME CompressionAssumption == IV \in [1..8 -> Word] /\ K \in [0..79 -> Word]

-----------------------------------------------------------------------------
(***************************************************************************)
(* Words                                                                   *)
(***************************************************************************)
Srl(x, n) == {b - n : b \in {c \in x : c >= n}}
Sll(x, n) == {b + n : b \in {c \in x : c + n < 64}}
Xor(x, y) == (x \cup y) \ (x \cap y)

Xor3(x, y, z) == Xor(Xor(x, y), z)

\* ror, whose two counts are written out separately
Ror(x, r, l) == Srl(x, r) \cup Sll(x, l)

\* _mm512_add_epi64.  A bit that is one in both carries into every bit above it
\* as far as no bit between is zero in both.
Add(x, y) ==
    LET both    == x \cap y
        either  == x \cup y
        carried == {b \in Bit : \E g \in both : g < b /\ \A c \in (g + 1)..(b - 1) : c \in either}
    IN  Xor3(x, y, carried)

Add4(x, y, z, v)    == Add(Add(x, y), Add(z, v))
Add5(x, y, z, v, u) == Add(Add4(x, y, z, v), u)

Ch(x, y, z)  == Xor(x \cap y, z \ x)
Maj(x, y, z) == Xor3(x \cap y, x \cap z, y \cap z)

BigSigma0(x)   == Xor3(Ror(x, 28, 36), Ror(x, 34, 30), Ror(x, 39, 25))
BigSigma1(x)   == Xor3(Ror(x, 14, 50), Ror(x, 18, 46), Ror(x, 41, 23))
SmallSigma0(x) == Xor3(Ror(x, 1, 63), Ror(x, 8, 56), Srl(x, 7))
SmallSigma1(x) == Xor3(Ror(x, 19, 45), Ror(x, 61, 3), Srl(x, 6))

\* byte_swap_lanes, as each word of a digest is left
ByteSwapped(x) == {8 * (7 - (b \div 8)) + (b % 8) : b \in x}

-----------------------------------------------------------------------------
(***************************************************************************)
(* compress_block                                                          *)
(***************************************************************************)
\* The word of a round, with a slot of the rolling schedule one off (faulty)
RoundWordSlipped(w, i) ==
    IF i < 16 THEN w[i]
    ELSE Add4(SmallSigma1(w[(i - 2) % 16]), w[(i - 7) % 16], SmallSigma0(w[(i - 16) % 16]), w[(i - 16) % 16])

\* The word of a round; past the block itself, it takes the place of the oldest.
RoundWord(w, i) ==
    IF i < 16 THEN w[i]
    ELSE Add4(SmallSigma1(w[(i - 2) % 16]), w[(i - 7) % 16], SmallSigma0(w[(i - 15) % 16]), w[(i - 16) % 16])

\* The registers a to h after a round
Round(r, k, word) ==
    LET t1 == Add5(r[8], BigSigma1(r[5]), Ch(r[5], r[6], r[7]), k, word)
        t2 == Add(BigSigma0(r[1]), Maj(r[1], r[2], r[3]))
    IN  <<Add(t1, t2), r[1], r[2], r[3], Add(r[4], t1), r[5], r[6], r[7]>>

\* The state after a block, whose words are numbered from zero
CompressBlock(state, block) ==
    LET rounds[i \in 0..80, w \in [0..15 -> Word], r \in [1..8 -> Word]] ==
            IF i = 80 THEN r
            ELSE LET word == RoundWord(w, i)
                 IN  rounds[i + 1, [w EXCEPT ![i % 16] = word], Round(r, K[i], word)]
        after == rounds[0, block, state]
    IN  [n \in 1..8 |-> Add(state[n], after[n])]

-----------------------------------------------------------------------------
(***************************************************************************)
(* SHA-512 by its definition: the schedule of eighty words first, and the  *)
(* rotations and selections bit by bit                                     *)
(***************************************************************************)
Rotr(x, n) == {(b + 64 - n) % 64 : b \in x}
Odd(sets)  == {b \in Bit : \E n \in {1, 3} : Cardinality({m \in DOMAIN sets : b \in sets[m]}) = n}

Sigma(x, r, s, t) == Odd(<<Rotr(x, r), Rotr(x, s), Rotr(x, t)>>)
Gamma(x, r, s, t) == Odd(<<Rotr(x, r), Rotr(x, s), {b - t : b \in x} \cap Bit>>)

Schedule(words) ==
    LET extended[s \in Seq(Word)] ==
            LET n == Len(s) + 1
            IN  IF n > 80 THEN s
                ELSE extended[Append(s, Add4(Gamma(s[n - 2], 19, 61, 6), s[n - 7],
                                             Gamma(s[n - 15], 1, 8, 7), s[n - 16]))]
    IN  extended[[n \in 1..16 |-> words[n - 1]]]

Stepped(s, k, word) ==
    LET chosen   == {b \in Bit : IF b \in s[5] THEN b \in s[6] ELSE b \in s[7]}
        majority == {b \in Bit : Cardinality({m \in 1..3 : b \in s[m]}) >= 2}
        t1       == Add5(s[8], Sigma(s[5], 14, 18, 41), chosen, k, word)
    IN  <<Add(t1, Add(Sigma(s[1], 28, 34, 39), majority)), s[1], s[2], s[3],
          Add(s[4], t1), s[5], s[6], s[7]>>

Sha512Block(before, words) ==
    LET schedule == Schedule(words)
        from[n \in 0..80, s \in Seq(Word)] ==
            IF n = 80 THEN s ELSE from[n + 1, Stepped(s, K[n], schedule[n + 1])]
        after == from[0, before]
    IN  [n \in 1..8 |-> Add(before[n], after[n])]
=============================================================================
