------------------------ MODULE ChallengeHashProofs ------------------------
(***************************************************************************)
(* Proofs about ChallengeHash for every number of lanes and every set of   *)
(* lengths: whatever the lengths of the messages that share a chunk, none  *)
(* of the three paths that assemble a block reads past one of them         *)
(* (AlwaysReadsInside), and every lane compresses exactly the blocks of    *)
(* its own padded message (DigestsAlwaysExact).                            *)
(***************************************************************************)
EXTENDS ChallengeHash, SequenceTheorems, WellFoundedInduction, TLAPS

\* A word of which every byte was there: the byte of a message, a mark or a
\* padding.
WholeWords == [1..8 -> Nat]

\* What a chunk's lengths are, and that what was assembled last is whole.
IInv ==
    /\ lens \in [Lanes -> Nat]
    /\ block \in Nat
    /\ words # << >> => words \in [Lanes -> [0..15 -> WholeWords]]

-----------------------------------------------------------------------------
(***************************************************************************)
(* The shortest message of a chunk                                         *)
(***************************************************************************)

\* A set of natural numbers that is not empty has a least element.
LEMMA HasLeast ==
    ASSUME NEW T \in SUBSET Nat, T # {}
    PROVE  \E x \in T : \A y \in T : x <= y
<1>1. PICK x \in T : \A y \in T : ~ (<<y, x>> \in OpToRel(<, Nat))
  BY NatLessThanWellFounded, WFMin
<1>2. \A y \in T : ~ (y < x)
  BY <1>1 DEF OpToRel
<1> QED BY <1>2

\* A bounded one has a greatest.
LEMMA HasGreatest ==
    ASSUME NEW T \in SUBSET Nat, T # {}, NEW bound \in Nat, \A x \in T : x <= bound
    PROVE  \E x \in T : \A y \in T : y <= x
<1> DEFINE gaps == {bound - x : x \in T}
<1>1. gaps \in SUBSET Nat /\ gaps # {}
  <2>1. \A x \in T : x \in Nat /\ bound - x \in Nat
    OBVIOUS
  <2> QED BY <2>1
<1>2. PICK g \in gaps : \A y \in gaps : g <= y
  BY <1>1, HasLeast
<1>3. PICK x \in T : g = bound - x
  BY <1>2
<1>4. ASSUME NEW y \in T PROVE y <= x
  <2>1. bound - x <= bound - y
    BY <1>2, <1>3, bound - y \in gaps
  <2> QED BY <2>1
<1> QED BY <1>4

\* The bound that the bulk paths test holds of every lane, not only of the lane
\* that it was taken from.
LEMMA MinTotalIsLeast ==
    ASSUME lens \in [Lanes -> Nat]
    PROVE  MinTotal \in Nat /\ \A lane \in Lanes : MinTotal <= 64 + lens[lane]
<1> DEFINE totals == {TotalLen(l) : l \in Lanes}
<1>1. \A lane \in Lanes : TotalLen(lane) \in Nat /\ TotalLen(lane) = 64 + lens[lane]
  BY DEF TotalLen
<1>2. 1 \in Lanes
  BY PlanAssumption DEF Lanes
<1>3. totals \in SUBSET Nat /\ totals # {}
  BY <1>1, <1>2
<1>4. PICK n \in totals : \A y \in totals : n <= y
  BY <1>3, HasLeast
<1>5. \A l \in Lanes : n <= TotalLen(l)
  BY <1>4
<1>6. MinTotal \in totals /\ \A l \in Lanes : MinTotal <= TotalLen(l)
  BY <1>4, <1>5 DEF MinTotal
<1> QED BY <1>1, <1>3, <1>6

-----------------------------------------------------------------------------
(***************************************************************************)
(* Words                                                                   *)
(***************************************************************************)

LEMMA PrefixIsWhole == ASSUME NEW w \in 0..15 PROVE PrefixWord(w) \in WholeWords
BY DEF PrefixWord, Stream, WholeWords

\* The eight bytes that are taken from a message are all its own.
LEMMA MessageWordIsWhole ==
    ASSUME NEW lane \in Lanes, lens \in [Lanes -> Nat], NEW at \in Nat, at + 8 <= lens[lane]
    PROVE  MessageWord(lane, at) \in WholeWords
<1>1. lens[lane] \in Nat
  OBVIOUS
<1>2. \A j \in 1..8 : at + j - 1 \in 0..(lens[lane] - 1) /\ Stream(64 + at + j - 1) \in Nat
  BY <1>1 DEF Stream
<1> QED BY <1>2 DEF MessageWord, WholeWords

LEMMA LengthIsWhole == ASSUME NEW n \in Nat PROVE BigEndian(n) \in WholeWords
<1>1. ASSUME NEW m \in Nat
      PROVE  /\ (m \div 16777216) % 256 \in Nat /\ (m \div 65536) % 256 \in Nat
             /\ (m \div 256) % 256 \in Nat /\ m % 256 \in Nat
  BY SMT
<1>2. (n \div 65536) \div 65536 \in Nat
  BY SMT
<1> QED BY <1>1, <1>2, SMT DEF BigEndian, WholeWords

\* A u64 holds a number of whole bytes, and what its shift by three loses is what
\* the shift by 61 keeps.
LEMMA WordSplits ==
    /\ WORD \in Nat \ {0} /\ WORD \div 8 \in Nat \ {0}
    /\ \A n \in Nat : n \div (WORD \div 8) = (8 * n) \div WORD
<1> DEFINE eighth == WORD \div 8
<1>1. WORD \in Nat \ {0} /\ WORD % 8 = 0
  BY PlanAssumption, HashAssumption DEF WORD
<1> HIDE DEF WORD
<1>2. eighth \in Nat \ {0} /\ WORD = 8 * eighth
  BY <1>1, SMT
<1> HIDE DEF eighth
<1>3. ASSUME NEW n \in Nat PROVE n \div eighth = (8 * n) \div (8 * eighth)
  <2> DEFINE q == n \div eighth
             r == n % eighth
  <2>1. q \in Nat /\ r \in 0..(eighth - 1) /\ n = eighth * q + r
    BY <1>2, SMT
  <2> HIDE DEF q, r
  <2>2. 8 * n = (8 * eighth) * q + 8 * r /\ 8 * r \in 0..(8 * eighth - 1)
    BY <1>2, <2>1, SMT
  <2>3. (8 * n) \div (8 * eighth) = q
    BY <1>2, <2>1, <2>2, SMT
  <2> QED BY <2>3 DEF q
<1> QED BY <1>1, <1>2, <1>3 DEF eighth

\* The mixed path takes a word from the message only where it lies in it whole.
LEMMA MixedIsWhole ==
    ASSUME NEW lane \in Lanes, lens \in [Lanes -> Nat], NEW offset \in Nat, offset >= 64
    PROVE  MixedBlockWord(lane, offset) \in WholeWords
<1>1. lens[lane] \in Nat /\ TotalLen(lane) = 64 + lens[lane]
  BY DEF TotalLen
<1>2. ZeroWord \in WholeWords
  BY DEF ZeroWord, Zero, WholeWords
<1>3. TailWord(lane, offset) \in WholeWords
  <2>1. \A j \in 1..8 : Stream(offset + j - 1) \in Nat
    BY DEF Stream
  <2> QED BY <2>1 DEF TailWord, Zero, WholeWords
<1>4. BigEndian(BitLen(lane)) \in WholeWords /\ HighWord(lane) \in WholeWords
  <2>1. 8 * TotalLen(lane) \in Nat /\ TotalLen(lane) \in Nat
    BY <1>1
  <2>2. ASSUME NEW n \in Nat, NEW d \in Nat \ {0} PROVE n % d \in Nat /\ n \div d \in Nat
    BY SMT
  <2>3. (8 * TotalLen(lane)) % WORD \in Nat /\ TotalLen(lane) \div (WORD \div 8) \in Nat
    BY <2>1, <2>2, WordSplits
  <2> QED BY <2>3, LengthIsWhole DEF BitLen, HighWord
<1>5. offset + 8 <= TotalLen(lane) => MessageWord(lane, offset - 64) \in WholeWords
  BY <1>1, MessageWordIsWhole
<1> QED BY <1>2, <1>3, <1>4, <1>5 DEF MixedBlockWord

-----------------------------------------------------------------------------
(***************************************************************************)
(* The steps                                                               *)
(***************************************************************************)

LEMMA InitHolds == Init => IInv
BY DEF Init, IInv

LEMMA BeginHolds == ASSUME IInv, Begin PROVE IInv'
<1>1. \A n \in MessageLengths : n \in Nat
  BY HashAssumption, SMT
<1>2. lens' \in [Lanes -> Nat]
  BY <1>1 DEF Begin
<1> QED BY <1>2 DEF Begin, IInv

LEMMA FirstDataHolds == ASSUME IInv, HashFirstData PROVE IInv'
<1>1. ASSUME NEW lane \in Lanes, NEW w \in 0..15, ~(w < 8)
      PROVE  MessageWord(lane, 8 * (w - 8)) \in WholeWords
  <2>1. lens[lane] \in Nat /\ lens[lane] >= 64
    <3>1. lens \in [Lanes -> Nat] /\ MinTotal >= 128
      BY DEF IInv, HashFirstData, FirstIsData
    <3>2. MinTotal \in Nat /\ MinTotal <= 64 + lens[lane] /\ lens[lane] \in Nat
      BY <3>1, MinTotalIsLeast
    <3> QED BY <3>1, <3>2
  <2>2. 8 * (w - 8) \in Nat /\ 8 * (w - 8) + 8 <= lens[lane]
    BY <1>1, <2>1
  <2> QED BY <2>2, MessageWordIsWhole DEF IInv
<1>2. words' \in [Lanes -> [0..15 -> WholeWords]]
  BY <1>1, PrefixIsWhole DEF HashFirstData
<1> QED BY <1>2 DEF HashFirstData, IInv

LEMMA DataHolds == ASSUME IInv, HashData PROVE IInv'
<1>1. ASSUME NEW lane \in Lanes, NEW w \in 0..15
      PROVE  MessageWord(lane, block * 128 - 64 + 8 * w) \in WholeWords
  <2>1. lens[lane] \in Nat /\ block \in Nat /\ block >= 1 /\ block * 128 + 128 <= 64 + lens[lane]
    <3>1. MinTotal \in Nat /\ MinTotal <= 64 + lens[lane]
      BY MinTotalIsLeast DEF IInv
    <3>2. lens[lane] \in Nat /\ block \in Nat
      BY DEF IInv
    <3>3. block >= 1 /\ block * 128 + 128 <= MinTotal
      BY DEF HashData, BlockIsData
    <3> QED BY <3>1, <3>2, <3>3
  <2>2. /\ block * 128 - 64 + 8 * w \in Nat
        /\ block * 128 - 64 + 8 * w + 8 <= lens[lane]
    BY <2>1
  <2> QED BY <2>2, MessageWordIsWhole DEF IInv
<1>2. words' \in [Lanes -> [0..15 -> WholeWords]]
  BY <1>1 DEF HashData
<1> QED BY <1>2 DEF HashData, IInv

\* The words of the first block before the messages are those of the prefix.
LEMMA MixedHolds == ASSUME IInv, HashMixed PROVE IInv'
<1>1. ASSUME NEW lane \in Lanes, NEW w \in 0..15, ~(block = 0 /\ w < 8)
      PROVE  MixedBlockWord(lane, block * 128 + 8 * w) \in WholeWords
  <2>1. block * 128 + 8 * w \in Nat /\ block * 128 + 8 * w >= 64
    BY <1>1 DEF IInv
  <2> QED BY <2>1, MixedIsWhole DEF IInv
<1>2. words' \in [Lanes -> [0..15 -> WholeWords]]
  BY <1>1, PrefixIsWhole DEF HashMixed
<1> QED BY <1>2 DEF HashMixed, IInv

LEMMA IInvHolds == Spec => []IInv
<1>1. ASSUME IInv, [Next]_vars PROVE IInv'
  <2>1. CASE Return
    BY <1>1, <2>1 DEF Return, IInv
  <2>2. CASE Leave
    BY <1>1, <2>2 DEF Leave, IInv
  <2>3. CASE UNCHANGED vars
    BY <1>1, <2>3 DEF vars, IInv
  <2> QED BY <1>1, <2>1, <2>2, <2>3, BeginHolds, FirstDataHolds, DataHolds, MixedHolds DEF Next
<1> QED BY InitHolds, <1>1, PTL DEF Spec

\* No path reads past the end of a message, in a lane that is through no more
\* than in the others, whatever the lengths beside it: no slice panics.
THEOREM AlwaysReadsInside == Spec => []ReadsInside
<1>1. ASSUME IInv PROVE ReadsInside
  <2>1. SUFFICES ASSUME words # << >>, NEW lane \in Lanes, NEW w \in 0..15, NEW j \in 1..8
                 PROVE  words[lane][w][j] # Outside
    BY DEF ReadsInside
  <2>2. words[lane][w] \in WholeWords
    BY <1>1, <2>1 DEF IInv
  <2>3. words[lane][w][j] \in Nat
    BY <2>2 DEF WholeWords
  <2> QED BY <2>3 DEF Outside
<1> QED BY <1>1, IInvHolds, PTL
-----------------------------------------------------------------------------
(***************************************************************************)
(* The padded message                                                      *)
(***************************************************************************)

\* The blocks of a message are as many as hold it with its mark and length, and
\* no more; the code and the definition of SHA-512 count them alike.
Holds(n, len) == n * 128 >= len + 81 /\ (n - 1) * 128 < len + 81

Fits(len) == len \in Nat /\ len + 81 <= USIZE_MAX

LEMMA HoldsOnce ==
    ASSUME NEW len \in Nat, NEW n \in Nat, NEW k \in Nat, Holds(n, len), Holds(k, len)
    PROVE  n = k
BY DEF Holds

LEMMA BlocksHold ==
    ASSUME NEW len, Fits(len)
    PROVE  /\ ChallengeBlockCount(len) \in 1..(len + 65) /\ ChallengeBlockCount(len) <= USIZE_MAX
           /\ Holds(ChallengeBlockCount(len), len)
<1>1. len \in Nat /\ USIZE_MAX \in Nat /\ len + 81 <= USIZE_MAX
  BY PlanAssumption DEF Fits
<1>2. SaturatingAdd(len, 64 + 1 + 16) = len + 81
  BY PlanAssumption DEF Fits, SaturatingAdd
<1>3. ChallengeBlockCount(len) = ((len + 81) \div 128) + (IF (len + 81) % 128 = 0 THEN 0 ELSE 1)
  BY <1>2 DEF ChallengeBlockCount, DivCeil
<1> DEFINE q == (len + 81) \div 128
           r == (len + 81) % 128
<1>4. q \in Nat /\ r \in 0..127 /\ len + 81 = 128 * q + r
  BY <1>1, SMT
<1> HIDE DEF q, r
<1>5. ChallengeBlockCount(len) = q + (IF r = 0 THEN 0 ELSE 1)
  BY <1>3 DEF q, r
<1> QED BY <1>1, <1>4, <1>5, SMT DEF Holds

LEMMA PaddedBlocksAre ==
    ASSUME NEW len, Fits(len)
    PROVE  PaddedBlocks(len) = ChallengeBlockCount(len)
<1> DEFINE c == ChallengeBlockCount(len)
<1>1. c \in 1..(len + 65) /\ Holds(c, len) /\ len \in Nat
  BY BlocksHold DEF Fits
<1> HIDE DEF c
<1>2. PaddedBlocks(len) = CHOOSE n \in 1..(len + 65) : Holds(n, len)
  BY DEF PaddedBlocks, Holds
<1>3. \E n \in 1..(len + 65) : Holds(n, len)
  BY <1>1
<1> DEFINE p == CHOOSE n \in 1..(len + 65) : Holds(n, len)
<1>4. p \in 1..(len + 65) /\ Holds(p, len)
  BY <1>3
<1> HIDE DEF p
<1>5. p = c
  BY <1>1, <1>4, HoldsOnce
<1> QED BY <1>2, <1>5 DEF p, c

\* The definition of the padding, with the count of the code.
LEMMA PaddedByteIs ==
    ASSUME NEW len, Fits(len), NEW at \in Nat
    PROVE  PaddedByte(len, at) =
             IF at < 64 + len THEN Stream(at)
             ELSE IF at = 64 + len THEN 128
             ELSE IF at >= ChallengeBlockCount(len) * 128 - 8
                  THEN BigEndian((8 * (64 + len)) % WORD)[at - (ChallengeBlockCount(len) * 128 - 8) + 1]
             ELSE IF at >= ChallengeBlockCount(len) * 128 - 16
                  THEN BigEndian((8 * (64 + len)) \div WORD)[at - (ChallengeBlockCount(len) * 128 - 16) + 1]
             ELSE 0
<1> DEFINE c == ChallengeBlockCount(len)
           total == 64 + len
           p == CHOOSE n \in 1..(total + 1) : n * 128 >= total + 17 /\ (n - 1) * 128 < total + 17
<1>1. c \in 1..(len + 65) /\ Holds(c, len) /\ len \in Nat /\ total + 1 = len + 65 /\ total + 17 = len + 81
  BY BlocksHold DEF Fits
<1> HIDE DEF c, total
<1>2. \E n \in 1..(total + 1) : n * 128 >= total + 17 /\ (n - 1) * 128 < total + 17
  BY <1>1 DEF Holds
<1>3. p \in 1..(total + 1) /\ p * 128 >= total + 17 /\ (p - 1) * 128 < total + 17
  BY <1>2
<1> HIDE DEF p
<1>4. p = c
  BY <1>1, <1>3, HoldsOnce DEF Holds
<1>5. PaddedByte(len, at) =
        IF at < total THEN Stream(at)
        ELSE IF at = total THEN 128
        ELSE IF at >= p * 128 - 8 THEN BigEndian((8 * total) % WORD)[at - (p * 128 - 8) + 1]
        ELSE IF at >= p * 128 - 16 THEN BigEndian((8 * total) \div WORD)[at - (p * 128 - 16) + 1]
        ELSE Zero
  BY DEF PaddedByte, total, p
<1> QED BY <1>4, <1>5 DEF c, total, Zero

\* Eight bytes and sixteen words of a padded message
PaddedWord(len, offset) == [j \in 1..8 |-> PaddedByte(len, offset + j - 1)]
PaddedBlock(len, b)     == [w \in 0..15 |-> PaddedWord(len, 128 * b + 8 * w)]

LEMMA PrefixIsPadded ==
    ASSUME NEW len, Fits(len), NEW w \in 0..15, w < 8
    PROVE  PrefixWord(w) = PaddedWord(len, 8 * w)
<1>1. len \in Nat
  BY DEF Fits
<1>2. ASSUME NEW j \in 1..8 PROVE PaddedByte(len, 8 * w + j - 1) = Stream(8 * w + j - 1)
  <2>1. 8 * w + j - 1 \in Nat /\ 8 * w + j - 1 < 64 + len
    BY <1>1
  <2> QED BY <2>1, PaddedByteIs
<1> QED BY <1>2 DEF PrefixWord, PaddedWord

LEMMA MessageIsPadded ==
    ASSUME NEW lane \in Lanes, Fits(lens[lane]), NEW offset \in Nat, offset >= 64, offset + 8 <= 64 + lens[lane]
    PROVE  MessageWord(lane, offset - 64) = PaddedWord(lens[lane], offset)
<1>1. lens[lane] \in Nat
  BY DEF Fits
<1>2. ASSUME NEW j \in 1..8
      PROVE  /\ PaddedByte(lens[lane], offset + j - 1) = Stream(offset + j - 1)
             /\ offset - 64 + j - 1 \in 0..(lens[lane] - 1)
             /\ 64 + (offset - 64) + j - 1 = offset + j - 1
  <2>1. offset + j - 1 \in Nat /\ offset + j - 1 < 64 + lens[lane]
    BY <1>1
  <2> QED BY <1>1, <2>1, PaddedByteIs
<1> QED BY <1>2 DEF MessageWord, PaddedWord

\* The last two words of a message's last block are its length.
LEMMA LengthIsPadded ==
    ASSUME NEW len, Fits(len)
    PROVE  /\ BigEndian((8 * (64 + len)) % WORD) = PaddedWord(len, ChallengeBlockCount(len) * 128 - 8)
           /\ BigEndian((8 * (64 + len)) \div WORD) = PaddedWord(len, ChallengeBlockCount(len) * 128 - 16)
<1> DEFINE c == ChallengeBlockCount(len)
           low  == BigEndian((8 * (64 + len)) % WORD)
           high == BigEndian((8 * (64 + len)) \div WORD)
<1>1. c \in Nat /\ c * 128 >= len + 81 /\ len \in Nat
  BY BlocksHold DEF Fits, Holds
<1>2. low = [j \in 1..8 |-> low[j]] /\ high = [j \in 1..8 |-> high[j]]
  BY SMT DEF BigEndian
<1>3. ASSUME NEW at \in Nat, at >= c * 128 - 16
      PROVE  PaddedByte(len, at) = IF at >= c * 128 - 8 THEN low[at - (c * 128 - 8) + 1]
                                   ELSE high[at - (c * 128 - 16) + 1]
  <2>1. at > 64 + len
    BY <1>1, <1>3
  <2> QED BY <1>1, <1>3, <2>1, PaddedByteIs
<1> HIDE DEF c, low, high
<1>4. ASSUME NEW j \in 1..8
      PROVE  /\ PaddedByte(len, (c * 128 - 8) + j - 1) = low[j]
             /\ PaddedByte(len, (c * 128 - 16) + j - 1) = high[j]
  <2> DEFINE lowAt  == (c * 128 - 8) + j - 1
             highAt == (c * 128 - 16) + j - 1
  <2>1. lowAt \in Nat /\ lowAt >= c * 128 - 8 /\ lowAt >= c * 128 - 16 /\ lowAt - (c * 128 - 8) + 1 = j
    BY <1>1
  <2>2. /\ highAt \in Nat /\ highAt >= c * 128 - 16 /\ ~(highAt >= c * 128 - 8)
        /\ highAt - (c * 128 - 16) + 1 = j
    BY <1>1
  <2> HIDE DEF lowAt, highAt
  <2>3. PaddedByte(len, lowAt) = low[j]
    BY <1>3, <2>1
  <2>4. PaddedByte(len, highAt) = high[j]
    BY <1>3, <2>2
  <2> QED BY <2>3, <2>4 DEF lowAt, highAt
<1> QED BY <1>2, <1>4 DEF PaddedWord, c, low, high

\* A word of a mixed block, whichever of its five forms it takes.  A word that
\* begins behind the message ends before the length or is one of its two: offsets
\* are multiples of eight.
LEMMA MixedIsPadded ==
    ASSUME NEW lane \in Lanes, Fits(lens[lane]), NEW b \in Nat, NEW w \in 0..15,
           b * 128 + 8 * w >= 64, b < BlockCount(lane)
    PROVE  MixedBlockWord(lane, b * 128 + 8 * w) = PaddedWord(lens[lane], b * 128 + 8 * w)
<1> DEFINE len == lens[lane]
           c == ChallengeBlockCount(len)
           offset == b * 128 + 8 * w
<1>1. /\ len \in Nat /\ c \in Nat /\ c * 128 >= len + 81 /\ b < c /\ offset \in Nat /\ offset >= 64
      /\ TotalLen(lane) = 64 + len /\ LengthStart(lane) = c * 128 - 16
  BY BlocksHold DEF Fits, Holds, BlockCount, TotalLen, LengthStart
<1>2. offset = c * 128 - 8 \/ offset = c * 128 - 16 \/ offset <= c * 128 - 24
  BY <1>1
<1> HIDE DEF c, offset
<1>3. ASSUME NEW at \in Nat, at < c * 128 - 16
      PROVE  PaddedByte(len, at) = IF at < 64 + len THEN Stream(at) ELSE IF at = 64 + len THEN 128 ELSE 0
  BY <1>1, <1>3, PaddedByteIs DEF c
<1>4. CASE offset + 8 <= 64 + len
  BY <1>1, <1>4, MessageIsPadded DEF MixedBlockWord, offset
<1>5. CASE offset + 8 > 64 + len /\ offset = c * 128 - 8
  <2>1. MixedBlockWord(lane, offset) = BigEndian((8 * (64 + len)) % WORD)
    BY <1>1, <1>5 DEF MixedBlockWord, BitLen
  <2> QED BY <1>5, <2>1, LengthIsPadded DEF c, offset
<1>6. CASE offset > 64 + len /\ offset = c * 128 - 16
  <2>1. MixedBlockWord(lane, offset) = BigEndian((64 + len) \div (WORD \div 8))
    BY <1>1, <1>6 DEF MixedBlockWord, HighWord
  <2>2. (64 + len) \div (WORD \div 8) = (8 * (64 + len)) \div WORD
    <3> DEFINE n == 64 + len
    <3>1. n \in Nat
      BY <1>1
    <3> HIDE DEF n
    <3>2. n \div (WORD \div 8) = (8 * n) \div WORD
      BY <3>1, WordSplits, Zenon
    <3> QED BY <3>2 DEF n
  <2> QED BY <1>6, <2>1, <2>2, LengthIsPadded DEF c, offset
<1>7. CASE offset > 64 + len /\ offset <= c * 128 - 24
  <2>1. MixedBlockWord(lane, offset) = ZeroWord
    BY <1>1, <1>7 DEF MixedBlockWord
  <2>2. ASSUME NEW j \in 1..8 PROVE PaddedByte(len, offset + j - 1) = 0
    <3>1. offset + j - 1 \in Nat /\ offset + j - 1 < c * 128 - 16 /\ offset + j - 1 > 64 + len
      BY <1>1, <1>7
    <3> QED BY <1>1, <1>3, <3>1
  <2> QED BY <2>1, <2>2 DEF ZeroWord, Zero, PaddedWord, offset
<1>8. CASE offset + 8 > 64 + len /\ offset <= 64 + len /\ offset <= c * 128 - 24
  <2>1. MixedBlockWord(lane, offset) = TailWord(lane, offset)
    BY <1>1, <1>8 DEF MixedBlockWord
  <2>2. ASSUME NEW j \in 1..8
        PROVE  PaddedByte(len, offset + j - 1) =
                 IF offset + j - 1 < 64 + len THEN Stream(offset + j - 1)
                 ELSE IF offset + j - 1 = 64 + len THEN 128 ELSE 0
    <3>1. offset + j - 1 \in Nat /\ offset + j - 1 < c * 128 - 16
      BY <1>1, <1>8
    <3> QED BY <1>3, <3>1
  <2> QED BY <1>1, <2>1, <2>2 DEF TailWord, Zero, PaddedWord, offset
<1>9. \/ offset + 8 <= 64 + len
      \/ offset + 8 > 64 + len /\ offset = c * 128 - 8
      \/ offset > 64 + len /\ (offset = c * 128 - 16 \/ offset <= c * 128 - 24)
      \/ offset + 8 > 64 + len /\ offset <= 64 + len /\ offset <= c * 128 - 24
  BY <1>1, <1>2
<1> QED BY <1>4, <1>5, <1>6, <1>7, <1>8, <1>9 DEF offset

-----------------------------------------------------------------------------
(***************************************************************************)
(* The digests                                                             *)
(***************************************************************************)

\* The steps of a chunk are as many as its longest message has blocks.
LEMMA MaxIsGreatest ==
    ASSUME \A lane \in Lanes : Fits(lens[lane])
    PROVE  MaxBlockCount \in Nat /\ \A lane \in Lanes : BlockCount(lane) <= MaxBlockCount
<1> DEFINE counts == {BlockCount(l) : l \in Lanes}
<1>1. \A l \in Lanes : BlockCount(l) \in Nat /\ BlockCount(l) <= USIZE_MAX
  BY BlocksHold DEF BlockCount, Fits
<1>2. 1 \in Lanes
  BY PlanAssumption DEF Lanes
<1>3. counts \in SUBSET Nat /\ counts # {} /\ \A n \in counts : n <= USIZE_MAX
  BY <1>1, <1>2
<1>4. USIZE_MAX \in Nat
  BY PlanAssumption
<1>5. PICK n \in counts : \A k \in counts : k <= n
  BY <1>3, <1>4, HasGreatest
<1>6. \A l \in Lanes : BlockCount(l) <= n
  BY <1>5
<1>7. MaxBlockCount \in counts /\ \A l \in Lanes : BlockCount(l) <= MaxBlockCount
  BY <1>5, <1>6 DEF MaxBlockCount
<1> QED BY <1>1, <1>7

Least(a, b) == IF a <= b THEN a ELSE b

\* Each lane has compressed as many blocks of its own padded message as there
\* were steps, or all of them.
DigestInv ==
    phase \in {"hashing", "done"} =>
        \A lane \in Lanes :
            /\ Fits(lens[lane])
            /\ state[lane] \in Seq({PaddedBlock(lens[lane], b) : b \in Nat})
            /\ Len(state[lane]) = Least(block, BlockCount(lane))
            /\ \A b \in 1..Len(state[lane]) : state[lane][b] = PaddedBlock(lens[lane], b - 1)
            /\ phase = "done" => BlockCount(lane) <= block

\* One more block of the message, or none where there is none.
LEMMA CompressedHolds ==
    ASSUME IInv, DigestInv, phase = "hashing", phase' = "hashing", NEW active, NEW assembled,
           state' = Compressed(active, assembled), block' = block + 1, lens' = lens,
           \A lane \in Lanes : lane \in active <=> block < BlockCount(lane),
           \A lane \in Lanes : block < BlockCount(lane) => assembled[lane] = PaddedBlock(lens[lane], block)
    PROVE  DigestInv'
<1>1. SUFFICES ASSUME NEW lane \in Lanes
               PROVE  /\ Fits(lens[lane])
                      /\ state'[lane] \in Seq({PaddedBlock(lens[lane], b) : b \in Nat})
                      /\ Len(state'[lane]) = Least(block + 1, BlockCount(lane))
                      /\ \A b \in 1..Len(state'[lane]) : state'[lane][b] = PaddedBlock(lens[lane], b - 1)
  <2>1. SUFFICES ASSUME NEW lane \in Lanes
                 PROVE  /\ Fits(lens'[lane])
                        /\ state'[lane] \in Seq({PaddedBlock(lens'[lane], b) : b \in Nat})
                        /\ Len(state'[lane]) = Least(block', BlockCount(lane)')
                        /\ \A b \in 1..Len(state'[lane]) : state'[lane][b] = PaddedBlock(lens'[lane], b - 1)
    BY DEF DigestInv
  <2>2. BlockCount(lane)' = BlockCount(lane)
    BY DEF BlockCount
  <2> QED BY <2>2
<1> DEFINE s == state[lane]
           S == {PaddedBlock(lens[lane], b) : b \in Nat}
<1>2. /\ Fits(lens[lane]) /\ s \in Seq(S) /\ Len(s) = Least(block, BlockCount(lane))
      /\ \A b \in 1..Len(s) : s[b] = PaddedBlock(lens[lane], b - 1)
  BY DEF DigestInv
<1>3. block \in Nat /\ BlockCount(lane) \in Nat
  BY <1>2, BlocksHold DEF IInv, BlockCount, Fits
<1>4. CASE block < BlockCount(lane)
  <2>1. state'[lane] = Append(s, PaddedBlock(lens[lane], block)) /\ PaddedBlock(lens[lane], block) \in S
    BY <1>3, <1>4 DEF Compressed
  <2> DEFINE e == PaddedBlock(lens[lane], block)
             t == Append(s, e)
  <2> HIDE DEF s, S
  <2>2. Len(s) = block
    BY <1>2, <1>3, <1>4 DEF Least
  <2>3. /\ t \in Seq(S) /\ Len(t) = block + 1
        /\ \A b \in 1..block : t[b] = s[b]
        /\ t[block + 1] = e
    BY <1>2, <2>1, <2>2, AppendProperties
  <2>4. ASSUME NEW b \in 1..(block + 1) PROVE t[b] = PaddedBlock(lens[lane], b - 1)
    <3>1. CASE b \in 1..block
      BY <1>2, <2>2, <2>3, <3>1
    <3>2. CASE b = block + 1
      BY <1>3, <2>3, <3>2
    <3>3. b \in 1..block \/ b = block + 1
      BY <1>3
    <3> QED BY <3>1, <3>2, <3>3
  <2>5. Least(block + 1, BlockCount(lane)) = block + 1
    BY <1>3, <1>4 DEF Least
  <2>6. state'[lane] = t
    BY <2>1
  <2> HIDE DEF t
  <2> QED BY <1>2, <2>3, <2>4, <2>5, <2>6 DEF S
<1>5. CASE ~(block < BlockCount(lane))
  <2>1. state'[lane] = s
    BY <1>5 DEF Compressed
  <2>2. Least(block + 1, BlockCount(lane)) = Least(block, BlockCount(lane))
    BY <1>3, <1>5 DEF Least
  <2> QED BY <1>2, <2>1, <2>2
<1> QED BY <1>4, <1>5

\* A chunk begins: nothing is compressed, and every length is one of a message.
LEMMA DigestBegins == ASSUME Begin PROVE DigestInv'
<1>1. SUFFICES ASSUME NEW lane \in Lanes
               PROVE  /\ Fits(lens'[lane])
                      /\ state'[lane] \in Seq({PaddedBlock(lens'[lane], b) : b \in Nat})
                      /\ Len(state'[lane]) = Least(block', BlockCount(lane)')
                      /\ \A b \in 1..Len(state'[lane]) : state'[lane][b] = PaddedBlock(lens'[lane], b - 1)
                      /\ phase' = "done" => BlockCount(lane)' <= block'
  BY DEF DigestInv
<1>2. Fits(lens'[lane])
  BY HashAssumption, SMT DEF Begin, Fits
<1>3. BlockCount(lane)' \in Nat
  BY <1>2, BlocksHold DEF BlockCount
<1>4. state'[lane] = << >> /\ block' = 0 /\ phase' # "done"
  BY DEF Begin
<1>5. Least(block', BlockCount(lane)') = 0
  BY <1>3, <1>4 DEF Least
<1>6. \A S : << >> \in Seq(S) /\ Len(<< >>) = 0
  BY EmptySeq
<1>7. Len(state'[lane]) = 0 /\ 1..0 = {}
  BY <1>4, <1>6
<1> QED BY <1>2, <1>4, <1>5, <1>6, <1>7

\* The bulk paths run while no message is through, and take the words of the
\* message as they lie.
LEMMA BulkIsBusy ==
    ASSUME IInv, DigestInv, phase = "hashing", NEW lane \in Lanes, block * 128 + 128 <= MinTotal
    PROVE  /\ Fits(lens[lane]) /\ lens[lane] \in Nat /\ block \in Nat
           /\ block * 128 + 128 <= 64 + lens[lane]
           /\ block < BlockCount(lane)
<1>1. Fits(lens[lane]) /\ lens[lane] \in Nat /\ block \in Nat
  BY DEF DigestInv, IInv
<1>2. MinTotal \in Nat /\ MinTotal <= 64 + lens[lane]
  BY MinTotalIsLeast DEF IInv
<1>3. BlockCount(lane) \in Nat /\ Holds(BlockCount(lane), lens[lane])
  BY <1>1, BlocksHold DEF BlockCount
<1> QED BY <1>1, <1>2, <1>3 DEF Holds

LEMMA FirstDataDigests == ASSUME IInv, DigestInv, HashFirstData PROVE DigestInv'
<1>1. phase = "hashing" /\ phase' = "hashing" /\ block = 0 /\ block * 128 + 128 <= MinTotal
  BY DEF HashFirstData, HasBlocks, FirstIsData
<1>2. ASSUME NEW lane \in Lanes
      PROVE  block < BlockCount(lane) /\ words'[lane] = PaddedBlock(lens[lane], block)
  <2>1. Fits(lens[lane]) /\ lens[lane] \in Nat /\ lens[lane] >= 64 /\ block < BlockCount(lane)
    BY <1>1, BulkIsBusy
  <2>2. ASSUME NEW w \in 0..15
        PROVE  (IF w < 8 THEN PrefixWord(w) ELSE MessageWord(lane, 8 * (w - 8)))
                 = PaddedWord(lens[lane], 128 * block + 8 * w)
    <3>1. CASE w < 8
      BY <1>1, <2>1, <3>1, PrefixIsPadded, 128 * block + 8 * w = 8 * w
    <3>2. CASE ~(w < 8)
      <4>1. /\ 8 * w \in Nat /\ 8 * w >= 64 /\ 8 * w + 8 <= 64 + lens[lane]
            /\ 8 * w - 64 = 8 * (w - 8) /\ 128 * block + 8 * w = 8 * w
        BY <1>1, <2>1, <3>2
      <4>2. MessageWord(lane, 8 * w - 64) = PaddedWord(lens[lane], 8 * w)
        BY <2>1, <4>1, MessageIsPadded
      <4> QED BY <3>2, <4>1, <4>2
    <3> QED BY <3>1, <3>2
  <2>3. words'[lane] = [w \in 0..15 |-> IF w < 8 THEN PrefixWord(w) ELSE MessageWord(lane, 8 * (w - 8))]
    BY DEF HashFirstData
  <2> QED BY <2>1, <2>2, <2>3 DEF PaddedBlock
<1> QED BY <1>1, <1>2, CompressedHolds DEF HashFirstData

LEMMA DataDigests == ASSUME IInv, DigestInv, HashData PROVE DigestInv'
<1>1. phase = "hashing" /\ phase' = "hashing" /\ block >= 1 /\ block * 128 + 128 <= MinTotal
  BY DEF HashData, HasBlocks, BlockIsData
<1>2. ASSUME NEW lane \in Lanes
      PROVE  block < BlockCount(lane) /\ words'[lane] = PaddedBlock(lens[lane], block)
  <2>1. /\ Fits(lens[lane]) /\ lens[lane] \in Nat /\ block \in Nat
        /\ block * 128 + 128 <= 64 + lens[lane] /\ block < BlockCount(lane)
    BY <1>1, BulkIsBusy
  <2>2. ASSUME NEW w \in 0..15
        PROVE  MessageWord(lane, block * 128 - 64 + 8 * w) = PaddedWord(lens[lane], 128 * block + 8 * w)
    <3> DEFINE offset == 128 * block + 8 * w
    <3>1. /\ offset \in Nat /\ offset >= 64 /\ offset + 8 <= 64 + lens[lane]
          /\ offset - 64 = block * 128 - 64 + 8 * w
      BY <1>1, <2>1
    <3> HIDE DEF offset
    <3>2. MessageWord(lane, offset - 64) = PaddedWord(lens[lane], offset)
      BY <2>1, <3>1, MessageIsPadded
    <3> QED BY <3>1, <3>2 DEF offset
  <2>3. words'[lane] = [w \in 0..15 |-> MessageWord(lane, block * 128 - 64 + 8 * w)]
    BY DEF HashData
  <2> QED BY <2>1, <2>2, <2>3 DEF PaddedBlock
<1> QED BY <1>1, <1>2, CompressedHolds DEF HashData

\* The words of a lane that is through are thrown away; those of the others are
\* its message's, whichever of the lanes kept the block from being one of data.
LEMMA MixedDigests == ASSUME IInv, DigestInv, HashMixed PROVE DigestInv'
<1>1. phase = "hashing" /\ phase' = "hashing" /\ block \in Nat
  BY DEF HashMixed, HasBlocks, IInv
<1>2. ASSUME NEW lane \in Lanes, block < BlockCount(lane)
      PROVE  words'[lane] = PaddedBlock(lens[lane], block)
  <2>1. Fits(lens[lane])
    BY <1>1 DEF DigestInv
  <2>2. ASSUME NEW w \in 0..15
        PROVE  (IF block = 0 /\ w < 8 THEN PrefixWord(w) ELSE MixedBlockWord(lane, block * 128 + 8 * w))
                 = PaddedWord(lens[lane], 128 * block + 8 * w)
    <3>1. CASE block = 0 /\ w < 8
      BY <2>1, <3>1, PrefixIsPadded, 128 * block + 8 * w = 8 * w
    <3>2. CASE ~(block = 0 /\ w < 8)
      <4>1. block * 128 + 8 * w >= 64 /\ 128 * block + 8 * w = block * 128 + 8 * w
        BY <1>1, <3>2
      <4>2. MixedBlockWord(lane, block * 128 + 8 * w) = PaddedWord(lens[lane], block * 128 + 8 * w)
        BY <1>1, <1>2, <2>1, <4>1, MixedIsPadded
      <4> QED BY <3>2, <4>1, <4>2
    <3> QED BY <3>1, <3>2
  <2>3. words'[lane] = [w \in 0..15 |-> IF block = 0 /\ w < 8 THEN PrefixWord(w)
                                        ELSE MixedBlockWord(lane, block * 128 + 8 * w)]
    BY DEF HashMixed
  <2> QED BY <2>2, <2>3 DEF PaddedBlock
<1> QED BY <1>1, <1>2, CompressedHolds DEF HashMixed, Active

LEMMA ReturnDigests == ASSUME IInv, DigestInv, Return PROVE DigestInv'
<1>1. phase = "hashing" /\ block = MaxBlockCount /\ UNCHANGED <<lens, state, block>>
  BY DEF Return
<1>2. \A lane \in Lanes : Fits(lens[lane])
  BY <1>1 DEF DigestInv
<1>3. \A lane \in Lanes : BlockCount(lane) <= block
  BY <1>1, <1>2, MaxIsGreatest
<1> QED BY <1>1, <1>3 DEF DigestInv, BlockCount

\* Whatever the lengths of the messages beside it, and whichever paths assemble
\* its blocks, a lane hashes exactly its own padded message.
THEOREM DigestsAlwaysExact == Spec => []DigestsExact
<1>1. Init => DigestInv
  BY DEF Init, DigestInv
<1>2. ASSUME IInv, DigestInv, [Next]_vars PROVE DigestInv'
  <2>1. CASE Leave
    BY <2>1 DEF Leave, DigestInv
  <2>2. CASE UNCHANGED vars
    BY <1>2, <2>2 DEF vars, DigestInv, BlockCount
  <2> QED BY <1>2, <2>1, <2>2, DigestBegins, FirstDataDigests, DataDigests, MixedDigests, ReturnDigests DEF Next
<1>3. ASSUME IInv, DigestInv PROVE DigestsExact
  <2>1. SUFFICES ASSUME phase = "done", NEW lane \in Lanes
                 PROVE  /\ Len(state[lane]) = PaddedBlocks(lens[lane])
                        /\ \A b \in 1..Len(state[lane]), w \in 0..15, j \in 1..8 :
                              state[lane][b][w][j] = PaddedByte(lens[lane], 128 * (b - 1) + 8 * w + j - 1)
    BY DEF DigestsExact
  <2>2. /\ Fits(lens[lane]) /\ BlockCount(lane) <= block /\ block \in Nat
        /\ Len(state[lane]) = Least(block, BlockCount(lane))
        /\ \A b \in 1..Len(state[lane]) : state[lane][b] = PaddedBlock(lens[lane], b - 1)
    BY <1>3, <2>1 DEF DigestInv, IInv
  <2>3. BlockCount(lane) \in Nat /\ BlockCount(lane) = PaddedBlocks(lens[lane])
    BY <2>2, BlocksHold, PaddedBlocksAre DEF BlockCount
  <2>4. Len(state[lane]) = BlockCount(lane)
    BY <2>2, <2>3 DEF Least
  <2>5. ASSUME NEW b \in 1..Len(state[lane]), NEW w \in 0..15, NEW j \in 1..8
        PROVE  state[lane][b][w][j] = PaddedByte(lens[lane], 128 * (b - 1) + 8 * w + j - 1)
    <3>1. state[lane][b] = PaddedBlock(lens[lane], b - 1)
      BY <2>2
    <3>2. state[lane][b][w] = PaddedWord(lens[lane], 128 * (b - 1) + 8 * w)
      BY <3>1, Zenon DEF PaddedBlock
    <3> QED BY <3>2, Zenon DEF PaddedWord
  <2> QED BY <2>3, <2>4, <2>5
<1>4. Spec => []DigestInv
  BY <1>1, <1>2, IInvHolds, PTL DEF Spec
<1> QED BY <1>3, <1>4, IInvHolds, PTL

=============================================================================
