-------------------------------- MODULE Lane --------------------------------
(***************************************************************************)
(* One lane of a chunk on its way through the curve arithmetic: its key is *)
(* decoded, the table of the key is written multiple by multiple, the      *)
(* ladder mul_s_base_minus_k_public runs from the top digit down, and the  *)
(* result is scored (src/src/wide/avx512ifma/decode.rs, tables.rs,         *)
(* multiscalar.rs, point.rs, src/src/verifier/policy.rs).                  *)
(*                                                                         *)
(* The coordinates are those of a small curve, the steps those of the      *)
(* code.  The table of the base point holds its exact multiples, which     *)
(* BasepointTable shows of its construction.                               *)
(***************************************************************************)
EXTENDS Decompress, Radix16, Sequences

CONSTANTS
    Keys,         \* the encodings a key may have
    SignScalars,  \* the scalars a signature may hold
    Challenges    \* the scalars a challenge may reduce to

ASSUME LaneAssumption == /\ Keys \subseteq EncodedBytes
                         /\ SignScalars \subseteq Scalars
                         /\ Challenges \subseteq Scalars

VARIABLES
    policy,    \* the type parameter P
    key,       \* the encoding of the key
    decoded,   \* the decoded key: a point and whether it is valid
    table,     \* the table the ladder selects from
    written,   \* how many multiples of it have been written
    valid,     \* whether the lane may still be accepted
    scalars,   \* s and k, and the digits of each
    acc,       \* the accumulator of the ladder
    index,     \* the digit the ladder has come to
    phase

vars == <<policy, key, decoded, table, written, valid, scalars, acc, index, phase>>

NoPoint   == [x |-> 0, y |-> 1, z |-> 1, t |-> 0]
NoScalars == [s |-> 0, k |-> 0, sDigits |-> ToRadix16(0), kDigits |-> ToRadix16(0)]

\* The extended form of the base point times n, as the affine table holds it
BaseEntry(n) == LET p == PointAt(8 * n)
                IN  [yPlusX |-> Sum(p.y, p.x), yMinusX |-> Difference(p.y, p.x),
                     t2d |-> Product(Product(p.x, p.y), TwoD)]

Init == /\ policy \in {"Zip215", "Dalek"}
        /\ key \in Keys
        /\ decoded = [point |-> NoPoint, valid |-> FALSE, xZero |-> FALSE]
        /\ table = DecodeDestination
        /\ written = 0
        /\ valid = TRUE
        /\ scalars = NoScalars
        /\ acc = NoPoint
        /\ index = DIGITS - 1
        /\ phase = "decode"

Decode == /\ phase = "decode"
          /\ decoded' = DecompressPoint(key, TRUE)
          /\ phase' = "table"
          /\ UNCHANGED <<policy, key, table, written, valid, scalars, acc, index>>

\* One call of the writer by for_each_table_multiple
WriteMultiple == /\ phase = "table"
                 /\ written' = written + 1
                 /\ table' = SetMultiple(table, written', TableMultiple(decoded.point)[written'])
                 /\ phase' = IF written' = 8 THEN "select" ELSE "table"
                 /\ UNCHANGED <<policy, key, decoded, valid, scalars, acc, index>>

\* public_key_small_order_lanes, from the entry of [8]P
HasSmallOrderKey(t) == LET eight == FromCachedWithoutT(t[8])
                       IN  eight.x = 0 /\ eight.y = eight.z

\* A lane whose key does not decode runs on the identity's table, and Dalek
\* rejects keys of small order.
SelectTable ==
    /\ phase = "select"
    /\ table' = IF decoded.valid THEN table ELSE IdentityTable
    /\ valid' = (decoded.valid /\ ~(policy = "Dalek" /\ HasSmallOrderKey(table')))
    /\ phase' = "recode"
    /\ UNCHANGED <<policy, key, decoded, written, scalars, acc, index>>

Recode == /\ phase = "recode"
          /\ \E s \in SignScalars, k \in Challenges :
                scalars' = [s |-> s, k |-> k, sDigits |-> ToRadix16(s), kDigits |-> ToRadix16(k)]
          /\ phase' = "load"
          /\ UNCHANGED <<policy, key, decoded, table, written, valid, acc, index>>

-----------------------------------------------------------------------------
(***************************************************************************)
(* mul_s_base_minus_k_public                                               *)
(***************************************************************************)
KeyEntry == table[-scalars.kDigits[index]]

LoadTopDigit == /\ phase = "load"
                /\ acc' = FromCachedWithoutT(KeyEntry)
                /\ index' = index - 1
                /\ phase' = "double"
                /\ UNCHANGED <<policy, key, decoded, table, written, valid, scalars>>

Quadruple == /\ phase = "double"
             /\ acc' = DoubleFourTimes(acc)
             /\ phase' = IF index % 2 = 0 THEN "addBase" ELSE "subtractKey"
             /\ UNCHANGED <<policy, key, decoded, table, written, valid, scalars, index>>

\* add_base_pair_digit, once for every two digits
AddBasePair == /\ phase = "addBase"
               /\ acc' = AddCached(acc, BaseEntry(BasePairDigit(scalars.sDigits, index \div 2)), TRUE)
               /\ phase' = "subtractKey"
               /\ UNCHANGED <<policy, key, decoded, table, written, valid, scalars, index>>

\* subtract_public_key_digit_before_double, and for digit zero, where only
\* ZIP-215 needs T, subtract_public_key_digit
SubtractKey == /\ phase = "subtractKey"
               /\ acc' = AddCached(acc, KeyEntry, index = 0 /\ policy = "Zip215")
               /\ index' = IF index = 0 THEN DIGITS - 1 ELSE index - 1
               /\ phase' = IF index = 0 THEN "score" ELSE "double"
               /\ UNCHANGED <<policy, key, decoded, table, written, valid, scalars>>

\* The next key takes the lane, with all it held forgotten.
NextLane == /\ phase = "score"
            /\ phase' = "decode"
            /\ key' \in Keys
            /\ decoded' = [point |-> NoPoint, valid |-> FALSE, xZero |-> FALSE]
            /\ table' = DecodeDestination
            /\ written' = 0
            /\ valid' = TRUE
            /\ scalars' = NoScalars
            /\ acc' = NoPoint
            /\ UNCHANGED <<policy, index>>

Next == \/ Decode \/ WriteMultiple \/ SelectTable \/ Recode
        \/ LoadTopDigit \/ Quadruple \/ AddBasePair \/ SubtractKey
        \/ NextLane

Spec == Init /\ [][Next]_vars

-----------------------------------------------------------------------------
(***************************************************************************)
(* Scoring, against an R of any encoding                                   *)
(***************************************************************************)
\* verify_prepared_zip215 or check_zip215_candidates, then score_zip215_lanes
Zip215Verdict(r) ==
    LET R == DecompressPoint(r, TRUE)
    IN  SubtractAffineAndCheck8Torsion(acc, R.point) /\ valid /\ R.valid

\* verify_prepared_dalek_decompressed_r, then score_dalek_lanes
DalekVerdict(r) ==
    LET R == DecompressPoint(r, FALSE)
    IN  /\ EqualsAffine(acc, R.point)
        /\ valid
        /\ R.valid
        /\ HasCanonicalY(r)
        /\ ~(R.xZero /\ r.sign)
        /\ ~IsSmallOrderPoint(R.point)

\* compress_dalek_candidates, then flush_dalek_queue
DalekQueuedVerdict(r) ==
    /\ CompressWithZInverse(acc, Inverted(acc.z)) = r
    /\ valid
    /\ ~IsSmallOrderPoint(acc)

-----------------------------------------------------------------------------
LanePolicy == INSTANCE Policy

\* The abstract encoding of bytes: of the two encodings of a point with x = 0
\* one has the wrong sign, any other point has one sign.
EncodingOf ==
    [bytes \in EncodedBytes |->
        LET R == DecompressPoint(bytes, TRUE)
            n == ResidueOf([x |-> R.point.x, y |-> R.point.y])
        IN  IF R.valid
            THEN [onCurve |-> TRUE, point |-> n, canonicalY |-> HasCanonicalY(bytes),
                  signBit |-> IF R.xZero THEN bytes.sign ELSE LanePolicy!XIsOdd(n)]
            ELSE [onCurve |-> FALSE, point |-> 0, canonicalY |-> HasCanonicalY(bytes),
                  signBit |-> bytes.sign]]

\* The residue of the point whose table the ladder runs on
KeyResidue == IF decoded.valid THEN ResidueOf(Affine(decoded.point)) ELSE 0

\* Decompression finds a point exactly for the y of the curve's points, the one
\* of the sign asked for unless x is zero, and compressing it gives the bytes
\* back exactly if y is canonical and no negative zero was asked for.
DecodeFaithful ==
    phase = "table" =>
        LET p == decoded.point
        IN  /\ decoded.valid <=> \E c \in CurvePoints : c.y = key.y % FIELD_P
            /\ decoded.valid =>
                  /\ OnCurve(p.x, p.y) /\ p.z = 1 /\ HasT(p)
                  /\ p.y = key.y % FIELD_P
                  /\ p.x = 0 \/ (p.x % 2 = 1 <=> key.sign)
                  /\ (CompressWithZInverse(p, 1) = key)
                        <=> (HasCanonicalY(key) /\ ~(decoded.xZero /\ key.sign))

\* The chain of additions and doublings puts in every slot its multiple, in the
\* form the additions of the ladder expect.
TableExact ==
    phase = "recode" =>
        \A digit \in SignedDigits :
            LET c == table[digit]
                p == PointAt(digit * KeyResidue)
                e == FromCachedWithoutT(c)
            IN  /\ c.z2 # 0
                /\ Affine(e) = p
                /\ c.t2d = Product(Product(CURVE_D, c.z2), Product(p.x, p.y))

\* No digit of any scalar leads an unchecked selection out of its table: neither
\* one of k, nor a pair of s, even where a carry out of the top byte is lost.
SelectionsInBounds ==
    /\ \A i \in 0..(DIGITS - 1) : scalars.kDigits[i] \in SignedDigits
    /\ \A pair \in 0..(DIGITS \div 2 - 1) : BasePairDigit(scalars.sDigits, pair) \in (-136)..136

\* Nothing is read before it is written: no slot of the table, whether or not
\* the key of its lane decoded, and no T that a doubling skipped, be it by an
\* addition of the ladder or by the torsion check of ZIP-215.
WrittenWhenRead ==
    /\ phase \notin {"decode", "table"} => \A digit \in SignedDigits : table[digit] # Unset
    /\ (phase \in {"addBase", "subtractKey"} \/ (phase = "score" /\ policy = "Zip215")) => HasT(acc)

\* The ladder ends at [s]B - [k]A, whatever digits lead there: the formulas are
\* complete, so no Z vanishes, not even for points of small order.
LadderExact ==
    phase = "score" =>
        /\ acc.z # 0
        /\ Affine(acc) = PointAt(8 * scalars.s - scalars.k * KeyResidue)

\* The three ways to score a lane decide on coordinates and bytes what Policy
\* decides on the group, for every R, its non-canonical encodings among them.
VerdictsOfPolicy ==
    phase = "score" =>
        LET p == ResidueOf(Affine(acc))
        IN  \A r \in EncodedBytes :
                LET e == EncodingOf[r]
                IN  IF policy = "Zip215"
                    THEN Zip215Verdict(r) = LanePolicy!ScoreZip215(p, e, valid)
                    ELSE /\ DalekVerdict(r) = LanePolicy!ScoreDalek(p, e, valid)
                         /\ DalekQueuedVerdict(r) = LanePolicy!FlushDalek(p, e, valid)
=============================================================================
