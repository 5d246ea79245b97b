---------------------------- MODULE SharedProofs ----------------------------
(***************************************************************************)
(* What the proofs about the verifiers rest on.                            *)
(*                                                                         *)
(* The chunk plan: what the orders of visit and the chunks cut from them   *)
(* have in common, for every number of lanes and every batch.              *)
(*                                                                         *)
(* The policies: the two ways a policy scores a lane come to the same      *)
(* verdict, which depends on the input of the lane alone.                  *)
(***************************************************************************)
EXTENDS ChunkPlan, Policy, FiniteSetTheorems, SequenceTheorems, TLAPS

\* An order in which each of n inputs is visited, and visited once.
IsVisitOrder(o, n) ==
    /\ o \in [1..n -> 1..n]
    /\ \A i, j \in 1..n : o[i] = o[j] => i = j
    /\ \A k \in 1..n : \E i \in 1..n : o[i] = k

\* The inputs among the first pos of an order
Taken(o, pos) == {o[p] : p \in 1..pos}

\* A function on 1..n is a sequence of length n.
LEMMA SequenceOfLength ==
    ASSUME NEW n \in Nat, NEW S, NEW f \in [1..n -> S]
    PROVE  f \in Seq(S) /\ Len(f) = n
<1>1. f \in Seq(S)
  BY SeqDef
<1>2. Len(f) \in Nat /\ DOMAIN f = 1..Len(f)
  BY <1>1, LenProperties
<1>3. DOMAIN f = 1..n
  OBVIOUS
<1>4. Len(f) = n
  <2>1. CASE n = 0
    BY <1>2, <1>3, <2>1
  <2>2. CASE n # 0
    BY <1>2, <1>3, <2>2
  <2> QED BY <2>1, <2>2
<1> QED BY <1>1, <1>4

\* An order that visits no input twice leaves none out.
LEMMA OnceIsAll ==
    ASSUME NEW n \in Nat, NEW o \in [1..n -> 1..n],
           \A i, j \in 1..n : o[i] = o[j] => i = j
    PROVE  IsVisitOrder(o, n)
<1>1. IsFiniteSet(1..n)
  BY FS_Interval
<1>2. o \in Injection(1..n, 1..n)
  BY DEF Injection, IsInjective
<1>3. o \in Surjection(1..n, 1..n)
  BY <1>1, <1>2, FS_Injection
<1> QED BY <1>3 DEF IsVisitOrder, Surjection

LEMMA InOrderVisitsAll == ASSUME NEW n \in Nat PROVE IsVisitOrder(InOrder(n), n)
BY DEF IsVisitOrder, InOrder

\* Whatever order a sort leaves, every input is in it once.
LEMMA SortedVisitsAll ==
    ASSUME NEW n \in Nat, NEW lens, DOMAIN lens = 1..n, NEW o \in SortedOrders(lens)
    PROVE  IsVisitOrder(o, n)
<1>1. o \in [1..n -> 1..n]
  BY DEF SortedOrders
<1>2. ASSUME NEW i \in 1..n, NEW j \in 1..n, o[i] = o[j]
      PROVE  i = j
  <2>1. ~(i < j) /\ ~(j < i)
    BY <1>2 DEF SortedOrders
  <2> QED BY <2>1
<1> QED BY <1>1, <1>2, OnceIsAll

LEMMA VisitOrderLength ==
    ASSUME NEW n \in Nat, NEW o, IsVisitOrder(o, n)
    PROVE  o \in Seq(1..n) /\ Len(o) = n /\ DOMAIN o = 1..n
BY SequenceOfLength DEF IsVisitOrder

LEMMA NothingTaken == \A o : Taken(o, 0) = {}
BY DEF Taken

LEMMA AllTaken ==
    ASSUME NEW n \in Nat, NEW o, IsVisitOrder(o, n)
    PROVE  Taken(o, n) = 1..n
BY DEF Taken, IsVisitOrder

-----------------------------------------------------------------------------
(***************************************************************************)
(* One chunk of an order                                                   *)
(***************************************************************************)
\* The lanes of a chunk all hold inputs; the active ones hold the next inputs of
\* the order, one each.
LEMMA ChunkLanes ==
    ASSUME NEW n \in Nat, NEW o, IsVisitOrder(o, n), NEW pos \in 0..(n - 1)
    PROVE  /\ ActiveLanes(o, pos) \in Lanes
           /\ pos + ActiveLanes(o, pos) \in 1..n
           /\ \A l \in Lanes : ChunkIndices(o, pos)[l] \in 1..n
           /\ \A l \in 1..ActiveLanes(o, pos) : ChunkIndices(o, pos)[l] = o[pos + l]
<1>1. Len(o) = n /\ LANES \in Nat /\ LANES # 0
  BY VisitOrderLength, PlanAssumption
<1>2. /\ ActiveLanes(o, pos) \in Lanes
      /\ pos + ActiveLanes(o, pos) \in 1..n
  BY <1>1 DEF ActiveLanes, Lanes
<1>3. ASSUME NEW l \in Lanes PROVE ChunkIndices(o, pos)[l] \in 1..n
  <2>1. ChunkIndices(o, pos)[l] = IF pos + l <= n THEN o[pos + l] ELSE o[n]
    BY <1>1 DEF ChunkIndices
  <2>2. pos + l <= n => pos + l \in 1..n
    BY <1>1 DEF Lanes
  <2> QED BY <2>1, <2>2 DEF IsVisitOrder
<1>4. ASSUME NEW l \in 1..ActiveLanes(o, pos)
      PROVE  ChunkIndices(o, pos)[l] = o[pos + l]
  BY <1>1 DEF ActiveLanes, ChunkIndices, Lanes
<1> QED BY <1>2, <1>3, <1>4

\* No two active lanes hold the same input.
LEMMA LanesDiffer ==
    ASSUME NEW n \in Nat, NEW o, IsVisitOrder(o, n), NEW pos \in 0..(n - 1),
           NEW l \in 1..ActiveLanes(o, pos), NEW m \in 1..ActiveLanes(o, pos),
           ChunkIndices(o, pos)[l] = ChunkIndices(o, pos)[m]
    PROVE  l = m
<1>1. /\ ActiveLanes(o, pos) \in Nat
      /\ pos + ActiveLanes(o, pos) \in 1..n
      /\ o[pos + l] = o[pos + m]
  BY ChunkLanes, PlanAssumption DEF Lanes
<1>2. pos + l \in 1..n /\ pos + m \in 1..n
  BY <1>1
<1>3. pos + l = pos + m
  BY <1>1, <1>2 DEF IsVisitOrder
<1> QED BY <1>3

\* A chunk takes the inputs of its active lanes, none of which was taken before.
LEMMA ChunkTakes ==
    ASSUME NEW n \in Nat, NEW o, IsVisitOrder(o, n), NEW pos \in 0..(n - 1), NEW i
    PROVE  LET a == ActiveLanes(o, pos)
           IN  /\ i \in Taken(o, pos + a)
                  <=> i \in Taken(o, pos) \/ \E l \in 1..a : ChunkIndices(o, pos)[l] = i
               /\ (\E l \in 1..a : ChunkIndices(o, pos)[l] = i) => i \notin Taken(o, pos)
<1> DEFINE a == ActiveLanes(o, pos)
           c == ChunkIndices(o, pos)
<1>1. a \in Nat /\ pos + a \in 1..n /\ \A l \in 1..a : c[l] = o[pos + l]
  BY ChunkLanes, PlanAssumption DEF Lanes
<1> HIDE DEF a, c
<1>2. ASSUME i \in Taken(o, pos + a), i \notin Taken(o, pos)
      PROVE  \E l \in 1..a : c[l] = i
  <2>1. PICK p \in 1..(pos + a) : o[p] = i
    BY <1>2 DEF Taken
  <2>2. p \notin 1..pos
    BY <1>2, <2>1 DEF Taken
  <2>3. p - pos \in 1..a /\ pos + (p - pos) = p
    BY <1>1, <2>1, <2>2
  <2> QED BY <1>1, <2>1, <2>3
<1>3. ASSUME i \in Taken(o, pos) PROVE i \in Taken(o, pos + a)
  <2>1. 1..pos \subseteq 1..(pos + a)
    BY <1>1
  <2> QED BY <1>3, <2>1 DEF Taken
<1>4. ASSUME NEW l \in 1..a, c[l] = i
      PROVE  i \in Taken(o, pos + a) /\ i \notin Taken(o, pos)
  <2>1. o[pos + l] = i /\ pos + l \in 1..(pos + a) /\ pos + l \in 1..n /\ pos + l \notin 1..pos
    BY <1>1, <1>4
  <2>2. \A p \in 1..pos : p \in 1..n
    BY <1>1
  <2>3. i \in Taken(o, pos + a)
    BY <2>1 DEF Taken
  <2>4. ASSUME NEW p \in 1..pos PROVE o[p] # i
    BY <2>1, <2>2 DEF IsVisitOrder
  <2> QED BY <2>3, <2>4 DEF Taken
<1>5. /\ i \in Taken(o, pos + a) <=> i \in Taken(o, pos) \/ \E l \in 1..a : c[l] = i
      /\ (\E l \in 1..a : c[l] = i) => i \notin Taken(o, pos)
  BY <1>2, <1>3, <1>4
<1> QED BY <1>5 DEF a, c

-----------------------------------------------------------------------------
LEMMA OrderIsNat == Order \in Nat \ {0} /\ Order = 8 * L
BY CurveAssumption DEF Order

LEMMA MinusIsPoint == ASSUME NEW p \in Int, NEW q \in Int PROVE Minus(p, q) \in Points
<1>1. (p - q) \in Int
  OBVIOUS
<1>2. (p - q) % Order \in 0..(Order - 1)
  BY <1>1, OrderIsNat
<1> QED
  BY <1>2 DEF Minus, Points

LEMMA MultipleIsPoint == ASSUME NEW n \in Int, NEW p \in Int PROVE Multiple(n, p) \in Points
<1>1. n * p \in Int
  OBVIOUS
<1>2. (n * p) % Order \in 0..(Order - 1)
  BY <1>1, OrderIsNat
<1> QED
  BY <1>2 DEF Multiple, Points

LEMMA PointsAreInts == Points \subseteq Int
BY OrderIsNat DEF Points

\* The ladder ends on a point, whatever its table and its digits.
LEMMA CombinationIsPoint ==
  ASSUME NEW s \in Nat, NEW k \in Int, NEW p \in Points
  PROVE  Combination(s, k, p) \in Points
<1>1. s \in Int /\ Base \in Int /\ p \in Int
  BY PointsAreInts DEF Base
<1>2. Multiple(s, Base) \in Points /\ Multiple(k, p) \in Points
  BY <1>1, MultipleIsPoint
<1>3. Multiple(s, Base) \in Int /\ Multiple(k, p) \in Int
  BY <1>2, PointsAreInts
<1> QED
  BY <1>3, MinusIsPoint DEF Combination

\* Compressing a point gives the encoding that decodes to it, has a canonical y
\* and, where the sign is free, no sign: comparing the bytes checks it all.
LEMMA CompressedIsCanonical ==
  ASSUME NEW p \in Points, NEW r \in Encodings
  PROVE  Compressed(p) = r <=> /\ r.onCurve
                               /\ r.point = p
                               /\ r.canonicalY
                               /\ ~(XIsZero(p) /\ r.signBit)
<1>1. /\ r.onCurve \in BOOLEAN /\ r.signBit \in BOOLEAN /\ r.canonicalY \in BOOLEAN
      /\ r = [onCurve |-> r.onCurve, point |-> r.point,
              signBit |-> r.signBit, canonicalY |-> r.canonicalY]
      /\ r.onCurve /\ ~XIsZero(r.point) => (r.signBit <=> XIsOdd(r.point))
  BY DEF Encodings
<1>2. XIsZero(p) => ~XIsOdd(p)
  BY OrderIsNat, CurveAssumption DEF XIsZero, XIsOdd
<1>3. XIsOdd(p) \in BOOLEAN
  BY DEF XIsOdd
<1>4. ASSUME Compressed(p) = r
      PROVE  /\ r.onCurve
             /\ r.point = p
             /\ r.canonicalY
             /\ ~(XIsZero(p) /\ r.signBit)
  BY <1>4, <1>2 DEF Compressed
<1>5. ASSUME r.onCurve, r.point = p, r.canonicalY, ~(XIsZero(p) /\ r.signBit)
      PROVE  Compressed(p) = r
  <2>1. r.signBit = XIsOdd(p)
    BY <1>1, <1>2, <1>3, <1>5
  <2>2. r.onCurve = TRUE /\ r.canonicalY = TRUE
    BY <1>1, <1>5
  <2> QED
    BY <1>1, <1>5, <2>1, <2>2 DEF Compressed
<1> QED
  BY <1>4, <1>5

\* A lane that a Dalek verifier scores at once, with R decoded, gets the verdict
\* it would get from the queue, where R is never decoded and only its bytes are
\* compared: whether the cache hit does not show in the verdict.
THEOREM DalekPathsAgree ==
  ASSUME NEW p \in Points, NEW r \in Encodings, NEW valid \in BOOLEAN
  PROVE  ScoreDalek(p, r, valid) <=> FlushDalek(p, r, valid)
BY CompressedIsCanonical DEF ScoreDalek, FlushDalek

-----------------------------------------------------------------------------
(***************************************************************************)
(* What is scored of an input: the table its lane runs on, the end of its  *)
(* ladder, and whether anything rejects it before its equation.            *)
(***************************************************************************)
KeyTable(i) == IF i.key.onCurve THEN i.key.point ELSE Identity

LadderEnd(i) == Combination(Digits(i.s), i.k, KeyTable(i))

Eligible(policy, i) == /\ IsCanonical(i.s)
                       /\ i.key.onCurve
                       /\ ~RejectsKey(policy, KeyTable(i))

\* The equation of a policy, of its canonical scalar and decoded key
Verdict(policy, i) ==
    /\ IsCanonical(i.s)
    /\ i.key.onCurve
    /\ LET p == Combination(i.s, i.k, i.key.point)
       IN  IF policy = "Dalek"
           THEN ~IsSmallOrder(i.key.point) /\ i.r = Compressed(p) /\ ~IsSmallOrder(i.r.point)
           ELSE i.r.onCurve /\ EqualUpToTorsion(p, i.r.point)

LEMMA InputFields ==
  ASSUME NEW i \in Inputs
  PROVE  /\ i.key \in Encodings /\ i.r \in Encodings /\ i.s \in Nat /\ i.k \in Int
         /\ i.key.onCurve \in BOOLEAN /\ i.key.point \in Points
         /\ i.r.onCurve \in BOOLEAN /\ i.r.point \in Points
<1>1. i.key \in Encodings /\ i.r \in Encodings /\ i.s \in Nat /\ i.k \in 0..(L - 1)
  BY DEF Inputs
<1> QED BY <1>1, CurveAssumption DEF Encodings

LEMMA LadderEndIsPoint == ASSUME NEW i \in Inputs PROVE LadderEnd(i) \in Points
<1>1. KeyTable(i) \in Points
  BY InputFields, OrderIsNat DEF KeyTable, Identity, Points
<1>2. Digits(i.s) \in Nat
  BY InputFields DEF Digits
<1> QED BY <1>1, <1>2, InputFields, CombinationIsPoint DEF LadderEnd

LEMMA Booleans ==
  ASSUME NEW policy, NEW i \in Inputs
  PROVE  Verdict(policy, i) \in BOOLEAN /\ Eligible(policy, i) \in BOOLEAN
BY DEF Verdict, Eligible

\* An input rejected before its equation fails.
LEMMA IneligibleFails ==
  ASSUME NEW policy, NEW i \in Inputs, ~Eligible(policy, i)
  PROVE  Verdict(policy, i) = FALSE
BY DEF Verdict, Eligible, RejectsKey, KeyTable

\* What the queue of a policy makes of the end of a ladder is its verdict.
LEMMA FlushIsVerdict ==
  ASSUME NEW policy \in Policies, NEW i \in Inputs
  PROVE  Flush(policy, LadderEnd(i), i.r, Eligible(policy, i)) = Verdict(policy, i)
<1>1. CASE ~Eligible(policy, i)
  <2>1. Flush(policy, LadderEnd(i), i.r, FALSE) = FALSE
    BY DEF Flush, FlushDalek, ScoreZip215, zip215_lane_accepts
  <2>2. Eligible(policy, i) = FALSE
    BY <1>1
  <2> QED BY <1>1, <2>1, <2>2, IneligibleFails
<1>2. CASE Eligible(policy, i)
  <2>1. /\ Eligible(policy, i) = TRUE
        /\ LadderEnd(i) = Combination(i.s, i.k, i.key.point)
        /\ IsCanonical(i.s) /\ i.key.onCurve
        /\ policy = "Dalek" => ~IsSmallOrder(i.key.point)
    BY <1>2, Booleans DEF Eligible, LadderEnd, Digits, KeyTable, RejectsKey
  <2>2. /\ i.r = Compressed(LadderEnd(i)) => i.r.point = LadderEnd(i)
        /\ i.r.onCurve \in BOOLEAN
    BY InputFields DEF Compressed
  <2>3. Flush(policy, LadderEnd(i), i.r, TRUE) = Verdict(policy, i)
    BY <2>1, <2>2 DEF Flush, FlushDalek, ScoreZip215, zip215_lane_accepts, Verdict
  <2> QED BY <2>1, <2>3
<1> QED BY <1>1, <1>2

\* And so is what it scores at once.
LEMMA ScoreIsVerdict ==
  ASSUME NEW policy \in Policies, NEW i \in Inputs
  PROVE  Score(policy, LadderEnd(i), i.r, Eligible(policy, i)) = Verdict(policy, i)
<1>1. Score(policy, LadderEnd(i), i.r, Eligible(policy, i))
        <=> Flush(policy, LadderEnd(i), i.r, Eligible(policy, i))
  BY DalekPathsAgree, LadderEndIsPoint, InputFields, Booleans DEF Score, Flush
<1>2. /\ Score(policy, LadderEnd(i), i.r, Eligible(policy, i)) \in BOOLEAN
      /\ Flush(policy, LadderEnd(i), i.r, Eligible(policy, i)) \in BOOLEAN
  BY DEF Score, Flush, ScoreDalek, FlushDalek, ScoreZip215, zip215_lane_accepts
<1> QED BY <1>1, <1>2, FlushIsVerdict
=============================================================================
