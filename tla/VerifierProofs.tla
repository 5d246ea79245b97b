--------------------------- MODULE VerifierProofs ---------------------------
(***************************************************************************)
(* Proofs about Verifier for every number of lanes, every size of a queue, *)
(* every set of batches, keys and bounds.                                  *)
(*                                                                         *)
(* IInv is made of five parts.  CacheInv says that what is retained is     *)
(* what decoding gives; CallInv where the call stands; ChunkInv that the   *)
(* locals of verify_chunk are functions of the inputs in its lanes, and    *)
(* that the lanes that hit are still retained when their tables are read;  *)
(* QueueInv that a flush of the queue gives each of its lanes the verdict  *)
(* of that lane's input; OutInv that the inputs taken so far are the ones  *)
(* queued and the ones answered, the latter with their verdicts.           *)
(***************************************************************************)
EXTENDS Verifier, SharedProofs

Phases  == {"idle", "chunks", "lookup", "decode", "score", "retain", "emit", "done"}
InChunk == phase \in {"lookup", "decode", "score", "retain", "emit"}

NoDuplicates(order) == \A p, q \in DOMAIN order : order[p] = order[q] => p = q

CacheInv ==
    /\ recency \in Seq(Encodings)
    /\ NoDuplicates(recency)
    /\ bound \in Nat \ {0}
    /\ Len(recency) <= bound
    /\ DOMAIN table = Residents(recency)
    /\ CacheTruthful

CallInv ==
    /\ policy \in Policies
    /\ phase \in Phases
    /\ batch \in Seq(Inputs)
    /\ IsVisitOrder(visit, Len(batch))
    /\ pos \in 0..Len(batch)
    /\ InChunk => pos < Len(batch)
    /\ phase = "idle" => batch = << >>
    /\ phase = "done" => pos = Len(batch)

\* Where the scratch is full, of what, and that it is empty elsewhere
ScratchInv ==
    /\ scratch \in [Lanes -> Points \cup {NoTable}]
    /\ phase = "score" /\ Decodes => \A i \in Lanes : scratch[i] = LaneKey(i).point
    /\ phase = "score" /\ ~Decodes => scratch = NoScratch
    /\ phase = "retain" =>
          \A i \in Lanes : scratch[i] = IF i < lane THEN NoTable ELSE LaneKey(i).point
    /\ ScratchTaken

ChunkInv ==
    /\ lane \in Lanes
    /\ phase \in {"decode", "score"} => lane = 1
    /\ hits \in [Lanes -> BOOLEAN]
    /\ valid \in [Lanes -> BOOLEAN]
    /\ verdict \in [Lanes -> BOOLEAN]
    /\ deferred \in BOOLEAN
    /\ deferred => phase = "emit"
    /\ ~InChunk => hits = NoLane
    /\ phase \notin {"retain", "emit"} => verdict = NoLane
    /\ InChunk => \A i \in Lanes : /\ valid[i] = IsCanonical(LaneInput(i).s)
                                   /\ hits[i] => LaneKey(i).onCurve
    /\ phase \in {"lookup", "decode", "score"} =>
          \A i \in Lanes : hits[i] => LaneKey(i) \in Residents(recency)
    /\ phase \in {"retain", "emit"} /\ ~deferred =>
          \A i \in Lanes : verdict[i] = Verdict(policy, LaneInput(i))
    /\ ScratchInv

\* The chunks a queue has room for
Room == IF policy = "Dalek" THEN DALEK_BATCH ELSE ZIP215_BATCH

PendingChunks == [valid : [Lanes -> BOOLEAN], indices : [Lanes -> Nat], active : Lanes]

\* The lanes of the queued chunks that report
Reporting == {cl \in (DOMAIN pending) \X Lanes : cl[2] <= pending[cl[1]].active}

InputOf(cl) == pending[cl[1]].indices[cl[2]]

\* What a flush makes of one of them
FlushOf(cl) == Flush(policy, candidates[cl[1]][cl[2]], rBytes[cl[1]][cl[2]],
                     pending[cl[1]].valid[cl[2]])

QueueInv ==
    /\ candidates \in Seq([Lanes -> Points])
    /\ rBytes \in Seq([Lanes -> Encodings])
    /\ pending \in Seq(PendingChunks)
    /\ Len(candidates) = Len(pending) /\ Len(rBytes) = Len(pending)
    /\ Len(pending) <= Room
    /\ ~deferred => Len(pending) < Room
    /\ phase \in {"idle", "done"} => pending = << >>
    /\ \A cl \in Reporting : /\ InputOf(cl) \in 1..Len(batch)
                             /\ FlushOf(cl) = Verdict(policy, batch[InputOf(cl)])
    /\ \A cl, dm \in Reporting : InputOf(cl) = InputOf(dm) => cl = dm

\* The inputs of the chunks that have been reported or queued
Spoken == Taken(visit, IF deferred THEN pos + Active ELSE pos)

IsQueued(i) == \E cl \in Reporting : InputOf(cl) = i

OutInv ==
    /\ out \in [1..Len(batch) -> BOOLEAN \cup {Unwritten}]
    /\ \A i \in 1..Len(batch) :
          /\ IsQueued(i) => i \in Spoken
          /\ out[i] # Unwritten <=> i \in Spoken /\ ~IsQueued(i)
          /\ out[i] # Unwritten => out[i] = Verdict(policy, batch[i])

IInv == CacheInv /\ CallInv /\ ChunkInv /\ QueueInv /\ OutInv

-----------------------------------------------------------------------------
(***************************************************************************)
(* The operators on recency orders                                         *)
(***************************************************************************)
LEMMA ResidentsOf ==
    ASSUME NEW o, NEW n, DOMAIN o = 1..n, NEW k
    PROVE  k \in Residents(o) <=> \E i \in 1..n : o[i] = k
BY DEF Residents

\* A refreshed order holds the keys it held.
LEMMA TouchedOrder ==
    ASSUME NEW S, NEW o \in Seq(S), NoDuplicates(o), NEW p \in DOMAIN o
    PROVE  LET t == Touched(o, p)
           IN  t \in Seq(S) /\ Len(t) = Len(o) /\ NoDuplicates(t) /\ Residents(t) = Residents(o)
<1> DEFINE n == Len(o)
           t == Touched(o, p)
<1>1. n \in Nat /\ DOMAIN o = 1..n /\ p \in 1..n /\ \A i \in 1..n : o[i] \in S
  BY LenProperties, ElementOfSeq
<1>2. t = [i \in 1..n |-> IF i = 1 THEN o[p] ELSE IF i <= p THEN o[i - 1] ELSE o[i]]
  BY DEF Touched
<1>3. \A i \in 1..n : t[i] = IF i = 1 THEN o[p] ELSE IF i <= p THEN o[i - 1] ELSE o[i]
  BY <1>2
<1> HIDE DEF t, n
<1>4. \A i \in 1..n : t[i] \in S
  BY <1>1, <1>3
<1>5. t \in [1..n -> S]
  BY <1>2, <1>4
<1>6. t \in Seq(S) /\ Len(t) = n /\ DOMAIN t = 1..n
  BY <1>1, <1>5, SequenceOfLength
<1>7. NoDuplicates(t)
  <2> SUFFICES ASSUME NEW i \in 1..n, NEW j \in 1..n, t[i] = t[j] PROVE i = j
    BY <1>6 DEF NoDuplicates
  <2> DEFINE from(x) == IF x = 1 THEN p ELSE IF x <= p THEN x - 1 ELSE x
  <2>1. \A x \in 1..n : from(x) \in 1..n /\ t[x] = o[from(x)]
    BY <1>1, <1>3
  <2>2. from(i) = from(j)
    BY <2>1, <1>1 DEF NoDuplicates
  <2> QED BY <2>2, <1>1
<1>8. Residents(t) = Residents(o)
  <2>1. ASSUME NEW i \in 1..n PROVE \E j \in 1..n : t[i] = o[j]
    BY <1>1, <1>3
  <2>2. ASSUME NEW i \in 1..n PROVE \E j \in 1..n : t[j] = o[i]
    <3>1. CASE i = p
      BY <3>1, <1>1, <1>3
    <3>2. CASE i < p
      <4>1. i + 1 \in 1..n /\ i + 1 # 1 /\ i + 1 <= p /\ (i + 1) - 1 = i
        BY <3>2, <1>1
      <4> QED BY <4>1, <1>3
    <3>3. CASE i > p
      BY <3>3, <1>1, <1>3
    <3> QED BY <3>1, <3>2, <3>3, <1>1
  <2>3. ASSUME NEW k PROVE k \in Residents(t) <=> k \in Residents(o)
    <3>1. k \in Residents(t) <=> \E i \in 1..n : t[i] = k
      BY <1>6, ResidentsOf
    <3>2. k \in Residents(o) <=> \E i \in 1..n : o[i] = k
      BY <1>1, ResidentsOf
    <3> QED BY <2>1, <2>2, <3>1, <3>2
  <2> QED BY <2>3 DEF Residents
<1> QED BY <1>6, <1>7, <1>8 DEF t, n

LEMMA ResidentPosition ==
    ASSUME NEW o, NEW k \in Residents(o)
    PROVE  PositionOf(o, k) \in DOMAIN o /\ o[PositionOf(o, k)] = k
BY DEF Residents, PositionOf

LEMMA LookedUpOrder ==
    ASSUME NEW S, NEW o \in Seq(S), NoDuplicates(o), NEW k
    PROVE  LET t == AfterGet(o, k)
           IN  t \in Seq(S) /\ Len(t) = Len(o) /\ NoDuplicates(t) /\ Residents(t) = Residents(o)
BY TouchedOrder, ResidentPosition DEF AfterGet

\* A pushed key enters, and what it evicts is all that goes.
LEMMA PushedOrder ==
    ASSUME NEW S, NEW o \in Seq(S), NoDuplicates(o), NEW k \in S, k \notin Residents(o),
           NEW b \in Nat \ {0}, Len(o) <= b
    PROVE  LET t == Pushed(o, k, b)
           IN  t \in Seq(S) /\ Len(t) <= b /\ NoDuplicates(t)
               /\ k \in Residents(t) /\ Residents(t) \subseteq Residents(o) \cup {k}
<1> DEFINE n == Len(o)
           m == SmallerOf(n + 1, b)
           t == Pushed(o, k, b)
<1>1. /\ n \in Nat /\ DOMAIN o = 1..n /\ \A i \in 1..n : o[i] \in S
      /\ m \in Nat /\ m # 0 /\ m <= n + 1 /\ m <= b
  BY LenProperties, ElementOfSeq DEF SmallerOf
<1>2. t = [i \in 1..m |-> IF i = 1 THEN k ELSE o[i - 1]]
  BY DEF Pushed
<1> HIDE DEF t, n, m
<1>3. \A i \in 1..m : (i # 1 => i - 1 \in 1..n) /\ t[i] = IF i = 1 THEN k ELSE o[i - 1]
  BY <1>1, <1>2
<1>4. \A i \in 1..m : t[i] \in S
  BY <1>1, <1>3
<1>5. t \in [1..m -> S]
  BY <1>2, <1>4
<1>6. t \in Seq(S) /\ Len(t) = m /\ DOMAIN t = 1..m
  BY <1>1, <1>5, SequenceOfLength
<1>7. \A i \in 1..n : o[i] # k
  BY <1>1 DEF Residents
<1>8. NoDuplicates(t)
  <2> SUFFICES ASSUME NEW i \in 1..m, NEW j \in 1..m, t[i] = t[j] PROVE i = j
    BY <1>6 DEF NoDuplicates
  <2>1. i = 1 <=> j = 1
    BY <1>3, <1>7
  <2>2. CASE i # 1 /\ j # 1
    <3>1. i - 1 \in DOMAIN o /\ j - 1 \in DOMAIN o /\ o[i - 1] = o[j - 1]
      BY <2>2, <1>1, <1>3
    <3>2. i - 1 = j - 1
      BY <3>1 DEF NoDuplicates
    <3> QED BY <3>2
  <2> QED BY <2>1, <2>2
<1>9. k \in Residents(t) /\ Residents(t) \subseteq Residents(o) \cup {k}
  <2>1. 1 \in 1..m /\ t[1] = k
    BY <1>1, <1>3
  <2>2. ASSUME NEW i \in 1..m PROVE t[i] \in Residents(o) \cup {k}
    BY <1>1, <1>3, ResidentsOf
  <2> QED BY <2>1, <2>2, <1>6 DEF Residents
<1> QED BY <1>1, <1>6, <1>8, <1>9 DEF t

LEMMA InsertedOrder ==
    ASSUME NEW S, NEW o \in Seq(S), NoDuplicates(o), NEW k \in S,
           NEW b \in Nat \ {0}, Len(o) <= b
    PROVE  LET t == AfterInsert(o, k, b)
           IN  t \in Seq(S) /\ Len(t) <= b /\ NoDuplicates(t)
               /\ k \in Residents(t) /\ Residents(t) \subseteq Residents(o) \cup {k}
<1>1. CASE k \in Residents(o)
  BY <1>1, TouchedOrder, ResidentPosition DEF AfterInsert
<1>2. CASE k \notin Residents(o)
  BY <1>2, PushedOrder DEF AfterInsert
<1> QED BY <1>1, <1>2

LEMMA TruncatedOrder ==
    ASSUME NEW S, NEW o \in Seq(S), NoDuplicates(o), NEW b \in Nat \ {0}
    PROVE  LET t == Truncated(o, b)
           IN  t \in Seq(S) /\ Len(t) <= b /\ NoDuplicates(t)
               /\ Residents(t) \subseteq Residents(o)
<1> DEFINE n == Len(o)
           m == SmallerOf(n, b)
           t == Truncated(o, b)
<1>1. /\ n \in Nat /\ DOMAIN o = 1..n /\ \A i \in 1..n : o[i] \in S
      /\ m \in Nat /\ m <= n /\ m <= b
  BY LenProperties, ElementOfSeq DEF SmallerOf
<1>2. t = [i \in 1..m |-> o[i]]
  BY DEF Truncated
<1> HIDE DEF t, n, m
<1>3. \A i \in 1..m : i \in 1..n /\ t[i] = o[i]
  BY <1>1, <1>2
<1>4. t \in [1..m -> S]
  BY <1>1, <1>2, <1>3
<1>5. t \in Seq(S) /\ Len(t) = m /\ DOMAIN t = 1..m
  BY <1>1, <1>4, SequenceOfLength
<1>6. NoDuplicates(t)
  BY <1>1, <1>3, <1>5 DEF NoDuplicates
<1>7. Residents(t) \subseteq Residents(o)
  BY <1>1, <1>3, <1>5 DEF Residents
<1> QED BY <1>1, <1>5, <1>6, <1>7 DEF t

-----------------------------------------------------------------------------
(***************************************************************************)
(* The cache                                                               *)
(***************************************************************************)
LEMMA CacheKept == ASSUME CacheInv, UNCHANGED cacheVars PROVE CacheInv'
BY DEF CacheInv, cacheVars, NoDuplicates, CacheTruthful, Residents

LEMMA LookupKeepsCache ==
    ASSUME CacheInv, NEW k, recency' = AfterGet(recency, k), table' = table, bound' = bound
    PROVE  CacheInv' /\ Residents(recency') = Residents(recency)
<1>1. /\ recency' \in Seq(Encodings) /\ Len(recency') = Len(recency)
      /\ NoDuplicates(recency') /\ Residents(recency') = Residents(recency)
  BY LookedUpOrder DEF CacheInv
<1>2. \A x \in Residents(recency') : x.onCurve /\ table'[x] = x.point
  BY <1>1 DEF CacheInv, CacheTruthful
<1>3. CacheTruthful'
  BY <1>2 DEF CacheTruthful, Residents
<1>4. NoDuplicates(recency)' /\ Residents(recency)' = Residents(recency')
  BY <1>1 DEF NoDuplicates, Residents
<1> QED BY <1>1, <1>3, <1>4 DEF CacheInv

\* The keys that stay keep their tables, and a new one brings its own.
LEMMA InsertKeepsCache ==
    ASSUME CacheInv, NEW k \in Encodings, k.onCurve,
           recency' = AfterInsert(recency, k, bound), table' = TablesKept(k.point),
           bound' = bound
    PROVE  CacheInv' /\ k \in Residents(recency')
<1>1. /\ recency' \in Seq(Encodings) /\ Len(recency') <= bound
      /\ NoDuplicates(recency') /\ k \in Residents(recency')
      /\ Residents(recency') \subseteq Residents(recency) \cup {k}
  BY InsertedOrder DEF CacheInv
<1>2. table' = [x \in Residents(recency') |-> IF x \in DOMAIN table THEN table[x] ELSE k.point]
  BY DEF TablesKept
<1>3. ASSUME NEW x \in Residents(recency') PROVE x.onCurve /\ table'[x] = x.point
  <2>1. table'[x] = IF x \in Residents(recency) THEN table[x] ELSE k.point
    BY <1>2 DEF CacheInv
  <2>2. CASE x \in Residents(recency)
    BY <2>1, <2>2 DEF CacheInv, CacheTruthful
  <2>3. CASE x \notin Residents(recency)
    BY <1>1, <2>1, <2>3
  <2> QED BY <2>2, <2>3
<1>4. /\ CacheTruthful' /\ NoDuplicates(recency)'
      /\ Residents(recency)' = Residents(recency') /\ DOMAIN table' = Residents(recency')
  BY <1>1, <1>2, <1>3 DEF CacheTruthful, NoDuplicates, Residents
<1> QED BY <1>1, <1>4 DEF CacheInv

LEMMA TruncationKeepsCache ==
    ASSUME CacheInv, bound' \in Nat \ {0}, recency' = Truncated(recency, bound'),
           table' = TablesKept(NoTable)
    PROVE  CacheInv'
<1>1. /\ recency' \in Seq(Encodings) /\ Len(recency') <= bound'
      /\ NoDuplicates(recency') /\ Residents(recency') \subseteq Residents(recency)
  BY TruncatedOrder DEF CacheInv
<1>2. table' = [x \in Residents(recency') |-> IF x \in DOMAIN table THEN table[x] ELSE NoTable]
  BY DEF TablesKept
<1>3. ASSUME NEW x \in Residents(recency') PROVE x.onCurve /\ table'[x] = x.point
  BY <1>1, <1>2 DEF CacheInv, CacheTruthful
<1>4. /\ CacheTruthful' /\ NoDuplicates(recency)'
      /\ Residents(recency)' = Residents(recency') /\ DOMAIN table' = Residents(recency')
  BY <1>1, <1>2, <1>3 DEF CacheTruthful, NoDuplicates, Residents
<1> QED BY <1>1, <1>4 DEF CacheInv

-----------------------------------------------------------------------------
(***************************************************************************)
(* The chunk at hand                                                       *)
(***************************************************************************)
\* While the order has inputs left, every lane holds one of the batch.
LEMMA LanesHoldInputs ==
    ASSUME CallInv, pos < Len(batch)
    PROVE  /\ Len(batch) \in Nat /\ Len(visit) = Len(batch) /\ pos \in 0..(Len(batch) - 1)
           /\ Active \in Lanes /\ Active \in Nat /\ pos + Active \in 1..Len(batch)
           /\ Indices \in [Lanes -> Nat]
           /\ \A i \in Lanes : /\ Indices[i] \in 1..Len(batch)
                               /\ LaneInput(i) \in Inputs
                               /\ LaneKey(i) \in Encodings /\ LaneR(i) \in Encodings
<1>1. /\ Len(batch) \in Nat /\ Len(visit) = Len(batch) /\ pos \in 0..(Len(batch) - 1)
      /\ \A j \in 1..Len(batch) : batch[j] \in Inputs
  BY LenProperties, VisitOrderLength, ElementOfSeq DEF CallInv
<1>2. /\ Active \in Lanes /\ pos + Active \in 1..Len(batch)
      /\ \A i \in Lanes : Indices[i] \in 1..Len(batch)
  BY <1>1, ChunkLanes DEF CallInv, Active, Indices
<1>3. Active \in Nat
  BY <1>2, PlanAssumption DEF Lanes
<1>4. ASSUME NEW i \in Lanes
      PROVE  /\ LaneInput(i) \in Inputs
             /\ LaneKey(i) \in Encodings /\ LaneR(i) \in Encodings
  <2>1. LaneInput(i) \in Inputs
    BY <1>1, <1>2 DEF LaneInput
  <2> QED BY <2>1, InputFields DEF LaneKey, LaneR
<1>5. Indices \in [Lanes -> Nat]
  <2>1. \A i \in Lanes : Indices[i] \in Nat
    BY <1>1, <1>2
  <2> QED BY <2>1 DEF Indices, ChunkIndices
<1> QED BY <1>1, <1>2, <1>3, <1>4, <1>5

LEMMA LanesStay ==
    ASSUME batch' = batch, visit' = visit, pos' = pos
    PROVE  /\ Indices' = Indices /\ Active' = Active
           /\ \A i : /\ LaneInput(i)' = LaneInput(i)
                     /\ LaneKey(i)' = LaneKey(i) /\ LaneR(i)' = LaneR(i)
BY DEF Indices, Active, LaneInput, LaneKey, LaneR, ChunkIndices, ActiveLanes

\* What the ladder of a lane runs on is the table of its input, wherever it
\* came from, so what it ends on and what survives depend on the input alone.
LEMMA LanesScoreTheirInputs ==
    ASSUME CacheInv, CallInv, ChunkInv, phase = "score", NEW i \in Lanes
    PROVE  /\ TableOf(i) = KeyTable(LaneInput(i))
           /\ Ladder(i) = LadderEnd(LaneInput(i))
           /\ i \in Survivors <=> Eligible(policy, LaneInput(i))
<1>1. pos < Len(batch) /\ InChunk
  BY DEF CallInv, InChunk
<1>2. LaneInput(i) \in Inputs /\ LaneKey(i) \in Encodings
  BY <1>1, LanesHoldInputs
<1>3. /\ hits[i] \in BOOLEAN
      /\ hits[i] => LaneKey(i) \in Residents(recency)
      /\ valid[i] = IsCanonical(LaneInput(i).s)
  BY <1>1 DEF ChunkInv
<1>4. hits[i] => LaneKey(i).onCurve /\ table[LaneKey(i)] = LaneKey(i).point
  BY <1>3 DEF CacheInv, CacheTruthful
<1>5. TableOf(i) = KeyTable(LaneInput(i))
  <2>1. ~hits[i] => scratch[i] = LaneKey(i).point
    BY DEF ChunkInv, ScratchInv, Decodes, Misses
  <2> QED BY <1>4, <2>1 DEF TableOf, KeyTable, LaneKey
<1>6. Ladder(i) = LadderEnd(LaneInput(i))
  BY <1>5 DEF Ladder, LadderEnd
<1>7. i \in Survivors <=> Eligible(policy, LaneInput(i))
  BY <1>3, <1>4, <1>5 DEF Survivors, Eligible, LaneKey
<1> QED BY <1>5, <1>6, <1>7

-----------------------------------------------------------------------------
(***************************************************************************)
(* CacheInv and CallInv are inductive.                                     *)
(***************************************************************************)
LEMMA CacheInvNext == ASSUME IInv, Next PROVE CacheInv'
<1> USE DEF IInv
<1>1. ASSUME NEW k \in CallerKeys, CallerGets(k) PROVE CacheInv'
  BY <1>1, LookupKeepsCache DEF CallerGets
<1>2. ASSUME NEW k \in CallerKeys, CallerInserts(k) PROVE CacheInv'
  BY <1>2, VerifierAssumption, InsertKeepsCache DEF CallerInserts
<1>3. ASSUME NEW c \in Capacities, CallerSetsCapacity(c) PROVE CacheInv'
  <2>1. bound' \in Nat \ {0}
    BY <1>3, VerifierAssumption DEF CallerSetsCapacity
  <2> QED BY <1>3, <2>1, TruncationKeepsCache DEF CallerSetsCapacity
<1>4. CASE Lookup
  BY <1>4, LookupKeepsCache DEF Lookup
<1>5. CASE Retain
  <2>1. pos < Len(batch) /\ lane \in Lanes /\ scratch[lane] = LaneKey(lane).point
    BY <1>5, PlanAssumption DEF Retain, CallInv, ChunkInv, ScratchInv, InChunk, Lanes
  <2>2. LaneKey(lane) \in Encodings
    BY <2>1, LanesHoldInputs
  <2> QED BY <1>5, <2>1, <2>2, InsertKeepsCache DEF Retain
<1>6. ASSUME NEW p \in Policies, WithCache(p) PROVE CacheInv'
  BY <1>6, CacheKept DEF WithCache
<1>7. ASSUME NEW b \in Batches, BeginBatch(b) PROVE CacheInv'
  BY <1>7, CacheKept DEF BeginBatch
<1>8. CASE SkipChunk \/ ParseChunk \/ Decode \/ RejectLanes \/ ScoreLanes \/ QueueLanes \/ Discard
  BY <1>8, CacheKept
  DEF SkipChunk, ChunkEnds, ParseChunk, Decode, RejectLanes, ScoreLanes, QueueLanes, Scored, Discard
<1>9. CASE ReportLanes \/ LeaveQueued \/ FlushFull \/ FlushRest \/ Return
  BY <1>9, CacheKept
  DEF ReportLanes, LeaveQueued, FlushFull, ChunkEnds, FlushRest, Return
<1> QED BY <1>1, <1>2, <1>3, <1>4, <1>5, <1>6, <1>7, <1>8, <1>9 DEF Next

\* Every order BeginBatch may choose visits the whole batch.
LEMMA BeginVisitsAll ==
    ASSUME NEW b \in Seq(Inputs),
           NEW o \in IF Reorders(Lengths(b)) THEN SortedInto(Lengths(b), << >>)
                     ELSE {InOrder(Len(b))}
    PROVE  IsVisitOrder(o, Len(b))
<1>1. Len(b) \in Nat /\ DOMAIN Lengths(b) = 1..Len(b)
  BY LenProperties DEF Lengths
<1> QED BY <1>1, SortedVisitsAll, InOrderVisitsAll DEF SortedInto

LEMMA NoInputs ==
    << >> \in Seq(Inputs) /\ Len(<< >>) = 0 /\ IsVisitOrder(<< >>, 0) /\ 1..0 = {}
<1>1. << >> \in Seq(Inputs) /\ Len(<< >>) = 0
  BY EmptySeq
<1>2. 1..0 = {}
  OBVIOUS
<1> QED BY <1>1, <1>2 DEF IsVisitOrder

LEMMA CallInvNext == ASSUME IInv, Next PROVE CallInv'
<1> USE DEF IInv
<1>1. Len(batch) \in Nat /\ Len(visit) = Len(batch) /\ pos \in 0..Len(batch)
  BY LenProperties, VisitOrderLength DEF CallInv
<1>2. ASSUME NEW k \in CallerKeys, CallerGets(k) \/ CallerInserts(k) PROVE CallInv'
  BY <1>2 DEF CallerGets, CallerInserts, callVars, CallInv, InChunk
<1>3. ASSUME NEW c \in Capacities, CallerSetsCapacity(c) PROVE CallInv'
  BY <1>3 DEF CallerSetsCapacity, callVars, CallInv, InChunk
<1>4. ASSUME NEW p \in Policies, WithCache(p) PROVE CallInv'
  BY <1>4 DEF WithCache, CallInv, InChunk
<1>5. ASSUME NEW b \in Batches, BeginBatch(b) PROVE CallInv'
  <2>1. b \in Seq(Inputs) /\ Len(b) \in Nat
    BY VerifierAssumption, LenProperties
  <2>2. IsVisitOrder(visit', Len(b))
    BY <1>5, <2>1, BeginVisitsAll DEF BeginBatch
  <2> QED BY <1>5, <2>1, <2>2 DEF BeginBatch, CallInv, InChunk, Phases
<1>6. CASE SkipChunk \/ ReportLanes \/ LeaveQueued \/ FlushFull
  <2>1. pos < Len(batch) /\ ChunkEnds
    BY <1>1, <1>6
    DEF SkipChunk, ChunkBegins, ReportLanes, LeaveQueued, FlushFull, CallInv, InChunk
  <2>2. pos + Active \in 1..Len(batch)
    BY <2>1, LanesHoldInputs
  <2> QED BY <1>1, <2>1, <2>2 DEF ChunkEnds, callVars, CallInv, InChunk, Phases
<1>7. CASE ParseChunk
  BY <1>1, <1>7 DEF ParseChunk, ChunkBegins, callVars, CallInv, InChunk, Phases
<1>8. CASE Lookup \/ Decode \/ Retain \/ Discard
  BY <1>8 DEF Lookup, Decode, Retain, Discard, NextLane, callVars, CallInv, InChunk, Phases
<1>9. CASE RejectLanes \/ ScoreLanes \/ QueueLanes
  BY <1>9 DEF RejectLanes, ScoreLanes, QueueLanes, Scored, callVars, CallInv, InChunk, Phases
<1>10. CASE FlushRest
  BY <1>1, <1>10 DEF FlushRest, callVars, CallInv, InChunk, Phases
<1>11. CASE Return
  BY <1>11, NoInputs DEF Return, CallInv, InChunk, Phases
<1> QED BY <1>2, <1>3, <1>4, <1>5, <1>6, <1>7, <1>8, <1>9, <1>10, <1>11 DEF Next

-----------------------------------------------------------------------------
(***************************************************************************)
(* ChunkInv is inductive.                                                  *)
(***************************************************************************)
LEMMA NoLocals ==
    /\ NoLane \in [Lanes -> BOOLEAN] /\ \A i \in Lanes : NoLane[i] = FALSE
    /\ NoScratch \in [Lanes -> Points \cup {NoTable}]
    /\ 1 \in Lanes
BY PlanAssumption DEF NoLane, NoScratch, Lanes

\* Outside a chunk its locals say nothing.
LEMMA ChunkInvOutside ==
    ASSUME ChunkInv, phase' \in {"idle", "chunks", "done"}, lane' \in Lanes,
           \/ UNCHANGED chunkVars /\ ~InChunk
           \/ /\ hits' = NoLane /\ valid' = NoLane /\ verdict' = NoLane /\ deferred' = FALSE
              /\ scratch' = NoScratch \/ (scratch' = scratch /\ phase \notin {"score", "retain"})
    PROVE  ChunkInv'
<1>1. /\ hits' = NoLane /\ verdict' = NoLane /\ deferred' = FALSE
      /\ valid' \in [Lanes -> BOOLEAN]
      /\ scratch' = NoScratch
  <2>1. CASE UNCHANGED chunkVars /\ ~InChunk
    <3>1. hits = NoLane /\ verdict = NoLane /\ deferred = FALSE /\ scratch = NoScratch
      BY <2>1 DEF ChunkInv, ScratchInv, ScratchTaken, InChunk
    <3> QED BY <2>1, <3>1 DEF ChunkInv, chunkVars
  <2>2. CASE ~(UNCHANGED chunkVars /\ ~InChunk)
    BY <2>2, NoLocals DEF ChunkInv, ScratchInv, ScratchTaken
  <2> QED BY <2>1, <2>2
<1>2. ~InChunk' /\ phase' \notin {"lookup", "decode", "score", "retain", "emit"}
  BY DEF InChunk
<1>3. ScratchInv'
  BY <1>1, <1>2, NoLocals DEF ScratchInv, ScratchTaken
<1> QED BY <1>1, <1>2, <1>3, NoLocals DEF ChunkInv

\* A step of a chunk that leaves the empty scratch alone, not into its scoring
LEMMA ScratchStays ==
    ASSUME ChunkInv, scratch' = scratch, phase \notin {"score", "retain"},
           phase' \notin {"score", "retain"}
    PROVE  ScratchInv'
BY DEF ChunkInv, ScratchInv, ScratchTaken

LEMMA ParseHolds == ASSUME IInv, ParseChunk PROVE ChunkInv'
<1>1. /\ phase = "chunks" /\ phase' = "lookup" /\ lane' = 1
      /\ batch' = batch /\ visit' = visit /\ pos' = pos
      /\ valid' = [i \in Lanes |-> IsCanonical(LaneInput(i).s)]
      /\ hits' = hits /\ scratch' = scratch /\ verdict' = verdict /\ deferred' = deferred
  BY DEF ParseChunk, ChunkBegins, callVars
<1>2. hits = NoLane /\ verdict = NoLane /\ ~deferred
  BY <1>1 DEF IInv, ChunkInv, InChunk
<1>3. \A i \in Lanes : valid'[i] = IsCanonical(LaneInput(i)'.s)
  BY <1>1, LanesStay
<1>4. valid' \in [Lanes -> BOOLEAN]
  BY <1>1 DEF IsCanonical
<1>5. ScratchInv'
  BY <1>1, ScratchStays DEF IInv
<1> QED BY <1>1, <1>2, <1>3, <1>4, <1>5, NoLocals DEF IInv, ChunkInv

\* A key that is found is retained and decodes; no later lookup evicts it.
LEMMA LookupHolds == ASSUME IInv, Lookup PROVE ChunkInv'
<1> USE DEF IInv
<1>1. /\ phase = "lookup" /\ batch' = batch /\ visit' = visit /\ pos' = pos
      /\ hits' = [hits EXCEPT ![lane] = LaneKey(lane) \in Residents(recency)]
      /\ recency' = AfterGet(recency, LaneKey(lane)) /\ table' = table /\ bound' = bound
      /\ valid' = valid /\ scratch' = scratch /\ verdict' = verdict /\ deferred' = deferred
  BY DEF Lookup, callVars
<1>2. /\ lane \in Lanes /\ lane' \in Lanes /\ phase' \in {"lookup", "decode"}
      /\ phase' = "decode" => lane' = 1
  BY PlanAssumption DEF Lookup, NextLane, ChunkInv, Lanes
<1>3. Residents(recency') = Residents(recency)
  BY <1>1, LookupKeepsCache
<1>4. hits' \in [Lanes -> BOOLEAN]
  BY <1>1, <1>2 DEF ChunkInv
<1>5. ASSUME NEW i \in Lanes, hits'[i]
      PROVE  LaneKey(i) \in Residents(recency) /\ LaneKey(i).onCurve
  <2>1. LaneKey(i) \in Residents(recency)
    BY <1>1, <1>2, <1>5 DEF ChunkInv
  <2> QED BY <2>1 DEF CacheInv, CacheTruthful
<1>6. ASSUME NEW i \in Lanes
      PROVE  /\ valid'[i] = IsCanonical(LaneInput(i)'.s)
             /\ hits'[i] => LaneKey(i)'.onCurve /\ LaneKey(i)' \in Residents(recency)'
  <2>1. /\ LaneInput(i)' = LaneInput(i) /\ LaneKey(i)' = LaneKey(i)
        /\ Residents(recency)' = Residents(recency)
    BY <1>1, <1>3, LanesStay DEF Residents
  <2>2. valid[i] = IsCanonical(LaneInput(i).s)
    BY <1>1 DEF ChunkInv, InChunk
  <2> QED BY <1>1, <1>5, <2>1, <2>2
<1>7. verdict = NoLane /\ ~deferred
  BY <1>1 DEF ChunkInv
<1>8. ScratchInv'
  BY <1>1, <1>2, ScratchStays
<1> QED BY <1>1, <1>2, <1>4, <1>6, <1>7, <1>8 DEF ChunkInv, InChunk

\* A decode fills the slots of all lanes, each with the table of its own key.
LEMMA DecodeHolds == ASSUME IInv, Decode PROVE ChunkInv'
<1> USE DEF IInv
<1>1. /\ phase = "decode" /\ phase' = "score" /\ policy' = policy
      /\ batch' = batch /\ visit' = visit /\ pos' = pos /\ recency' = recency
      /\ lane' = lane /\ hits' = hits /\ valid' = valid
      /\ verdict' = verdict /\ deferred' = deferred
      /\ scratch' = IF Decodes THEN [i \in Lanes |-> LaneKey(i).point] ELSE scratch
  BY DEF Decode, callVars, cacheVars
<1>2. pos < Len(batch) /\ verdict = NoLane /\ ~deferred /\ scratch = NoScratch
  BY <1>1 DEF CallInv, ChunkInv, ScratchInv, ScratchTaken, InChunk
<1>3. ASSUME NEW i \in Lanes
      PROVE  /\ LaneInput(i)' = LaneInput(i) /\ LaneKey(i)' = LaneKey(i)
             /\ LaneKey(i).point \in Points
  BY <1>1, <1>2, LanesStay, LanesHoldInputs, InputFields DEF LaneKey
<1>4. Decodes' <=> Decodes
  BY <1>1 DEF Decodes, Misses
<1>5. ScratchInv'
  <2>1. CASE Decodes
    BY <1>1, <1>3, <1>4, <2>1 DEF ScratchInv, ScratchTaken
  <2>2. CASE ~Decodes
    BY <1>1, <1>2, <1>4, <2>2, NoLocals DEF ScratchInv, ScratchTaken
  <2> QED BY <2>1, <2>2
<1>6. ASSUME NEW i \in Lanes
      PROVE  /\ valid'[i] = IsCanonical(LaneInput(i)'.s)
             /\ hits'[i] => LaneKey(i)'.onCurve /\ LaneKey(i)' \in Residents(recency)'
  <2>1. /\ valid[i] = IsCanonical(LaneInput(i).s)
        /\ hits[i] => LaneKey(i).onCurve /\ LaneKey(i) \in Residents(recency)
    BY <1>1 DEF ChunkInv, InChunk
  <2>2. Residents(recency)' = Residents(recency)
    BY <1>1 DEF Residents
  <2> QED BY <1>1, <1>3, <2>1, <2>2
<1> QED BY <1>1, <1>2, <1>5, <1>6 DEF ChunkInv, InChunk

\* A chunk has its verdicts when it is scored: those of its inputs.
LEMMA ScoreHolds == ASSUME IInv, RejectLanes \/ ScoreLanes \/ QueueLanes PROVE ChunkInv'
<1> USE DEF IInv
<1>1. /\ phase = "score" /\ policy' = policy
      /\ batch' = batch /\ visit' = visit /\ pos' = pos
      /\ lane' = lane /\ hits' = hits /\ valid' = valid
      /\ phase' = (IF Decodes THEN "retain" ELSE "emit") /\ scratch' = scratch
  BY DEF RejectLanes, ScoreLanes, QueueLanes, Scored, callVars
<1>2. /\ pos < Len(batch) /\ verdict = NoLane /\ ~deferred
      /\ hits \in [Lanes -> BOOLEAN] /\ valid \in [Lanes -> BOOLEAN] /\ lane = 1 /\ lane \in Lanes
  BY <1>1, NoLocals DEF CallInv, ChunkInv, InChunk
<1>3. /\ deferred' \in BOOLEAN
      /\ deferred' => phase' = "emit"
      /\ ~deferred' => RejectLanes \/ ScoreLanes
  <2>1. CASE RejectLanes \/ ScoreLanes
    <3>1. deferred' = deferred
      BY <2>1 DEF RejectLanes, ScoreLanes
    <3>2. deferred' = FALSE
      BY <1>2, <3>1 DEF ChunkInv
    <3> QED BY <2>1, <3>2
  <2>2. CASE QueueLanes
    BY <1>1, <2>2 DEF QueueLanes
  <2> QED BY <2>1, <2>2
<1>4. ASSUME NEW i \in Lanes
      PROVE  /\ LaneInput(i)' = LaneInput(i) /\ LaneKey(i)' = LaneKey(i)
             /\ LaneInput(i) \in Inputs /\ LaneKey(i).point \in Points
             /\ Verdict(policy, LaneInput(i)) \in BOOLEAN
  BY <1>1, <1>2, LanesStay, LanesHoldInputs, InputFields, Booleans DEF LaneKey
<1>5. ASSUME NEW i \in Lanes, RejectLanes
      PROVE  verdict'[i] = Verdict(policy, LaneInput(i))
  <2>1. ~Eligible(policy, LaneInput(i))
    BY <1>1, <1>5, LanesScoreTheirInputs DEF RejectLanes
  <2> QED BY <1>2, <1>4, <1>5, <2>1, IneligibleFails, NoLocals DEF RejectLanes
<1>6. ASSUME NEW i \in Lanes, ScoreLanes
      PROVE  verdict'[i] = Verdict(policy, LaneInput(i))
  <2>1. verdict'[i] = Score(policy, Ladder(i), LaneR(i), i \in Survivors)
    BY <1>6 DEF ScoreLanes
  <2>2. /\ Ladder(i) = LadderEnd(LaneInput(i)) /\ LaneR(i) = LaneInput(i).r
        /\ (i \in Survivors) = Eligible(policy, LaneInput(i))
    BY <1>1, <1>4, LanesScoreTheirInputs, Booleans DEF LaneR
  <2> QED BY <1>4, <2>1, <2>2, ScoreIsVerdict DEF CallInv
<1>7. verdict' \in [Lanes -> BOOLEAN]
  <2>1. CASE ScoreLanes
    <3>1. verdict' = [i \in Lanes |-> Score(policy, Ladder(i), LaneR(i), i \in Survivors)]
      BY <2>1 DEF ScoreLanes
    <3> QED BY <1>4, <1>6, <2>1, <3>1
  <2>2. CASE ~ScoreLanes
    BY <1>2, <2>2, NoLocals DEF RejectLanes, QueueLanes
  <2> QED BY <2>1, <2>2
<1>8. ScratchInv'
  <2>1. CASE Decodes
    <3>1. \A i \in Lanes : ~(i < lane') /\ scratch'[i] = LaneKey(i)'.point
      BY <1>1, <1>2, <1>4, <2>1, PlanAssumption DEF ChunkInv, ScratchInv, Lanes
    <3> QED BY <1>1, <2>1, <3>1 DEF ChunkInv, ScratchInv, ScratchTaken
  <2>2. CASE ~Decodes
    BY <1>1, <2>2 DEF ChunkInv, ScratchInv, ScratchTaken
  <2> QED BY <2>1, <2>2
<1>9. ASSUME NEW i \in Lanes
      PROVE  /\ valid'[i] = IsCanonical(LaneInput(i)'.s)
             /\ hits'[i] => LaneKey(i)'.onCurve
             /\ ~deferred' => verdict'[i] = Verdict(policy', LaneInput(i)')
  <2>1. valid[i] = IsCanonical(LaneInput(i).s) /\ (hits[i] => LaneKey(i).onCurve)
    BY <1>1 DEF ChunkInv, InChunk
  <2>2. ~deferred' => verdict'[i] = Verdict(policy, LaneInput(i))
    BY <1>3, <1>5, <1>6
  <2> QED BY <1>1, <1>4, <2>1, <2>2
<1> QED BY <1>1, <1>2, <1>3, <1>7, <1>8, <1>9 DEF ChunkInv, InChunk

\* The lanes still to be retained keep their tables.
LEMMA RetainHolds == ASSUME IInv, Retain \/ Discard PROVE ChunkInv'
<1> USE DEF IInv
<1>1. /\ phase = "retain" /\ policy' = policy
      /\ batch' = batch /\ visit' = visit /\ pos' = pos
      /\ hits' = hits /\ valid' = valid /\ verdict' = verdict /\ deferred' = deferred
      /\ scratch' = [scratch EXCEPT ![lane] = NoTable]
      /\ NextLane("retain", "emit")
  BY DEF Retain, Discard, callVars
<1>2. /\ lane \in Lanes /\ lane' \in Lanes /\ phase' \in {"retain", "emit"}
      /\ phase' = "retain" => lane' = lane + 1
      /\ phase' = "emit" => lane = LANES
  BY <1>1, PlanAssumption DEF NextLane, ChunkInv, Lanes
<1>3. scratch' \in [Lanes -> Points \cup {NoTable}]
  BY <1>1, <1>2 DEF ChunkInv, ScratchInv
<1>4. ASSUME NEW i \in Lanes
      PROVE  /\ LaneInput(i)' = LaneInput(i) /\ LaneKey(i)' = LaneKey(i)
             /\ valid[i] = IsCanonical(LaneInput(i).s)
             /\ hits[i] => LaneKey(i).onCurve
             /\ ~deferred => verdict[i] = Verdict(policy, LaneInput(i))
  BY <1>1, LanesStay DEF ChunkInv, InChunk
<1>5. ScratchInv'
  <2>1. ASSUME NEW i \in Lanes
        PROVE  scratch'[i] = IF i < lane \/ i = lane THEN NoTable ELSE LaneKey(i).point
    BY <1>1, <2>1 DEF ChunkInv, ScratchInv
  <2>2. \A i \in Lanes : /\ i < lane + 1 <=> i < lane \/ i = lane
                         /\ lane = LANES => i < lane \/ i = lane
    BY <1>2, PlanAssumption DEF Lanes
  <2>3. CASE phase' = "retain"
    BY <1>2, <1>3, <1>4, <2>1, <2>2, <2>3 DEF ScratchInv, ScratchTaken
  <2>4. CASE phase' = "emit"
    <3>1. \A i \in Lanes : scratch'[i] = NoTable
      BY <1>2, <2>1, <2>2, <2>4
    <3>2. scratch' = NoScratch
      BY <1>3, <3>1 DEF NoScratch
    <3> QED BY <1>3, <2>4, <3>2 DEF ScratchInv, ScratchTaken
  <2> QED BY <1>2, <2>3, <2>4
<1>6. ~deferred
  BY <1>1 DEF ChunkInv
<1> QED BY <1>1, <1>2, <1>3, <1>4, <1>5, <1>6 DEF ChunkInv, InChunk

LEMMA ChunkInvNext == ASSUME IInv, Next PROVE ChunkInv'
<1> USE DEF IInv
<1>1. lane \in Lanes /\ 1 \in Lanes
  BY NoLocals DEF ChunkInv
<1>2. ASSUME NEW k \in CallerKeys, CallerGets(k) \/ CallerInserts(k) PROVE ChunkInv'
  BY <1>1, <1>2, ChunkInvOutside DEF CallerGets, CallerInserts, InChunk
<1>3. ASSUME NEW c \in Capacities, CallerSetsCapacity(c) PROVE ChunkInv'
  BY <1>1, <1>3, ChunkInvOutside DEF CallerSetsCapacity, InChunk
<1>4. ASSUME NEW p \in Policies, WithCache(p) PROVE ChunkInv'
  BY <1>1, <1>4, ChunkInvOutside DEF WithCache
<1>5. ASSUME NEW b \in Batches, BeginBatch(b) PROVE ChunkInv'
  BY <1>1, <1>5, ChunkInvOutside DEF BeginBatch, InChunk
<1>6. CASE SkipChunk \/ ReportLanes \/ LeaveQueued \/ FlushFull
  BY <1>1, <1>6, ChunkInvOutside
  DEF SkipChunk, ChunkBegins, ReportLanes, LeaveQueued, FlushFull, ChunkEnds
<1>7. CASE FlushRest \/ Return
  BY <1>1, <1>7, ChunkInvOutside DEF FlushRest, Return, InChunk
<1> QED BY <1>2, <1>3, <1>4, <1>5, <1>6, <1>7, ParseHolds, LookupHolds, DecodeHolds, ScoreHolds,
        RetainHolds
        DEF Next

-----------------------------------------------------------------------------
(***************************************************************************)
(* QueueInv is inductive.                                                  *)
(***************************************************************************)
LEMMA RoomIsPositive == Room \in Nat \ {0} /\ Room' \in Nat \ {0}
BY VerifierAssumption DEF Room

\* What is not queued depends on no policy and no batch.
LEMMA EmptyQueueHolds ==
    ASSUME candidates' = << >>, rBytes' = << >>, pending' = << >>
    PROVE  QueueInv' /\ Reporting' = {}
<1>1. /\ candidates' \in Seq([Lanes -> Points]) /\ rBytes' \in Seq([Lanes -> Encodings])
      /\ pending' \in Seq(PendingChunks)
      /\ Len(candidates') = 0 /\ Len(rBytes') = 0 /\ Len(pending') = 0
  BY EmptySeq
<1>2. DOMAIN pending' = {}
  BY <1>1, LenProperties
<1>3. Reporting' = {}
  BY <1>2 DEF Reporting
<1>4. 0 <= Room' /\ 0 < Room'
  BY RoomIsPositive
<1> QED BY <1>1, <1>3, <1>4 DEF QueueInv

LEMMA EmptyQueueStays ==
    ASSUME QueueInv, pending = << >>, UNCHANGED queueVars
    PROVE  QueueInv' /\ Reporting' = {}
<1>1. Len(pending) = 0
  BY EmptySeq
<1>2. candidates = << >> /\ rBytes = << >>
  BY <1>1, EmptySeq DEF QueueInv
<1> QED BY <1>2, EmptyQueueHolds DEF queueVars

LEMMA QueueStays ==
    ASSUME UNCHANGED queueVars, policy' = policy, batch' = batch
    PROVE  /\ Reporting' = Reporting
           /\ \A cl : InputOf(cl)' = InputOf(cl) /\ FlushOf(cl)' = FlushOf(cl)
           /\ Room' = Room
BY DEF queueVars, Reporting, InputOf, FlushOf, Room

LEMMA QueueKept ==
    ASSUME QueueInv, UNCHANGED queueVars, policy' = policy, batch' = batch,
           deferred' = deferred \/ Len(pending) < Room,
           phase' \in {"idle", "done"} => pending = << >>
    PROVE  QueueInv'
<1>1. /\ Reporting' = Reporting /\ Room' = Room
      /\ \A cl : InputOf(cl)' = InputOf(cl) /\ FlushOf(cl)' = FlushOf(cl)
  BY QueueStays
<1>2. \A cl \in Reporting : /\ InputOf(cl)' \in 1..Len(batch')
                            /\ FlushOf(cl)' = Verdict(policy', batch'[InputOf(cl)'])
  BY <1>1 DEF QueueInv
<1>3. \A cl, dm \in Reporting : InputOf(cl)' = InputOf(dm)' => cl = dm
  BY <1>1 DEF QueueInv
<1>4. ~deferred' => Len(pending) < Room
  BY DEF QueueInv
<1> QED BY <1>1, <1>2, <1>3, <1>4 DEF QueueInv, queueVars

\* A chunk that is queued adds its active lanes to those that will report, each
\* to be flushed into the verdict of its input; the others stay as they are.
LEMMA QueuedLanes ==
    ASSUME IInv, QueueLanes
    PROVE  /\ \A cl \in Reporting' :
                 \/ /\ cl \in Reporting
                    /\ InputOf(cl)' = InputOf(cl) /\ FlushOf(cl)' = FlushOf(cl)
                 \/ \E l \in 1..Active :
                       /\ cl = <<Len(pending) + 1, l>>
                       /\ InputOf(cl)' = Indices[l]
                       /\ FlushOf(cl)' = Verdict(policy, LaneInput(l))
           /\ \A cl \in Reporting : cl \in Reporting' /\ InputOf(cl)' = InputOf(cl)
           /\ \A l \in 1..Active : \E cl \in Reporting' : InputOf(cl)' = Indices[l]
           /\ candidates' \in Seq([Lanes -> Points]) /\ Len(candidates') = Len(pending) + 1
           /\ rBytes' \in Seq([Lanes -> Encodings]) /\ Len(rBytes') = Len(pending) + 1
           /\ pending' \in Seq(PendingChunks) /\ Len(pending') = Len(pending) + 1
<1> USE DEF IInv
<1> DEFINE ladders == [i \in Lanes |-> Ladder(i)]
           rs == [i \in Lanes |-> LaneR(i)]
           new == [valid |-> [i \in Lanes |-> i \in Survivors],
                   indices |-> Indices, active |-> Active]
<1>0. PICK m \in Nat : m = Len(pending)
  BY LenProperties DEF QueueInv
<1>1. /\ phase = "score" /\ policy' = policy
      /\ candidates' = Append(candidates, ladders)
      /\ rBytes' = Append(rBytes, rs)
      /\ pending' = Append(pending, new)
  BY DEF QueueLanes, Scored, callVars
<1>2. pos < Len(batch)
  BY <1>1 DEF CallInv, InChunk
<1>3. /\ Active \in Lanes /\ Active \in Nat /\ Indices \in [Lanes -> Nat]
      /\ \A i \in Lanes : LaneInput(i) \in Inputs /\ LaneR(i) \in Encodings
  BY <1>2, LanesHoldInputs
<1>4. \A i \in Lanes : /\ Ladder(i) = LadderEnd(LaneInput(i))
                       /\ i \in Survivors <=> Eligible(policy, LaneInput(i))
  BY <1>1, LanesScoreTheirInputs
<1>5. ladders \in [Lanes -> Points] /\ rs \in [Lanes -> Encodings] /\ new \in PendingChunks
  <2>1. \A i \in Lanes : Ladder(i) \in Points
    BY <1>3, <1>4, LadderEndIsPoint
  <2>2. [i \in Lanes |-> i \in Survivors] \in [Lanes -> BOOLEAN]
    OBVIOUS
  <2>3. new \in PendingChunks
    BY <1>3, <2>2, Zenon DEF PendingChunks
  <2> QED BY <1>3, <2>1, <2>3, Zenon
<1> HIDE DEF ladders, rs, new
<1>6. /\ m \in Nat /\ DOMAIN pending = 1..m
      /\ Len(candidates) = m /\ Len(rBytes) = m
      /\ candidates \in Seq([Lanes -> Points]) /\ rBytes \in Seq([Lanes -> Encodings])
      /\ pending \in Seq(PendingChunks)
  BY <1>0, LenProperties DEF QueueInv
<1>7. /\ candidates' \in Seq([Lanes -> Points]) /\ Len(candidates') = m + 1
      /\ \A c \in 1..m : candidates'[c] = candidates[c]
      /\ candidates'[m + 1] = ladders
  BY <1>1, <1>5, <1>6, AppendProperties
<1>8. /\ rBytes' \in Seq([Lanes -> Encodings]) /\ Len(rBytes') = m + 1
      /\ \A c \in 1..m : rBytes'[c] = rBytes[c]
      /\ rBytes'[m + 1] = rs
  BY <1>1, <1>5, <1>6, AppendProperties
<1>9. /\ pending' \in Seq(PendingChunks) /\ Len(pending') = m + 1
      /\ \A c \in 1..m : pending'[c] = pending[c]
      /\ pending'[m + 1] = new
  BY <1>1, <1>5, <1>6, AppendProperties
<1>10. DOMAIN pending' = 1..(m + 1)
  BY <1>9, LenProperties
<1>11. \A cl : cl[1] \in 1..m => InputOf(cl)' = InputOf(cl) /\ FlushOf(cl)' = FlushOf(cl)
  BY <1>1, <1>7, <1>8, <1>9 DEF InputOf, FlushOf
<1>12. ASSUME NEW l \in Lanes
       PROVE  /\ InputOf(<<m + 1, l>>)' = Indices[l]
              /\ FlushOf(<<m + 1, l>>)' = Verdict(policy, LaneInput(l))
  <2> DEFINE cl == <<m + 1, l>>
  <2>0. cl[1] = m + 1 /\ cl[2] = l
    OBVIOUS
  <2> HIDE DEF cl
  <2>1. InputOf(cl)' = Indices[l]
    BY <1>9, <2>0 DEF InputOf, new
  <2>2. FlushOf(cl)' = Flush(policy', ladders[l], rs[l], new.valid[l])
    BY <1>7, <1>8, <1>9, <2>0 DEF FlushOf
  <2>3. /\ ladders[l] = LadderEnd(LaneInput(l)) /\ rs[l] = LaneInput(l).r
        /\ new.valid[l] = (l \in Survivors)
    BY <1>4 DEF ladders, rs, new, LaneR
  <2>4. (l \in Survivors) = Eligible(policy, LaneInput(l))
    BY <1>3, <1>4, Booleans
  <2>5. FlushOf(cl)' = Verdict(policy, LaneInput(l))
    BY <1>1, <1>3, <2>2, <2>3, <2>4, FlushIsVerdict DEF CallInv
  <2> QED BY <2>1, <2>5 DEF cl
<1>13. ASSUME NEW cl \in Reporting PROVE cl \in Reporting' /\ cl[1] \in 1..m
  BY <1>6, <1>9, <1>10 DEF Reporting
<1>14. ASSUME NEW l \in 1..Active PROVE l \in Lanes /\ <<m + 1, l>> \in Reporting'
  <2>1. l \in Lanes
    BY <1>3, PlanAssumption DEF Lanes
  <2>2. m + 1 \in DOMAIN pending' /\ l <= pending'[m + 1].active
    BY <1>6, <1>9, <1>10 DEF new
  <2> QED BY <2>1, <2>2 DEF Reporting
<1>15. ASSUME NEW cl \in Reporting', cl \notin Reporting
       PROVE  \E l \in 1..Active : cl = <<m + 1, l>>
  <2>1. /\ cl[1] \in 1..(m + 1) /\ cl[2] \in Lanes /\ cl = <<cl[1], cl[2]>>
        /\ cl[2] <= pending'[cl[1]].active
    BY <1>10 DEF Reporting
  <2>2. cl[1] \notin 1..m
    <3>1. SUFFICES ASSUME cl[1] \in 1..m PROVE cl \in Reporting
      BY <1>15
    <3>2. cl[2] <= pending[cl[1]].active
      BY <1>9, <2>1, <3>1
    <3> QED BY <1>6, <2>1, <3>1, <3>2 DEF Reporting
  <2>3. cl[1] = m + 1
    BY <1>6, <2>1, <2>2
  <2>4. cl[2] \in 1..Active
    BY <1>3, <1>9, <2>1, <2>3, PlanAssumption DEF new, Lanes
  <2> QED BY <2>1, <2>3, <2>4
<1>16. \A cl \in Reporting' :
          \/ /\ cl \in Reporting
             /\ InputOf(cl)' = InputOf(cl) /\ FlushOf(cl)' = FlushOf(cl)
          \/ \E l \in 1..Active :
                /\ cl = <<m + 1, l>>
                /\ InputOf(cl)' = Indices[l]
                /\ FlushOf(cl)' = Verdict(policy, LaneInput(l))
  <2> SUFFICES ASSUME NEW cl \in Reporting', cl \notin Reporting
               PROVE  \E l \in 1..Active : /\ cl = <<m + 1, l>>
                                           /\ InputOf(cl)' = Indices[l]
                                           /\ FlushOf(cl)' = Verdict(policy, LaneInput(l))
    BY <1>11, <1>13
  <2>1. PICK l \in 1..Active : cl = <<m + 1, l>>
    BY <1>15
  <2> QED BY <1>12, <1>14, <2>1
<1>17. /\ \A cl \in Reporting : cl \in Reporting' /\ InputOf(cl)' = InputOf(cl)
       /\ \A l \in 1..Active : \E cl \in Reporting' : InputOf(cl)' = Indices[l]
  BY <1>11, <1>12, <1>13, <1>14
<1> QED BY <1>0, <1>7, <1>8, <1>9, <1>16, <1>17

\* The active lanes of the chunk hold inputs that no earlier chunk took.
LEMMA ActiveLanesAreNew ==
    ASSUME CallInv, pos < Len(batch), NEW l \in 1..Active
    PROVE  /\ l \in Lanes /\ Indices[l] \in 1..Len(batch) /\ Indices[l] \notin Taken(visit, pos)
           /\ \A k \in 1..Active : Indices[k] = Indices[l] => k = l
<1>1. /\ Len(batch) \in Nat /\ pos \in 0..(Len(batch) - 1) /\ IsVisitOrder(visit, Len(batch))
      /\ Active \in Lanes /\ l \in Lanes
      /\ \A i \in Lanes : Indices[i] \in 1..Len(batch)
  BY LanesHoldInputs, PlanAssumption DEF CallInv, Lanes
<1>2. Indices[l] \notin Taken(visit, pos)
  BY <1>1, ChunkTakes DEF Indices, Active
<1>3. ASSUME NEW k \in 1..Active, Indices[k] = Indices[l] PROVE k = l
  BY <1>1, <1>3, LanesDiffer DEF Indices, Active
<1> QED BY <1>1, <1>2, <1>3

\* No input is queued twice.
LEMMA QueueLanesHolds == ASSUME IInv, QueueLanes PROVE QueueInv'
<1> USE DEF IInv
<1>1. /\ phase = "score" /\ phase' = "emit" /\ deferred' = TRUE
      /\ policy' = policy /\ batch' = batch
  BY DEF QueueLanes, Scored, callVars
<1>2. pos < Len(batch) /\ ~deferred
  BY <1>1 DEF CallInv, ChunkInv, InChunk
<1>3. ASSUME NEW cl \in Reporting'
      PROVE  /\ InputOf(cl)' \in 1..Len(batch)
             /\ FlushOf(cl)' = Verdict(policy, batch[InputOf(cl)'])
  <2>1. CASE cl \in Reporting /\ InputOf(cl)' = InputOf(cl) /\ FlushOf(cl)' = FlushOf(cl)
    BY <2>1 DEF QueueInv
  <2>2. CASE \E l \in 1..Active : /\ InputOf(cl)' = Indices[l]
                                  /\ FlushOf(cl)' = Verdict(policy, LaneInput(l))
    BY <1>2, <2>2, ActiveLanesAreNew DEF LaneInput
  <2> QED BY <2>1, <2>2, QueuedLanes
<1>4. ASSUME NEW cl \in Reporting PROVE InputOf(cl) \in Taken(visit, pos)
  <2>1. InputOf(cl) \in 1..Len(batch) /\ IsQueued(InputOf(cl))
    BY DEF QueueInv, IsQueued
  <2> QED BY <1>2, <2>1 DEF OutInv, Spoken
<1>5. ASSUME NEW cl \in Reporting', NEW dm \in Reporting', InputOf(cl)' = InputOf(dm)'
      PROVE  cl = dm
  <2> DEFINE Old(x) == x \in Reporting /\ InputOf(x)' = InputOf(x)
             New(x) == \E l \in 1..Active : /\ x = <<Len(pending) + 1, l>>
                                            /\ InputOf(x)' = Indices[l]
  <2>1. (Old(cl) \/ New(cl)) /\ (Old(dm) \/ New(dm))
    BY QueuedLanes
  <2>2. Old(cl) /\ Old(dm) => cl = dm
    BY <1>5 DEF QueueInv
  <2>3. New(cl) /\ New(dm) => cl = dm
    BY <1>2, <1>5, ActiveLanesAreNew
  <2>4. ~(Old(cl) /\ New(dm)) /\ ~(New(cl) /\ Old(dm))
    BY <1>2, <1>4, <1>5, ActiveLanesAreNew
  <2> QED BY <2>1, <2>2, <2>3, <2>4
<1>6. Len(pending) < Room /\ Room' = Room /\ Room \in Nat /\ Len(pending) \in Nat
  BY <1>1, <1>2, RoomIsPositive, LenProperties DEF QueueInv, Room
<1>7. Len(pending) + 1 <= Room
  BY <1>6
<1> QED BY <1>1, <1>3, <1>5, <1>6, <1>7, QueuedLanes DEF QueueInv

LEMMA QueueInvNext == ASSUME IInv, Next PROVE QueueInv'
<1> USE DEF IInv
<1>1. ASSUME NEW k \in CallerKeys, CallerGets(k) \/ CallerInserts(k) PROVE QueueInv'
  BY <1>1, EmptyQueueStays DEF CallerGets, CallerInserts, QueueInv
<1>2. ASSUME NEW c \in Capacities, CallerSetsCapacity(c) PROVE QueueInv'
  BY <1>2, EmptyQueueStays DEF CallerSetsCapacity, QueueInv
<1>3. ASSUME NEW p \in Policies, WithCache(p) PROVE QueueInv'
  BY <1>3, EmptyQueueHolds DEF WithCache, NoQueue
<1>4. ASSUME NEW b \in Batches, BeginBatch(b) PROVE QueueInv'
  BY <1>4, EmptyQueueStays DEF BeginBatch, QueueInv
<1>5. CASE FlushRest \/ FlushFull
  BY <1>5, EmptyQueueHolds DEF FlushRest, FlushFull, NoQueue
<1>6. CASE Return
  BY <1>6, EmptyQueueStays DEF Return, QueueInv
<1>7. CASE SkipChunk \/ ReportLanes
  <2>1. ~deferred
    BY <1>7 DEF SkipChunk, ChunkBegins, ReportLanes, ChunkInv
  <2> QED BY <1>7, <2>1, QueueKept DEF SkipChunk, ReportLanes, ChunkEnds, callVars, QueueInv
<1>8. CASE LeaveQueued
  <2>1. Len(pending) < Room
    <3>1. Len(pending) # Room /\ Len(pending) <= Room
      BY <1>8 DEF LeaveQueued, QueueIsFull, QueueInv, Room
    <3> QED BY <3>1, RoomIsPositive, LenProperties DEF QueueInv
  <2> QED BY <1>8, <2>1, QueueKept DEF LeaveQueued, ChunkEnds, callVars
<1>9. CASE ParseChunk \/ RejectLanes \/ ScoreLanes
  BY <1>9, QueueKept DEF ParseChunk, RejectLanes, ScoreLanes, Scored, callVars
<1>10. CASE Lookup \/ Decode \/ Retain \/ Discard
  BY <1>10, QueueKept DEF Lookup, Decode, Retain, Discard, NextLane, callVars
<1> QED BY <1>1, <1>2, <1>3, <1>4, <1>5, <1>6, <1>7, <1>8, <1>9, <1>10, QueueLanesHolds DEF Next

-----------------------------------------------------------------------------
(***************************************************************************)
(* OutInv is inductive.                                                    *)
(***************************************************************************)
LEMMA QueuedForIs ==
    ASSUME NEW i
    PROVE  /\ QueuedFor(i) = {cl \in Reporting : InputOf(cl) = i}
           /\ QueuedFor(i) # {} <=> IsQueued(i)
BY DEF QueuedFor, IsQueued, Reporting, InputOf

\* A report writes the verdicts of the inputs in the active lanes.
LEMMA ReportedIs ==
    ASSUME IInv, pos < Len(batch), NEW values,
           \A l \in Lanes : values[l] = Verdict(policy, LaneInput(l))
    PROVE  Reported(values) =
              [i \in 1..Len(batch) |-> IF \E l \in 1..Active : Indices[l] = i
                                       THEN Verdict(policy, batch[i])
                                       ELSE out[i]]
<1>1. DOMAIN out = 1..Len(batch)
  BY DEF IInv, OutInv
<1>2. ASSUME NEW i \in 1..Len(batch), \E l \in 1..Active : Indices[l] = i
      PROVE  values[CHOOSE l \in 1..Active : Indices[l] = i] = Verdict(policy, batch[i])
  <2> DEFINE at == CHOOSE l \in 1..Active : Indices[l] = i
  <2>1. at \in 1..Active /\ Indices[at] = i
    BY <1>2
  <2> HIDE DEF at
  <2>2. at \in Lanes
    BY <2>1, ActiveLanesAreNew DEF IInv
  <2>3. values[at] = Verdict(policy, batch[i])
    BY <2>1, <2>2 DEF LaneInput
  <2> QED BY <2>3 DEF at
<1> QED BY <1>1, <1>2 DEF Reported

\* A flush writes the verdicts of the inputs that are queued.
LEMMA FlushedIs ==
    ASSUME IInv
    PROVE  Flushed = [i \in 1..Len(batch) |-> IF IsQueued(i) THEN Verdict(policy, batch[i])
                                              ELSE out[i]]
<1>1. DOMAIN out = 1..Len(batch)
  BY DEF IInv, OutInv
<1>2. ASSUME NEW i \in 1..Len(batch)
      PROVE  (IF QueuedFor(i) = {} THEN out[i]
              ELSE LET at == CHOOSE cl \in QueuedFor(i) : TRUE
                       c  == at[1]
                       l  == at[2]
                   IN  Flush(policy, candidates[c][l], rBytes[c][l], pending[c].valid[l]))
              = IF IsQueued(i) THEN Verdict(policy, batch[i]) ELSE out[i]
  <2> DEFINE at == CHOOSE cl \in QueuedFor(i) : TRUE
  <2>1. CASE QueuedFor(i) = {}
    BY <2>1, QueuedForIs
  <2>2. CASE QueuedFor(i) # {}
    <3>1. at \in QueuedFor(i)
      BY <2>2
    <3> HIDE DEF at
    <3>2. at \in Reporting /\ InputOf(at) = i
      BY <3>1, QueuedForIs
    <3>3. FlushOf(at) = Verdict(policy, batch[i])
      BY <3>2 DEF IInv, QueueInv
    <3>4. IsQueued(i)
      BY <2>2, QueuedForIs
    <3> QED BY <2>2, <3>3, <3>4 DEF at, FlushOf
  <2> QED BY <2>1, <2>2
<1> QED BY <1>1, <1>2 DEF Flushed

LEMMA VerdictIsWritten ==
    ASSUME CallInv, NEW i \in 1..Len(batch)
    PROVE  Verdict(policy, batch[i]) \in BOOLEAN /\ Verdict(policy, batch[i]) # Unwritten
<1>1. batch[i] \in Inputs
  BY ElementOfSeq DEF CallInv
<1> QED BY <1>1, Booleans, VerifierAssumption

\* A call without inputs has nothing to write.
LEMMA NothingToWrite == ASSUME batch' = << >>, out' = << >> PROVE OutInv'
<1>1. Len(batch') = 0 /\ 1..0 = {}
  BY NoInputs
<1> QED BY <1>1 DEF OutInv

LEMMA OutStays ==
    ASSUME OutInv, UNCHANGED <<callVars, queueVars, out>>, Spoken' = Spoken
    PROVE  OutInv'
<1>1. \A i : IsQueued(i)' <=> IsQueued(i)
  BY QueueStays DEF callVars, IsQueued
<1> QED BY <1>1 DEF OutInv, callVars

\* A chunk speaks for the inputs of its active lanes.
LEMMA ChunkSpeaks ==
    ASSUME CallInv, pos < Len(batch), NEW i
    PROVE  /\ i \in Taken(visit, pos + Active)
                <=> i \in Taken(visit, pos) \/ \E l \in 1..Active : Indices[l] = i
           /\ (\E l \in 1..Active : Indices[l] = i) => i \notin Taken(visit, pos)
BY LanesHoldInputs, ChunkTakes DEF CallInv, Indices, Active

LEMMA ReportHolds == ASSUME IInv, SkipChunk \/ ReportLanes PROVE OutInv'
<1> USE DEF IInv
<1> DEFINE held(i) == \E l \in 1..Active : Indices[l] = i
<1>1. /\ pos < Len(batch) /\ deferred = FALSE /\ deferred' = FALSE /\ pos' = pos + Active
      /\ UNCHANGED <<callVars, queueVars>>
  BY VisitOrderLength, LenProperties
  DEF SkipChunk, ChunkBegins, ReportLanes, ChunkEnds, CallInv, ChunkInv, InChunk
<1>2. out' = [i \in 1..Len(batch) |-> IF held(i) THEN Verdict(policy, batch[i]) ELSE out[i]]
  <2>1. CASE SkipChunk
    <3>1. ASSUME NEW l \in Lanes PROVE NoLane[l] = Verdict(policy, LaneInput(l))
      <4>1. LaneInput(l) \in Inputs /\ ~Eligible(policy, LaneInput(l))
        BY <1>1, <2>1, LanesHoldInputs DEF SkipChunk, Eligible
      <4> QED BY <4>1, IneligibleFails, NoLocals
    <3> QED BY <1>1, <2>1, <3>1, ReportedIs DEF SkipChunk
  <2>2. CASE ReportLanes
    <3>1. \A l \in Lanes : verdict[l] = Verdict(policy, LaneInput(l))
      BY <2>2 DEF ReportLanes, ChunkInv
    <3> QED BY <1>1, <2>2, <3>1, ReportedIs DEF ReportLanes
  <2> QED BY <2>1, <2>2
<1>3. Spoken = Taken(visit, pos) /\ Spoken' = Taken(visit, pos + Active)
  BY <1>1 DEF Spoken, callVars, Taken
<1>4. \A i : IsQueued(i)' <=> IsQueued(i)
  BY <1>1, QueueStays DEF callVars, IsQueued
<1>5. ASSUME NEW i \in 1..Len(batch)
      PROVE  /\ IsQueued(i)' => i \in Spoken'
             /\ out'[i] # Unwritten <=> i \in Spoken' /\ ~IsQueued(i)'
             /\ out'[i] # Unwritten => out'[i] = Verdict(policy, batch[i])
             /\ out'[i] \in BOOLEAN \cup {Unwritten}
  <2>1. /\ i \in Spoken' <=> i \in Spoken \/ held(i)
        /\ held(i) => i \notin Spoken
    BY <1>1, <1>3, ChunkSpeaks
  <2>2. /\ IsQueued(i) => i \in Spoken
        /\ out[i] # Unwritten <=> i \in Spoken /\ ~IsQueued(i)
        /\ out[i] # Unwritten => out[i] = Verdict(policy, batch[i])
        /\ out[i] \in BOOLEAN \cup {Unwritten}
    BY DEF OutInv
  <2>3. Verdict(policy, batch[i]) \in BOOLEAN /\ Verdict(policy, batch[i]) # Unwritten
    BY VerdictIsWritten
  <2>4. out'[i] = IF held(i) THEN Verdict(policy, batch[i]) ELSE out[i]
    BY <1>2
  <2> HIDE DEF held
  <2> QED BY <1>4, <2>1, <2>2, <2>3, <2>4
<1>6. out' \in [1..Len(batch) -> BOOLEAN \cup {Unwritten}]
  <2> HIDE DEF held
  <2> QED BY <1>2, <1>5
<1> QED BY <1>1, <1>5, <1>6 DEF OutInv, callVars

LEMMA QueueingHolds == ASSUME IInv, QueueLanes PROVE OutInv'
<1> USE DEF IInv
<1> DEFINE held(i) == \E l \in 1..Active : Indices[l] = i
<1>1. /\ pos < Len(batch) /\ deferred = FALSE /\ deferred' = TRUE
      /\ batch' = batch /\ visit' = visit /\ policy' = policy /\ pos' = pos /\ out' = out
  BY DEF QueueLanes, Scored, callVars, CallInv, ChunkInv, InChunk
<1>2. Spoken = Taken(visit, pos) /\ Spoken' = Taken(visit, pos + Active)
  BY <1>1, LanesStay DEF Spoken, Taken
<1>3. ASSUME NEW i PROVE IsQueued(i)' <=> IsQueued(i) \/ held(i)
  BY QueuedLanes DEF IsQueued
<1>4. ASSUME NEW i \in 1..Len(batch)
      PROVE  /\ IsQueued(i)' => i \in Spoken'
             /\ out[i] # Unwritten <=> i \in Spoken' /\ ~IsQueued(i)'
  <2>1. /\ i \in Spoken' <=> i \in Spoken \/ held(i)
        /\ held(i) => i \notin Spoken
    BY <1>1, <1>2, ChunkSpeaks
  <2>2. /\ IsQueued(i) => i \in Spoken
        /\ out[i] # Unwritten <=> i \in Spoken /\ ~IsQueued(i)
    BY DEF OutInv
  <2> HIDE DEF held
  <2> QED BY <1>3, <2>1, <2>2
<1> QED BY <1>1, <1>4 DEF OutInv

LEMMA FlushHolds == ASSUME IInv, FlushFull \/ FlushRest PROVE OutInv'
<1> USE DEF IInv
<1>1. /\ out' = Flushed /\ UNCHANGED callVars /\ Reporting' = {}
  BY EmptyQueueHolds DEF FlushFull, FlushRest, ChunkEnds, NoQueue
<1>2. Spoken' = Spoken
  <2>1. CASE FlushFull
    BY <2>1 DEF FlushFull, ChunkEnds, callVars, Spoken, Taken
  <2>2. CASE FlushRest
    <3>1. deferred = FALSE /\ deferred' = FALSE /\ pos' = pos /\ visit' = visit
      BY <2>2 DEF FlushRest, chunkVars, callVars, ChunkInv
    <3> QED BY <3>1 DEF Spoken, Taken
  <2> QED BY <2>1, <2>2
<1>3. out' = [i \in 1..Len(batch) |-> IF IsQueued(i) THEN Verdict(policy, batch[i]) ELSE out[i]]
  BY <1>1, FlushedIs
<1>4. ASSUME NEW i \in 1..Len(batch)
      PROVE  /\ ~IsQueued(i)'
             /\ out'[i] # Unwritten <=> i \in Spoken'
             /\ out'[i] # Unwritten => out'[i] = Verdict(policy, batch[i])
             /\ out'[i] \in BOOLEAN \cup {Unwritten}
  <2>1. ~IsQueued(i)'
    BY <1>1 DEF IsQueued
  <2>2. /\ IsQueued(i) => i \in Spoken
        /\ out[i] # Unwritten <=> i \in Spoken /\ ~IsQueued(i)
        /\ out[i] # Unwritten => out[i] = Verdict(policy, batch[i])
        /\ out[i] \in BOOLEAN \cup {Unwritten}
    BY DEF OutInv
  <2>3. Verdict(policy, batch[i]) \in BOOLEAN /\ Verdict(policy, batch[i]) # Unwritten
    BY VerdictIsWritten
  <2> QED BY <1>2, <1>3, <2>1, <2>2, <2>3
<1>5. out' \in [1..Len(batch) -> BOOLEAN \cup {Unwritten}]
  BY <1>3, <1>4
<1> QED BY <1>1, <1>4, <1>5 DEF OutInv, callVars

\* A call begins with nothing taken and nothing written.
LEMMA BeginHolds == ASSUME IInv, NEW b \in Batches, BeginBatch(b) PROVE OutInv'
<1> USE DEF IInv
<1>1. /\ batch' = b /\ out' = [i \in DOMAIN b |-> Unwritten] /\ pos' = 0
      /\ phase = "idle" /\ deferred' = deferred /\ UNCHANGED queueVars
  BY DEF BeginBatch, chunkVars
<1>2. b \in Seq(Inputs) /\ DOMAIN b = 1..Len(b)
  BY VerifierAssumption, LenProperties
<1>3. deferred' = FALSE /\ Reporting' = {}
  BY <1>1, EmptyQueueStays DEF ChunkInv, QueueInv
<1>4. Spoken' = {}
  BY <1>1, <1>3 DEF Spoken, Taken
<1> QED BY <1>1, <1>2, <1>3, <1>4 DEF OutInv, IsQueued

LEMMA OutInvNext == ASSUME IInv, Next PROVE OutInv'
<1> USE DEF IInv
<1>1. phase = "idle" => batch = << >> /\ out = << >>
  BY NoInputs DEF CallInv, OutInv
<1>2. ASSUME NEW k \in CallerKeys, CallerGets(k) \/ CallerInserts(k) PROVE OutInv'
  BY <1>1, <1>2, NothingToWrite DEF CallerGets, CallerInserts, callVars
<1>3. ASSUME NEW c \in Capacities, CallerSetsCapacity(c) PROVE OutInv'
  BY <1>1, <1>3, NothingToWrite DEF CallerSetsCapacity, callVars
<1>4. ASSUME NEW p \in Policies, WithCache(p) PROVE OutInv'
  BY <1>1, <1>4, NothingToWrite DEF WithCache
<1>5. CASE Return
  BY <1>5, NothingToWrite DEF Return
<1>6. CASE ParseChunk \/ Lookup \/ Decode \/ RejectLanes \/ ScoreLanes \/ Retain \/ Discard
  <2>1. UNCHANGED <<callVars, queueVars, out>> /\ pos' = pos /\ deferred' = deferred
    <3>1. CASE ParseChunk \/ Lookup \/ Decode
      BY <3>1 DEF ParseChunk, Lookup, Decode
    <3>2. CASE RejectLanes \/ ScoreLanes
      BY <3>2 DEF RejectLanes, ScoreLanes, Scored
    <3>3. CASE Retain \/ Discard
      BY <3>3 DEF Retain, Discard
    <3> QED BY <1>6, <3>1, <3>2, <3>3
  <2>2. Spoken' = Spoken
    BY <2>1, LanesStay DEF Spoken, callVars, Taken
  <2> QED BY <2>1, <2>2, OutStays
<1>7. CASE LeaveQueued
  <2>1. UNCHANGED <<callVars, queueVars, out>> /\ Spoken' = Spoken
    BY <1>7 DEF LeaveQueued, ChunkEnds, callVars, Spoken, Taken
  <2> QED BY <2>1, OutStays
<1> QED BY <1>2, <1>3, <1>4, <1>5, <1>6, <1>7,
           BeginHolds, ReportHolds, QueueingHolds, FlushHolds DEF Next

-----------------------------------------------------------------------------
(***************************************************************************)
(* IInv is an invariant, and what follows from it.                         *)
(***************************************************************************)
LEMMA InitHolds == Init => IInv
<1> SUFFICES ASSUME Init PROVE IInv
  OBVIOUS
<1>1. CacheInv
  <2>1. recency \in Seq(Encodings) /\ Len(recency) = 0 /\ DOMAIN recency = {}
    BY EmptySeq, LenProperties DEF Init
  <2>2. bound \in Nat \ {0}
    <3>1. PICK c \in Capacities : bound = IF c >= 1 THEN c ELSE 1
      BY DEF Init
    <3> QED BY <3>1, VerifierAssumption
  <2> QED BY <2>1, <2>2 DEF Init, CacheInv, NoDuplicates, Residents, CacheTruthful
<1>2. CallInv
  BY NoInputs DEF Init, CallInv, Phases, InChunk
<1>3. ChunkInv
  BY NoLocals DEF Init, ChunkInv, ScratchInv, ScratchTaken, InChunk
<1>4. QueueInv
  <2>1. /\ candidates \in Seq([Lanes -> Points]) /\ rBytes \in Seq([Lanes -> Encodings])
        /\ pending \in Seq(PendingChunks) /\ DOMAIN pending = {}
        /\ Len(candidates) = 0 /\ Len(rBytes) = 0 /\ Len(pending) = 0
    BY EmptySeq, LenProperties DEF Init
  <2>2. Reporting = {}
    BY <2>1 DEF Reporting
  <2> QED BY <2>1, <2>2, RoomIsPositive DEF QueueInv, Init
<1>5. OutInv
  BY NoInputs DEF Init, OutInv
<1> QED BY <1>1, <1>2, <1>3, <1>4, <1>5 DEF IInv

LEMMA StutterHolds == ASSUME IInv, UNCHANGED vars PROVE IInv'
<1> USE DEF IInv
<1>1. UNCHANGED <<cacheVars, callVars, chunkVars, queueVars, out, pos, lane, phase>>
  BY DEF vars
<1>2. CacheInv'
  BY <1>1, CacheKept
<1>3. CallInv'
  BY <1>1 DEF CallInv, callVars, InChunk
<1>4. ChunkInv'
  <2>1. \A i : LaneInput(i)' = LaneInput(i) /\ LaneKey(i)' = LaneKey(i)
    BY <1>1, LanesStay DEF callVars
  <2>2. Residents(recency)' = Residents(recency)
    BY <1>1 DEF cacheVars, Residents
  <2>3. ScratchInv'
    BY <1>1, <2>1 DEF ChunkInv, ScratchInv, ScratchTaken, Decodes, Misses, chunkVars
  <2> QED BY <1>1, <2>1, <2>2, <2>3 DEF ChunkInv, chunkVars, callVars, InChunk
<1>5. QueueInv'
  BY <1>1, QueueKept DEF chunkVars, callVars, QueueInv
<1>6. OutInv'
  <2>1. Spoken' = Spoken
    BY <1>1, LanesStay DEF Spoken, chunkVars, callVars, Taken
  <2> QED BY <1>1, <2>1, OutStays
<1> QED BY <1>2, <1>3, <1>4, <1>5, <1>6

LEMMA NextHolds == ASSUME IInv, [Next]_vars PROVE IInv'
<1>1. CASE Next
  BY <1>1, CacheInvNext, CallInvNext, ChunkInvNext, QueueInvNext, OutInvNext DEF IInv
<1>2. CASE UNCHANGED vars
  BY <1>2, StutterHolds
<1> QED BY <1>1, <1>2

LEMMA Inductive == Spec => []IInv
BY InitHolds, NextHolds, PTL DEF Spec

\* For every batch, key and bound, and whatever the caller does between batches:
\* a retained key decodes, and its table is the one of its own point.
THEOREM CacheIsTruthful == Spec => []CacheTruthful
<1>1. IInv => CacheTruthful
  BY DEF IInv, CacheInv
<1> QED BY <1>1, Inductive, PTL

\* For every size of the queues and every number of lanes: a queue never
\* outgrows its flush, its parts keep one length, a lane that missed and decoded
\* finds its table in the scratch, and the retention finds every slot full.
THEOREM NeverPanics == Spec => []NothingPanics
<1>1. IInv => NothingPanics
  <2> SUFFICES ASSUME IInv PROVE NothingPanics
    OBVIOUS
  <2>1. /\ Len(candidates) <= IF policy = "Dalek" THEN DALEK_BATCH ELSE ZIP215_BATCH
        /\ Len(candidates) = Len(rBytes) /\ Len(candidates) = Len(pending)
    BY DEF IInv, QueueInv, Room
  <2>2. ASSUME InChunk, NEW i \in Lanes, scratch[i] = LaneKey(i).point
        PROVE  scratch[i] # NoTable
    <3>1. LaneKey(i).point \in Points
      BY <2>2, LanesHoldInputs, InputFields DEF IInv, CallInv, LaneKey
    <3> QED BY <2>2, <3>1, VerifierAssumption
  <2>3. ASSUME phase = "score", NEW i \in Misses PROVE scratch[i] # NoTable
    <3>1. i \in Lanes /\ scratch[i] = LaneKey(i).point
      BY <2>3 DEF IInv, ChunkInv, ScratchInv, Decodes, Misses
    <3> QED BY <2>2, <2>3, <3>1 DEF InChunk
  <2>4. ASSUME phase = "retain", NEW i \in lane..LANES PROVE scratch[i] # NoTable
    <3>1. i \in Lanes /\ ~(i < lane)
      BY <2>4, PlanAssumption DEF IInv, ChunkInv, Lanes
    <3>2. scratch[i] = LaneKey(i).point
      BY <2>4, <3>1 DEF IInv, ChunkInv, ScratchInv
    <3> QED BY <2>2, <2>4, <3>1, <3>2 DEF InChunk
  <2> QED BY <2>1, <2>3, <2>4 DEF NothingPanics
<1> QED BY <1>1, Inductive, PTL

\* For every number of lanes and every history of the cache: whichever lanes of
\* a chunk hit, missed or failed to decode, it leaves no table in the scratch.
THEOREM ScratchIsTaken == Spec => []ScratchTaken
<1>1. IInv => ScratchTaken
  BY DEF IInv, ChunkInv, ScratchInv
<1> QED BY <1>1, Inductive, PTL

\* The inputs not visited are those that no chunk took.
LEMMA UnvisitedIs ==
    ASSUME CallInv, NEW i \in 1..Len(batch)
    PROVE  i \in Unvisited <=> i \notin Taken(visit, pos)
<1>1. /\ Len(batch) \in Nat /\ Len(visit) = Len(batch) /\ pos \in 0..Len(batch)
      /\ IsVisitOrder(visit, Len(batch))
  BY LenProperties, VisitOrderLength DEF CallInv
<1>2. PICK p \in 1..Len(batch) : visit[p] = i
  BY <1>1 DEF IsVisitOrder
<1>3. \A q \in 1..Len(batch) : visit[q] = i => q = p
  BY <1>1, <1>2 DEF IsVisitOrder
<1>4. i \in Unvisited <=> p \in (pos + 1)..Len(visit)
  <2>1. \A q \in (pos + 1)..Len(visit) : q \in 1..Len(batch)
    BY <1>1
  <2> QED BY <1>2, <1>3, <2>1 DEF Unvisited
<1>5. i \in Taken(visit, pos) <=> p \in 1..pos
  <2>1. \A q \in 1..pos : q \in 1..Len(batch)
    BY <1>1
  <2> QED BY <1>2, <1>3, <2>1 DEF Taken
<1> QED BY <1>1, <1>4, <1>5

\* For every batch, order of visit, number of lanes and size of the queues: an
\* input waits to be visited, or in one lane of one queued chunk, or is answered.
THEOREM EachInputAccounted == Spec => []EveryInputAccounted
<1>1. IInv => EveryInputAccounted
  <2> SUFFICES ASSUME IInv PROVE EveryInputAccounted
    OBVIOUS
  <2>1. DOMAIN batch = 1..Len(batch)
    BY LenProperties DEF IInv, CallInv
  <2>2. ASSUME phase = "chunks", NEW i \in DOMAIN batch
        PROVE  \/ i \in Unvisited     /\ i \notin QueuedInputs /\ i \notin WrittenInputs
               \/ i \notin Unvisited  /\ i \in QueuedInputs    /\ i \notin WrittenInputs
               \/ i \notin Unvisited  /\ i \notin QueuedInputs /\ i \in WrittenInputs
    <3>1. Spoken = Taken(visit, pos)
      BY <2>2 DEF IInv, ChunkInv, Spoken
    <3>2. i \in Unvisited <=> i \notin Spoken
      BY <2>1, <2>2, <3>1, UnvisitedIs DEF IInv
    <3>3. i \in QueuedInputs <=> IsQueued(i)
      BY <2>2, QueuedForIs DEF QueuedInputs
    <3>4. i \in WrittenInputs <=> out[i] # Unwritten
      BY <2>2 DEF WrittenInputs
    <3>5. /\ IsQueued(i) => i \in Spoken
          /\ out[i] # Unwritten <=> i \in Spoken /\ ~IsQueued(i)
      BY <2>1, <2>2 DEF IInv, OutInv
    <3> QED BY <3>2, <3>3, <3>4, <3>5
  <2>3. ASSUME NEW i \in DOMAIN batch PROVE Cardinality(QueuedFor(i)) <= 1
    <3>1. CASE QueuedFor(i) = {}
      <4>1. Cardinality(QueuedFor(i)) = 0
        BY <3>1, FS_EmptySet
      <4> QED BY <4>1
    <3>2. CASE QueuedFor(i) # {}
      <4>1. PICK cl \in QueuedFor(i) : TRUE
        BY <3>2
      <4>2. QueuedFor(i) = {cl}
        BY <4>1, QueuedForIs DEF IInv, QueueInv
      <4>3. Cardinality(QueuedFor(i)) = 1
        BY <4>2, FS_Singleton
      <4> QED BY <4>3
    <3> QED BY <3>1, <3>2
  <2>4. phase \in {"idle", "done"} => pending = << >>
    BY DEF IInv, QueueInv
  <2> QED BY <2>2, <2>3, <2>4 DEF EveryInputAccounted
<1> QED BY <1>1, Inductive, PTL

-----------------------------------------------------------------------------
(***************************************************************************)
(* The refinement of BatchVerification                                     *)
(***************************************************************************)
\* The equation the abstract verifier states for its policy is the verdict.
LEMMA AcceptsIsVerdict == \A i : Abstract!Accepts(i) = Verdict(policy, i)
<1> SUFFICES ASSUME NEW i PROVE Abstract!Accepts(i) = Verdict(policy, i)
  OBVIOUS
<1>1. Abstract!Accepts(i) <=> Verdict(policy, i)
  BY DEF Abstract!Accepts, Abstract!DalekAccepts, Abstract!Zip215Accepts, Verdict, IsCanonical,
         Abstract!IsSmallOrder, Abstract!EqualUpToTorsion, Abstract!Combination,
         Abstract!Compressed, Abstract!Minus, Abstract!Multiple, Abstract!XIsOdd,
         Abstract!Identity, Abstract!Base, Abstract!Order,
         IsSmallOrder, EqualUpToTorsion, Combination,
         Compressed, Minus, Multiple, XIsOdd, Identity, Base, Order
<1>2. Abstract!Accepts(i) \in BOOLEAN /\ Verdict(policy, i) \in BOOLEAN
  BY DEF Abstract!Accepts, Abstract!DalekAccepts, Abstract!Zip215Accepts, Verdict
<1> QED BY <1>1, <1>2

\* A step that writes verdicts where none were is a step of the abstract verifier.
LEMMA WriteRefines ==
    ASSUME CallInv, phase \notin {"idle", "done"}, policy' = policy, batch' = batch,
           NEW D, \A i \in 1..Len(batch) : i \in D => out[i] = Unwritten,
           out' = [i \in 1..Len(batch) |-> IF i \in D THEN Verdict(policy, batch[i]) ELSE out[i]],
           phase' # "idle",
           phase' = "done" => \A i \in 1..Len(batch) : out'[i] # Unwritten
    PROVE  Abstract!Write
<1>1. DOMAIN batch = 1..Len(batch)
  BY LenProperties DEF CallInv
<1> DEFINE due == {i \in DOMAIN batch : i \in D}
<1>2. due \in SUBSET {i \in DOMAIN batch : out[i] = Unwritten}
  BY <1>1
<1>3. out' = [i \in DOMAIN batch |-> IF i \in due THEN Abstract!Accepts(batch[i]) ELSE out[i]]
  BY <1>1, AcceptsIsVerdict
<1>4. \E done \in SUBSET {i \in DOMAIN batch : out[i] = Unwritten} :
         out' = [i \in DOMAIN batch |-> IF i \in done THEN Abstract!Accepts(batch[i]) ELSE out[i]]
  <2> HIDE DEF due
  <2> QED BY <1>2, <1>3
<1> QED BY <1>1, <1>4 DEF Abstract!Write

LEMMA ReportRefines == ASSUME IInv, SkipChunk \/ ReportLanes PROVE Abstract!Write
<1> USE DEF IInv
<1> DEFINE D == {i \in 1..Len(batch) : \E l \in 1..Active : Indices[l] = i}
<1>1. /\ pos < Len(batch) /\ deferred = FALSE /\ phase' = "chunks"
      /\ phase \notin {"idle", "done"} /\ policy' = policy /\ batch' = batch
  BY VisitOrderLength, LenProperties
  DEF SkipChunk, ChunkBegins, ReportLanes, ChunkEnds, callVars, CallInv, ChunkInv, InChunk
<1>2. \E values : /\ \A l \in Lanes : values[l] = Verdict(policy, LaneInput(l))
                  /\ out' = Reported(values)
  <2>1. CASE SkipChunk
    <3>1. ASSUME NEW l \in Lanes PROVE NoLane[l] = Verdict(policy, LaneInput(l))
      <4>1. LaneInput(l) \in Inputs /\ ~Eligible(policy, LaneInput(l))
        BY <1>1, <2>1, LanesHoldInputs DEF SkipChunk, Eligible
      <4> QED BY <4>1, IneligibleFails, NoLocals
    <3> QED BY <2>1, <3>1 DEF SkipChunk
  <2>2. CASE ReportLanes
    BY <2>2 DEF ReportLanes, ChunkInv
  <2> QED BY <2>1, <2>2
<1>3. out' = [i \in 1..Len(batch) |-> IF i \in D THEN Verdict(policy, batch[i]) ELSE out[i]]
  <2>1. out' = [i \in 1..Len(batch) |-> IF \E l \in 1..Active : Indices[l] = i
                                        THEN Verdict(policy, batch[i]) ELSE out[i]]
    BY <1>1, <1>2, ReportedIs
  <2> QED BY <2>1
<1>4. ASSUME NEW i \in 1..Len(batch), i \in D PROVE out[i] = Unwritten
  <2>1. i \notin Taken(visit, pos)
    BY <1>1, <1>4, ChunkSpeaks
  <2> QED BY <1>1, <2>1 DEF OutInv, Spoken
<1> HIDE DEF D
<1> QED BY <1>1, <1>3, <1>4, WriteRefines

\* A flush writes what is queued, and the last one leaves nothing to write.
LEMMA FlushRefines == ASSUME IInv, FlushFull \/ FlushRest PROVE Abstract!Write
<1> USE DEF IInv
<1> DEFINE D == {i \in 1..Len(batch) : IsQueued(i)}
<1>1. /\ policy' = policy /\ batch' = batch /\ out' = Flushed
      /\ phase \notin {"idle", "done"} /\ phase' # "idle"
  BY DEF FlushFull, FlushRest, ChunkEnds, callVars
<1>2. out' = [i \in 1..Len(batch) |-> IF i \in D THEN Verdict(policy, batch[i]) ELSE out[i]]
  BY <1>1, FlushedIs
<1>3. ASSUME NEW i \in 1..Len(batch), i \in D PROVE out[i] = Unwritten
  BY <1>3 DEF OutInv
<1>4. ASSUME phase' = "done", NEW i \in 1..Len(batch) PROVE out'[i] # Unwritten
  <2>1. FlushRest
    BY <1>4 DEF FlushFull, ChunkEnds
  <2>2. Len(visit) = Len(batch) /\ IsVisitOrder(visit, Len(batch)) /\ Len(batch) \in Nat
    BY VisitOrderLength, LenProperties DEF CallInv
  <2>3. i \in Spoken
    <3>1. Spoken = Taken(visit, Len(batch))
      BY <2>1, <2>2 DEF FlushRest, ChunkInv, Spoken
    <3> QED BY <2>2, <3>1, AllTaken
  <2>4. CASE IsQueued(i)
    BY <1>2, <2>4, VerdictIsWritten
  <2>5. CASE ~IsQueued(i)
    BY <1>2, <2>3, <2>5 DEF OutInv
  <2> QED BY <2>4, <2>5
<1> HIDE DEF D
<1> QED BY <1>1, <1>2, <1>3, <1>4, WriteRefines

LEMMA NextRefines ==
    ASSUME IInv, [Next]_vars PROVE [Abstract!Next]_Abstract!vars
<1>1. CASE UNCHANGED vars
  BY <1>1 DEF vars, callVars, Abstract!vars
<1>2. ASSUME NEW k \in CallerKeys, CallerGets(k) \/ CallerInserts(k)
      PROVE  UNCHANGED Abstract!vars
  BY <1>2 DEF CallerGets, CallerInserts, callVars, Abstract!vars
<1>3. ASSUME NEW c \in Capacities, CallerSetsCapacity(c) PROVE UNCHANGED Abstract!vars
  BY <1>3 DEF CallerSetsCapacity, callVars, Abstract!vars
<1>4. ASSUME NEW p \in Policies, WithCache(p) PROVE Abstract!Next
  <2>1. Abstract!Switch(p)
    BY <1>4 DEF WithCache, Abstract!Switch
  <2> QED BY <2>1 DEF Abstract!Next, Abstract!Policies, Policies
<1>5. ASSUME NEW b \in Batches, BeginBatch(b) PROVE Abstract!Next
  <2>1. Abstract!Submit(b)
    BY <1>5 DEF BeginBatch, Abstract!Submit
  <2> QED BY <2>1 DEF Abstract!Next
<1>6. CASE SkipChunk \/ ReportLanes \/ FlushFull \/ FlushRest
  BY <1>6, ReportRefines, FlushRefines DEF Abstract!Next
<1>7. CASE Return
  <2>1. Abstract!Return
    BY <1>7 DEF Return, Abstract!Return
  <2> QED BY <2>1 DEF Abstract!Next
<1>8. CASE ParseChunk \/ Lookup \/ Decode
  BY <1>8 DEF ParseChunk, ChunkBegins, Lookup, Decode, NextLane, callVars, Abstract!vars
<1>9. CASE RejectLanes \/ ScoreLanes \/ QueueLanes
  BY <1>9 DEF RejectLanes, ScoreLanes, QueueLanes, Scored, callVars, Abstract!vars
<1>10. CASE Retain \/ Discard
  BY <1>10 DEF Retain, Discard, NextLane, callVars, Abstract!vars
<1>11. CASE LeaveQueued
  BY <1>11 DEF LeaveQueued, ChunkEnds, callVars, Abstract!vars
<1> QED BY <1>1, <1>2, <1>3, <1>4, <1>5, <1>6, <1>7, <1>8, <1>9, <1>10, <1>11 DEF Next

\* Whatever is retained, evicted, looked up or queued, in whatever chunks and
\* order the inputs are visited: every run of the cached verifier is a run of the
\* verifier that writes the verdict of the policy on each input alone.
THEOREM VerifiesEachAlone == Spec => ImplementsVerification
<1>1. Init => Abstract!Init
  BY DEF Init, Abstract!Init, Abstract!Policies, Policies
<1>2. IInv /\ [Next]_vars => [Abstract!Next]_Abstract!vars
  BY NextRefines
<1> QED BY <1>1, <1>2, Inductive, PTL DEF Spec, ImplementsVerification, Abstract!Spec

-----------------------------------------------------------------------------
(***************************************************************************)
(* The keys of a chunk that fit the cache stay in it.                      *)
(*                                                                         *)
(* The lanes that hit and the lanes already retained have put their keys   *)
(* at the front of the recency order, so that an insertion evicts one of   *)
(* them only when it holds nothing else; then the chunk has more keys than *)
(* the cache has places.                                                   *)
(***************************************************************************)
ChunkKeys == {k \in {LaneKey(i) : i \in Lanes} : k.onCurve}

KeptLanes == {i \in Lanes : hits[i] \/ (phase = "retain" /\ i < lane /\ LaneKey(i).onCurve)}

Kept == {LaneKey(i) : i \in KeptLanes}

InFront(order, keys) ==
    \A p, q \in DOMAIN order : p < q /\ order[q] \in keys => order[p] \in keys

KeepInv ==
    /\ phase \in {"lookup", "decode", "score", "retain"} =>
          /\ InFront(recency, Kept)
          /\ Cardinality(ChunkKeys) <= bound => Kept \subseteq Residents(recency)
    /\ ChunkKeysStay

LEMMA TouchedInFront ==
    ASSUME NEW S, NEW o \in Seq(S), NoDuplicates(o), NEW p \in DOMAIN o, NEW K, InFront(o, K)
    PROVE  InFront(Touched(o, p), K \cup {o[p]})
<1> DEFINE n == Len(o)
           t == Touched(o, p)
<1>1. n \in Nat /\ DOMAIN o = 1..n /\ p \in 1..n
  BY LenProperties
<1>2. t = [i \in 1..n |-> IF i = 1 THEN o[p] ELSE IF i <= p THEN o[i - 1] ELSE o[i]]
  BY DEF Touched
<1> HIDE DEF t, n
<1>3. SUFFICES ASSUME NEW i \in 1..n, NEW j \in 1..n, i < j, t[j] \in K \cup {o[p]}
               PROVE  t[i] \in K \cup {o[p]}
  BY <1>2 DEF InFront, t
<1> DEFINE from(x) == IF x <= p THEN x - 1 ELSE x
<1>4. \A x \in 1..n : x # 1 => from(x) \in 1..n /\ from(x) # p /\ t[x] = o[from(x)]
  BY <1>1, <1>2
<1>5. CASE i = 1
  BY <1>2, <1>5
<1>6. CASE i # 1
  <2>1. j # 1 /\ from(i) < from(j)
    BY <1>1, <1>3, <1>6
  <2>2. /\ from(i) \in DOMAIN o /\ from(j) \in DOMAIN o /\ from(j) # p
        /\ t[i] = o[from(i)] /\ t[j] = o[from(j)]
    BY <1>1, <1>4, <1>6, <2>1
  <2> HIDE DEF from
  <2>3. o[from(j)] # o[p]
    BY <2>2 DEF NoDuplicates
  <2>4. o[from(j)] \in K
    BY <1>3, <2>2, <2>3
  <2> QED BY <2>1, <2>2, <2>4 DEF InFront
<1> QED BY <1>5, <1>6

LEMMA PushedInFront ==
    ASSUME NEW S, NEW o \in Seq(S), NEW k, k \notin Residents(o), NEW b \in Nat, NEW K,
           InFront(o, K)
    PROVE  InFront(Pushed(o, k, b), K \cup {k})
<1> DEFINE n == Len(o)
           m == SmallerOf(n + 1, b)
           t == Pushed(o, k, b)
<1>1. n \in Nat /\ DOMAIN o = 1..n /\ m \in Nat /\ m <= n + 1
  BY LenProperties DEF SmallerOf
<1>2. t = [i \in 1..m |-> IF i = 1 THEN k ELSE o[i - 1]]
  BY DEF Pushed
<1> HIDE DEF t, n, m
<1>3. SUFFICES ASSUME NEW i \in 1..m, NEW j \in 1..m, i < j, t[j] \in K \cup {k}
               PROVE  t[i] \in K \cup {k}
  BY <1>2 DEF InFront, t
<1>4. CASE i = 1
  BY <1>2, <1>4
<1>5. CASE i # 1
  <2>1. /\ i - 1 \in DOMAIN o /\ j - 1 \in DOMAIN o /\ i - 1 < j - 1
        /\ t[i] = o[i - 1] /\ t[j] = o[j - 1]
    BY <1>1, <1>2, <1>3, <1>5
  <2>2. o[j - 1] # k
    BY <2>1 DEF Residents
  <2>3. o[j - 1] \in K
    BY <1>3, <2>1, <2>2
  <2> QED BY <2>1, <2>3 DEF InFront
<1> QED BY <1>4, <1>5

\* A key in front is evicted only when bound others are there with the new one.
LEMMA PushedKeepsFront ==
    ASSUME NEW S, NEW o \in Seq(S), NoDuplicates(o), NEW k, k \notin Residents(o),
           NEW b \in Nat \ {0}, Len(o) <= b,
           NEW K, InFront(o, K), K \subseteq Residents(o),
           NEW C, IsFiniteSet(C), Cardinality(C) <= b, K \cup {k} \subseteq C
    PROVE  K \cup {k} \subseteq Residents(Pushed(o, k, b))
<1> DEFINE n == Len(o)
           m == SmallerOf(n + 1, b)
           t == Pushed(o, k, b)
<1>1. /\ n \in Nat /\ DOMAIN o = 1..n /\ m \in Nat /\ m # 0 /\ m <= n + 1
      /\ n <= b /\ (m = n + 1 \/ m = b)
  BY LenProperties DEF SmallerOf
<1>2. t = [i \in 1..m |-> IF i = 1 THEN k ELSE o[i - 1]]
  BY DEF Pushed
<1> HIDE DEF t, n, m
<1>3. DOMAIN t = 1..m /\ k \in Residents(t)
  <2>1. 1 \in 1..m /\ t[1] = k
    BY <1>1, <1>2
  <2> QED BY <1>2, <2>1 DEF Residents
<1>4. ASSUME NEW x \in K PROVE x \in Residents(t)
  <2>1. PICK j \in 1..n : o[j] = x
    BY <1>1 DEF Residents
  <2>2. CASE j + 1 <= m
    <3>1. j + 1 \in 1..m /\ t[j + 1] = o[j]
      BY <1>1, <1>2, <2>2
    <3> QED BY <1>3, <2>1, <3>1 DEF Residents
  <2>3. CASE ~(j + 1 <= m)
    <3>1. n = b /\ j = b
      BY <1>1, <2>3
    <3>2. \A i \in 1..b : o[i] \in K
      BY <1>1, <2>1, <3>1 DEF InFront
    <3> DEFINE f == [i \in 1..(b + 1) |-> IF i = b + 1 THEN k ELSE o[i]]
    <3>3. \A i \in 1..(b + 1) : i # b + 1 => i \in 1..b
      OBVIOUS
    <3>4. f \in [1..(b + 1) -> C]
      BY <3>2, <3>3
    <3>5. IsFiniteSet(1..(b + 1)) /\ Cardinality(1..(b + 1)) = b + 1
      BY FS_Interval
    <3>6. Cardinality(C) < Cardinality(1..(b + 1))
      BY <3>5, FS_CardinalityType
    <3>7. PICK i, h \in 1..(b + 1) : i # h /\ f[i] = f[h]
      <4> HIDE DEF f
      <4> QED BY <3>4, <3>5, <3>6, FS_PigeonHole
    <3>8. \A q \in 1..b : o[q] # k
      BY <1>1, <3>1 DEF Residents
    <3>9. i \in 1..b /\ h \in 1..b /\ o[i] = o[h]
      BY <3>3, <3>7, <3>8
    <3> QED BY <1>1, <3>1, <3>7, <3>9 DEF NoDuplicates
  <2> QED BY <2>2, <2>3
<1> QED BY <1>3, <1>4 DEF t

LEMMA ChunkKeysFinite == IsFiniteSet(ChunkKeys)
<1> DEFINE f == [i \in Lanes |-> LaneKey(i)]
           T == {LaneKey(i) : i \in Lanes}
<1>1. IsFiniteSet(Lanes)
  BY FS_Interval, PlanAssumption DEF Lanes
<1>2. f \in Surjection(Lanes, T)
  BY DEF Surjection
<1>3. IsFiniteSet(T)
  <2> HIDE DEF f, T
  <2> QED BY <1>1, <1>2, FS_Surjection
<1>4. ChunkKeys \in SUBSET T
  BY DEF ChunkKeys
<1> HIDE DEF T
<1> QED BY <1>3, <1>4, FS_Subset

LEMMA KeepInvOutside ==
    ASSUME phase' \in {"idle", "chunks", "done"} PROVE KeepInv'
BY DEF KeepInv, ChunkKeysStay

LEMMA ChunkKeysStayIs ==
    /\ ChunkKeysStay <=> (phase = "emit" /\ Cardinality(ChunkKeys) <= bound
                             => ChunkKeys \subseteq Residents(recency))
    /\ ChunkKeysStay' <=> (phase' = "emit" /\ Cardinality(ChunkKeys') <= bound'
                              => ChunkKeys' \subseteq Residents(recency)')
BY DEF ChunkKeysStay, ChunkKeys

LEMMA KeptAreChunkKeys ==
    ASSUME ChunkInv, InChunk PROVE Kept \subseteq ChunkKeys
BY DEF ChunkInv, KeptLanes, Kept, ChunkKeys

\* A lookup that hits puts its key in front; one that misses moves nothing.
LEMMA LookupKeeps == ASSUME IInv, KeepInv, Lookup PROVE KeepInv'
<1> USE DEF IInv
<1>1. /\ phase = "lookup" /\ phase' \in {"lookup", "decode"}
      /\ batch' = batch /\ visit' = visit /\ pos' = pos /\ bound' = bound
      /\ hits' = [hits EXCEPT ![lane] = LaneKey(lane) \in Residents(recency)]
      /\ recency' = AfterGet(recency, LaneKey(lane)) /\ table' = table
  BY DEF Lookup, callVars, NextLane
<1>2. /\ lane \in Lanes /\ hits \in [Lanes -> BOOLEAN]
      /\ \A i \in Lanes : hits[i] => LaneKey(i) \in Residents(recency)
  BY <1>1 DEF ChunkInv
<1>3. /\ \A i \in Lanes : LaneKey(i)' = LaneKey(i)
      /\ ChunkKeys' = ChunkKeys
  BY <1>1, LanesStay DEF ChunkKeys
<1>4. Residents(recency)' = Residents(recency)
  <2>1. Residents(recency') = Residents(recency)
    BY <1>1, LookupKeepsCache
  <2> QED BY <2>1 DEF Residents
<1>5. Kept = {LaneKey(i) : i \in {j \in Lanes : hits[j]}}
  BY <1>1 DEF Kept, KeptLanes
<1>6. Kept' = {LaneKey(i) : i \in {j \in Lanes : hits'[j]}}
  BY <1>1, <1>3 DEF Kept, KeptLanes
<1>7. InFront(recency', Kept') /\ (Kept \subseteq Residents(recency) => Kept' \subseteq Residents(recency))
  <2>1. CASE LaneKey(lane) \in Residents(recency)
    <3> DEFINE p == PositionOf(recency, LaneKey(lane))
    <3>1. p \in DOMAIN recency /\ recency[p] = LaneKey(lane) /\ recency' = Touched(recency, p)
      BY <1>1, <2>1, ResidentPosition DEF AfterGet
    <3>2. Kept' = Kept \cup {LaneKey(lane)}
      BY <1>1, <1>2, <1>5, <1>6, <2>1
    <3>3. InFront(recency, Kept)
      BY <1>1 DEF KeepInv
    <3> HIDE DEF p
    <3> QED BY <2>1, <3>1, <3>2, <3>3, TouchedInFront DEF CacheInv
  <2>2. CASE LaneKey(lane) \notin Residents(recency)
    <3>1. recency' = recency
      BY <1>1, <2>2 DEF AfterGet
    <3>2. Kept' = Kept
      BY <1>1, <1>2, <1>5, <1>6, <2>2
    <3> QED BY <1>1, <3>1, <3>2 DEF KeepInv
  <2> QED BY <2>1, <2>2
<1>8. InFront(recency, Kept)' <=> InFront(recency', Kept')
  BY DEF InFront
<1> QED BY <1>1, <1>3, <1>4, <1>7, <1>8, ChunkKeysStayIs DEF KeepInv

\* Decoding touches neither keys nor hits.
LEMMA DecodeKeeps == ASSUME IInv, KeepInv, Decode PROVE KeepInv'
<1>1. /\ phase = "decode" /\ phase' = "score"
      /\ batch' = batch /\ visit' = visit /\ pos' = pos /\ hits' = hits
      /\ recency' = recency /\ bound' = bound
  BY DEF Decode, callVars, cacheVars
<1>2. /\ \A i \in Lanes : LaneKey(i)' = LaneKey(i)
      /\ ChunkKeys' = ChunkKeys
  BY <1>1, LanesStay DEF ChunkKeys
<1>3. Kept' = Kept /\ Residents(recency)' = Residents(recency)
  BY <1>1, <1>2 DEF Kept, KeptLanes, Residents
<1>4. InFront(recency, Kept)' <=> InFront(recency, Kept)
  BY <1>1, <1>3 DEF InFront
<1> QED BY <1>1, <1>2, <1>3, <1>4, ChunkKeysStayIs DEF KeepInv

\* Scoring touches no key; a chunk whose lanes all hit is through.
LEMMA ScoreKeeps == ASSUME IInv, KeepInv, RejectLanes \/ ScoreLanes \/ QueueLanes PROVE KeepInv'
<1> USE DEF IInv
<1>1. /\ phase = "score" /\ phase' = (IF Decodes THEN "retain" ELSE "emit")
      /\ batch' = batch /\ visit' = visit /\ pos' = pos /\ lane' = lane /\ hits' = hits
      /\ recency' = recency /\ bound' = bound
  BY DEF RejectLanes, ScoreLanes, QueueLanes, Scored, callVars, cacheVars
<1>2. /\ \A i \in Lanes : LaneKey(i)' = LaneKey(i)
      /\ ChunkKeys' = ChunkKeys
  BY <1>1, LanesStay DEF ChunkKeys
<1>3. Residents(recency)' = Residents(recency)
  BY <1>1 DEF Residents
<1>4. KeptLanes = {i \in Lanes : hits[i]}
  BY <1>1 DEF KeptLanes
<1>5. KeptLanes' = {i \in Lanes : hits[i]}
  <2>1. lane' = 1
    BY <1>1 DEF ChunkInv
  <2>2. \A i \in Lanes : ~(i < 1)
    BY PlanAssumption DEF Lanes
  <2> QED BY <1>1, <2>1, <2>2 DEF KeptLanes
<1>6. Kept' = Kept
  BY <1>2, <1>4, <1>5 DEF Kept
<1>7. ASSUME phase' = "emit" PROVE ChunkKeys \subseteq Kept
  <2>1. \A i \in Lanes : hits[i]
    BY <1>1, <1>7 DEF Decodes, Misses
  <2> QED BY <1>4, <2>1 DEF ChunkKeys, Kept
<1>8. /\ InFront(recency, Kept)
      /\ Cardinality(ChunkKeys) <= bound => Kept \subseteq Residents(recency)
  BY <1>1 DEF KeepInv
<1>9. InFront(recency, Kept)' <=> InFront(recency, Kept)
  BY <1>1, <1>6 DEF InFront
<1> QED BY <1>1, <1>2, <1>3, <1>6, <1>7, <1>8, <1>9, ChunkKeysStayIs DEF KeepInv

\* A key that is retained goes in front of the kept ones and evicts none.
LEMMA RetainKeeps == ASSUME IInv, KeepInv, Retain \/ Discard PROVE KeepInv'
<1> USE DEF IInv
<1> DEFINE k == LaneKey(lane)
           K == IF Retain THEN Kept \cup {k} ELSE Kept
<1>1. /\ phase = "retain" /\ NextLane("retain", "emit")
      /\ batch' = batch /\ visit' = visit /\ pos' = pos /\ hits' = hits /\ bound' = bound
      /\ Retain => /\ ~hits[lane] /\ k.onCurve
                   /\ recency' = AfterInsert(recency, k, bound)
      /\ Discard => /\ hits[lane] \/ ~k.onCurve
                    /\ recency' = recency
  BY DEF Retain, Discard, callVars, cacheVars
<1>2. /\ lane \in Lanes /\ phase' \in {"retain", "emit"} /\ LANES \in Nat
      /\ phase' = "retain" => lane' = lane + 1
      /\ phase' = "emit" => lane = LANES
  BY <1>1, PlanAssumption DEF NextLane, ChunkInv
<1>3. /\ \A i \in Lanes : LaneKey(i)' = LaneKey(i)
      /\ ChunkKeys' = ChunkKeys
  BY <1>1, LanesStay DEF ChunkKeys
<1>4. /\ InFront(recency, Kept)
      /\ Cardinality(ChunkKeys) <= bound => Kept \subseteq Residents(recency)
  BY <1>1 DEF KeepInv
<1>5. /\ NoDuplicates(recency) /\ recency \in Seq(Encodings)
      /\ bound \in Nat \ {0} /\ Len(recency) <= bound
  BY DEF CacheInv
<1>6. K \subseteq ChunkKeys
  <2>1. Kept \subseteq ChunkKeys
    BY <1>1, KeptAreChunkKeys DEF InChunk
  <2>2. Retain => k \in ChunkKeys
    BY <1>1, <1>2 DEF ChunkKeys
  <2> QED BY <2>1, <2>2
<1>7. /\ InFront(recency', K)
      /\ Cardinality(ChunkKeys) <= bound => K \subseteq Residents(recency')
  <2>1. CASE Retain /\ k \in Residents(recency)
    <3> DEFINE p == PositionOf(recency, k)
    <3>1. p \in DOMAIN recency /\ recency[p] = k /\ recency' = Touched(recency, p)
      BY <1>1, <2>1, ResidentPosition DEF AfterInsert
    <3> HIDE DEF p, k
    <3>2. InFront(recency', K)
      BY <1>4, <1>5, <2>1, <3>1, TouchedInFront
    <3>3. Residents(recency') = Residents(recency)
      BY <1>5, <3>1, TouchedOrder
    <3> QED BY <1>4, <2>1, <3>2, <3>3
  <2>2. CASE Retain /\ k \notin Residents(recency)
    <3>1. recency' = Pushed(recency, k, bound)
      BY <1>1, <2>2 DEF AfterInsert
    <3>2. K = Kept \cup {k}
      BY <2>2
    <3> HIDE DEF k, K
    <3>3. InFront(recency', K)
      BY <1>4, <1>5, <2>2, <3>1, <3>2, PushedInFront
    <3>4. ASSUME Cardinality(ChunkKeys) <= bound PROVE K \subseteq Residents(recency')
      BY <1>4, <1>5, <1>6, <2>2, <3>1, <3>2, <3>4, ChunkKeysFinite, PushedKeepsFront
    <3> QED BY <3>3, <3>4
  <2>3. CASE ~Retain
    BY <1>1, <1>4, <2>3
  <2> QED BY <2>1, <2>2, <2>3
<1>8. ASSUME NEW i \in Lanes
      PROVE  /\ i \in KeptLanes <=> hits[i] \/ (i < lane /\ LaneKey(i).onCurve)
             /\ phase' = "retain" =>
                   (i \in KeptLanes' <=> hits[i] \/ (i < lane + 1 /\ LaneKey(i).onCurve))
  BY <1>1, <1>2, <1>3 DEF KeptLanes
<1>9. ASSUME phase' = "retain" PROVE Kept' = K
  <2>1. \A i \in Lanes : i < lane + 1 <=> i < lane \/ i = lane
    BY <1>2, PlanAssumption DEF Lanes
  <2>2. \A i \in Lanes : i \in KeptLanes' <=> i \in KeptLanes \/ (i = lane /\ LaneKey(i).onCurve)
    BY <1>8, <1>9, <2>1
  <2>3. KeptLanes \subseteq Lanes /\ KeptLanes' \subseteq Lanes
    BY DEF KeptLanes
  <2>4. CASE Retain
    <3>1. KeptLanes' = KeptLanes \cup {lane}
      BY <1>1, <1>2, <2>2, <2>3, <2>4
    <3> QED BY <1>2, <1>3, <2>3, <2>4, <3>1 DEF Kept
  <2>5. CASE ~Retain
    <3>1. KeptLanes' = KeptLanes
      BY <1>1, <1>2, <1>8, <2>2, <2>3, <2>5
    <3> QED BY <1>3, <2>3, <2>5, <3>1 DEF Kept
  <2> QED BY <2>4, <2>5
<1>10. ASSUME phase' = "emit" PROVE ChunkKeys \subseteq K
  <2>1. ASSUME NEW i \in Lanes, LaneKey(i).onCurve PROVE LaneKey(i) \in K
    <3>1. CASE i = lane
      <4>1. Retain \/ i \in KeptLanes
        BY <1>1, <1>8, <2>1, <3>1
      <4> QED BY <3>1, <4>1 DEF Kept
    <3>2. CASE i # lane
      <4>1. i < lane
        BY <1>2, <1>10, <3>2 DEF Lanes
      <4>2. i \in KeptLanes
        BY <1>8, <2>1, <4>1
      <4> QED BY <4>2 DEF Kept
    <3> QED BY <3>1, <3>2
  <2> HIDE DEF K
  <2> QED BY <2>1 DEF ChunkKeys
<1>11. Residents(recency)' = Residents(recency') /\ (InFront(recency, Kept)' <=> InFront(recency', Kept'))
  BY DEF Residents, InFront
<1> HIDE DEF K, k
<1> QED BY <1>1, <1>2, <1>3, <1>7, <1>9, <1>10, <1>11, ChunkKeysStayIs DEF KeepInv

LEMMA ParseKeeps == ASSUME IInv, ParseChunk PROVE KeepInv'
<1>1. phase' = "lookup" /\ hits' = NoLane
  BY DEF ParseChunk, ChunkBegins, IInv, ChunkInv, InChunk
<1>2. Kept' = {}
  BY <1>1, NoLocals DEF Kept, KeptLanes
<1> QED BY <1>1, <1>2 DEF KeepInv, ChunkKeysStay, InFront

LEMMA KeepInvNext == ASSUME IInv, KeepInv, [Next]_vars PROVE KeepInv'
<1>1. ASSUME NEW k \in CallerKeys, CallerGets(k) \/ CallerInserts(k) PROVE KeepInv'
  BY <1>1, KeepInvOutside DEF CallerGets, CallerInserts
<1>2. ASSUME NEW c \in Capacities, CallerSetsCapacity(c) PROVE KeepInv'
  BY <1>2, KeepInvOutside DEF CallerSetsCapacity
<1>3. ASSUME NEW p \in Policies, WithCache(p) PROVE KeepInv'
  BY <1>3, KeepInvOutside DEF WithCache
<1>4. ASSUME NEW b \in Batches, BeginBatch(b) PROVE KeepInv'
  BY <1>4, KeepInvOutside DEF BeginBatch
<1>5. CASE SkipChunk \/ ReportLanes \/ LeaveQueued \/ FlushFull \/ FlushRest \/ Return
  BY <1>5, KeepInvOutside
  DEF SkipChunk, ReportLanes, LeaveQueued, FlushFull, ChunkEnds, FlushRest, Return
<1>6. CASE UNCHANGED vars
  <2>1. /\ phase' = phase /\ lane' = lane /\ hits' = hits /\ bound' = bound
        /\ recency' = recency /\ batch' = batch /\ visit' = visit /\ pos' = pos
    BY <1>6 DEF vars, callVars, cacheVars, chunkVars
  <2>2. Kept' = Kept /\ ChunkKeys' = ChunkKeys
    BY <2>1, LanesStay DEF Kept, KeptLanes, ChunkKeys
  <2> QED BY <2>1, <2>2, ChunkKeysStayIs DEF KeepInv, InFront, Residents
<1> QED BY <1>1, <1>2, <1>3, <1>4, <1>5, <1>6,
           ParseKeeps, LookupKeeps, DecodeKeeps, ScoreKeeps, RetainKeeps DEF Next

\* For every number of lanes, every bound and every set of keys: a chunk whose
\* keys fit the cache leaves them all in it, whatever was retained before.
THEOREM ChunkKeysRetained == Spec => []ChunkKeysStay
<1>1. Init => KeepInv
  BY DEF Init, KeepInv, ChunkKeysStay
<1>2. IInv /\ KeepInv /\ [Next]_vars => KeepInv'
  BY KeepInvNext
<1>3. KeepInv => ChunkKeysStay
  BY DEF KeepInv
<1> QED BY <1>1, <1>2, <1>3, Inductive, PTL DEF Spec
=============================================================================
