------------------------------ MODULE Verifier ------------------------------
(***************************************************************************)
(* A verifier that retains decoded keys (Verifier<P, HotKeyCache>,         *)
(* src/src/verifier): verify_cached_batch_for and verify_chunk under       *)
(* either policy, batch after batch, with the caller using the cache       *)
(* between batches, or handing it to a verifier of the other policy, as    *)
(* RuntimeVerifier makes them.  The cache is the abstract LRU, with the    *)
(* decoded table of each key beside it; HotKeyCache implements that LRU.   *)
(*                                                                         *)
(* A table is the point whose multiples it holds.  The loops over lanes    *)
(* that change the cache take one step for each lane.                      *)
(***************************************************************************)
EXTENDS ChunkPlan, Recency, Policy, FiniteSets

CONSTANTS
    Batches,        \* the batches a caller may submit: sequences of inputs
    Capacities,     \* the bounds a caller may set
    CallerKeys,     \* the encodings a caller may look up or retain itself
    DALEK_BATCH,    \* the chunks one shared inversion serves, 8 in the code
    ZIP215_BATCH,   \* the chunks decompressed together, 2 in the code
    Unwritten,      \* what the caller's slice holds before the call
    NoTable         \* an empty scratch slot

ASSUME VerifierAssumption ==
    /\ Batches \subseteq Seq(Inputs)
    /\ Capacities \subseteq Nat
    /\ CallerKeys \subseteq Encodings
    /\ DALEK_BATCH \in Nat \ {0} /\ ZIP215_BATCH \in Nat \ {0}
    /\ Unwritten \notin BOOLEAN
    /\ NoTable \notin Points

VARIABLES
    policy,      \* the variant of RuntimeVerifier, the type parameter P within
    recency,     \* the retained keys, most recently used first
    table,       \* the table retained for each
    bound,       \* the capacity of the cache
    batch,       \* the inputs of the call
    out,         \* the caller's slice
    visit,       \* the order of visit
    pos,         \* the inputs that earlier chunks took
    lane,        \* the lane a loop has come to
    hits,        \* the lanes whose lookup hit
    valid,       \* the lanes not rejected so far
    scratch,     \* the key_tables of ChunkScratch, which outlive the chunk
    verdict,     \* the lane results of the chunk, tmp in the code
    deferred,    \* whether the chunk was queued
    candidates,  \* the queue: what the ladders of each chunk came to,
    rBytes,      \* the R encodings of each chunk,
    pending,     \* and where its lanes report
    phase

cacheVars == <<recency, table, bound>>
callVars  == <<policy, batch, visit>>
chunkVars == <<hits, valid, scratch, verdict, deferred>>
queueVars == <<candidates, rBytes, pending>>
vars == <<callVars, cacheVars, chunkVars, queueVars, out, pos, lane, phase>>

NoLane    == [i \in Lanes |-> FALSE]
NoScratch == [i \in Lanes |-> NoTable]
NoQueue   == candidates' = << >> /\ rBytes' = << >> /\ pending' = << >>

-----------------------------------------------------------------------------
(***************************************************************************)
(* The chunk at hand                                                       *)
(***************************************************************************)
Indices    == ChunkIndices(visit, pos)
Active     == ActiveLanes(visit, pos)
LaneInput(i) == batch[Indices[i]]
LaneKey(i)   == LaneInput(i).key
LaneR(i)     == LaneInput(i).r

\* A lookup that misses makes the chunk decode every lane's key and R.
Misses == {i \in Lanes : ~hits[i]}
Decodes == Misses # {}

\* The table of each lane: retained, in its slot of the scratch, or the identity's
TableOf(i) == IF hits[i] THEN table[LaneKey(i)]
              ELSE IF LaneKey(i).onCurve THEN scratch[i]
              ELSE Identity

\* The lanes whose verdict still depends on their equation
Survivors == {i \in Lanes : /\ valid[i]
                            /\ hits[i] \/ LaneKey(i).onCurve
                            /\ ~RejectsKey(policy, TableOf(i))}

Ladder(i) == Combination(Digits(LaneInput(i).s), LaneInput(i).k, TableOf(i))

-----------------------------------------------------------------------------
(***************************************************************************)
(* The caller's slice                                                      *)
(***************************************************************************)
\* The results of the active lanes at their inputs, the others as they were
Reported(values) ==
    [i \in DOMAIN out |->
        IF \E l \in 1..Active : Indices[l] = i
        THEN values[CHOOSE l \in 1..Active : Indices[l] = i]
        ELSE out[i]]

\* The lane of a queued chunk that reports for input i
QueuedFor(i) == {cl \in (DOMAIN pending) \X Lanes :
                    /\ cl[2] <= pending[cl[1]].active
                    /\ pending[cl[1]].indices[cl[2]] = i}

\* The queue scored lane by lane.
Flushed ==
    [i \in DOMAIN out |->
        IF QueuedFor(i) = {} THEN out[i]
        ELSE LET at == CHOOSE cl \in QueuedFor(i) : TRUE
                 c  == at[1]
                 l  == at[2]
             IN  Flush(policy, candidates[c][l], rBytes[c][l], pending[c].valid[l])]

\* A queue that is full only when it has overflown (faulty)
QueueIsFullLate == Len(candidates) > (IF policy = "Dalek" THEN DALEK_BATCH ELSE ZIP215_BATCH)

\* queue_is_full
QueueIsFull == Len(candidates) = (IF policy = "Dalek" THEN DALEK_BATCH ELSE ZIP215_BATCH)

-----------------------------------------------------------------------------
Init == /\ policy \in Policies
        /\ recency = << >>
        /\ table = [k \in {} |-> NoTable]
        /\ bound \in {IF c >= 1 THEN c ELSE 1 : c \in Capacities}
        /\ batch = << >>
        /\ out = << >>
        /\ visit = << >>
        /\ pos = 0
        /\ lane = 1
        /\ hits = NoLane
        /\ valid = NoLane
        /\ scratch = NoScratch
        /\ verdict = NoLane
        /\ deferred = FALSE
        /\ candidates = << >>
        /\ rBytes = << >>
        /\ pending = << >>
        /\ phase = "idle"

\* The tables of the keys that stay; a key not retained before brings t.
TablesKept(t) == [k \in Residents(recency') |-> IF k \in DOMAIN table THEN table[k] ELSE t]

-----------------------------------------------------------------------------
(***************************************************************************)
(* The caller between batches, through cache_mut                           *)
(***************************************************************************)
CallerGets(k) == /\ phase = "idle"
                 /\ recency' = AfterGet(recency, k)
                 /\ UNCHANGED <<callVars, chunkVars, queueVars, table, bound, out, pos, lane, phase>>

\* insert of a key that CachedPublicKey::from_encoded has decoded
CallerInserts(k) == /\ phase = "idle"
                    /\ k.onCurve
                    /\ recency' = AfterInsert(recency, k, bound)
                    /\ table' = TablesKept(k.point)
                    /\ UNCHANGED <<callVars, chunkVars, queueVars, bound, out, pos, lane, phase>>

CallerSetsCapacity(c) == /\ phase = "idle"
                         /\ bound' = IF c >= 1 THEN c ELSE 1
                         /\ recency' = Truncated(recency, bound')
                         /\ table' = TablesKept(NoTable)
                         /\ UNCHANGED <<callVars, chunkVars, queueVars, out, pos, lane, phase>>

\* with_cache: the caller takes the cache out, as cache_mut allows, and has
\* another verifier built around it, with queues and scratch of its own.
WithCache(p) == /\ phase = "idle"
                /\ policy' = p
                /\ NoQueue
                /\ lane' = 1
                /\ hits' = NoLane /\ valid' = NoLane /\ verdict' = NoLane
                /\ scratch' = NoScratch
                /\ deferred' = FALSE
                /\ UNCHANGED <<cacheVars, batch, visit, out, pos, phase>>

-----------------------------------------------------------------------------
(***************************************************************************)
(* verify_cached_batch_for up to its first chunk, and after its last       *)
(***************************************************************************)
Lengths(b) == [i \in DOMAIN b |-> b[i].len]

BeginBatch(b) ==
    /\ phase = "idle"
    /\ batch' = b
    /\ out' = [i \in DOMAIN b |-> Unwritten]
    /\ visit' \in IF Reorders(Lengths(b)) THEN SortedInto(Lengths(b), << >>)
                  ELSE {InOrder(Len(b))}
    /\ pos' = 0
    /\ phase' = "chunks"
    /\ UNCHANGED <<policy, cacheVars, chunkVars, queueVars, lane>>

\* The flush of what the queue still holds
FlushRest == /\ phase = "chunks"
             /\ pos = Len(visit)
             /\ out' = Flushed
             /\ NoQueue
             /\ phase' = "done"
             /\ UNCHANGED <<callVars, cacheVars, chunkVars, pos, lane>>

Return == /\ phase = "done"
          /\ batch' = << >>
          /\ out' = << >>
          /\ visit' = << >>
          /\ pos' = 0
          /\ phase' = "idle"
          /\ UNCHANGED <<policy, cacheVars, chunkVars, queueVars, lane>>

-----------------------------------------------------------------------------
(***************************************************************************)
(* verify_chunk                                                            *)
(***************************************************************************)
ChunkBegins == phase = "chunks" /\ pos < Len(visit)

NextLane(first, then) == /\ lane' = IF lane = LANES THEN 1 ELSE lane + 1
                         /\ phase' = IF lane = LANES THEN then ELSE first

\* The chunk is over: its locals go, and the scratch stays as it was left.
ChunkEnds == /\ pos' = pos + Active
             /\ phase' = "chunks"
             /\ hits' = NoLane
             /\ valid' = NoLane
             /\ verdict' = NoLane
             /\ deferred' = FALSE
             /\ UNCHANGED <<callVars, cacheVars, scratch, lane>>

\* No lane has a canonical s: nothing is looked up.
SkipChunk == /\ ChunkBegins
             /\ \A i \in Lanes : ~IsCanonical(LaneInput(i).s)
             /\ out' = Reported(NoLane)
             /\ ChunkEnds
             /\ UNCHANGED queueVars

ParseChunk == /\ ChunkBegins
              /\ \E i \in Lanes : IsCanonical(LaneInput(i).s)
              /\ valid' = [i \in Lanes |-> IsCanonical(LaneInput(i).s)]
              /\ lane' = 1
              /\ phase' = "lookup"
              /\ UNCHANGED <<callVars, cacheVars, queueVars, out, pos,
                             hits, scratch, verdict, deferred>>

\* cache.get of one lane's key; lanes that are not valid and padding look up too.
Lookup == /\ phase = "lookup"
          /\ hits' = [hits EXCEPT ![lane] = LaneKey(lane) \in Residents(recency)]
          /\ recency' = AfterGet(recency, LaneKey(lane))
          /\ NextLane("lookup", "decode")
          /\ UNCHANGED <<callVars, queueVars, table, bound, out, pos,
                         valid, scratch, verdict, deferred>>

\* If any lane missed, decode_keys_and_r fills the scratch slot of every lane,
\* garbage included.
Decode == /\ phase = "decode"
          /\ scratch' = IF Decodes THEN [i \in Lanes |-> LaneKey(i).point] ELSE scratch
          /\ phase' = "score"
          /\ UNCHANGED <<callVars, cacheVars, queueVars, out, pos, lane,
                         hits, valid, verdict, deferred>>

Scored == /\ phase' = IF Decodes THEN "retain" ELSE "emit"
          /\ UNCHANGED <<callVars, cacheVars, out, pos, lane, hits, valid, scratch>>

\* No lane survives: the ladder is skipped.
RejectLanes == /\ phase = "score"
               /\ Survivors = {}
               /\ Scored
               /\ UNCHANGED <<queueVars, verdict, deferred>>

\* R was decoded along with a missing key.
ScoreLanes ==
    /\ phase = "score"
    /\ Survivors # {}
    /\ Decodes
    /\ verdict' = [i \in Lanes |-> Score(policy, Ladder(i), LaneR(i), i \in Survivors)]
    /\ Scored
    /\ UNCHANGED <<queueVars, deferred>>

\* Every lane hit, so R is still encoded.
QueueLanes ==
    /\ phase = "score"
    /\ Survivors # {}
    /\ ~Decodes
    /\ candidates' = Append(candidates, [i \in Lanes |-> Ladder(i)])
    /\ rBytes' = Append(rBytes, [i \in Lanes |-> LaneR(i)])
    /\ pending' = Append(pending, [valid   |-> [i \in Lanes |-> i \in Survivors],
                                   indices |-> Indices,
                                   active  |-> Active])
    /\ deferred' = TRUE
    /\ Scored
    /\ UNCHANGED verdict

\* retain_decoded_keys of whatever missed (faulty)
RetainUndecoded == /\ phase = "retain"
                   /\ ~hits[lane]
                   /\ recency' = AfterInsert(recency, LaneKey(lane), bound)
                   /\ table' = TablesKept(scratch[lane])
                   /\ scratch' = [scratch EXCEPT ![lane] = NoTable]
                   /\ NextLane("retain", "emit")
                   /\ UNCHANGED <<callVars, queueVars, bound, out, pos,
                                  hits, valid, verdict, deferred>>

\* retain_decoded_keys, of a lane that missed and decoded
Retain == /\ phase = "retain"
          /\ ~hits[lane]
          /\ LaneKey(lane).onCurve
          /\ recency' = AfterInsert(recency, LaneKey(lane), bound)
          /\ table' = TablesKept(scratch[lane])
          /\ scratch' = [scratch EXCEPT ![lane] = NoTable]
          /\ NextLane("retain", "emit")
          /\ UNCHANGED <<callVars, queueVars, bound, out, pos,
                         hits, valid, verdict, deferred>>

\* A slot taken only to be retained (faulty)
DiscardInPlace == /\ phase = "retain"
                  /\ hits[lane] \/ ~LaneKey(lane).onCurve
                  /\ NextLane("retain", "emit")
                  /\ UNCHANGED <<callVars, cacheVars, queueVars, out, pos,
                                 hits, valid, scratch, verdict, deferred>>

\* and of any other, whose table is dropped
Discard == /\ phase = "retain"
           /\ hits[lane] \/ ~LaneKey(lane).onCurve
           /\ scratch' = [scratch EXCEPT ![lane] = NoTable]
           /\ NextLane("retain", "emit")
           /\ UNCHANGED <<callVars, cacheVars, queueVars, out, pos,
                          hits, valid, verdict, deferred>>

\* The driver's callback after verify_chunk
ReportLanes == /\ phase = "emit"
               /\ ~deferred
               /\ out' = Reported(verdict)
               /\ ChunkEnds
               /\ UNCHANGED queueVars

LeaveQueued == /\ phase = "emit"
               /\ deferred
               /\ ~QueueIsFull
               /\ ChunkEnds
               /\ UNCHANGED <<out, queueVars>>

\* The flush that scores but leaves the pending records behind (faulty)
FlushFullUndrained == /\ phase = "emit"
                      /\ deferred
                      /\ QueueIsFull
                      /\ out' = Flushed
                      /\ candidates' = << >>
                      /\ rBytes' = << >>
                      /\ ChunkEnds
                      /\ UNCHANGED pending

FlushFull == /\ phase = "emit"
             /\ deferred
             /\ QueueIsFull
             /\ out' = Flushed
             /\ NoQueue
             /\ ChunkEnds

Next == \/ \E k \in CallerKeys : CallerGets(k) \/ CallerInserts(k)
        \/ \E c \in Capacities : CallerSetsCapacity(c)
        \/ \E p \in Policies : WithCache(p)
        \/ \E b \in Batches : BeginBatch(b)
        \/ SkipChunk \/ ParseChunk \/ Lookup \/ Decode
        \/ RejectLanes \/ ScoreLanes \/ QueueLanes
        \/ Retain \/ Discard
        \/ ReportLanes \/ LeaveQueued \/ FlushFull
        \/ FlushRest \/ Return

Spec == Init /\ [][Next]_vars

-----------------------------------------------------------------------------
QueuedInputs == {i \in DOMAIN batch : QueuedFor(i) # {}}
Unvisited    == {visit[p] : p \in (pos + 1)..Len(visit)}
WrittenInputs == {i \in DOMAIN batch : out[i] # Unwritten}

\* Only keys that decode are retained, each with the table of its own point:
\* a lane's scratch slot is never retained under another lane's key, and the
\* garbage of a lane that does not decode is dropped.
CacheTruthful == \A k \in Residents(recency) : k.onCurve /\ table[k] = k.point

\* Between chunks every input is in exactly one place: still to be visited,
\* waiting in one lane of one queued chunk, or answered.  No path of
\* verify_chunk or of the driver loses an input, answers a queued one early,
\* or answers one twice; between batches nothing is left queued.
EveryInputAccounted ==
    /\ phase = "chunks" =>
          \A i \in DOMAIN batch :
             \/ i \in Unvisited     /\ i \notin QueuedInputs /\ i \notin WrittenInputs
             \/ i \notin Unvisited  /\ i \in QueuedInputs    /\ i \notin WrittenInputs
             \/ i \notin Unvisited  /\ i \notin QueuedInputs /\ i \in WrittenInputs
    /\ \A i \in DOMAIN batch : Cardinality(QueuedFor(i)) <= 1
    /\ phase \in {"idle", "done"} => pending = << >>

\* None of the panics that verify_chunk, the retention and the flushes hold is
\* reached: the queue never outgrows what a flush can take (unreachable! in
\* check_zip215_candidates, the arrays of flush_dalek_queue), its parts keep one
\* length (debug_assert_eq!), a lane that missed and decoded finds its table in
\* the scratch, and every slot is full when retain_decoded_keys takes it.
NothingPanics ==
    /\ Len(candidates) <= IF policy = "Dalek" THEN DALEK_BATCH ELSE ZIP215_BATCH
    /\ Len(candidates) = Len(rBytes) /\ Len(candidates) = Len(pending)
    /\ phase = "score" => \A i \in Misses : LaneKey(i).onCurve => scratch[i] # NoTable
    /\ phase = "retain" => \A i \in lane..LANES : scratch[i] # NoTable

\* A chunk leaves no table in the scratch, in a lane that hit or did not decode
\* no more than in one that is retained, so that no later chunk, under whatever
\* hits, finds a table there that it did not decode.
ScratchTaken == phase \notin {"score", "retain"} => scratch = NoScratch

\* A chunk whose keys fit the cache leaves them all in it, whatever was
\* retained before: the keys it hit were refreshed by their lookups, so what
\* its own insertions evict is others.
ChunkKeysStay ==
    phase = "emit" =>
        LET keys == {k \in {LaneKey(i) : i \in Lanes} : k.onCurve}
        IN  Cardinality(keys) <= bound => keys \subseteq Residents(recency)

Abstract == INSTANCE BatchVerification WITH
    state <- IF phase \in {"idle", "done"} THEN phase ELSE "verifying"

\* The caller's slice receives the verdict of the policy on each input alone.
\* It does not matter which keys are retained, which inputs share a chunk, in
\* which order they are visited, whether a chunk is scored at once or queued,
\* and when the queue is flushed.
ImplementsVerification == Abstract!Spec
=============================================================================
