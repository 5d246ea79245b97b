-------------------------- MODULE UncachedVerifier --------------------------
(***************************************************************************)
(* A verifier that retains nothing (Verifier<P, NullKeyCache>,             *)
(* src/src/verifier): verify_uncached_batch_for and verify_uncached_chunk. *)
(* Every lookup is known to miss, so every chunk decodes its keys with its *)
(* R and nothing is queued.                                                *)
(***************************************************************************)
EXTENDS ChunkPlan, Policy

CONSTANTS Batches,    \* the batches a caller may submit: sequences of inputs
          Unwritten,  \* what the caller's slice holds before the call
          NoTable     \* an empty scratch slot

ASSUME UncachedAssumption ==
    Batches \subseteq Seq(Inputs) /\ Unwritten \notin BOOLEAN /\ NoTable \notin Points

VARIABLES
    policy,   \* the type parameter P
    batch,    \* the inputs of the call
    out,      \* the caller's slice
    visit,    \* the order of visit
    pos,      \* the inputs that earlier chunks took
    scratch,  \* the key_tables of ChunkScratch
    verdict,  \* the lane results of the chunk, tmp in the code
    phase

callVars == <<policy, batch, visit>>
vars == <<callVars, out, pos, scratch, verdict, phase>>

NoLane    == [i \in Lanes |-> FALSE]
NoScratch == [i \in Lanes |-> NoTable]

Indices == ChunkIndices(visit, pos)
Active  == ActiveLanes(visit, pos)
LaneInput(i) == batch[Indices[i]]

\* A lane whose key does not decode runs on the identity's table.
TableOf(i) == IF LaneInput(i).key.onCurve THEN scratch[i] ELSE Identity

Survivors == {i \in Lanes : /\ IsCanonical(LaneInput(i).s)
                            /\ LaneInput(i).key.onCurve
                            /\ ~RejectsKey(policy, TableOf(i))}

Ladder(i) == Combination(Digits(LaneInput(i).s), LaneInput(i).k, TableOf(i))

-----------------------------------------------------------------------------
Init == /\ policy \in Policies
        /\ batch = << >>
        /\ out = << >>
        /\ visit = << >>
        /\ pos = 0
        /\ scratch = NoScratch
        /\ verdict = NoLane
        /\ phase = "idle"

Lengths(b) == [i \in DOMAIN b |-> b[i].len]

BeginBatch(b) ==
    /\ phase = "idle"
    /\ batch' = b
    /\ out' = [i \in DOMAIN b |-> Unwritten]
    /\ visit' \in IF Reorders(Lengths(b)) THEN SortedInto(Lengths(b), << >>)
                  ELSE {InOrder(Len(b))}
    /\ pos' = 0
    /\ phase' = "chunks"
    /\ UNCHANGED <<policy, scratch, verdict>>

EndBatch == /\ phase = "chunks"
            /\ pos = Len(visit)
            /\ phase' = "done"
            /\ UNCHANGED <<callVars, out, pos, scratch, verdict>>

Return == /\ phase = "done"
          /\ batch' = << >>
          /\ out' = << >>
          /\ visit' = << >>
          /\ pos' = 0
          /\ phase' = "idle"
          /\ UNCHANGED <<policy, scratch, verdict>>

-----------------------------------------------------------------------------
ChunkBegins == phase = "chunks" /\ pos < Len(visit)

\* No lane has a canonical s: nothing is decoded.
SkipChunk == /\ ChunkBegins
             /\ \A i \in Lanes : ~IsCanonical(LaneInput(i).s)
             /\ phase' = "emit"
             /\ UNCHANGED <<callVars, out, pos, scratch, verdict>>

\* decode_keys_and_r fills the scratch slot of every lane, garbage included.
DecodeChunk == /\ ChunkBegins
               /\ \E i \in Lanes : IsCanonical(LaneInput(i).s)
               /\ scratch' = [i \in Lanes |-> LaneInput(i).key.point]
               /\ phase' = "score"
               /\ UNCHANGED <<callVars, out, pos, verdict>>

\* The ladder is skipped; the scratch is emptied all the same.
RejectLanes == /\ phase = "score"
               /\ Survivors = {}
               /\ scratch' = NoScratch
               /\ phase' = "emit"
               /\ UNCHANGED <<callVars, out, pos, verdict>>

\* The tables left in the scratch after the ladder (faulty)
ScoreLanesKeepingScratch ==
    /\ phase = "score"
    /\ Survivors # {}
    /\ verdict' = [i \in Lanes |-> Score(policy, Ladder(i), LaneInput(i).r, i \in Survivors)]
    /\ phase' = "emit"
    /\ UNCHANGED <<callVars, out, pos, scratch>>

ScoreLanes ==
    /\ phase = "score"
    /\ Survivors # {}
    /\ verdict' = [i \in Lanes |-> Score(policy, Ladder(i), LaneInput(i).r, i \in Survivors)]
    /\ scratch' = NoScratch
    /\ phase' = "emit"
    /\ UNCHANGED <<callVars, out, pos>>

\* The chunk reported lane by lane in the order of the slice (faulty)
ReportInPlace ==
    /\ phase = "emit"
    /\ out' = [i \in DOMAIN out |->
                 IF i - pos \in 1..Active THEN verdict[i - pos] ELSE out[i]]
    /\ pos' = pos + Active
    /\ verdict' = NoLane
    /\ phase' = "chunks"
    /\ UNCHANGED <<callVars, scratch>>

\* The driver's callback after verify_uncached_chunk
ReportLanes ==
    /\ phase = "emit"
    /\ out' = [i \in DOMAIN out |->
                 IF \E l \in 1..Active : Indices[l] = i
                 THEN verdict[CHOOSE l \in 1..Active : Indices[l] = i]
                 ELSE out[i]]
    /\ pos' = pos + Active
    /\ verdict' = NoLane
    /\ phase' = "chunks"
    /\ UNCHANGED <<callVars, scratch>>

Next == \/ \E b \in Batches : BeginBatch(b)
        \/ SkipChunk \/ DecodeChunk
        \/ RejectLanes \/ ScoreLanes
        \/ ReportLanes
        \/ EndBatch \/ Return

Spec == Init /\ [][Next]_vars

-----------------------------------------------------------------------------
\* A kilobyte-sized table outlives its chunk on no path through it, and the
\* slots a ladder reads are full: the `expect`s of verify_uncached_chunk hold.
ScratchTaken == /\ phase = "score" => NoTable \notin {scratch[i] : i \in Lanes}
                /\ phase # "score" => scratch = NoScratch

Abstract == INSTANCE BatchVerification WITH
    state <- IF phase \in {"idle", "done"} THEN phase ELSE "verifying"

\* The caller's slice receives the verdict of the policy on each input alone:
\* the verifier without a cache keeps the promise the one with a cache keeps,
\* so the two never disagree on an input.
ImplementsVerification == Abstract!Spec
=============================================================================
