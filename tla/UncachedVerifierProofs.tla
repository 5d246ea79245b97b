----------------------- MODULE UncachedVerifierProofs -----------------------
(***************************************************************************)
(* Proofs about UncachedVerifier for every number of lanes and every set   *)
(* of batches.                                                             *)
(*                                                                         *)
(* IInv has three parts: where the call stands; that the scratch holds the *)
(* keys of the chunk while it is scored and nothing at any other time, and *)
(* the verdicts are those of the chunk's inputs; and that the answered     *)
(* inputs are the ones taken, with their verdicts.                         *)
(***************************************************************************)
EXTENDS UncachedVerifier, SharedProofs

Phases  == {"idle", "chunks", "score", "emit", "done"}
InChunk == phase \in {"score", "emit"}

CallInv ==
    /\ policy \in Policies
    /\ phase \in Phases
    /\ batch \in Seq(Inputs)
    /\ IsVisitOrder(visit, Len(batch))
    /\ pos \in 0..Len(batch)
    /\ InChunk => pos < Len(batch)
    /\ phase = "idle" => batch = << >>
    /\ phase = "done" => pos = Len(batch)

ChunkInv ==
    /\ scratch = IF phase = "score" THEN [i \in Lanes |-> LaneInput(i).key.point] ELSE NoScratch
    /\ verdict \in [Lanes -> BOOLEAN]
    /\ phase # "emit" => verdict = NoLane
    /\ phase = "emit" => \A i \in Lanes : verdict[i] = Verdict(policy, LaneInput(i))

OutInv ==
    /\ out \in [1..Len(batch) -> BOOLEAN \cup {Unwritten}]
    /\ \A i \in 1..Len(batch) :
          /\ out[i] # Unwritten <=> i \in Taken(visit, pos)
          /\ out[i] # Unwritten => out[i] = Verdict(policy, batch[i])

IInv == CallInv /\ ChunkInv /\ OutInv

-----------------------------------------------------------------------------
(***************************************************************************)
(* The chunk at hand                                                       *)
(***************************************************************************)
LEMMA NoLocals == NoLane \in [Lanes -> BOOLEAN] /\ \A i \in Lanes : NoLane[i] = FALSE
BY DEF NoLane

LEMMA LanesHoldInputs ==
    ASSUME CallInv, pos < Len(batch)
    PROVE  /\ Len(batch) \in Nat /\ pos \in 0..(Len(batch) - 1)
           /\ Active \in Lanes /\ pos + Active \in 1..Len(batch)
           /\ \A i \in Lanes : Indices[i] \in 1..Len(batch) /\ LaneInput(i) \in Inputs
<1>1. /\ Len(batch) \in Nat /\ pos \in 0..(Len(batch) - 1)
      /\ \A j \in 1..Len(batch) : batch[j] \in Inputs
  BY LenProperties, ElementOfSeq DEF CallInv
<1>2. /\ Active \in Lanes /\ pos + Active \in 1..Len(batch)
      /\ \A i \in Lanes : Indices[i] \in 1..Len(batch)
  BY <1>1, ChunkLanes DEF CallInv, Active, Indices
<1> QED BY <1>1, <1>2 DEF LaneInput

LEMMA LanesStay ==
    ASSUME batch' = batch, visit' = visit, pos' = pos
    PROVE  \A i : LaneInput(i)' = LaneInput(i)
BY DEF Indices, LaneInput, ChunkIndices

\* The scratch holds the table of each lane's input while the lane is scored.
LEMMA LanesScoreTheirInputs ==
    ASSUME CallInv, ChunkInv, phase = "score", NEW i \in Lanes
    PROVE  /\ LaneInput(i) \in Inputs
           /\ Ladder(i) = LadderEnd(LaneInput(i))
           /\ (i \in Survivors) = Eligible(policy, LaneInput(i))
<1>1. LaneInput(i) \in Inputs
  BY LanesHoldInputs DEF CallInv, InChunk
<1>2. TableOf(i) = KeyTable(LaneInput(i))
  BY DEF ChunkInv, TableOf, KeyTable
<1>3. Ladder(i) = LadderEnd(LaneInput(i))
  BY <1>2 DEF Ladder, LadderEnd
<1>4. i \in Survivors <=> Eligible(policy, LaneInput(i))
  BY <1>2 DEF Survivors, Eligible
<1>5. (i \in Survivors) \in BOOLEAN /\ Eligible(policy, LaneInput(i)) \in BOOLEAN
  BY <1>1, Booleans
<1> QED BY <1>1, <1>3, <1>4, <1>5

\* An input whose scalar is not canonical fails.
LEMMA SkippedFail ==
    ASSUME CallInv, pos < Len(batch), NEW i \in Lanes, ~IsCanonical(LaneInput(i).s)
    PROVE  Verdict(policy, LaneInput(i)) = FALSE
<1>1. LaneInput(i) \in Inputs /\ ~Eligible(policy, LaneInput(i))
  BY LanesHoldInputs DEF Eligible
<1> QED BY <1>1, IneligibleFails

-----------------------------------------------------------------------------
(***************************************************************************)
(* IInv is inductive.                                                      *)
(***************************************************************************)
LEMMA NoInputs ==
    << >> \in Seq(Inputs) /\ Len(<< >>) = 0 /\ IsVisitOrder(<< >>, 0) /\ 1..0 = {}
<1>1. << >> \in Seq(Inputs) /\ Len(<< >>) = 0
  BY EmptySeq
<1>2. 1..0 = {}
  OBVIOUS
<1> QED BY <1>1, <1>2 DEF IsVisitOrder

\* Every order BeginBatch may choose visits the whole batch.
LEMMA BeginVisitsAll ==
    ASSUME NEW b \in Seq(Inputs),
           NEW o \in IF Reorders(Lengths(b)) THEN SortedInto(Lengths(b), << >>)
                     ELSE {InOrder(Len(b))}
    PROVE  IsVisitOrder(o, Len(b))
<1>1. Len(b) \in Nat /\ DOMAIN Lengths(b) = 1..Len(b)
  BY LenProperties DEF Lengths
<1> QED BY <1>1, SortedVisitsAll, InOrderVisitsAll DEF SortedInto

LEMMA InitHolds == Init => IInv
BY NoInputs, NoLocals DEF Init, IInv, CallInv, ChunkInv, OutInv, Phases, InChunk

LEMMA BeginHolds == ASSUME IInv, NEW b \in Batches, BeginBatch(b) PROVE IInv'
<1>1. b \in Seq(Inputs) /\ Len(b) \in Nat /\ DOMAIN b = 1..Len(b)
  BY UncachedAssumption, LenProperties
<1>2. /\ phase = "idle" /\ phase' = "chunks" /\ batch' = b /\ pos' = 0 /\ policy' = policy
      /\ out' = [i \in 1..Len(b) |-> Unwritten] /\ scratch' = scratch /\ verdict' = verdict
  BY <1>1 DEF BeginBatch
<1>3. IsVisitOrder(visit', Len(b))
  BY <1>1, BeginVisitsAll DEF BeginBatch
<1>4. CallInv'
  BY <1>1, <1>2, <1>3 DEF IInv, CallInv, Phases, InChunk
<1>5. ChunkInv'
  BY <1>2 DEF IInv, ChunkInv
<1>6. OutInv'
  BY <1>1, <1>2, NothingTaken DEF OutInv
<1> QED BY <1>4, <1>5, <1>6 DEF IInv

\* Within a chunk the caller's slice waits and the locals follow the inputs.
LEMMA ChunkHolds ==
    ASSUME IInv, SkipChunk \/ DecodeChunk \/ RejectLanes \/ ScoreLanes PROVE IInv'
<1> USE DEF IInv
<1>1. /\ policy' = policy /\ batch' = batch /\ visit' = visit /\ pos' = pos /\ out' = out
      /\ phase \in {"chunks", "score"} /\ phase' \in {"score", "emit"}
  BY DEF SkipChunk, DecodeChunk, RejectLanes, ScoreLanes, ChunkBegins, callVars
<1>2. pos < Len(batch)
  BY VisitOrderLength, LenProperties
  DEF SkipChunk, DecodeChunk, RejectLanes, ScoreLanes, ChunkBegins, CallInv, InChunk
<1>3. CallInv'
  BY <1>1, <1>2 DEF CallInv, Phases, InChunk
<1>4. OutInv'
  BY <1>1 DEF OutInv
<1>5. \A i : LaneInput(i)' = LaneInput(i)
  BY <1>1, LanesStay
<1>6. ChunkInv'
  <2>1. CASE SkipChunk
    <3>1. /\ phase = "chunks" /\ phase' = "emit" /\ scratch' = scratch /\ verdict' = verdict
      BY <2>1 DEF SkipChunk, ChunkBegins
    <3>2. \A i \in Lanes : Verdict(policy, LaneInput(i)) = FALSE
      BY <1>2, <2>1, SkippedFail DEF SkipChunk
    <3>3. \A i \in Lanes : verdict'[i] = Verdict(policy', LaneInput(i)')
      BY <1>1, <1>5, <3>1, <3>2, NoLocals DEF ChunkInv
    <3> QED BY <3>1, <3>3 DEF ChunkInv
  <2>2. CASE DecodeChunk
    <3>1. /\ phase' = "score" /\ verdict' = NoLane
          /\ scratch' = [i \in Lanes |-> LaneInput(i).key.point]
      BY <2>2 DEF DecodeChunk, ChunkBegins, ChunkInv
    <3>2. scratch' = [i \in Lanes |-> LaneInput(i)'.key.point]
      BY <1>5, <3>1
    <3> QED BY <3>1, <3>2, NoLocals DEF ChunkInv
  <2>3. CASE RejectLanes
    <3>1. /\ phase = "score" /\ phase' = "emit" /\ scratch' = NoScratch /\ verdict' = NoLane
      BY <2>3 DEF RejectLanes, ChunkInv
    <3>2. ASSUME NEW i \in Lanes PROVE verdict'[i] = Verdict(policy', LaneInput(i)')
      <4>1. LaneInput(i) \in Inputs /\ ~Eligible(policy, LaneInput(i))
        BY <2>3, <3>1, LanesScoreTheirInputs DEF RejectLanes
      <4> QED BY <1>1, <1>5, <3>1, <4>1, IneligibleFails, NoLocals
    <3> QED BY <3>1, <3>2, NoLocals DEF ChunkInv
  <2>4. CASE ScoreLanes
    <3>1. /\ phase = "score" /\ phase' = "emit" /\ scratch' = NoScratch
          /\ verdict' = [i \in Lanes |-> Score(policy, Ladder(i), LaneInput(i).r, i \in Survivors)]
      BY <2>4 DEF ScoreLanes
    <3>2. ASSUME NEW i \in Lanes
          PROVE  /\ Score(policy, Ladder(i), LaneInput(i).r, i \in Survivors)
                      = Verdict(policy, LaneInput(i))
                 /\ Verdict(policy, LaneInput(i)) \in BOOLEAN
      BY <3>1, LanesScoreTheirInputs, ScoreIsVerdict, Booleans DEF CallInv
    <3>3. verdict' \in [Lanes -> BOOLEAN]
      BY <3>1, <3>2
    <3>4. \A i \in Lanes : verdict'[i] = Verdict(policy', LaneInput(i)')
      BY <1>1, <1>5, <3>1, <3>2
    <3> QED BY <3>1, <3>3, <3>4 DEF ChunkInv
  <2> QED BY <2>1, <2>2, <2>3, <2>4
<1> QED BY <1>3, <1>4, <1>6

\* A report writes the verdicts of the inputs in the active lanes.
LEMMA ReportIs ==
    ASSUME IInv, ReportLanes
    PROVE  /\ out' = [i \in 1..Len(batch) |-> IF \E l \in 1..Active : Indices[l] = i
                                              THEN Verdict(policy, batch[i])
                                              ELSE out[i]]
           /\ \A i \in 1..Len(batch) :
                 /\ (\E l \in 1..Active : Indices[l] = i) => i \notin Taken(visit, pos)
                 /\ i \in Taken(visit, pos + Active)
                      <=> i \in Taken(visit, pos) \/ \E l \in 1..Active : Indices[l] = i
                 /\ Verdict(policy, batch[i]) \in BOOLEAN /\ Verdict(policy, batch[i]) # Unwritten
<1> USE DEF IInv
<1>1. pos < Len(batch) /\ \A i \in Lanes : verdict[i] = Verdict(policy, LaneInput(i))
  BY DEF ReportLanes, CallInv, ChunkInv, InChunk
<1>2. /\ Len(batch) \in Nat /\ pos \in 0..(Len(batch) - 1) /\ IsVisitOrder(visit, Len(batch))
      /\ \A l \in 1..Active : l \in Lanes
  BY <1>1, LanesHoldInputs, PlanAssumption DEF CallInv, Lanes
<1>3. ASSUME NEW i \in 1..Len(batch), \E l \in 1..Active : Indices[l] = i
      PROVE  verdict[CHOOSE l \in 1..Active : Indices[l] = i] = Verdict(policy, batch[i])
  <2> DEFINE at == CHOOSE l \in 1..Active : Indices[l] = i
  <2>1. at \in 1..Active /\ Indices[at] = i
    BY <1>3
  <2> HIDE DEF at
  <2>2. verdict[at] = Verdict(policy, batch[i])
    BY <1>1, <1>2, <2>1 DEF LaneInput
  <2> QED BY <2>2 DEF at
<1>4. DOMAIN out = 1..Len(batch)
  BY DEF OutInv
<1>5. ASSUME NEW i \in 1..Len(batch)
      PROVE  Verdict(policy, batch[i]) \in BOOLEAN /\ Verdict(policy, batch[i]) # Unwritten
  <2>1. batch[i] \in Inputs
    BY ElementOfSeq DEF CallInv
  <2> QED BY <2>1, Booleans, UncachedAssumption
<1>6. ASSUME NEW i \in 1..Len(batch)
      PROVE  /\ (\E l \in 1..Active : Indices[l] = i) => i \notin Taken(visit, pos)
             /\ i \in Taken(visit, pos + Active)
                  <=> i \in Taken(visit, pos) \/ \E l \in 1..Active : Indices[l] = i
  BY <1>2, ChunkTakes DEF Indices, Active
<1> QED BY <1>3, <1>4, <1>5, <1>6 DEF ReportLanes

LEMMA ReportHolds == ASSUME IInv, ReportLanes PROVE IInv'
<1> USE DEF IInv
<1>1. /\ policy' = policy /\ batch' = batch /\ visit' = visit /\ pos' = pos + Active
      /\ phase = "emit" /\ phase' = "chunks" /\ scratch' = scratch /\ verdict' = NoLane
  BY DEF ReportLanes, callVars
<1>2. pos + Active \in 1..Len(batch) /\ Len(batch) \in Nat
  BY <1>1, LanesHoldInputs DEF CallInv, InChunk
<1>3. CallInv'
  BY <1>1, <1>2 DEF CallInv, Phases, InChunk
<1>4. ChunkInv'
  BY <1>1, NoLocals DEF ChunkInv
<1>5. OutInv'
  <2>1. ASSUME NEW i \in 1..Len(batch)
        PROVE  /\ out'[i] # Unwritten <=> i \in Taken(visit, pos + Active)
               /\ out'[i] # Unwritten => out'[i] = Verdict(policy, batch[i])
               /\ out'[i] \in BOOLEAN \cup {Unwritten}
    <3>1. out'[i] = IF \E l \in 1..Active : Indices[l] = i
                    THEN Verdict(policy, batch[i]) ELSE out[i]
      BY ReportIs
    <3> QED BY <3>1, ReportIs DEF OutInv
  <2>2. out' \in [1..Len(batch) -> BOOLEAN \cup {Unwritten}]
    BY <2>1, ReportIs
  <2> QED BY <1>1, <2>1, <2>2 DEF OutInv
<1> QED BY <1>3, <1>4, <1>5

LEMMA NextHolds == ASSUME IInv, [Next]_vars PROVE IInv'
<1>1. Len(batch) \in Nat /\ Len(visit) = Len(batch)
  BY LenProperties, VisitOrderLength DEF IInv, CallInv
<1>2. CASE EndBatch
  BY <1>1, <1>2 DEF EndBatch, callVars, IInv, CallInv, ChunkInv, OutInv, Phases, InChunk
<1>3. CASE Return
  BY <1>3, NoInputs DEF Return, IInv, CallInv, ChunkInv, OutInv, Phases, InChunk
<1>4. CASE UNCHANGED vars
  <2>1. \A i : LaneInput(i)' = LaneInput(i)
    BY <1>4, LanesStay DEF vars, callVars
  <2>2. CallInv' /\ OutInv'
    BY <1>4 DEF vars, callVars, IInv, CallInv, OutInv, InChunk
  <2>3. ChunkInv'
    BY <1>4, <2>1 DEF vars, callVars, IInv, ChunkInv
  <2> QED BY <2>2, <2>3 DEF IInv
<1> QED BY <1>2, <1>3, <1>4, BeginHolds, ChunkHolds, ReportHolds DEF Next

LEMMA Inductive == Spec => []IInv
BY InitHolds, NextHolds, PTL DEF Spec

\* For every number of lanes and every batch: the scratch is full when a ladder
\* reads it, and empty whenever no chunk is being scored.
THEOREM ScratchIsTaken == Spec => []ScratchTaken
<1>1. IInv => ScratchTaken
  <2> SUFFICES ASSUME IInv PROVE ScratchTaken
    OBVIOUS
  <2>1. ASSUME phase = "score", NEW i \in Lanes PROVE scratch[i] # NoTable
    <3>1. LaneInput(i) \in Inputs /\ scratch[i] = LaneInput(i).key.point
      BY <2>1, LanesScoreTheirInputs DEF IInv, ChunkInv
    <3> QED BY <3>1, InputFields, UncachedAssumption
  <2>2. phase # "score" => scratch = NoScratch
    BY DEF IInv, ChunkInv
  <2> QED BY <2>1, <2>2 DEF ScratchTaken
<1> QED BY <1>1, Inductive, PTL

-----------------------------------------------------------------------------
(***************************************************************************)
(* The refinement of BatchVerification                                     *)
(***************************************************************************)
\* The equation the abstract verifier states for its policy is the verdict.
LEMMA AcceptsIsVerdict == \A i : Abstract!Accepts(i) = Verdict(policy, i)
<1> SUFFICES ASSUME NEW i PROVE Abstract!Accepts(i) = Verdict(policy, i)
  OBVIOUS
<1>1. Abstract!Accepts(i) <=> Verdict(policy, i)
  BY DEF Abstract!Accepts, Abstract!DalekAccepts, Abstract!Zip215Accepts, Verdict, IsCanonical,
         Abstract!IsSmallOrder, Abstract!EqualUpToTorsion, Abstract!Combination,
         Abstract!Compressed, Abstract!Minus, Abstract!Multiple, Abstract!XIsOdd,
         Abstract!Identity, Abstract!Base, Abstract!Order,
         IsSmallOrder, EqualUpToTorsion, Combination,
         Compressed, Minus, Multiple, XIsOdd, Identity, Base, Order
<1>2. Abstract!Accepts(i) \in BOOLEAN /\ Verdict(policy, i) \in BOOLEAN
  BY DEF Abstract!Accepts, Abstract!DalekAccepts, Abstract!Zip215Accepts, Verdict
<1> QED BY <1>1, <1>2

\* A report writes verdicts where none were.
LEMMA ReportRefines == ASSUME IInv, ReportLanes PROVE Abstract!Write
<1> DEFINE due == {i \in DOMAIN batch : \E l \in 1..Active : Indices[l] = i}
<1>1. /\ policy' = policy /\ batch' = batch /\ phase = "emit" /\ phase' = "chunks"
  BY DEF ReportLanes, callVars
<1>2. DOMAIN batch = 1..Len(batch)
  BY LenProperties DEF IInv, CallInv
<1>3. due \in SUBSET {i \in DOMAIN batch : out[i] = Unwritten}
  BY <1>2, ReportIs DEF IInv, OutInv
<1>4. out' = [i \in DOMAIN batch |-> IF i \in due THEN Abstract!Accepts(batch[i]) ELSE out[i]]
  BY <1>2, ReportIs, AcceptsIsVerdict
<1>5. \E done \in SUBSET {i \in DOMAIN batch : out[i] = Unwritten} :
         out' = [i \in DOMAIN batch |-> IF i \in done THEN Abstract!Accepts(batch[i]) ELSE out[i]]
  <2> HIDE DEF due
  <2> QED BY <1>3, <1>4
<1> QED BY <1>1, <1>5 DEF Abstract!Write

\* When the call ends nothing is left to write.
LEMMA EndRefines == ASSUME IInv, EndBatch PROVE Abstract!Write
<1>1. /\ policy' = policy /\ batch' = batch /\ out' = out /\ phase = "chunks" /\ phase' = "done"
  BY DEF EndBatch, callVars
<1>2. DOMAIN batch = 1..Len(batch) /\ out = [i \in DOMAIN batch |-> out[i]]
  BY LenProperties DEF IInv, CallInv, OutInv
<1>3. \A i \in DOMAIN batch : out'[i] # Unwritten
  <2>1. /\ Len(batch) \in Nat /\ pos = Len(batch) /\ IsVisitOrder(visit, Len(batch))
    BY VisitOrderLength, LenProperties DEF EndBatch, IInv, CallInv
  <2>2. Taken(visit, pos) = 1..Len(batch)
    BY <2>1, AllTaken
  <2> QED BY <1>1, <1>2, <2>2 DEF IInv, OutInv
<1>4. \E done \in SUBSET {i \in DOMAIN batch : out[i] = Unwritten} :
         out' = [i \in DOMAIN batch |-> IF i \in done THEN Abstract!Accepts(batch[i]) ELSE out[i]]
  <2>1. {} \in SUBSET {i \in DOMAIN batch : out[i] = Unwritten}
    OBVIOUS
  <2>2. out' = [i \in DOMAIN batch |-> IF i \in {} THEN Abstract!Accepts(batch[i]) ELSE out[i]]
    BY <1>1, <1>2
  <2> QED BY <2>1, <2>2
<1> QED BY <1>1, <1>3, <1>4 DEF Abstract!Write

LEMMA NextRefines == ASSUME IInv, [Next]_vars PROVE [Abstract!Next]_Abstract!vars
<1>1. CASE UNCHANGED vars
  BY <1>1 DEF vars, callVars, Abstract!vars
<1>2. ASSUME NEW b \in Batches, BeginBatch(b) PROVE Abstract!Next
  <2>1. Abstract!Submit(b)
    BY <1>2 DEF BeginBatch, Abstract!Submit
  <2> QED BY <2>1 DEF Abstract!Next
<1>3. CASE ReportLanes \/ EndBatch
  BY <1>3, ReportRefines, EndRefines DEF Abstract!Next
<1>4. CASE Return
  <2>1. Abstract!Return
    BY <1>4 DEF Return, Abstract!Return
  <2> QED BY <2>1 DEF Abstract!Next
<1>5. CASE SkipChunk \/ DecodeChunk \/ RejectLanes \/ ScoreLanes
  BY <1>5 DEF SkipChunk, DecodeChunk, RejectLanes, ScoreLanes, ChunkBegins, callVars, Abstract!vars
<1> QED BY <1>1, <1>2, <1>3, <1>4, <1>5 DEF Next

\* Every run of the verifier without a cache is a run of the verifier that writes
\* the verdict of the policy on each input alone, as every run of the verifier
\* with a cache is: whether keys are retained is not to be seen in any verdict.
THEOREM VerifiesEachAlone == Spec => ImplementsVerification
<1>1. Init => Abstract!Init
  BY DEF Init, Abstract!Init, Abstract!Policies, Policies
<1>2. IInv /\ [Next]_vars => [Abstract!Next]_Abstract!vars
  BY NextRefines
<1> QED BY <1>1, <1>2, Inductive, PTL DEF Spec, ImplementsVerification, Abstract!Spec

-----------------------------------------------------------------------------
(***************************************************************************)
(* The chunk plan by itself.  Batch counts the visits of every input; it   *)
(* is taken here for the lengths of the messages of the batches.           *)
(***************************************************************************)
VARIABLES lens, visitOrder, order, chunk, visits

Plan == INSTANCE Batch WITH Batches <- {Lengths(b) : b \in Batches}

\* The inputs of the chunks so far have been visited once, the others not yet.
\* It also says what the call's locals are between calls, where nothing is taken.
VisitInv ==
    /\ phase \in {"idle", "visiting"}
    /\ lens \in Seq(Int)
    /\ phase = "idle" => lens = << >>
    /\ IsVisitOrder(order, Len(lens))
    /\ pos \in 0..Len(lens)
    /\ visits = [i \in 1..Len(lens) |-> IF i \in Taken(order, pos) THEN 1 ELSE 0]

\* The plan of Batch is the plan of the verifier.
LEMMA SamePlan ==
    /\ Plan!Lanes = Lanes
    /\ \A n : Plan!InOrder(n) = InOrder(n)
    /\ \A ls, before : Plan!SortedInto(ls, before) = SortedOrders(ls)
    /\ \A o, p : /\ Plan!ActiveLanes(o, p) = ActiveLanes(o, p)
                 /\ Plan!ChunkIndices(o, p) = ChunkIndices(o, p)
    /\ \A S : Plan!Cardinality(S) = Cardinality(S)
<1>1. Plan!Lanes = Lanes
  BY DEF Plan!Lanes, Lanes
<1>2. \A n : Plan!InOrder(n) = InOrder(n)
  BY DEF Plan!InOrder, InOrder
<1>3. \A m : Plan!ChallengeBlockCount(m) = ChallengeBlockCount(m)
  BY DEF Plan!ChallengeBlockCount, Plan!DivCeil, Plan!SaturatingAdd,
         ChallengeBlockCount, DivCeil, SaturatingAdd
<1>4. \A ls, before : Plan!SortedInto(ls, before) = SortedOrders(ls)
  BY <1>3 DEF Plan!SortedInto, Plan!SortedOrders, SortedOrders
<1>5. \A o, p : Plan!ActiveLanes(o, p) = ActiveLanes(o, p)
  BY DEF Plan!ActiveLanes, ActiveLanes
<1>6. \A o, p : Plan!ChunkIndices(o, p) = ChunkIndices(o, p)
  BY <1>1 DEF Plan!ChunkIndices, ChunkIndices
<1>7. \A S : Plan!Cardinality(S) = Cardinality(S)
  BY DEF Plan!Cardinality, Cardinality, Plan!IsFiniteSet, IsFiniteSet
<1> QED BY <1>1, <1>2, <1>4, <1>5, <1>6, <1>7

LEMMA NothingToVisit ==
    /\ << >> \in Seq(Int) /\ Len(<< >>) = 0
    /\ IsVisitOrder(<< >>, 0)
    /\ \A o : << >> = [i \in 1..0 |-> IF i \in Taken(o, 0) THEN 1 ELSE 0]
<1>1. << >> \in Seq(Int) /\ Len(<< >>) = 0
  BY EmptySeq
<1> QED BY <1>1, NoInputs DEF IsVisitOrder

LEMMA FirstVisits == Plan!Init => VisitInv
BY NothingToVisit DEF Plan!Init, VisitInv

\* A call begins with nothing visited, in an order of all its inputs.
LEMMA BeginVisits ==
    ASSUME NEW b \in Batches, Plan!BeginSorted(Lengths(b)) \/ Plan!BeginInOrder(Lengths(b))
    PROVE  VisitInv'
<1> DEFINE ls == Lengths(b)
           n  == Len(b)
<1>1. n \in Nat /\ ls \in [1..n -> Int]
  <2>1. b \in Seq(Inputs) /\ n \in Nat /\ DOMAIN b = 1..n
    BY UncachedAssumption, LenProperties
  <2>2. ASSUME NEW i \in 1..n PROVE b[i].len \in Int
    <3>1. b[i] \in Inputs
      BY <2>1, ElementOfSeq
    <3> QED BY <3>1 DEF Inputs
  <2> QED BY <2>1, <2>2 DEF Lengths
<1>2. ls \in Seq(Int) /\ Len(ls) = n /\ DOMAIN ls = 1..n
  BY <1>1, SequenceOfLength
<1> HIDE DEF ls, n
<1>3. IsVisitOrder(order', n)
  <2>1. CASE Plan!BeginSorted(ls)
    BY <1>1, <1>2, <2>1, SamePlan, SortedVisitsAll DEF Plan!BeginSorted
  <2>2. CASE Plan!BeginInOrder(ls)
    BY <1>1, <1>2, <2>2, SamePlan, InOrderVisitsAll DEF Plan!BeginInOrder
  <2> QED BY <2>1, <2>2 DEF ls
<1>4. lens' = ls /\ pos' = 0 /\ phase' = "visiting" /\ visits' = [i \in 1..n |-> 0]
  BY <1>2 DEF ls, Plan!BeginSorted, Plan!BeginInOrder
<1> QED BY <1>1, <1>2, <1>3, <1>4, NothingTaken DEF VisitInv

\* A chunk visits each of the inputs it takes once more, and no other.
LEMMA ChunkVisits ==
    ASSUME VisitInv, phase = "visiting", pos < Len(lens), Plan!Visit,
           pos' = pos + ActiveLanes(order, pos)
    PROVE  VisitInv'
<1> DEFINE n == Len(lens)
           a == ActiveLanes(order, pos)
           c == ChunkIndices(order, pos)
           held(i) == {lane \in 1..a : c[lane] = i}
<1>1. n \in Nat /\ pos \in 0..(n - 1) /\ IsVisitOrder(order, n)
  BY LenProperties DEF VisitInv
<1>2. a \in Nat /\ pos + a \in 1..n
  BY <1>1, ChunkLanes, PlanAssumption DEF Lanes
<1>3. /\ visits' = [i \in 1..n |-> visits[i] + Cardinality(held(i))]
      /\ lens' = lens /\ order' = order /\ phase' = phase /\ pos' = pos + a
  BY SamePlan DEF VisitInv, Plan!Visit
<1>4. ASSUME NEW i \in 1..n
      PROVE  visits'[i] = IF i \in Taken(order, pos + a) THEN 1 ELSE 0
  <2>1. visits[i] = IF i \in Taken(order, pos) THEN 1 ELSE 0
    BY DEF VisitInv
  <2>2. CASE \E l \in 1..a : c[l] = i
    <3>1. PICK l \in 1..a : c[l] = i
      BY <2>2
    <3>2. held(i) = {l}
      BY <1>1, <3>1, LanesDiffer
    <3>3. Cardinality(held(i)) = 1
      BY <3>2, FS_Singleton
    <3>4. i \in Taken(order, pos + a) /\ i \notin Taken(order, pos)
      BY <1>1, <2>2, ChunkTakes
    <3> QED BY <1>3, <2>1, <3>3, <3>4
  <2>3. CASE ~ \E l \in 1..a : c[l] = i
    <3>1. held(i) = {}
      BY <2>3
    <3>2. Cardinality(held(i)) = 0
      BY <3>1, FS_EmptySet
    <3>3. i \in Taken(order, pos + a) <=> i \in Taken(order, pos)
      BY <1>1, <2>3, ChunkTakes
    <3> QED BY <1>3, <2>1, <3>2, <3>3
  <2> QED BY <2>2, <2>3
<1>5. visits' = [i \in 1..n |-> IF i \in Taken(order, pos + a) THEN 1 ELSE 0]
  <2> HIDE DEF n, a, c, held
  <2>1. visits' = [i \in 1..n |-> visits'[i]]
    BY <1>3
  <2> QED BY <1>4, <2>1, Zenon
<1>6. /\ phase' = "visiting" /\ lens' \in Seq(Int) /\ Len(lens') = n
      /\ IsVisitOrder(order', n) /\ pos' \in 0..n
      /\ visits' = [i \in 1..n |-> IF i \in Taken(order', pos') THEN 1 ELSE 0]
  <2> HIDE DEF a, c, held
  <2>1. phase' = "visiting" /\ lens' \in Seq(Int) /\ Len(lens') = n
    BY <1>3 DEF VisitInv
  <2>2. IsVisitOrder(order', n) /\ pos' \in 0..n
    BY <1>1, <1>2, <1>3
  <2>3. visits' = [i \in 1..n |-> IF i \in Taken(order', pos') THEN 1 ELSE 0]
    BY <1>3, <1>5, Zenon
  <2> QED BY <2>1, <2>2, <2>3
<1> HIDE DEF n
<1> QED BY <1>6 DEF VisitInv

LEMMA StepVisits == ASSUME VisitInv, [Plan!Next]_(Plan!vars) PROVE VisitInv'
<1>1. Len(lens) \in Nat /\ Len(order) = Len(lens) /\ LANES \in Nat
  BY LenProperties, VisitOrderLength, PlanAssumption DEF VisitInv
<1>2. ASSUME NEW b \in Batches,
             Plan!BeginSorted(Lengths(b)) \/ Plan!BeginInOrder(Lengths(b))
      PROVE  VisitInv'
  BY <1>2, BeginVisits
<1>3. CASE Plan!VisitFull
  <2>1. pos < Len(lens) /\ pos' = pos + ActiveLanes(order, pos)
    BY <1>1, <1>3, PlanAssumption DEF Plan!VisitFull, ActiveLanes, VisitInv
  <2> QED BY <1>3, <2>1, ChunkVisits DEF Plan!VisitFull
<1>4. CASE Plan!VisitTail
  <2>1. pos < Len(lens) /\ pos' = pos + ActiveLanes(order, pos)
    BY <1>1, <1>4, PlanAssumption DEF Plan!VisitTail, ActiveLanes, VisitInv
  <2> QED BY <1>4, <2>1, ChunkVisits DEF Plan!VisitTail
<1>5. CASE Plan!Return
  BY <1>5, NothingToVisit DEF Plan!Return, VisitInv
<1>6. CASE UNCHANGED Plan!vars
  BY <1>6 DEF Plan!vars, VisitInv
<1> QED BY <1>2, <1>3, <1>4, <1>5, <1>6 DEF Plan!Next

\* For every number of lanes, every batch and whatever earlier batches left in
\* the buffer: when a call has taken its last chunk, every input has been visited
\* in exactly one active lane.
THEOREM EachInputVisitedOnce == Plan!Spec => []Plan!EveryInputOnce
<1>1. VisitInv => Plan!EveryInputOnce
  <2> SUFFICES ASSUME VisitInv, pos = Len(order), NEW i \in DOMAIN lens
               PROVE  visits[i] = 1
    BY DEF Plan!EveryInputOnce
  <2>1. Len(lens) \in Nat /\ Len(order) = Len(lens) /\ i \in 1..Len(lens)
    BY LenProperties, VisitOrderLength DEF VisitInv
  <2>2. i \in Taken(order, pos)
    BY <2>1, AllTaken DEF VisitInv
  <2> QED BY <2>1, <2>2 DEF VisitInv
<1> QED BY FirstVisits, StepVisits, <1>1, PTL DEF Plan!Spec
=============================================================================
