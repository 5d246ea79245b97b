------------------------------- MODULE Batch -------------------------------
(***************************************************************************)
(* for_each_simd_chunk (src/src/batch.rs), called for one batch after      *)
(* another with the same visit_order buffer: the choice of the order, the  *)
(* visits of the full chunks and the visit of the padded tail.             *)
(***************************************************************************)
EXTENDS ChunkPlan, FiniteSets

CONSTANTS Batches   \* the batches of a caller, each the lengths of its messages

ASSUME BatchAssumption == Batches \subseteq Seq(Nat)

VARIABLES
    lens,        \* the batch at hand
    visitOrder,  \* the buffer that outlives the call
    order,       \* the order of this batch
    pos,         \* how many inputs earlier chunks have taken
    chunk,       \* the last chunk visited
    visits,      \* how often each input was visited in an active lane
    phase        \* "visiting" inside the call

vars == <<lens, visitOrder, order, pos, chunk, visits, phase>>

NoChunk == [indices |-> << >>, active |-> 0]

Init == /\ lens = << >>
        /\ visitOrder = << >>
        /\ order = << >>
        /\ pos = 0
        /\ chunk = NoChunk
        /\ visits = << >>
        /\ phase = "idle"

\* The call takes a batch that is worth sorting.
BeginSorted(b) == /\ phase = "idle"
                  /\ Reorders(b)
                  /\ lens' = b
                  /\ visitOrder' \in SortedInto(b, visitOrder)
                  /\ order' = visitOrder'
                  /\ pos' = 0
                  /\ chunk' = NoChunk
                  /\ visits' = [i \in DOMAIN b |-> 0]
                  /\ phase' = "visiting"

\* The call takes a batch in the order it came in, and leaves the buffer alone.
BeginInOrder(b) == /\ phase = "idle"
                   /\ ~Reorders(b)
                   /\ lens' = b
                   /\ order' = InOrder(Len(b))
                   /\ pos' = 0
                   /\ chunk' = NoChunk
                   /\ visits' = [i \in DOMAIN b |-> 0]
                   /\ phase' = "visiting"
                   /\ UNCHANGED visitOrder

Visit == /\ chunk' = [indices |-> ChunkIndices(order, pos),
                      active  |-> ActiveLanes(order, pos)]
         /\ visits' = [i \in DOMAIN visits |->
                         visits[i] + Cardinality({lane \in 1..chunk'.active :
                                                     chunk'.indices[lane] = i})]
         /\ UNCHANGED <<lens, visitOrder, order, phase>>

\* A chunk with an input of its own for every lane
VisitFull == /\ phase = "visiting"
             /\ pos + LANES <= Len(order)
             /\ pos' = pos + LANES
             /\ Visit

\* The rest visited over and over (faulty)
VisitTailAgain == /\ phase = "visiting"
                  /\ pos < Len(order)
                  /\ pos + LANES > Len(order)
                  /\ chunk' = [indices |-> ChunkIndices(order, pos),
                               active  |-> ActiveLanes(order, pos)]
                  /\ UNCHANGED <<lens, visitOrder, order, pos, visits, phase>>

\* The rest, padded
VisitTail == /\ phase = "visiting"
             /\ pos < Len(order)
             /\ pos + LANES > Len(order)
             /\ pos' = Len(order)
             /\ Visit

\* The call ends, and all it kept but the buffer with it.
Return == /\ phase = "visiting"
          /\ pos = Len(order)
          /\ phase' = "idle"
          /\ lens' = << >>
          /\ order' = << >>
          /\ pos' = 0
          /\ chunk' = NoChunk
          /\ visits' = << >>
          /\ UNCHANGED visitOrder

Next == \/ \E b \in Batches : BeginSorted(b) \/ BeginInOrder(b)
        \/ VisitFull
        \/ VisitTail
        \/ Return

\* The loop runs on the caller's thread.
Spec == Init /\ [][Next]_vars /\ WF_vars(VisitFull \/ VisitTail \/ Return)

-----------------------------------------------------------------------------
\* When the call returns, every input has been visited in exactly one active
\* lane: neither the padding, nor the sort, nor an order left in the buffer by
\* an earlier batch drops an input or visits it twice.
EveryInputOnce ==
    pos = Len(order) => \A i \in DOMAIN lens : visits[i] = 1

\* Every call returns.
EveryCallReturns == phase = "visiting" ~> phase = "idle"
=============================================================================
