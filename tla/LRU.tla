-------------------------------- MODULE LRU --------------------------------
(***************************************************************************)
(* What a bounded least-recently-used key cache promises its caller: a     *)
(* recency order of the retained keys, no longer than the bound, of which  *)
(* every operation is one atomic step.                                     *)
(***************************************************************************)
EXTENDS Recency

CONSTANTS Keys,        \* the encodings a caller may look up or retain
          Capacities,  \* the bounds a caller may ask for
          NoKey        \* the answer to a lookup that misses

VARIABLES order,  \* the retained keys, most recently used first
          bound,  \* how many may be retained
          ret     \* the answer to the last lookup

vars == <<order, bound, ret>>

\* A bound of zero is raised to one.
Clamped(c) == IF c >= 1 THEN c ELSE 1

Init == /\ order = <<>>
        /\ bound \in {Clamped(c) : c \in Capacities}
        /\ ret = NoKey

Get(k) == /\ order' = AfterGet(order, k)
          /\ ret' = IF k \in Residents(order) THEN k ELSE NoKey
          /\ UNCHANGED bound

Insert(k) == /\ order' = AfterInsert(order, k, bound)
             /\ UNCHANGED <<bound, ret>>

SetCapacity(c) == /\ bound' = Clamped(c)
                  /\ order' = Truncated(order, bound')
                  /\ UNCHANGED ret

Next == \/ \E k \in Keys : Get(k)
        \/ \E k \in Keys : Insert(k)
        \/ \E c \in Capacities : SetCapacity(c)

Spec == Init /\ [][Next]_vars
=============================================================================
