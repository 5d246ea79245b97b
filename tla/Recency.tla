------------------------------ MODULE Recency ------------------------------
(***************************************************************************)
(* Recency orders: sequences without duplicates, most recently used first, *)
(* and what the operations of an LRU cache do to one.  The operators name  *)
(* the positions of the result one by one.                                 *)
(***************************************************************************)
EXTENDS Integers, Sequences

SmallerOf(a, b) == IF a <= b THEN a ELSE b

\* The keys an order holds.
Residents(order) == {order[i] : i \in DOMAIN order}

\* The position of a resident key.
PositionOf(order, k) == CHOOSE p \in DOMAIN order : order[p] = k

\* The element at position p moves to the most-recently-used end.
Touched(order, p) ==
    [i \in 1..Len(order) |-> IF i = 1 THEN order[p]
                             ELSE IF i <= p THEN order[i - 1]
                             ELSE order[i]]

\* A new key enters at the most-recently-used end; what no longer fits the
\* bound leaves at the other.
Pushed(order, k, bound) ==
    [i \in 1..SmallerOf(Len(order) + 1, bound) |->
        IF i = 1 THEN k ELSE order[i - 1]]

\* Only the most recently used keys that fit the bound stay.
Truncated(order, bound) ==
    [i \in 1..SmallerOf(Len(order), bound) |-> order[i]]

\* A lookup that refreshes nothing (faulty)
AfterGetUntouched(order, k) == order

\* A lookup refreshes a resident key and leaves a miss alone.
AfterGet(order, k) ==
    IF k \in Residents(order) THEN Touched(order, PositionOf(order, k)) ELSE order

\* An insertion refreshes a resident key and otherwise adds it.
AfterInsert(order, k, bound) ==
    IF k \in Residents(order)
    THEN Touched(order, PositionOf(order, k))
    ELSE Pushed(order, k, bound)
=============================================================================
