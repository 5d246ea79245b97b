-------------------------- MODULE SharedInversion --------------------------
(***************************************************************************)
(* compress_dalek_candidates (src/src/wide/avx512ifma/multiscalar.rs), one *)
(* lane of it: the results of up to DALEK_BATCH ladders are brought to     *)
(* affine form with a single field inversion.  The products of their Z are *)
(* accumulated upward, the product is inverted, and the reciprocals are    *)
(* recovered walking back down, each used as soon as it is known.          *)
(***************************************************************************)
EXTENDS Edwards, Sequences

CONSTANTS Results,       \* the points a ladder may end at
          DALEK_BATCH    \* the most candidates of one call, 8 in the code

ASSUME SharedInversionAssumption ==
    /\ \A p \in Results : p.z \in Field \ {0}
    /\ DALEK_BATCH \in Nat \ {0}

VARIABLES
    candidates,   \* the queue
    prefix,       \* prefix[i], the product of the first i Z
    accumulator,  \* the reciprocal of the first `left` Z
    left,         \* the candidates not compressed yet
    encodings,    \* what each is compressed to
    smallOrder,   \* whether each is of small order
    phase

vars == <<candidates, prefix, accumulator, left, encodings, smallOrder, phase>>

Init == /\ candidates = << >>
        /\ prefix = << >>
        /\ accumulator = 1
        /\ left = 0
        /\ encodings = << >>
        /\ smallOrder = << >>
        /\ phase = "queue"

\* A chunk is queued before the call.
Queue(p) == /\ phase = "queue"
            /\ Len(candidates) < DALEK_BATCH
            /\ candidates' = Append(candidates, p)
            /\ UNCHANGED <<prefix, accumulator, left, encodings, smallOrder, phase>>

\* The call returns at once on an empty queue.
Begin == /\ phase = "queue"
         /\ candidates # << >>
         /\ prefix' = <<candidates[1].z>>
         /\ encodings' = [i \in DOMAIN candidates |-> CompressWithZInverse(candidates[i], 0)]
         /\ smallOrder' = [i \in DOMAIN candidates |-> FALSE]
         /\ phase' = "up"
         /\ UNCHANGED <<candidates, accumulator, left>>

Multiply == /\ phase = "up"
            /\ Len(prefix) < Len(candidates)
            /\ prefix' = Append(prefix, Product(prefix[Len(prefix)],
                                                candidates[Len(prefix) + 1].z))
            /\ UNCHANGED <<candidates, accumulator, left, encodings, smallOrder, phase>>

Invert == /\ phase = "up"
          /\ Len(prefix) = Len(candidates)
          /\ accumulator' = Inverted(prefix[Len(prefix)])
          /\ left' = Len(candidates)
          /\ phase' = "down"
          /\ UNCHANGED <<candidates, prefix, encodings, smallOrder>>

Compress(i, zinv) == /\ encodings' = [encodings EXCEPT ![i] = CompressWithZInverse(candidates[i], zinv)]
                     /\ smallOrder' = [smallOrder EXCEPT ![i] = IsSmallOrderPoint(candidates[i])]
                     /\ left' = i - 1

\* The accumulator moved on before the reciprocal is formed (faulty)
WalkDownLate == /\ phase = "down"
                /\ left > 1
                /\ accumulator' = Product(accumulator, candidates[left].z)
                /\ Compress(left, Product(prefix[left - 1], accumulator'))
                /\ UNCHANGED <<candidates, prefix, phase>>

WalkDown == /\ phase = "down"
            /\ left > 1
            /\ Compress(left, Product(prefix[left - 1], accumulator))
            /\ accumulator' = Product(accumulator, candidates[left].z)
            /\ UNCHANGED <<candidates, prefix, phase>>

\* The first candidate takes the accumulator as it is.
Finish == /\ phase = "down"
          /\ left = 1
          /\ Compress(1, accumulator)
          /\ phase' = "done"
          /\ UNCHANGED <<candidates, prefix, accumulator>>

\* The caller has read the encodings and empties the queue.
Clear == /\ phase = "done"
         /\ candidates' = << >>
         /\ prefix' = << >>
         /\ accumulator' = 1
         /\ encodings' = << >>
         /\ smallOrder' = << >>
         /\ phase' = "queue"
         /\ UNCHANGED left

Next == \/ \E p \in Results : Queue(p)
        \/ Begin \/ Multiply \/ Invert \/ WalkDown \/ Finish \/ Clear

Spec == Init /\ [][Next]_vars

-----------------------------------------------------------------------------
\* Every candidate compressed so far has the encoding of its own affine point,
\* although only the product of all Z was inverted.
EncodingsExact ==
    phase \in {"down", "done"} =>
        \A i \in (left + 1)..Len(candidates) :
            encodings[i] = [y |-> Affine(candidates[i]).y, sign |-> Affine(candidates[i]).x % 2 = 1]

\* And the verdict on its own order, taken from coordinates that have a Z.
OrdersExact ==
    phase \in {"down", "done"} =>
        \A i \in (left + 1)..Len(candidates) :
            smallOrder[i] <=> ResidueOf(Affine(candidates[i])) % L = 0
=============================================================================
