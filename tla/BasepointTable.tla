--------------------------- MODULE BasepointTable ---------------------------
(***************************************************************************)
(* The construction of the table of signed multiples of the base point     *)
(* (build_basepoint_table_entries, src/src/wide/avx512ifma/tables.rs):     *)
(* blocks of LANES consecutive multiples, each block the one before plus   *)
(* [LANES]B, brought to affine form by one inversion in each lane.         *)
(***************************************************************************)
EXTENDS Edwards, Sequences

CONSTANTS BasePoints,            \* the points B may be
          BASEPOINT_TABLE_SIZE   \* the multiples of the table, 136 in the code

ASSUME BasepointAssumption ==
    /\ BasePoints \subseteq CurvePoints
    /\ BASEPOINT_TABLE_SIZE \in Nat \ {0} /\ BASEPOINT_TABLE_SIZE % 8 = 0

LANES  == 8
BLOCKS == BASEPOINT_TABLE_SIZE \div LANES

VARIABLES
    basepoint,    \* B, decompressed
    points,       \* the blocks: the multiples in projective form
    inverseZ,     \* the products of their Z, then the reciprocals
    accumulator,  \* inverse_accumulator
    left,         \* the blocks whose reciprocal is still a product
    entries,      \* the finished table
    phase

vars == <<basepoint, points, inverseZ, accumulator, left, entries, phase>>

Ones    == [lane \in 1..LANES |-> 1]
NoTable == [n \in {} |-> Neutral]

Init == /\ basepoint \in {[x |-> p.x, y |-> p.y, z |-> 1, t |-> Product(p.x, p.y)] : p \in BasePoints}
        /\ points = << >>
        /\ inverseZ = << >>
        /\ accumulator = Ones
        /\ left = 0
        /\ entries = NoTable
        /\ phase = "blocks"

\* first_basepoint_block
FirstBlock(b) ==
    LET p2 == DoubleFromAffine(b)
        p3 == AddAffineRhs(p2, b)
        p4 == Double(p2)
    IN  <<b, p2, p3, p4, AddAffineRhs(p4, b), Double(p3), Add(p4, p3), Double(p4)>>

AddBlock == /\ phase = "blocks"
            /\ Len(points) < BLOCKS
            /\ points' = Append(points,
                   IF points = << >> THEN FirstBlock(basepoint)
                   ELSE [lane \in 1..LANES |-> Add(points[Len(points)][lane], FirstBlock(basepoint)[8])])
            /\ UNCHANGED <<basepoint, inverseZ, accumulator, left, entries, phase>>

\* batch_invert_basepoint_zs: the products upward
MultiplyUp == /\ phase = "blocks"
              /\ Len(points) = BLOCKS
              /\ Len(inverseZ) < BLOCKS
              /\ LET i == Len(inverseZ) + 1
                 IN  inverseZ' = Append(inverseZ, [lane \in 1..LANES |->
                         IF i = 1 THEN points[1][lane].z
                         ELSE Product(inverseZ[i - 1][lane], points[i][lane].z)])
              /\ UNCHANGED <<basepoint, points, accumulator, left, entries, phase>>

\* the one inversion
Invert == /\ phase = "blocks"
          /\ Len(inverseZ) = BLOCKS
          /\ accumulator' = [lane \in 1..LANES |-> Inverted(inverseZ[BLOCKS][lane])]
          /\ left' = BLOCKS
          /\ phase' = "down"
          /\ UNCHANGED <<basepoint, points, inverseZ, entries>>

\* and the reciprocals downward, each replacing its product
WalkDown == /\ phase = "down"
            /\ left > 1
            /\ inverseZ' = [inverseZ EXCEPT ![left] = [lane \in 1..LANES |->
                               Product(inverseZ[left - 1][lane], accumulator[lane])]]
            /\ accumulator' = [lane \in 1..LANES |->
                               Product(accumulator[lane], points[left][lane].z)]
            /\ left' = left - 1
            /\ UNCHANGED <<basepoint, points, entries, phase>>

WalkFirst == /\ phase = "down"
             /\ left = 1
             /\ inverseZ' = [inverseZ EXCEPT ![1] = accumulator]
             /\ left' = 0
             /\ phase' = "entries"
             /\ UNCHANGED <<basepoint, points, accumulator, entries>>

\* The opposite with T as it was (faulty)
EntryUnnegated(n, negative) ==
    LET block == ((n - 1) \div LANES) + 1
        lane  == ((n - 1) % LANES) + 1
        x     == Product(points[block][lane].x, inverseZ[block][lane])
        y     == Product(points[block][lane].y, inverseZ[block][lane])
    IN  [yPlusX  |-> IF negative THEN Difference(y, x) ELSE Sum(y, x),
         yMinusX |-> IF negative THEN Sum(y, x) ELSE Difference(y, x),
         t2d     |-> Product(Product(x, y), TwoD)]

\* The affine form of multiple n, as the cached coordinates of n or of -n
Entry(n, negative) ==
    LET block == ((n - 1) \div LANES) + 1
        lane  == ((n - 1) % LANES) + 1
        x     == Product(points[block][lane].x, inverseZ[block][lane])
        y     == Product(points[block][lane].y, inverseZ[block][lane])
        t2d   == Product(Product(x, y), TwoD)
    IN  IF negative
        THEN [yPlusX |-> Difference(y, x), yMinusX |-> Sum(y, x), t2d |-> Negated(t2d)]
        ELSE [yPlusX |-> Sum(y, x), yMinusX |-> Difference(y, x), t2d |-> t2d]

\* affine_basepoint_entries: the slot of digit d is d + BASEPOINT_TABLE_SIZE.
AffineEntries ==
    /\ phase = "entries"
    /\ entries' = [d \in (-BASEPOINT_TABLE_SIZE)..BASEPOINT_TABLE_SIZE |->
                     IF d > 0 THEN Entry(d, FALSE)
                     ELSE IF d < 0 THEN Entry(-d, TRUE)
                     ELSE [yPlusX |-> 1, yMinusX |-> 1, t2d |-> 0]]
    /\ phase' = "done"
    /\ UNCHANGED <<basepoint, points, inverseZ, accumulator, left>>

Next == AddBlock \/ MultiplyUp \/ Invert \/ WalkDown \/ WalkFirst \/ AffineEntries

Spec == Init /\ [][Next]_vars

-----------------------------------------------------------------------------
Multiple(n) == PointAt(n * ResidueOf(Affine(basepoint)))

\* The slot of every digit from -BASEPOINT_TABLE_SIZE to BASEPOINT_TABLE_SIZE
\* holds the cached form of that multiple.
EntriesExact ==
    phase = "done" =>
        \A d \in (-BASEPOINT_TABLE_SIZE)..BASEPOINT_TABLE_SIZE :
            LET p == Multiple(d)
            IN  entries[d] = [yPlusX |-> Sum(p.y, p.x), yMinusX |-> Difference(p.y, p.x),
                              t2d |-> Product(Product(p.x, p.y), TwoD)]
=============================================================================
