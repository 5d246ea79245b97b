---------------------------- MODULE CacheReserve ----------------------------
(***************************************************************************)
(* What HotKeyCache (src/src/hot_key_cache.rs) asks of the allocator: the  *)
(* capacities of its entry vector and of its index map over insertions and *)
(* changes of the bound.  Which keys are retained is in HotKeyCache; here  *)
(* only their number counts.                                               *)
(*                                                                         *)
(* The growth rules are those of the standard library.  An index map's     *)
(* tombstones, which can only lower its capacity, are left out.            *)
(***************************************************************************)
EXTENDS Integers

CONSTANT Capacities   \* the bounds a caller may ask for

ASSUME ReserveAssumption == Capacities \subseteq Nat

VARIABLES len,       \* entries.len() and index.len()
          capacity,  \* the bound
          vecCap,    \* entries.capacity()
          mapCap     \* index.capacity()

vars == <<len, capacity, vecCap, mapCap>>

Larger(a, b) == IF a >= b THEN a ELSE b

-----------------------------------------------------------------------------
\* Vec::reserve: at least twice the old capacity when it grows at all.
VecReserved(cap, needed) == IF needed <= cap THEN cap ELSE Larger(2 * cap, needed)

\* Vec::shrink_to, with n entries
VecShrunk(cap, n, least) == IF least < cap THEN Larger(n, least) ELSE cap

\* The capacity of the smallest map for n keys: tables of 4 and 8 buckets leave
\* one free, larger ones an eighth.
MapRung(n) == IF n = 0 THEN 0
              ELSE IF n <= 3 THEN 3
              ELSE IF n <= 7 THEN 7
              ELSE LET fits == {e \in 1..n : 7 * 2^e >= n}
                   IN  7 * 2^(CHOOSE e \in fits : \A f \in fits : e <= f)

\* HashMap::reserve
MapReserved(cap, needed) == IF needed <= cap THEN cap ELSE MapRung(Larger(needed, cap + 1))

\* HashMap::shrink_to, with n keys, never grows a map.
MapShrunk(cap, n, least) == LET rung == MapRung(Larger(n, least))
                            IN  IF rung < cap THEN rung ELSE cap

-----------------------------------------------------------------------------
Clamped(c) == IF c >= 1 THEN c ELSE 1

\* with_capacity
Init == /\ len = 0
        /\ capacity \in {Clamped(c) : c \in Capacities}
        /\ vecCap = capacity
        /\ mapCap = MapRung(capacity)

\* insert below the bound; an insertion into a full cache reuses a slot.
InsertPush == /\ len < capacity
              /\ len' = len + 1
              /\ mapCap' = MapReserved(mapCap, len + 1)
              /\ vecCap' = VecReserved(vecCap, len + 1)
              /\ UNCHANGED capacity

\* evict_to_capacity under the new bound
Evicted(c) == /\ capacity' = Clamped(c)
              /\ len' = IF len > capacity' THEN capacity' ELSE len

\* set_capacity that only ever shrinks (faulty)
SetCapacityNoReserve(c) ==
    /\ Evicted(c)
    /\ vecCap' = VecShrunk(vecCap, len', capacity')
    /\ mapCap' = MapShrunk(mapCap, len', capacity')

\* set_capacity: eviction, and then either a shrink or a reserve of both.
SetCapacity(c) ==
    /\ Evicted(c)
    /\ \/ /\ capacity' < vecCap
          /\ vecCap' = VecShrunk(vecCap, len', capacity')
          /\ mapCap' = MapShrunk(mapCap, len', capacity')
       \/ /\ capacity' >= vecCap
          /\ vecCap' = VecReserved(vecCap, capacity')
          /\ mapCap' = MapReserved(mapCap, capacity')

Next == InsertPush \/ \E c \in Capacities : SetCapacity(c)

Spec == Init /\ [][Next]_vars

-----------------------------------------------------------------------------
\* No insertion moves the entries: a 2.8 KB entry is never copied by a growing
\* vector, whichever of its branches the last set_capacity took.
PushesInPlace == [][len' > len => vecCap' = vecCap]_vars

\* "raising it reserves for the new bound, like with_capacity" (the doc of
\* set_capacity): both the entries and the index have room for the new bound.
RaisingReserves ==
    [][capacity' > capacity => vecCap' >= capacity' /\ mapCap' >= capacity']_vars
=============================================================================
