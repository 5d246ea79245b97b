------------------------- MODULE HotKeyCacheProofs -------------------------
(***************************************************************************)
(* Proofs about HotKeyCache for every set of keys and every set of bounds: *)
(* first that its list, index and bound survive every step, then that it   *)
(* implements LRU.                                                         *)
(***************************************************************************)
EXTENDS HotKeyCache, SequenceTheorems, WellFoundedInduction, TLAPS

-----------------------------------------------------------------------------
(***************************************************************************)
(* The operators on the recency list.                                      *)
(***************************************************************************)

\* The order o of n slots without its p-th.
Without(o, n, p) == [i \in 1..(n - 1) |-> IF i < p THEN o[i] ELSE o[i + 1]]

\* The order o of n slots behind slot s.
Behind(s, o, n) == [i \in 1..(n + 1) |-> IF i = 1 THEN s ELSE o[i - 1]]

\* The order o of n slots with its p-th in front.
Moved(o, n, p) == [i \in 1..n |-> IF i = 1 THEN o[p]
                                  ELSE IF i <= p THEN o[i - 1]
                                  ELSE o[i]]

\* The order o of n slots with slot t under the name s.
Renamed(o, n, t, s) == [i \in 1..n |-> IF o[i] = t THEN s ELSE o[i]]

\* An order names slots, and never the sentinel.
LEMMA OrderedSlots ==
    ASSUME NEW n \in Nat, NEW S \in SUBSET Slots(n), NEW m \in Nat,
           NEW l, NEW o, IsOrder(l, S, m, o),
           NEW j \in 1..m
    PROVE  o[j] \in S /\ o[j] \in Slots(n) /\ o[j] \in Nat /\ o[j] # NONE
<1>1. o[j] \in S
  BY DEF IsOrder
<1>2. o[j] \in Slots(n)
  BY <1>1
<1>3. o[j] \in Nat /\ o[j] # NONE
  BY <1>2 DEF Slots, NONE
<1> QED BY <1>1, <1>2, <1>3

\* unlink leaves the other slots in their order.
LEMMA UnlinkOrder ==
    ASSUME NEW n \in Nat, NEW S \in SUBSET Slots(n), NEW m \in Nat,
           NEW l \in ListType(n), NEW o, IsOrder(l, S, m, o),
           NEW p \in 1..m
    PROVE  /\ Unlink(l, o[p]) \in ListType(n)
           /\ IsOrder(Unlink(l, o[p]), S \ {o[p]}, m - 1, Without(o, m, p))
<1> DEFINE s == o[p]
           u == Unlink(l, s)
           w == Without(o, m, p)
<1>1. /\ s \in S /\ s \in Slots(n)
      /\ l.newer[s] = IF p = 1 THEN NONE ELSE o[p - 1]
      /\ l.older[s] = IF p = m THEN NONE ELSE o[p + 1]
  BY DEF IsOrder
<1>2. u \in ListType(n)
  BY <1>1 DEF ListType, Unlink, Slots, NONE
<1> HIDE DEF u
<1>10. /\ \A x \in Slots(n) : u.newer[x] = IF x = l.older[s] THEN l.newer[s] ELSE l.newer[x]
       /\ \A x \in Slots(n) : u.older[x] = IF x = l.newer[s] THEN l.older[s] ELSE l.older[x]
  BY <1>1 DEF u, ListType, Unlink, Slots, NONE
<1>3. \A i \in 1..(m-1) : w[i] = IF i < p THEN o[i] ELSE o[i+1]
  BY DEF Without
<1>4. w \in [1..(m-1) -> S \ {s}]
  BY <1>1 DEF Without, IsOrder
<1>5. \A x \in S \ {s} : \E i \in 1..(m-1) : w[i] = x
  <2> SUFFICES ASSUME NEW x \in S \ {s} PROVE \E i \in 1..(m-1) : w[i] = x
    OBVIOUS
  <2>1. PICK i \in 1..m : o[i] = x
    BY DEF IsOrder
  <2>2. i # p
    BY <2>1
  <2>3. CASE i < p
    BY <2>1, <2>3, <1>3
  <2>4. CASE i > p
    <3>1. i - 1 \in 1..(m-1) /\ w[i-1] = x
      BY <2>1, <2>4, <1>3
    <3> QED BY <3>1
  <2> QED BY <2>2, <2>3, <2>4
<1>6. \A i, j \in 1..(m-1) : w[i] = w[j] => i = j
  <2> DEFINE from(i) == IF i < p THEN i ELSE i + 1
  <2>1. \A i \in 1..(m-1) : from(i) \in 1..m /\ w[i] = o[from(i)]
    BY <1>3
  <2>2. \A i, j \in 1..(m-1) : from(i) = from(j) => i = j
    OBVIOUS
  <2>3. \A i, j \in 1..m : o[i] = o[j] => i = j
    BY DEF IsOrder
  <2> HIDE DEF from, w
  <2> QED BY <2>1, <2>2, <2>3
<1> HIDE DEF w
<1>11. \A j \in 1..m : /\ o[j] \in Slots(n) /\ o[j] # NONE
                       /\ (o[j] = l.older[s]) <=> (j = p + 1)
                       /\ (o[j] = l.newer[s]) <=> (j = p - 1)
  <2> TAKE j \in 1..m
  <2>1. o[j] \in Slots(n) /\ o[j] # NONE
    BY OrderedSlots
  <2>2. \A i \in 1..m : (o[j] = o[i]) <=> (j = i)
    BY DEF IsOrder
  <2>3. (o[j] = l.older[s]) <=> (j = p + 1)
    <3>1. CASE p = m
      BY <2>1, <3>1, <1>1
    <3>2. CASE p # m
      <4>1. p + 1 \in 1..m
        BY <3>2
      <4> QED BY <2>2, <3>2, <4>1, <1>1
    <3> QED BY <3>1, <3>2
  <2>4. (o[j] = l.newer[s]) <=> (j = p - 1)
    BY <2>1, <2>2, <1>1
  <2> QED BY <2>1, <2>3, <2>4
<1>12. \A j \in 1..m : /\ l.newer[o[j]] = IF j = 1 THEN NONE ELSE o[j - 1]
                       /\ l.older[o[j]] = IF j = m THEN NONE ELSE o[j + 1]
  BY DEF IsOrder
<1>13. \A j \in 1..m : /\ u.newer[o[j]] = IF j = p + 1 THEN l.newer[s] ELSE l.newer[o[j]]
                       /\ u.older[o[j]] = IF j = p - 1 THEN l.older[s] ELSE l.older[o[j]]
  BY <1>10, <1>11
<1>7. ASSUME NEW i \in 1..(m-1)
      PROVE  u.newer[w[i]] = IF i = 1 THEN NONE ELSE w[i - 1]
  <2>1. CASE i < p
    BY <2>1, <1>1, <1>3, <1>12, <1>13
  <2>2. CASE i = p
    <3>1. i + 1 \in 1..m /\ w[i] = o[i + 1] /\ u.newer[w[i]] = l.newer[s]
      BY <2>2, <1>3, <1>13
    <3>2. i # 1 => w[i - 1] = o[p - 1]
      BY <2>2, <1>3
    <3> QED BY <2>2, <3>1, <3>2, <1>1
  <2>3. CASE i > p
    <3>1. i + 1 \in 1..m /\ w[i] = o[i + 1] /\ u.newer[w[i]] = o[i]
      BY <2>3, <1>3, <1>12, <1>13
    <3>2. i # 1 /\ w[i - 1] = o[i]
      BY <2>3, <1>3
    <3> QED BY <3>1, <3>2
  <2> QED BY <2>1, <2>2, <2>3
<1>8. ASSUME NEW i \in 1..(m-1)
      PROVE  u.older[w[i]] = IF i = m - 1 THEN NONE ELSE w[i + 1]
  <2>1. CASE i >= p
    <3>1. i + 1 \in 1..m /\ w[i] = o[i + 1]
          /\ u.older[w[i]] = IF i + 1 = m THEN NONE ELSE o[i + 2]
      BY <2>1, <1>3, <1>12, <1>13
    <3>2. i # m - 1 => w[i + 1] = o[i + 2]
      BY <2>1, <1>3
    <3> QED BY <3>1, <3>2
  <2>2. CASE i = p - 1
    <3>1. w[i] = o[i] /\ u.older[w[i]] = l.older[s]
      BY <2>2, <1>3, <1>13
    <3>2. i # m - 1 => w[i + 1] = o[p + 1]
      BY <2>2, <1>3
    <3> QED BY <2>2, <3>1, <3>2, <1>1
  <2>3. CASE i < p - 1
    <3>1. w[i] = o[i] /\ u.older[w[i]] = o[i + 1]
      BY <2>3, <1>3, <1>12, <1>13
    <3>2. i # m - 1 /\ w[i + 1] = o[i + 1]
      BY <2>3, <1>3
    <3> QED BY <3>1, <3>2
  <2> QED BY <2>1, <2>2, <2>3
<1>9. /\ u.mru = IF m - 1 = 0 THEN NONE ELSE w[1]
      /\ u.lru = IF m - 1 = 0 THEN NONE ELSE w[m - 1]
  BY <1>1, <1>3, <1>4 DEF u, IsOrder, Unlink, ListType, Slots, NONE
<1> QED BY <1>2, <1>4, <1>5, <1>6, <1>7, <1>8, <1>9 DEF IsOrder, u, w

\* link_mru puts a detached slot in front of the others.
LEMMA LinkOrder ==
    ASSUME NEW n \in Nat, NEW S \in SUBSET Slots(n), NEW m \in Nat,
           NEW l \in ListType(n), NEW o, IsOrder(l, S, m, o),
           NEW s \in Slots(n) \ S
    PROVE  /\ LinkMru(l, s) \in ListType(n)
           /\ IsOrder(LinkMru(l, s), S \cup {s}, m + 1, Behind(s, o, m))
<1> DEFINE u == LinkMru(l, s)
           w == Behind(s, o, m)
<1>1. u \in ListType(n)
  BY DEF ListType, LinkMru, Slots, NONE
<1>2. \A i \in 1..(m+1) : w[i] = IF i = 1 THEN s ELSE o[i - 1]
  BY DEF Behind
<1>3. w \in [1..(m+1) -> S \cup {s}]
  BY DEF Behind, IsOrder
<1>4. \A x \in S \cup {s} : \E i \in 1..(m+1) : w[i] = x
  <2>1. w[1] = s /\ 1 \in 1..(m+1)
    BY <1>2
  <2>2. ASSUME NEW x \in S PROVE \E i \in 1..(m+1) : w[i] = x
    <3>1. PICK i \in 1..m : o[i] = x
      BY DEF IsOrder
    <3>2. i + 1 \in 1..(m+1) /\ w[i + 1] = x
      BY <3>1, <1>2
    <3> QED BY <3>2
  <2> QED BY <2>1, <2>2
<1>5. \A i, j \in 1..(m+1) : w[i] = w[j] => i = j
  BY <1>2 DEF IsOrder
<1>9. /\ \A x \in Slots(n) : u.newer[x] = IF x = s THEN NONE
                                           ELSE IF x = l.mru THEN s ELSE l.newer[x]
      /\ \A x \in Slots(n) : u.older[x] = IF x = s THEN l.mru ELSE l.older[x]
      /\ u.mru = s /\ u.lru = IF l.mru = NONE THEN s ELSE l.lru
  BY DEF ListType, LinkMru, Slots, NONE
<1> HIDE DEF u, w
<1>11. l.mru = IF m = 0 THEN NONE ELSE o[1]
  BY DEF IsOrder
<1>10. \A j \in 1..m : /\ o[j] \in Slots(n) /\ o[j] # NONE /\ o[j] # s
                       /\ (o[j] = l.mru) <=> (j = 1)
                       /\ l.newer[o[j]] = IF j = 1 THEN NONE ELSE o[j - 1]
                       /\ l.older[o[j]] = IF j = m THEN NONE ELSE o[j + 1]
  <2> TAKE j \in 1..m
  <2>1. o[j] \in S /\ o[j] \in Slots(n) /\ o[j] # NONE
    BY OrderedSlots
  <2>2. /\ \A i \in 1..m : (o[j] = o[i]) <=> (j = i)
        /\ l.newer[o[j]] = IF j = 1 THEN NONE ELSE o[j - 1]
        /\ l.older[o[j]] = IF j = m THEN NONE ELSE o[j + 1]
    BY DEF IsOrder
  <2>3. (o[j] = l.mru) <=> (j = 1)
    BY <2>2, <1>11
  <2> QED BY <2>1, <2>2, <2>3
<1>6. ASSUME NEW i \in 1..(m+1)
      PROVE  u.newer[w[i]] = IF i = 1 THEN NONE ELSE w[i - 1]
  <2>1. CASE i = 1
    BY <2>1, <1>2, <1>9
  <2>2. CASE i # 1
    <3>1. i - 1 \in 1..m /\ w[i] = o[i - 1]
      BY <2>2, <1>2
    <3>2. u.newer[w[i]] = IF i = 2 THEN s ELSE o[i - 2]
      BY <3>1, <1>9, <1>10
    <3>3. w[i - 1] = IF i = 2 THEN s ELSE o[i - 2]
      BY <2>2, <1>2
    <3> QED BY <2>2, <3>2, <3>3
  <2> QED BY <2>1, <2>2
<1>7. ASSUME NEW i \in 1..(m+1)
      PROVE  u.older[w[i]] = IF i = m + 1 THEN NONE ELSE w[i + 1]
  <2>1. CASE i = 1
    BY <2>1, <1>2, <1>9, <1>11
  <2>2. CASE i # 1
    <3>1. i - 1 \in 1..m /\ w[i] = o[i - 1]
      BY <2>2, <1>2
    <3>2. u.older[w[i]] = IF i = m + 1 THEN NONE ELSE o[i]
      BY <3>1, <1>9, <1>10
    <3> QED BY <2>2, <3>2, <1>2
  <2> QED BY <2>1, <2>2
<1>8. /\ u.mru = IF m + 1 = 0 THEN NONE ELSE w[1]
      /\ u.lru = IF m + 1 = 0 THEN NONE ELSE w[m + 1]
  BY <1>2, <1>9, <1>10, <1>11 DEF IsOrder
<1> QED BY <1>1, <1>3, <1>4, <1>5, <1>6, <1>7, <1>8 DEF IsOrder, u, w

\* A slot pushed at the end of the vector belongs to no order yet.
LEMMA ExtendOrder ==
    ASSUME NEW n \in Nat, NEW l \in ListType(n), NEW o,
           IsOrder(l, Slots(n), n, o)
    PROVE  /\ Extended(l, n) \in ListType(n + 1)
           /\ IsOrder(Extended(l, n), Slots(n), n, o)
<1> DEFINE u == Extended(l, n)
<1>1. u \in ListType(n + 1)
  <2>1. u = [newer |-> [x \in Slots(n + 1) |-> IF x = n THEN NONE ELSE l.newer[x]],
             older |-> [x \in Slots(n + 1) |-> IF x = n THEN NONE ELSE l.older[x]],
             mru |-> l.mru, lru |-> l.lru]
    BY DEF Extended, ListType
  <2>2. \A x \in Slots(n + 1) : x # n => x \in Slots(n)
    BY DEF Slots
  <2>3. Slots(n) \subseteq Slots(n + 1)
    BY DEF Slots
  <2>4. \A x \in Slots(n) : /\ l.newer[x] \in Slots(n + 1) \cup {NONE}
                            /\ l.older[x] \in Slots(n + 1) \cup {NONE}
    BY <2>3 DEF ListType
  <2>5. l.mru \in Slots(n + 1) \cup {NONE} /\ l.lru \in Slots(n + 1) \cup {NONE}
    BY <2>3 DEF ListType
  <2> QED BY <2>1, <2>2, <2>4, <2>5 DEF ListType
<1>2. /\ \A x \in Slots(n) : u.newer[x] = l.newer[x] /\ u.older[x] = l.older[x]
      /\ u.mru = l.mru /\ u.lru = l.lru
  BY DEF ListType, Extended, Slots, NONE
<1>3. \A i \in 1..n : o[i] \in Slots(n)
  BY OrderedSlots
<1> HIDE DEF u
<1>4. IsOrder(u, Slots(n), n, o)
  BY <1>2, <1>3 DEF IsOrder
<1> QED BY <1>1, <1>4 DEF u

\* swap_remove and the repointing after it leave the other slots in their
\* order, the moved entry under its new slot.
LEMMA SwapRemoveOrder ==
    ASSUME NEW n \in Nat \ {0}, NEW s \in Slots(n), NEW l \in ListType(n),
           NEW o, IsOrder(l, Slots(n) \ {s}, n - 1, o)
    PROVE  /\ SwapRemoved(l, n, s) \in ListType(n - 1)
           /\ IsOrder(SwapRemoved(l, n, s), Slots(n - 1), n - 1,
                      Renamed(o, n - 1, n - 1, s))
<1> DEFINE m == n - 1
           u == SwapRemoved(l, n, s)
           w == Renamed(o, m, m, s)
<1>1. m \in Nat /\ m \in Slots(n) /\ Slots(m) = Slots(n) \ {m} /\ n = m + 1
  BY DEF Slots
<1>2. \A i \in 1..m : o[i] \in Slots(n) /\ o[i] # s /\ o[i] # NONE
  <2> TAKE i \in 1..m
  <2>1. Slots(n) \ {s} \in SUBSET Slots(n) /\ n \in Nat
    OBVIOUS
  <2> QED BY <2>1, <1>1, OrderedSlots
<1>3. CASE s = m
  <2>1. w = o
    BY <1>1, <1>2, <1>3 DEF Renamed, IsOrder
  <2>2. /\ u = [newer |-> [x \in Slots(m) |-> l.newer[x]],
                older |-> [x \in Slots(m) |-> l.older[x]],
                mru |-> l.mru, lru |-> l.lru]
    BY <1>3 DEF SwapRemoved, ListType
  <2>3. /\ \A x \in Slots(m) : u.newer[x] = l.newer[x] /\ u.older[x] = l.older[x]
        /\ u.mru = l.mru /\ u.lru = l.lru
    BY <2>2
  <2>4. \A i \in 1..m : o[i] \in Slots(m)
    BY <1>1, <1>2, <1>3
  <2>5. IsOrder(u, Slots(m), m, o)
    <3> HIDE DEF u
    <3> QED BY <2>3, <2>4, <1>1, <1>3 DEF IsOrder
  <2>6. \A x \in Slots(m) : /\ l.newer[x] \in Slots(m) \cup {NONE}
                            /\ l.older[x] \in Slots(m) \cup {NONE}
    <3> SUFFICES ASSUME NEW x \in Slots(m)
                 PROVE  /\ l.newer[x] \in Slots(m) \cup {NONE}
                        /\ l.older[x] \in Slots(m) \cup {NONE}
      OBVIOUS
    <3>1. PICK i \in 1..m : o[i] = x
      BY <1>1, <1>3 DEF IsOrder
    <3>2. /\ l.newer[x] = IF i = 1 THEN NONE ELSE o[i - 1]
          /\ l.older[x] = IF i = m THEN NONE ELSE o[i + 1]
      BY <3>1 DEF IsOrder
    <3> QED BY <3>2, <2>4
  <2>7. l.mru \in Slots(m) \cup {NONE} /\ l.lru \in Slots(m) \cup {NONE}
    BY <2>4, <1>1 DEF IsOrder
  <2>8. u \in ListType(m)
    BY <2>2, <2>6, <2>7 DEF ListType
  <2> QED BY <2>1, <2>5, <2>8
<1>4. CASE s # m
  <2> DEFINE nw == l.newer[m]
             od == l.older[m]
  <2>1. PICK p \in 1..m : o[p] = m
    BY <1>1, <1>4 DEF IsOrder
  <2>2. /\ nw = IF p = 1 THEN NONE ELSE o[p - 1]
        /\ od = IF p = m THEN NONE ELSE o[p + 1]
    BY <2>1 DEF IsOrder
  <2>3. /\ u = [newer |-> [x \in Slots(m) |-> IF x = od THEN s
                                             ELSE IF x = s THEN nw
                                             ELSE l.newer[x]],
                older |-> [x \in Slots(m) |-> IF x = nw THEN s
                                             ELSE IF x = s THEN od
                                             ELSE l.older[x]],
                mru   |-> IF nw = NONE THEN s ELSE l.mru,
                lru   |-> IF od = NONE THEN s ELSE l.lru]
    BY <1>4 DEF SwapRemoved
  <2>4. \A i \in 1..m : w[i] = IF i = p THEN s ELSE o[i]
    BY <1>1, <2>1 DEF Renamed, IsOrder
  <2>5. w \in [1..m -> Slots(m)]
    BY <1>1, <1>2, <1>4 DEF Renamed
  <2>6. \A x \in Slots(m) : \E i \in 1..m : w[i] = x
    <3> SUFFICES ASSUME NEW x \in Slots(m) PROVE \E i \in 1..m : w[i] = x
      OBVIOUS
    <3>1. CASE x = s
      BY <2>4, <3>1
    <3>2. CASE x # s
      <4>1. PICK i \in 1..m : o[i] = x
        BY <3>2, <1>1 DEF IsOrder
      <4>2. i # p
        BY <4>1, <2>1, <1>1
      <4> QED BY <4>1, <4>2, <2>4
    <3> QED BY <3>1, <3>2
  <2>7. \A i, j \in 1..m : w[i] = w[j] => i = j
    <3>1. \A i, j \in 1..m : o[i] = o[j] => i = j
      BY DEF IsOrder
    <3> QED BY <2>4, <3>1, <1>2
  <2>8. /\ \A x \in Slots(m) : u.newer[x] = IF x = od THEN s
                                            ELSE IF x = s THEN nw
                                            ELSE l.newer[x]
        /\ \A x \in Slots(m) : u.older[x] = IF x = nw THEN s
                                            ELSE IF x = s THEN od
                                            ELSE l.older[x]
        /\ u.mru = IF nw = NONE THEN s ELSE l.mru
        /\ u.lru = IF od = NONE THEN s ELSE l.lru
    BY <2>3
  <2>9. nw # s /\ od # s
    BY <2>2, <1>2, <2>1 DEF Slots, NONE
  <2> HIDE DEF u, w, nw, od
  <2>10. ASSUME NEW i \in 1..m
         PROVE  u.newer[w[i]] = IF i = 1 THEN NONE ELSE w[i - 1]
    <3>1. CASE i = p
      BY <3>1, <2>2, <2>4, <2>5, <2>8, <2>9
    <3>2. CASE i # p
      <4>1. /\ w[i] = o[i] /\ w[i] \in Slots(m) /\ w[i] # s
            /\ l.newer[o[i]] = IF i = 1 THEN NONE ELSE o[i - 1]
        BY <3>2, <2>4, <2>5, <1>2 DEF IsOrder
      <4>2. (o[i] = od) <=> (i = p + 1)
        BY <2>2, <1>2 DEF IsOrder
      <4> QED BY <4>1, <4>2, <2>4, <2>8
    <3> QED BY <3>1, <3>2
  <2>11. ASSUME NEW i \in 1..m
         PROVE  u.older[w[i]] = IF i = m THEN NONE ELSE w[i + 1]
    <3>1. CASE i = p
      BY <3>1, <2>2, <2>4, <2>5, <2>8, <2>9
    <3>2. CASE i # p
      <4>1. /\ w[i] = o[i] /\ w[i] \in Slots(m) /\ w[i] # s
            /\ l.older[o[i]] = IF i = m THEN NONE ELSE o[i + 1]
        BY <3>2, <2>4, <2>5, <1>2 DEF IsOrder
      <4>2. (o[i] = nw) <=> (i = p - 1)
        BY <2>2, <1>2 DEF IsOrder
      <4> QED BY <4>1, <4>2, <2>4, <2>8
    <3> QED BY <3>1, <3>2
  <2>12. /\ u.mru = IF m = 0 THEN NONE ELSE w[1]
         /\ u.lru = IF m = 0 THEN NONE ELSE w[m]
    BY <2>2, <2>4, <2>8, <1>2 DEF IsOrder
  <2>13. IsOrder(u, Slots(m), m, w)
    BY <2>5, <2>6, <2>7, <2>10, <2>11, <2>12 DEF IsOrder
  <2>14. \A x \in Slots(m) : /\ u.newer[x] \in Slots(m) \cup {NONE}
                             /\ u.older[x] \in Slots(m) \cup {NONE}
    <3> SUFFICES ASSUME NEW x \in Slots(m)
                 PROVE  /\ u.newer[x] \in Slots(m) \cup {NONE}
                        /\ u.older[x] \in Slots(m) \cup {NONE}
      OBVIOUS
    <3>1. PICK i \in 1..m : w[i] = x
      BY <2>6
    <3> QED BY <3>1, <2>5, <2>10, <2>11
  <2>15. u.mru \in Slots(m) \cup {NONE} /\ u.lru \in Slots(m) \cup {NONE}
    BY <2>5, <2>12
  <2>16. u \in ListType(m)
    BY <2>3, <2>14, <2>15 DEF u, ListType
  <2> QED BY <2>13, <2>16 DEF u, w
<1> QED BY <1>3, <1>4

\* touch moves a slot to the most recently used end.
LEMMA TouchOrder ==
    ASSUME NEW n \in Nat, NEW l \in ListType(n), NEW o,
           IsOrder(l, Slots(n), n, o), NEW p \in 1..n
    PROVE  /\ Touch(l, o[p]) \in ListType(n)
           /\ IsOrder(Touch(l, o[p]), Slots(n), n, Moved(o, n, p))
<1> DEFINE s == o[p]
           q == Without(o, n, p)
<1>1. s \in Slots(n)
  BY OrderedSlots
<1>2. CASE l.mru = s
  <2>1. p = 1
    BY <1>2 DEF IsOrder
  <2>2. Moved(o, n, p) = o
    BY <2>1 DEF Moved, IsOrder
  <2> QED BY <1>2, <2>2 DEF Touch
<1>3. CASE l.mru # s
  <2>1. /\ Unlink(l, s) \in ListType(n)
        /\ IsOrder(Unlink(l, s), Slots(n) \ {s}, n - 1, q)
    BY UnlinkOrder
  <2>2. Slots(n) \ {s} \in SUBSET Slots(n) /\ n - 1 \in Nat /\ n = (n - 1) + 1
        /\ (Slots(n) \ {s}) \cup {s} = Slots(n) /\ s \in Slots(n) \ (Slots(n) \ {s})
    BY <1>1
  <2>3. /\ LinkMru(Unlink(l, s), s) \in ListType(n)
        /\ IsOrder(LinkMru(Unlink(l, s), s), Slots(n), n, Behind(s, q, n - 1))
    <3> DEFINE S == Slots(n) \ {s}
               u == Unlink(l, s)
    <3>1. /\ S \in SUBSET Slots(n) /\ n - 1 \in Nat /\ u \in ListType(n)
          /\ IsOrder(u, S, n - 1, q) /\ s \in Slots(n) \ S
          /\ S \cup {s} = Slots(n) /\ (n - 1) + 1 = n
      BY <2>1, <2>2
    <3> HIDE DEF S, u, q, s
    <3>2. /\ LinkMru(u, s) \in ListType(n)
          /\ IsOrder(LinkMru(u, s), S \cup {s}, (n - 1) + 1, Behind(s, q, n - 1))
      BY <3>1, LinkOrder
    <3> QED BY <3>1, <3>2 DEF S, u, q, s
  <2>4. Behind(s, q, n - 1) = Moved(o, n, p)
    BY DEF Behind, Moved, Without
  <2> QED BY <1>3, <2>3, <2>4 DEF Touch
<1> QED BY <1>2, <1>3

-----------------------------------------------------------------------------
(***************************************************************************)
(* The invariant.  The four parts need each other: a removal indexes the   *)
(* entry it moves under a slot that only the type of the links bounds, and *)
(* an insertion may overwrite the slot at the old end of the list because  *)
(* the bound is at least one and so a full list is not empty.              *)
(***************************************************************************)
IInv == TypeOK /\ ListIntact /\ IndexExact /\ BoundHolds

\* No two slots hold the same key, and a resident key is in its slot.
LEMMA IndexedSlot ==
    ASSUME TypeOK, IndexExact
    PROVE  /\ \A s, t \in Slots(len) : entries[s] = entries[t] => s = t
           /\ \A k \in Resident : index[k] \in Slots(len) /\ entries[index[k]] = k
<1>1. \A s \in Slots(len) : index[entries[s]] = s
  BY DEF IndexExact
<1>2. Resident = {entries[s] : s \in Slots(len)}
  BY DEF IndexExact
<1>3. ASSUME NEW s \in Slots(len), NEW t \in Slots(len), entries[s] = entries[t]
      PROVE  s = t
  BY <1>1, <1>3
<1>4. ASSUME NEW k \in Resident
      PROVE  index[k] \in Slots(len) /\ entries[index[k]] = k
  <2>1. PICK s \in Slots(len) : k = entries[s]
    BY <1>2
  <2> QED BY <2>1, <1>1
<1> QED BY <1>3, <1>4

\* Either end of the list of a cache that is not empty is a slot.
LEMMA EndsAreSlots ==
    ASSUME TypeOK, len # 0, NEW o, IsOrder(list, Slots(len), len, o)
    PROVE  /\ list.lru = o[len] /\ list.mru = o[1]
           /\ list.lru \in Slots(len) /\ list.mru \in Slots(len)
<1>1. len \in Nat /\ 1 \in 1..len /\ len \in 1..len
  BY DEF TypeOK
<1>2. list.lru = o[len] /\ list.mru = o[1]
  BY DEF IsOrder
<1>3. Slots(len) \in SUBSET Slots(len)
  OBVIOUS
<1> QED BY <1>1, <1>2, <1>3, OrderedSlots

LEMMA InitIInv == Init => IInv
<1> SUFFICES ASSUME Init PROVE IInv
  OBVIOUS
<1>1. \A c \in Capacities : Clamped(c) \in Nat \ {0}
  BY CacheAssumption DEF Clamped
<1>2. Slots(0) = {} /\ 1..0 = {}
  BY DEF Slots
<1>3. TypeOK
  BY <1>1, <1>2 DEF Init, TypeOK, EmptyFcn, EmptyList, ListType, Resident
<1>4. ListIntact
  <2>1. EmptyFcn \in [1..0 -> Slots(0)]
    BY <1>2 DEF EmptyFcn
  <2>2. IsOrder(EmptyList, Slots(0), 0, EmptyFcn)
    BY <2>1, <1>2 DEF IsOrder, EmptyList
  <2> QED BY <2>1, <2>2 DEF Init, ListIntact
<1>5. IndexExact
  BY <1>2 DEF Init, IndexExact, Resident, EmptyFcn
<1>6. BoundHolds
  BY <1>1 DEF Init, BoundHolds
<1> QED BY <1>3, <1>4, <1>5, <1>6 DEF IInv

\* A touch of a resident key keeps the list typed and intact.
LEMMA TouchResident ==
    ASSUME TypeOK, ListIntact, IndexExact, NEW k \in Resident
    PROVE  /\ Touch(list, index[k]) \in ListType(len)
           /\ \E o \in [1..len -> Slots(len)] :
                  IsOrder(Touch(list, index[k]), Slots(len), len, o)
<1>1. len \in Nat /\ list \in ListType(len) /\ index[k] \in Slots(len)
  BY IndexedSlot DEF TypeOK
<1>2. PICK o \in [1..len -> Slots(len)] : IsOrder(list, Slots(len), len, o)
  BY DEF ListIntact
<1>3. PICK p \in 1..len : o[p] = index[k]
  BY <1>1, <1>2 DEF IsOrder
<1>4. /\ Touch(list, index[k]) \in ListType(len)
      /\ IsOrder(Touch(list, index[k]), Slots(len), len, Moved(o, len, p))
  BY <1>1, <1>2, <1>3, TouchOrder
<1>5. Moved(o, len, p) \in [1..len -> Slots(len)]
  BY <1>4 DEF IsOrder
<1> QED BY <1>4, <1>5

LEMMA GetHitIInv == ASSUME IInv, NEW k \in Keys, GetHit(k) PROVE IInv'
<1>1. /\ list' \in ListType(len)
      /\ \E o \in [1..len -> Slots(len)] : IsOrder(list', Slots(len), len, o)
  BY TouchResident DEF IInv, GetHit
<1>2. ret' \in Keys
  BY IndexedSlot DEF IInv, GetHit
<1>3. TypeOK'
  BY <1>1, <1>2 DEF IInv, TypeOK, GetHit, Resident
<1>4. ListIntact'
  BY <1>1 DEF GetHit, ListIntact
<1>5. IndexExact' /\ BoundHolds'
  BY DEF IInv, GetHit, IndexExact, BoundHolds, Resident
<1> QED BY <1>3, <1>4, <1>5 DEF IInv

LEMMA GetMissIInv == ASSUME IInv, NEW k \in Keys, GetMiss(k) PROVE IInv'
BY DEF IInv, GetMiss, TypeOK, ListIntact, IndexExact, BoundHolds, Resident

LEMMA InsertResidentIInv ==
    ASSUME IInv, NEW k \in Keys, InsertResident(k) PROVE IInv'
<1>1. /\ list' \in ListType(len)
      /\ \E o \in [1..len -> Slots(len)] : IsOrder(list', Slots(len), len, o)
  BY TouchResident DEF IInv, InsertResident
<1>2. TypeOK'
  BY <1>1 DEF IInv, TypeOK, InsertResident, Resident
<1>3. ListIntact'
  BY <1>1 DEF InsertResident, ListIntact
<1>4. IndexExact' /\ BoundHolds'
  BY DEF IInv, InsertResident, IndexExact, BoundHolds, Resident
<1> QED BY <1>2, <1>3, <1>4 DEF IInv

\* What an insertion into a full cache leaves: the last position of the order
\* moves to the front.
LEMMA RecycledLru ==
    ASSUME TypeOK, len # 0, NEW o, IsOrder(list, Slots(len), len, o)
    PROVE  /\ LinkMru(Unlink(list, list.lru), list.lru) \in ListType(len)
           /\ IsOrder(LinkMru(Unlink(list, list.lru), list.lru),
                      Slots(len), len, Moved(o, len, len))
<1> DEFINE s == list.lru
           S == Slots(len) \ {s}
           u == Unlink(list, s)
           q == Without(o, len, len)
<1>1. len \in Nat /\ len \in 1..len /\ list \in ListType(len) /\ s = o[len] /\ s \in Slots(len)
  BY EndsAreSlots DEF TypeOK
<1>2. u \in ListType(len) /\ IsOrder(u, S, len - 1, q)
  BY <1>1, UnlinkOrder
<1>3. /\ S \in SUBSET Slots(len) /\ len - 1 \in Nat /\ s \in Slots(len) \ S
      /\ S \cup {s} = Slots(len) /\ (len - 1) + 1 = len
  BY <1>1
<1>4. Behind(s, q, len - 1) = Moved(o, len, len)
  BY <1>1 DEF Behind, Moved, Without
<1> HIDE DEF s, S, u, q
<1>5. /\ LinkMru(u, s) \in ListType(len)
      /\ IsOrder(LinkMru(u, s), S \cup {s}, (len - 1) + 1, Behind(s, q, len - 1))
  BY <1>1, <1>2, <1>3, LinkOrder
<1> QED BY <1>3, <1>4, <1>5 DEF s, S, u, q

LEMMA InsertFullIInv == ASSUME IInv, NEW k \in Keys, InsertFull(k) PROVE IInv'
<1> DEFINE s == list.lru
<1>1. len \in Nat /\ len # 0 /\ pc = "idle" /\ k \notin Resident
      /\ len' = len /\ capacity' = capacity /\ pc' = pc /\ ret' = ret
  BY DEF IInv, TypeOK, InsertFull
<1>2. PICK o \in [1..len -> Slots(len)] : IsOrder(list, Slots(len), len, o)
  BY DEF IInv, ListIntact
<1>3. s \in Slots(len)
  BY <1>1, <1>2, EndsAreSlots DEF IInv
<1>4. /\ list' = LinkMru(Unlink(list, s), s)
      /\ index' = Indexed(Unindexed(index, entries[s]), k, s)
      /\ entries' = [entries EXCEPT ![s] = k]
  BY DEF InsertFull
<1>5. list' \in ListType(len) /\ IsOrder(list', Slots(len), len, Moved(o, len, len))
  BY <1>1, <1>2, <1>4, RecycledLru DEF IInv
<1>6. ListIntact'
  <2>1. Moved(o, len, len) \in [1..len -> Slots(len)]
    BY <1>5 DEF IsOrder
  <2> QED BY <1>1, <1>5, <2>1 DEF ListIntact
<1>7. /\ entries \in [Slots(len) -> Keys]
      /\ entries' \in [Slots(len) -> Keys]
      /\ \A t \in Slots(len) : entries'[t] = IF t = s THEN k ELSE entries[t]
  BY <1>3, <1>4 DEF IInv, TypeOK
<1>8. /\ DOMAIN index' = (Resident \ {entries[s]}) \cup {k}
      /\ \A x \in DOMAIN index' : index'[x] = IF x = k THEN s ELSE index[x]
  BY <1>4 DEF Indexed, Unindexed, Resident
<1>9. /\ \A a, b \in Slots(len) : entries[a] = entries[b] => a = b
      /\ \A x \in Resident : index[x] \in Slots(len) /\ entries[index[x]] = x
      /\ \A t \in Slots(len) : entries[t] \in Resident /\ index[entries[t]] = t
  BY IndexedSlot DEF IInv, IndexExact
<1>10. index' \in [DOMAIN index' -> Slots(len)] /\ DOMAIN index' \subseteq Keys
  <2>1. index' = [x \in DOMAIN index' |-> index'[x]]
    BY <1>4 DEF Indexed, Unindexed
  <2> QED BY <2>1, <1>3, <1>8, <1>9 DEF IInv, TypeOK
<1>11. TypeOK'
  BY <1>1, <1>5, <1>7, <1>10 DEF IInv, TypeOK, Resident
<1>12. \A t \in Slots(len) : entries'[t] \in DOMAIN index' /\ index'[entries'[t]] = t
  BY <1>1, <1>3, <1>7, <1>8, <1>9
<1>13. DOMAIN index' \subseteq {entries'[t] : t \in Slots(len)}
  <2> SUFFICES ASSUME NEW x \in DOMAIN index'
               PROVE  \E t \in Slots(len) : x = entries'[t]
    OBVIOUS
  <2>1. CASE x = k
    BY <2>1, <1>3, <1>7
  <2>2. CASE x # k
    <3>1. x \in Resident /\ x # entries[s]
      BY <2>2, <1>8
    <3>2. index[x] \in Slots(len) /\ entries[index[x]] = x
      BY <3>1, <1>9
    <3>3. index[x] # s
      BY <3>1, <3>2
    <3>4. entries'[index[x]] = x
      BY <3>2, <3>3, <1>7
    <3> QED BY <3>2, <3>4
  <2> QED BY <2>1, <2>2
<1>14. IndexExact'
  <2>1. Resident' = {entries'[t] : t \in Slots(len)}
    BY <1>12, <1>13 DEF Resident
  <2> QED BY <1>1, <1>12, <2>1 DEF IndexExact
<1>15. BoundHolds'
  BY <1>1 DEF IInv, BoundHolds
<1> QED BY <1>6, <1>11, <1>14, <1>15 DEF IInv

LEMMA InsertPushIInv == ASSUME IInv, NEW k \in Keys, InsertPush(k) PROVE IInv'
<1> DEFINE n == len + 1
<1>1. /\ len \in Nat /\ pc = "idle" /\ k \notin Resident /\ len < capacity
      /\ len' = n /\ capacity' = capacity /\ pc' = pc /\ ret' = ret
      /\ list' = LinkMru(Extended(list, len), len)
      /\ index' = Indexed(index, k, len)
      /\ entries' = [s \in Slots(n) |-> IF s = len THEN k ELSE entries[s]]
  BY DEF IInv, TypeOK, InsertPush
<1>2. PICK o \in [1..len -> Slots(len)] : IsOrder(list, Slots(len), len, o)
  BY DEF IInv, ListIntact
<1>3. /\ Slots(n) = Slots(len) \cup {len} /\ len \notin Slots(len) /\ n \in Nat
      /\ len \in Slots(n) \ Slots(len) /\ Slots(len) \in SUBSET Slots(n)
  BY <1>1 DEF Slots
<1>4. /\ Extended(list, len) \in ListType(n)
      /\ IsOrder(Extended(list, len), Slots(len), len, o)
  BY <1>1, <1>2, ExtendOrder DEF IInv, TypeOK
<1>5. list' \in ListType(n) /\ IsOrder(list', Slots(n), n, Behind(len, o, len))
  BY <1>1, <1>3, <1>4, LinkOrder
<1>6. ListIntact'
  <2>1. Behind(len, o, len) \in [1..n -> Slots(n)]
    BY <1>5 DEF IsOrder
  <2> QED BY <1>1, <1>5, <2>1 DEF ListIntact
<1>7. /\ entries \in [Slots(len) -> Keys]
      /\ entries' \in [Slots(n) -> Keys]
      /\ \A t \in Slots(n) : entries'[t] = IF t = len THEN k ELSE entries[t]
  BY <1>1, <1>3 DEF IInv, TypeOK
<1>8. /\ DOMAIN index' = Resident \cup {k}
      /\ \A x \in DOMAIN index' : index'[x] = IF x = k THEN len ELSE index[x]
  BY <1>1 DEF Indexed, Resident
<1>9. /\ \A x \in Resident : index[x] \in Slots(len) /\ entries[index[x]] = x
      /\ \A t \in Slots(len) : entries[t] \in Resident /\ index[entries[t]] = t
  BY IndexedSlot DEF IInv, IndexExact
<1>10. index' \in [DOMAIN index' -> Slots(n)] /\ DOMAIN index' \subseteq Keys
  <2>1. index' = [x \in DOMAIN index' |-> index'[x]]
    BY <1>1 DEF Indexed
  <2> QED BY <2>1, <1>3, <1>8, <1>9 DEF IInv, TypeOK
<1>11. TypeOK'
  BY <1>1, <1>3, <1>5, <1>7, <1>10 DEF IInv, TypeOK, Resident
<1>12. \A t \in Slots(n) : entries'[t] \in DOMAIN index' /\ index'[entries'[t]] = t
  BY <1>1, <1>3, <1>7, <1>8, <1>9
<1>13. \A x \in DOMAIN index' : index'[x] \in Slots(n) /\ entries'[index'[x]] = x
  BY <1>3, <1>7, <1>8, <1>9
<1>14. IndexExact'
  <2>1. len' = n
    BY <1>1
  <2> HIDE DEF n
  <2> QED BY <2>1, <1>12, <1>13 DEF IndexExact, Resident
<1>15. BoundHolds'
  <2>1. capacity \in Nat /\ ~(n > capacity) /\ pc' # "evicting"
    BY <1>1 DEF IInv, TypeOK
  <2> QED BY <1>1, <2>1 DEF BoundHolds
<1> QED BY <1>6, <1>11, <1>14, <1>15 DEF IInv

LEMMA SetCapacityIInv ==
    ASSUME IInv, NEW c \in Capacities, SetCapacity(c) PROVE IInv'
<1>1. Clamped(c) \in Nat \ {0}
  BY CacheAssumption DEF Clamped
<1>2. TypeOK'
  BY <1>1 DEF IInv, TypeOK, SetCapacity, Resident
<1>3. ListIntact' /\ IndexExact'
  BY DEF IInv, SetCapacity, ListIntact, IndexExact, Resident
<1>4. BoundHolds'
  <2>1. len' = len /\ pc' = IF len > capacity' THEN "evicting" ELSE "idle"
    BY DEF SetCapacity
  <2>2. len \in Nat /\ capacity' \in Nat
    BY <1>2, <2>1 DEF TypeOK
  <2> QED BY <2>1, <2>2 DEF BoundHolds
<1> QED BY <1>2, <1>3, <1>4 DEF IInv

\* What remove_at leaves of the recency list.
LEMMA RemovedLru ==
    ASSUME TypeOK, len # 0, NEW o, IsOrder(list, Slots(len), len, o)
    PROVE  /\ SwapRemoved(Unlink(list, list.lru), len, list.lru) \in ListType(len - 1)
           /\ IsOrder(SwapRemoved(Unlink(list, list.lru), len, list.lru),
                      Slots(len - 1), len - 1,
                      Renamed(Without(o, len, len), len - 1, len - 1, list.lru))
<1> DEFINE s == list.lru
           u == Unlink(list, s)
           q == Without(o, len, len)
<1>1. /\ len \in Nat /\ len \in Nat \ {0} /\ len \in 1..len
      /\ list \in ListType(len) /\ s = o[len] /\ s \in Slots(len)
  BY EndsAreSlots DEF TypeOK
<1>2. u \in ListType(len) /\ IsOrder(u, Slots(len) \ {s}, len - 1, q)
  BY <1>1, UnlinkOrder
<1> HIDE DEF s, u, q
<1>3. /\ SwapRemoved(u, len, s) \in ListType(len - 1)
      /\ IsOrder(SwapRemoved(u, len, s), Slots(len - 1), len - 1,
                 Renamed(q, len - 1, len - 1, s))
  BY <1>1, <1>2, SwapRemoveOrder
<1> QED BY <1>3 DEF s, u, q

LEMMA EvictIInv == ASSUME IInv, Evict PROVE IInv'
<1> DEFINE s == list.lru
           n == len - 1
           rest == Unindexed(index, entries[s])
<1>1. /\ len \in Nat /\ capacity \in Nat \ {0} /\ len > capacity /\ len # 0 /\ n \in Nat
      /\ len' = n /\ capacity' = capacity /\ ret' = ret
      /\ pc' = IF n > capacity THEN "evicting" ELSE "idle"
  BY DEF IInv, TypeOK, BoundHolds, Evict, RemoveAt
<1>2. /\ list' = SwapRemoved(Unlink(list, s), len, s)
      /\ index' = IF s = n THEN rest ELSE Indexed(rest, entries[n], s)
      /\ entries' = [x \in Slots(n) |-> IF x = s THEN entries[n] ELSE entries[x]]
  BY DEF Evict, RemoveAt
<1>3. PICK o \in [1..len -> Slots(len)] : IsOrder(list, Slots(len), len, o)
  BY DEF IInv, ListIntact
<1>4. s \in Slots(len)
  BY <1>1, <1>3, EndsAreSlots DEF IInv
<1>5. /\ Slots(len) = Slots(n) \cup {n} /\ n \notin Slots(n) /\ n \in Slots(len)
  BY <1>1 DEF Slots
<1> DEFINE w == Renamed(Without(o, len, len), n, n, s)
<1>6. list' \in ListType(n) /\ IsOrder(list', Slots(n), n, w)
  BY <1>1, <1>2, <1>3, RemovedLru DEF IInv
<1>7. ListIntact'
  <2>1. w \in [1..n -> Slots(n)]
    BY <1>6 DEF IsOrder
  <2> QED BY <1>1, <1>6, <2>1 DEF ListIntact
<1>8. /\ entries \in [Slots(len) -> Keys]
      /\ entries' \in [Slots(n) -> Keys]
      /\ \A t \in Slots(n) : entries'[t] = IF t = s THEN entries[n] ELSE entries[t]
  BY <1>2, <1>5 DEF IInv, TypeOK
<1>9. /\ \A a, b \in Slots(len) : entries[a] = entries[b] => a = b
      /\ \A x \in Resident : index[x] \in Slots(len) /\ entries[index[x]] = x
      /\ \A t \in Slots(len) : entries[t] \in Resident /\ index[entries[t]] = t
  BY IndexedSlot DEF IInv, IndexExact
<1>10. /\ DOMAIN index' = Resident \ {entries[s]}
       /\ \A x \in DOMAIN index' : index'[x] = IF x = entries[n] THEN s ELSE index[x]
       /\ index' = [x \in DOMAIN index' |-> index'[x]]
  <2>1. /\ DOMAIN rest = Resident \ {entries[s]}
        /\ \A x \in DOMAIN rest : rest[x] = index[x]
        /\ rest = [x \in DOMAIN rest |-> rest[x]]
    BY DEF Unindexed, Resident
  <2> HIDE DEF rest
  <2>2. CASE s = n
    BY <2>1, <2>2, <1>2
  <2>3. CASE s # n
    <3>1. entries[n] \in DOMAIN rest
      BY <2>1, <2>3, <1>4, <1>5, <1>9
    <3> QED BY <2>1, <2>3, <3>1, <1>2 DEF Indexed
  <2> QED BY <2>2, <2>3
<1>11. \A x \in DOMAIN index' : index'[x] \in Slots(n) /\ entries'[index'[x]] = x
  <2> SUFFICES ASSUME NEW x \in DOMAIN index'
               PROVE  index'[x] \in Slots(n) /\ entries'[index'[x]] = x
    OBVIOUS
  <2>1. x \in Resident /\ x # entries[s] /\ index[x] # s
    BY <1>9, <1>10
  <2>2. CASE x = entries[n]
    <3>1. s # n /\ s \in Slots(n)
      BY <2>1, <2>2, <1>4, <1>5
    <3> QED BY <2>2, <3>1, <1>8, <1>10
  <2>3. CASE x # entries[n]
    <3>1. index[x] \in Slots(n)
      BY <2>1, <2>3, <1>5, <1>9
    <3> QED BY <2>1, <2>3, <3>1, <1>8, <1>9, <1>10
  <2> QED BY <2>2, <2>3
<1>12. index' \in [DOMAIN index' -> Slots(n)] /\ DOMAIN index' \subseteq Keys
  BY <1>10, <1>11 DEF IInv, TypeOK
<1>13. TypeOK'
  BY <1>1, <1>6, <1>8, <1>12 DEF IInv, TypeOK, Resident
<1>14. \A t \in Slots(n) : entries'[t] \in DOMAIN index' /\ index'[entries'[t]] = t
  <2> SUFFICES ASSUME NEW t \in Slots(n)
               PROVE  entries'[t] \in DOMAIN index' /\ index'[entries'[t]] = t
    OBVIOUS
  <2>1. CASE t = s
    BY <2>1, <1>4, <1>5, <1>8, <1>9, <1>10
  <2>2. CASE t # s
    <3>1. entries'[t] = entries[t] /\ entries[t] # entries[s] /\ entries[t] # entries[n]
      BY <2>2, <1>4, <1>5, <1>8, <1>9
    <3> QED BY <3>1, <1>5, <1>9, <1>10
  <2> QED BY <2>1, <2>2
<1>15. IndexExact'
  BY <1>1, <1>11, <1>14 DEF IndexExact, Resident
<1>16. BoundHolds'
  BY <1>1 DEF BoundHolds
<1> QED BY <1>7, <1>13, <1>15, <1>16 DEF IInv

LEMMA NextIInv == ASSUME IInv, [Next]_vars PROVE IInv'
<1>1. CASE UNCHANGED vars
  BY <1>1 DEF IInv, vars, TypeOK, ListIntact, IndexExact, BoundHolds, Resident
<1>2. CASE Next
  <2>1. ASSUME NEW k \in Keys, GetHit(k) PROVE IInv'
    BY <2>1, GetHitIInv
  <2>2. ASSUME NEW k \in Keys, GetMiss(k) PROVE IInv'
    BY <2>2, GetMissIInv
  <2>3. ASSUME NEW k \in Keys, InsertResident(k) PROVE IInv'
    BY <2>3, InsertResidentIInv
  <2>4. ASSUME NEW k \in Keys, InsertFull(k) PROVE IInv'
    BY <2>4, InsertFullIInv
  <2>5. ASSUME NEW k \in Keys, InsertPush(k) PROVE IInv'
    BY <2>5, InsertPushIInv
  <2>6. ASSUME NEW c \in Capacities, SetCapacity(c) PROVE IInv'
    BY <2>6, SetCapacityIInv
  <2>7. CASE Evict
    BY <2>7, EvictIInv
  <2> QED BY <1>2, <2>1, <2>2, <2>3, <2>4, <2>5, <2>6, <2>7 DEF Next
<1> QED BY <1>1, <1>2

\* The invariant holds in every reachable state.
THEOREM Inductive == Spec => []IInv
<1>1. Init => IInv
  BY InitIInv
<1>2. IInv /\ [Next]_vars => IInv'
  BY NextIInv
<1> QED BY <1>1, <1>2, PTL DEF Spec

-----------------------------------------------------------------------------
(***************************************************************************)
(* What the invariant gives, for every set of keys and of bounds.          *)
(***************************************************************************)

\* Every link, index entry and end of the list always has its type: no link
\* names a slot past the end of the vector.
THEOREM TypeCorrect == Spec => []TypeOK
<1>1. IInv => TypeOK
  BY DEF IInv
<1> QED BY <1>1, Inductive, PTL

\* The recency list always meets every slot exactly once in both directions,
\* through any number of hits, recycled slots and swap_removes.
THEOREM ListAlwaysIntact == Spec => []ListIntact
<1>1. IInv => ListIntact
  BY DEF IInv
<1> QED BY <1>1, Inductive, PTL

\* The index always names exactly the keys in the slots, each at its own slot.
THEOREM IndexAlwaysExact == Spec => []IndexExact
<1>1. IInv => IndexExact
  BY DEF IInv
<1> QED BY <1>1, Inductive, PTL

\* Between calls the cache holds no more keys than its bound.
THEOREM BoundAlwaysHolds == Spec => []BoundHolds
<1>1. IInv => BoundHolds
  BY DEF IInv
<1> QED BY <1>1, Inductive, PTL

\* The loop of set_capacity never takes the most recently used key.
THEOREM MostRecentSpared == Spec => EvictionSparesMostRecent
<1>1. ASSUME IInv, Evict PROVE MostRecent' = MostRecent
  <2> DEFINE s == list.lru
             n == len - 1
  <2>1. /\ len \in Nat /\ len # 0 /\ n \in Nat /\ n # 0 /\ len # 1 /\ len' = n
        /\ list' = SwapRemoved(Unlink(list, s), len, s)
        /\ entries' = [x \in Slots(n) |-> IF x = s THEN entries[n] ELSE entries[x]]
    BY <1>1 DEF IInv, TypeOK, BoundHolds, Evict, RemoveAt
  <2>2. PICK o \in [1..len -> Slots(len)] : IsOrder(list, Slots(len), len, o)
    BY <1>1 DEF IInv, ListIntact
  <2>3. s = o[len] /\ list.mru = o[1] /\ s \in Slots(len) /\ o[1] \in Slots(len)
    BY <1>1, <2>1, <2>2, EndsAreSlots DEF IInv
  <2>4. o[1] # s
    BY <2>1, <2>2, <2>3 DEF IsOrder
  <2> DEFINE w == Renamed(Without(o, len, len), n, n, s)
  <2>5. IsOrder(list', Slots(n), n, w)
    BY <1>1, <2>1, <2>2, RemovedLru DEF IInv
  <2>6. list'.mru = w[1] /\ w[1] \in Slots(n)
    BY <2>1, <2>5 DEF IsOrder
  <2>7. w[1] = IF o[1] = n THEN s ELSE o[1]
    BY <2>1 DEF Renamed, Without
  <2>8. entries'[w[1]] = entries[o[1]]
    BY <2>1, <2>4, <2>6, <2>7
  <2> QED BY <2>1, <2>3, <2>6, <2>8 DEF MostRecent
<1>2. ASSUME IInv, [Next]_vars
      PROVE  [pc = "evicting" => MostRecent' = MostRecent]_vars
  <2>1. CASE UNCHANGED vars
    BY <2>1
  <2>2. CASE Evict
    BY <1>1, <1>2, <2>2
  <2>3. CASE pc # "evicting"
    BY <2>3
  <2>4. Next /\ pc = "evicting" => Evict
    BY DEF Next, GetHit, GetMiss, InsertResident, InsertFull, InsertPush, SetCapacity
  <2> QED BY <1>2, <2>1, <2>2, <2>3, <2>4
<1>3. IInv /\ [Next]_vars => [pc = "evicting" => MostRecent' = MostRecent]_vars
  BY <1>2
<1> QED BY <1>3, Inductive, PTL DEF Spec, EvictionSparesMostRecent

-----------------------------------------------------------------------------
(***************************************************************************)
(* HotKeyCache implements LRU.                                             *)
(***************************************************************************)
\* A set of naturals that is not empty has a least element.
LEMMA LeastNatural ==
    ASSUME NEW T \in SUBSET Nat, T # {}
    PROVE  \E x \in T : \A y \in T : x <= y
<1>1. PICK x \in T : \A y \in T : ~ (<<y, x>> \in OpToRel(<, Nat))
  BY NatLessThanWellFounded, WFMin
<1>2. \A y \in T : ~ (y < x)
  BY <1>1 DEF OpToRel
<1> QED BY <1>2

\* A list links its slots in one order only.
LEMMA OrderUnique ==
    ASSUME NEW n \in Nat, NEW l, NEW o, NEW q,
           IsOrder(l, Slots(n), n, o), IsOrder(l, Slots(n), n, q)
    PROVE  o = q
<1> DEFINE T == {i \in 1..n : o[i] # q[i]}
<1>1. CASE T = {}
  <2>1. \A i \in 1..n : o[i] = q[i]
    BY <1>1
  <2> QED BY <2>1 DEF IsOrder
<1>2. CASE T # {}
  <2>1. T \in SUBSET Nat
    OBVIOUS
  <2>2. PICK i \in T : \A j \in T : i <= j
    BY <1>2, <2>1, LeastNatural
  <2>3. i # 1
    BY <2>2 DEF IsOrder
  <2>4. i - 1 \in 1..n /\ i - 1 \notin T /\ i - 1 # n
    BY <2>2, <2>3
  <2>5. o[i - 1] = q[i - 1]
    BY <2>4
  <2>6. o[i] = l.older[o[i - 1]] /\ q[i] = l.older[q[i - 1]]
    <3> DEFINE j == i - 1
    <3>1. j \in 1..n /\ j # n /\ j + 1 = i
      BY <2>2, <2>4
    <3>2. l.older[o[j]] = o[j + 1] /\ l.older[q[j]] = q[j + 1]
      <4> HIDE DEF j
      <4> QED BY <3>1 DEF IsOrder
    <3> QED BY <3>1, <3>2
  <2> QED BY <2>2, <2>5, <2>6
<1> QED BY <1>1, <1>2

\* A function on 1..n is a sequence of length n.
LEMMA SequenceOf ==
    ASSUME NEW n \in Nat, NEW S, NEW f \in [1..n -> S]
    PROVE  f \in Seq(S) /\ Len(f) = n
<1>1. f \in Seq(S)
  BY SeqDef
<1>2. Len(f) \in Nat /\ DOMAIN f = 1..Len(f)
  BY <1>1, LenProperties
<1>3. DOMAIN f = 1..n
  OBVIOUS
<1>4. Len(f) = n
  <2>1. CASE n = 0
    BY <1>2, <1>3, <2>1
  <2>2. CASE n # 0
    BY <1>2, <1>3, <2>2
  <2> QED BY <2>1, <2>2
<1> QED BY <1>1, <1>4

-----------------------------------------------------------------------------
\* The order that the refinement mapping chooses is whichever order the list
\* has.
LEMMA ChosenOrder ==
    ASSUME NEW n \in Nat, NEW l, NEW o \in [1..n -> Slots(n)],
           IsOrder(l, Slots(n), n, o)
    PROVE  (CHOOSE q \in [1..n -> Slots(n)] : IsOrder(l, Slots(n), n, q)) = o
<1> DEFINE q == CHOOSE q \in [1..n -> Slots(n)] : IsOrder(l, Slots(n), n, q)
<1>1. IsOrder(l, Slots(n), n, q)
  OBVIOUS
<1> HIDE DEF q
<1>2. q = o
  BY <1>1, OrderUnique
<1> QED BY <1>2 DEF q

\* The keys of n slots in the order o.
KeysAlong(es, o, n) == [i \in 1..n |-> es[o[i]]]

LEMMA AbstractOrderIs ==
    ASSUME NEW o \in [1..len -> Slots(len)], TypeOK,
           IsOrder(list, Slots(len), len, o)
    PROVE  /\ AbstractOrder = [i \in 1..SmallerOf(len, capacity) |-> entries[o[i]]]
           /\ len <= capacity => AbstractOrder = KeysAlong(entries, o, len)
<1>1. TheOrder = o
  BY ChosenOrder DEF TheOrder, TypeOK
<1>2. AbstractOrder = [i \in 1..SmallerOf(len, capacity) |-> entries[o[i]]]
  BY <1>1 DEF AbstractOrder
<1>3. len <= capacity => SmallerOf(len, capacity) = len
  BY DEF SmallerOf
<1> QED BY <1>2, <1>3 DEF KeysAlong

\* The same after a step.
LEMMA AbstractOrderNext ==
    ASSUME NEW o \in [1..len' -> Slots(len')], len' \in Nat,
           IsOrder(list', Slots(len'), len', o)
    PROVE  /\ AbstractOrder' = [i \in 1..SmallerOf(len', capacity') |-> entries'[o[i]]]
           /\ len' <= capacity' => AbstractOrder' = KeysAlong(entries', o, len')
<1>1. TheOrder' = o
  BY ChosenOrder DEF TheOrder
<1>2. AbstractOrder' = [i \in 1..SmallerOf(len', capacity') |-> entries'[o[i]]]
  BY <1>1 DEF AbstractOrder
<1>3. len' <= capacity' => SmallerOf(len', capacity') = len'
  BY DEF SmallerOf
<1> QED BY <1>2, <1>3 DEF KeysAlong

\* In a cache within its bound the keys along the list are a sequence of len
\* keys without duplicates, and hold exactly the resident ones.
LEMMA KeysAlongOrder ==
    ASSUME NEW o \in [1..len -> Slots(len)], TypeOK, IndexExact,
           IsOrder(list, Slots(len), len, o)
    PROVE  LET a == KeysAlong(entries, o, len)
           IN  /\ a \in Seq(Keys) /\ Len(a) = len /\ DOMAIN a = 1..len
               /\ \A i, j \in 1..len : a[i] = a[j] => i = j
               /\ Residents(a) = Resident
<1> DEFINE a == KeysAlong(entries, o, len)
<1>1. len \in Nat /\ entries \in [Slots(len) -> Keys]
  BY DEF TypeOK
<1>2. a \in [1..len -> Keys] /\ \A i \in 1..len : a[i] = entries[o[i]]
  BY <1>1 DEF KeysAlong
<1>3. a \in Seq(Keys) /\ Len(a) = len
  BY <1>1, <1>2, SequenceOf
<1>4. \A i, j \in 1..len : a[i] = a[j] => i = j
  BY <1>2, IndexedSlot DEF IsOrder
<1>5. Residents(a) = Resident
  <2>1. \A k \in Resident : \E i \in 1..len : a[i] = k
    <3> SUFFICES ASSUME NEW k \in Resident PROVE \E i \in 1..len : a[i] = k
      OBVIOUS
    <3>1. index[k] \in Slots(len) /\ entries[index[k]] = k
      BY IndexedSlot
    <3>2. PICK i \in 1..len : o[i] = index[k]
      BY <3>1 DEF IsOrder
    <3> QED BY <3>1, <3>2, <1>2
  <2>2. \A i \in 1..len : a[i] \in Resident
    BY <1>2 DEF IndexExact
  <2>3. DOMAIN a = 1..len
    BY <1>2
  <2> HIDE DEF a
  <2> QED BY <2>1, <2>2, <2>3 DEF Residents
<1> QED BY <1>2, <1>3, <1>4, <1>5

\* Touching the slot of a resident key is the abstract touch of the key.
LEMMA TouchRefines ==
    ASSUME NEW o \in [1..len -> Slots(len)], TypeOK, IndexExact,
           IsOrder(list, Slots(len), len, o),
           NEW k \in Resident, NEW p \in 1..len, o[p] = index[k]
    PROVE  LET a == KeysAlong(entries, o, len)
           IN  /\ k \in Residents(a)
               /\ Touched(a, PositionOf(a, k))
                    = KeysAlong(entries, Moved(o, len, p), len)
<1> DEFINE a == KeysAlong(entries, o, len)
<1>1. /\ Len(a) = len /\ DOMAIN a = 1..len /\ Residents(a) = Resident
      /\ \A i, j \in 1..len : a[i] = a[j] => i = j
  BY KeysAlongOrder
<1>2. \A i \in 1..len : a[i] = entries[o[i]]
  BY DEF KeysAlong
<1>3. a[p] = k
  BY <1>2, IndexedSlot
<1>4. PositionOf(a, k) = p
  <2> HIDE DEF a
  <2> QED BY <1>1, <1>3 DEF PositionOf
<1>5. Touched(a, p) = [i \in 1..len |-> IF i = 1 THEN a[p]
                                        ELSE IF i <= p THEN a[i - 1] ELSE a[i]]
  BY <1>1 DEF Touched
<1>6. ASSUME NEW i \in 1..len
      PROVE  (IF i = 1 THEN a[p] ELSE IF i <= p THEN a[i - 1] ELSE a[i])
                = entries[Moved(o, len, p)[i]]
  <2>1. Moved(o, len, p)[i] = IF i = 1 THEN o[p] ELSE IF i <= p THEN o[i - 1] ELSE o[i]
    BY DEF Moved
  <2>2. i # 1 => i - 1 \in 1..len
    BY DEF TypeOK
  <2> HIDE DEF a
  <2> QED BY <2>1, <2>2, <1>2
<1>7. Touched(a, p) = KeysAlong(entries, Moved(o, len, p), len)
  <2> HIDE DEF a
  <2> QED BY <1>5, <1>6 DEF KeysAlong
<1> QED BY <1>1, <1>4, <1>7

\* The abstract cache uses the same operators on its order.
LEMMA SameOperators ==
    ASSUME NEW a, NEW k, NEW b
    PROVE  /\ Abstract!Residents(a) = Residents(a)
           /\ Abstract!AfterGet(a, k) = AfterGet(a, k)
           /\ Abstract!AfterInsert(a, k, b) = AfterInsert(a, k, b)
           /\ Abstract!Truncated(a, b) = Truncated(a, b)
           /\ Abstract!Clamped(b) = Clamped(b)
BY DEF Abstract!Residents, Abstract!AfterGet, Abstract!AfterInsert,
       Abstract!Truncated, Abstract!Touched, Abstract!Pushed,
       Abstract!PositionOf, Abstract!SmallerOf, Abstract!Clamped,
       Residents, AfterGet, AfterInsert, Truncated, Touched, Pushed,
       PositionOf, SmallerOf, Clamped

LEMMA GetHitRefines ==
    ASSUME IInv, NEW k \in Keys, GetHit(k) PROVE Abstract!Get(k)
<1>1. /\ k \in Resident /\ len' = len /\ entries' = entries /\ capacity' = capacity
      /\ list' = Touch(list, index[k]) /\ ret' = entries[index[k]]
      /\ len \in Nat /\ len <= capacity /\ list \in ListType(len)
  BY DEF IInv, TypeOK, BoundHolds, GetHit
<1>2. PICK o \in [1..len -> Slots(len)] : IsOrder(list, Slots(len), len, o)
  BY DEF IInv, ListIntact
<1>3. index[k] \in Slots(len) /\ entries[index[k]] = k
  BY <1>1, IndexedSlot DEF IInv
<1>4. PICK p \in 1..len : o[p] = index[k]
  BY <1>2, <1>3 DEF IsOrder
<1>5. IsOrder(list', Slots(len), len, Moved(o, len, p))
  BY <1>1, <1>2, <1>4, TouchOrder
<1>6. AbstractOrder = KeysAlong(entries, o, len)
  BY <1>1, <1>2, AbstractOrderIs DEF IInv
<1>7. AbstractOrder' = KeysAlong(entries, Moved(o, len, p), len)
  <2>1. Moved(o, len, p) \in [1..len -> Slots(len)]
    BY <1>5 DEF IsOrder
  <2> QED BY <1>1, <1>5, <2>1, AbstractOrderNext
<1>8. /\ k \in Residents(AbstractOrder)
      /\ AbstractOrder' = Touched(AbstractOrder, PositionOf(AbstractOrder, k))
  BY <1>1, <1>2, <1>4, <1>6, <1>7, TouchRefines DEF IInv
<1> QED BY <1>1, <1>3, <1>8, SameOperators DEF Abstract!Get, AfterGet

LEMMA GetMissRefines ==
    ASSUME IInv, NEW k \in Keys, GetMiss(k) PROVE Abstract!Get(k)
<1>1. /\ k \notin Resident /\ capacity' = capacity /\ ret' = NoKey
      /\ AbstractOrder' = AbstractOrder /\ len <= capacity
  BY DEF IInv, TypeOK, BoundHolds, GetMiss, AbstractOrder, TheOrder
<1>2. PICK o \in [1..len -> Slots(len)] : IsOrder(list, Slots(len), len, o)
  BY DEF IInv, ListIntact
<1>3. AbstractOrder = KeysAlong(entries, o, len)
  BY <1>1, <1>2, AbstractOrderIs DEF IInv
<1>4. k \notin Residents(AbstractOrder)
  BY <1>1, <1>2, <1>3, KeysAlongOrder DEF IInv
<1> QED BY <1>1, <1>4, SameOperators DEF Abstract!Get, AfterGet

LEMMA InsertResidentRefines ==
    ASSUME IInv, NEW k \in Keys, InsertResident(k) PROVE Abstract!Insert(k)
<1>1. /\ k \in Resident /\ len' = len /\ entries' = entries /\ capacity' = capacity
      /\ list' = Touch(list, index[k]) /\ ret' = ret
      /\ len \in Nat /\ len <= capacity /\ list \in ListType(len)
  BY DEF IInv, TypeOK, BoundHolds, InsertResident
<1>2. PICK o \in [1..len -> Slots(len)] : IsOrder(list, Slots(len), len, o)
  BY DEF IInv, ListIntact
<1>3. index[k] \in Slots(len)
  BY <1>1, IndexedSlot DEF IInv
<1>4. PICK p \in 1..len : o[p] = index[k]
  BY <1>2, <1>3 DEF IsOrder
<1>5. IsOrder(list', Slots(len), len, Moved(o, len, p))
  BY <1>1, <1>2, <1>4, TouchOrder
<1>6. AbstractOrder = KeysAlong(entries, o, len)
  BY <1>1, <1>2, AbstractOrderIs DEF IInv
<1>7. AbstractOrder' = KeysAlong(entries, Moved(o, len, p), len)
  <2>1. Moved(o, len, p) \in [1..len -> Slots(len)]
    BY <1>5 DEF IsOrder
  <2> QED BY <1>1, <1>5, <2>1, AbstractOrderNext
<1>8. /\ k \in Residents(AbstractOrder)
      /\ AbstractOrder' = Touched(AbstractOrder, PositionOf(AbstractOrder, k))
  BY <1>1, <1>2, <1>4, <1>6, <1>7, TouchRefines DEF IInv
<1> QED BY <1>1, <1>8, SameOperators DEF Abstract!Insert, AfterInsert

LEMMA InsertFullRefines ==
    ASSUME IInv, NEW k \in Keys, InsertFull(k) PROVE Abstract!Insert(k)
<1> DEFINE s == list.lru
<1>1. /\ k \notin Resident /\ len' = len /\ capacity' = capacity /\ ret' = ret
      /\ entries' = [entries EXCEPT ![s] = k]
      /\ list' = LinkMru(Unlink(list, s), s)
      /\ len \in Nat /\ len # 0 /\ len = capacity
      /\ entries \in [Slots(len) -> Keys]
  BY DEF IInv, TypeOK, BoundHolds, InsertFull
<1>2. PICK o \in [1..len -> Slots(len)] : IsOrder(list, Slots(len), len, o)
  BY DEF IInv, ListIntact
<1>3. s = o[len] /\ s \in Slots(len)
  BY <1>1, <1>2, EndsAreSlots DEF IInv
<1>4. IsOrder(list', Slots(len), len, Moved(o, len, len))
  BY <1>1, <1>2, RecycledLru DEF IInv
<1>5. AbstractOrder = KeysAlong(entries, o, len)
  BY <1>1, <1>2, AbstractOrderIs DEF IInv
<1>6. AbstractOrder' = KeysAlong(entries', Moved(o, len, len), len)
  <2>1. Moved(o, len, len) \in [1..len -> Slots(len)]
    BY <1>4 DEF IsOrder
  <2>2. len' <= capacity' /\ len' \in Nat
    BY <1>1
  <2> QED BY <1>1, <1>4, <2>1, <2>2, AbstractOrderNext
<1>7. Len(AbstractOrder) = len /\ k \notin Residents(AbstractOrder)
  BY <1>1, <1>2, <1>5, KeysAlongOrder DEF IInv
<1>8. AbstractOrder' = Pushed(AbstractOrder, k, capacity)
  <2>1. Pushed(AbstractOrder, k, capacity)
          = [i \in 1..len |-> IF i = 1 THEN k ELSE AbstractOrder[i - 1]]
    BY <1>1, <1>7 DEF Pushed, SmallerOf
  <2>2. ASSUME NEW i \in 1..len
        PROVE  entries'[Moved(o, len, len)[i]]
                 = IF i = 1 THEN k ELSE AbstractOrder[i - 1]
    <3>1. CASE i = 1
      BY <3>1, <1>1, <1>3 DEF Moved
    <3>2. CASE i # 1
      <4>1. i - 1 \in 1..len /\ Moved(o, len, len)[i] = o[i - 1]
        BY <3>2, <1>1 DEF Moved
      <4>2. o[i - 1] # s /\ o[i - 1] \in Slots(len)
        BY <4>1, <1>2, <1>3, <1>1 DEF IsOrder
      <4>3. AbstractOrder[i - 1] = entries[o[i - 1]]
        BY <4>1, <1>5 DEF KeysAlong
      <4> QED BY <3>2, <4>1, <4>2, <4>3, <1>1
    <3> QED BY <3>1, <3>2
  <2> QED BY <1>6, <2>1, <2>2 DEF KeysAlong
<1> QED BY <1>1, <1>7, <1>8, SameOperators DEF Abstract!Insert, AfterInsert

LEMMA InsertPushRefines ==
    ASSUME IInv, NEW k \in Keys, InsertPush(k) PROVE Abstract!Insert(k)
<1> DEFINE n == len + 1
           w(o) == Behind(len, o, len)
<1>1. /\ k \notin Resident /\ len' = n /\ capacity' = capacity /\ ret' = ret
      /\ entries' = [t \in Slots(n) |-> IF t = len THEN k ELSE entries[t]]
      /\ list' = LinkMru(Extended(list, len), len)
      /\ len \in Nat /\ n \in Nat /\ capacity \in Nat /\ len <= capacity /\ n <= capacity
      /\ list \in ListType(len)
  BY DEF IInv, TypeOK, BoundHolds, InsertPush
<1>2. PICK o \in [1..len -> Slots(len)] : IsOrder(list, Slots(len), len, o)
  BY DEF IInv, ListIntact
<1>3. /\ Slots(n) = Slots(len) \cup {len} /\ len \notin Slots(len)
      /\ len \in Slots(n) \ Slots(len) /\ Slots(len) \in SUBSET Slots(n)
  BY <1>1 DEF Slots
<1>4. /\ Extended(list, len) \in ListType(n)
      /\ IsOrder(Extended(list, len), Slots(len), len, o)
  BY <1>1, <1>2, ExtendOrder
<1>5. IsOrder(list', Slots(n), n, w(o))
  BY <1>1, <1>3, <1>4, LinkOrder
<1>6. AbstractOrder = KeysAlong(entries, o, len)
  BY <1>1, <1>2, AbstractOrderIs DEF IInv
<1>7. AbstractOrder' = KeysAlong(entries', w(o), n)
  <2>1. w(o) \in [1..n -> Slots(n)]
    BY <1>5 DEF IsOrder
  <2>2. len' = n /\ len' <= capacity' /\ len' \in Nat
    BY <1>1
  <2> HIDE DEF w, n
  <2> QED BY <1>5, <2>1, <2>2, AbstractOrderNext
<1>8. Len(AbstractOrder) = len /\ k \notin Residents(AbstractOrder)
  BY <1>1, <1>2, <1>6, KeysAlongOrder DEF IInv
<1>9. AbstractOrder' = Pushed(AbstractOrder, k, capacity)
  <2>1. Pushed(AbstractOrder, k, capacity)
          = [i \in 1..n |-> IF i = 1 THEN k ELSE AbstractOrder[i - 1]]
    BY <1>1, <1>8 DEF Pushed, SmallerOf
  <2>2. ASSUME NEW i \in 1..n
        PROVE  entries'[w(o)[i]] = IF i = 1 THEN k ELSE AbstractOrder[i - 1]
    <3>1. CASE i = 1
      BY <3>1, <1>1, <1>3 DEF Behind
    <3>2. CASE i # 1
      <4>1. i - 1 \in 1..len /\ w(o)[i] = o[i - 1]
        BY <3>2, <1>1 DEF Behind
      <4>2. o[i - 1] # len /\ o[i - 1] \in Slots(n)
        BY <4>1, <1>2, <1>3
      <4>3. AbstractOrder[i - 1] = entries[o[i - 1]]
        BY <4>1, <1>6 DEF KeysAlong
      <4> QED BY <3>2, <4>1, <4>2, <4>3, <1>1
    <3> QED BY <3>1, <3>2
  <2> HIDE DEF w, n
  <2> QED BY <1>7, <2>1, <2>2 DEF KeysAlong
<1> QED BY <1>1, <1>8, <1>9, SameOperators DEF Abstract!Insert, AfterInsert

LEMMA SetCapacityRefines ==
    ASSUME IInv, NEW c \in Capacities, SetCapacity(c)
    PROVE  Abstract!SetCapacity(c)
<1>1. /\ len' = len /\ entries' = entries /\ list' = list /\ ret' = ret
      /\ capacity' = Clamped(c) /\ len \in Nat /\ len <= capacity
  BY DEF IInv, TypeOK, BoundHolds, SetCapacity
<1>2. PICK o \in [1..len -> Slots(len)] : IsOrder(list, Slots(len), len, o)
  BY DEF IInv, ListIntact
<1>3. AbstractOrder = KeysAlong(entries, o, len)
  BY <1>1, <1>2, AbstractOrderIs DEF IInv
<1>4. AbstractOrder' = [i \in 1..SmallerOf(len, capacity') |-> entries[o[i]]]
  BY <1>1, <1>2, AbstractOrderNext
<1>5. Len(AbstractOrder) = len
  BY <1>2, <1>3, KeysAlongOrder DEF IInv
<1>6. AbstractOrder' = Truncated(AbstractOrder, capacity')
  <2>1. Clamped(c) \in Nat
    BY CacheAssumption DEF Clamped
  <2>2. \A i \in 1..SmallerOf(len, capacity') : i \in 1..len
    BY <1>1, <2>1 DEF SmallerOf
  <2>3. \A i \in 1..len : AbstractOrder[i] = entries[o[i]]
    BY <1>3 DEF KeysAlong
  <2> QED BY <1>4, <1>5, <2>2, <2>3 DEF Truncated
<1> QED BY <1>1, <1>6, SameOperators DEF Abstract!SetCapacity

\* A round of the eviction loop changes nothing the abstract cache shows.
LEMMA EvictRefines == ASSUME IInv, Evict PROVE UNCHANGED Abstract!vars
<1> DEFINE s == list.lru
           n == len - 1
           w(o) == Renamed(Without(o, len, len), n, n, s)
<1>1. /\ len \in Nat /\ len # 0 /\ n \in Nat /\ len' = n /\ n >= capacity
      /\ capacity \in Nat /\ capacity' = capacity /\ ret' = ret
      /\ list' = SwapRemoved(Unlink(list, s), len, s)
      /\ entries' = [x \in Slots(n) |-> IF x = s THEN entries[n] ELSE entries[x]]
  BY DEF IInv, TypeOK, BoundHolds, Evict, RemoveAt
<1>2. PICK o \in [1..len -> Slots(len)] : IsOrder(list, Slots(len), len, o)
  BY DEF IInv, ListIntact
<1>3. s = o[len] /\ s \in Slots(len)
  BY <1>1, <1>2, EndsAreSlots DEF IInv
<1>4. IsOrder(list', Slots(n), n, w(o))
  BY <1>1, <1>2, RemovedLru DEF IInv
<1>5. AbstractOrder = [i \in 1..capacity |-> entries[o[i]]]
  <2>1. SmallerOf(len, capacity) = capacity
    BY <1>1 DEF SmallerOf
  <2> QED BY <2>1, <1>2, AbstractOrderIs DEF IInv
<1>6. w(o) \in [1..n -> Slots(n)]
  BY <1>4 DEF IsOrder
<1>7. AbstractOrder' = [i \in 1..capacity |-> entries'[w(o)[i]]]
  <2>1. SmallerOf(len', capacity') = capacity
    BY <1>1 DEF SmallerOf
  <2>2. len' = n /\ len' \in Nat
    BY <1>1
  <2> HIDE DEF w, n
  <2> QED BY <2>1, <2>2, <1>4, <1>6, AbstractOrderNext
<1>8. ASSUME NEW i \in 1..capacity PROVE entries'[w(o)[i]] = entries[o[i]]
  <2>1. i \in 1..n /\ i \in 1..len /\ i # len /\ w(o)[i] \in Slots(n)
    BY <1>1, <1>6
  <2>2. w(o)[i] = IF o[i] = n THEN s ELSE o[i]
    BY <2>1, <1>1 DEF Renamed, Without
  <2>3. o[i] # s
    BY <2>1, <1>1, <1>2, <1>3 DEF IsOrder
  <2> HIDE DEF w
  <2> QED BY <2>1, <2>2, <2>3, <1>1
<1>9. AbstractOrder' = AbstractOrder
  <2> HIDE DEF w
  <2> QED BY <1>5, <1>7, <1>8
<1> QED BY <1>1, <1>9 DEF Abstract!vars

LEMMA InitRefines == ASSUME Init PROVE Abstract!Init
<1>1. IInv
  BY InitIInv
<1>2. /\ len = 0 /\ ret = NoKey /\ capacity \in {Clamped(c) : c \in Capacities}
      /\ capacity \in Nat
  BY <1>1 DEF Init, IInv, TypeOK
<1>3. AbstractOrder = << >>
  <2>1. SmallerOf(len, capacity) = 0
    BY <1>2 DEF SmallerOf
  <2>2. 1..0 = {}
    OBVIOUS
  <2> QED BY <2>1, <2>2 DEF AbstractOrder
<1>4. {Clamped(c) : c \in Capacities} = {Abstract!Clamped(c) : c \in Capacities}
  BY SameOperators
<1> QED BY <1>2, <1>3, <1>4 DEF Abstract!Init

LEMMA NextRefines ==
    ASSUME IInv, [Next]_vars PROVE [Abstract!Next]_Abstract!vars
<1>1. CASE UNCHANGED vars
  BY <1>1 DEF vars, Abstract!vars, AbstractOrder, TheOrder
<1>2. ASSUME NEW k \in Keys, GetHit(k) \/ GetMiss(k) PROVE Abstract!Next
  BY <1>2, GetHitRefines, GetMissRefines DEF Abstract!Next
<1>3. ASSUME NEW k \in Keys, InsertResident(k) \/ InsertFull(k) \/ InsertPush(k)
      PROVE  Abstract!Next
  BY <1>3, InsertResidentRefines, InsertFullRefines, InsertPushRefines
  DEF Abstract!Next
<1>4. ASSUME NEW c \in Capacities, SetCapacity(c) PROVE Abstract!Next
  BY <1>4, SetCapacityRefines DEF Abstract!Next
<1>5. CASE Evict
  BY <1>5, EvictRefines
<1> QED BY <1>1, <1>2, <1>3, <1>4, <1>5 DEF Next

\* Whatever the keys and the bounds, every run of the cache is a run of the
\* abstract LRU: lookups answer, and keys leave, as a recency order says.
THEOREM Refinement == Spec => ImplementsLRU
<1>1. Init => Abstract!Init
  BY InitRefines
<1>2. IInv /\ [Next]_vars => [Abstract!Next]_Abstract!vars
  BY NextRefines
<1> QED BY <1>1, <1>2, Inductive, PTL DEF Spec, ImplementsLRU, Abstract!Spec
-----------------------------------------------------------------------------
(***************************************************************************)
(* The allocations.  CacheReserve counts the entries and keeps their       *)
(* capacities; what the standard library promises of them is all that the  *)
(* proof needs.                                                            *)
(***************************************************************************)
VARIABLES vecCap, mapCap   \* entries.capacity() and index.capacity()

Reserve == INSTANCE CacheReserve

\* The vector has room for the bound, whichever branch a change of it took, and
\* the bound for the entries.
RoomInv == /\ len \in Nat /\ capacity \in Nat /\ vecCap \in Nat
           /\ len <= capacity /\ capacity <= vecCap

LEMMA RoomAtFirst == Reserve!Init => RoomInv
<1>1. SUFFICES ASSUME Reserve!Init PROVE RoomInv
  OBVIOUS
<1>2. PICK c \in Capacities : capacity = Reserve!Clamped(c)
  BY <1>1 DEF Reserve!Init
<1>3. capacity \in Nat
  BY <1>2, CacheAssumption DEF Reserve!Clamped
<1> QED BY <1>1, <1>3 DEF Reserve!Init, RoomInv

\* A vector that shrinks keeps what its entries and the bound need, and one that
\* grows gets it.
LEMMA RoomAfterChange ==
    ASSUME RoomInv, NEW c \in Capacities, Reserve!SetCapacity(c)
    PROVE  RoomInv'
<1>1. capacity' \in Nat
  BY CacheAssumption DEF Reserve!SetCapacity, Reserve!Evicted, Reserve!Clamped
<1>2. len' \in Nat /\ len' <= capacity'
  BY <1>1 DEF Reserve!SetCapacity, Reserve!Evicted, RoomInv
<1>3. vecCap' \in Nat /\ capacity' <= vecCap'
  BY <1>1, <1>2 DEF Reserve!SetCapacity, Reserve!VecShrunk, Reserve!VecReserved, Reserve!Larger, RoomInv
<1> QED BY <1>1, <1>2, <1>3 DEF RoomInv

LEMMA RoomAfterPush == ASSUME RoomInv, Reserve!InsertPush PROVE RoomInv' /\ vecCap' = vecCap
BY DEF Reserve!InsertPush, Reserve!VecReserved, RoomInv

\* No insertion moves the entries, for every set of bounds and whichever branches
\* of set_capacity came before.
THEOREM EntriesNeverMove == Reserve!Spec => Reserve!PushesInPlace
<1>1. ASSUME RoomInv, [Reserve!Next]_(Reserve!vars) PROVE RoomInv'
  <2>1. CASE UNCHANGED Reserve!vars
    BY <1>1, <2>1 DEF Reserve!vars, RoomInv
  <2> QED BY <1>1, <2>1, RoomAfterPush, RoomAfterChange DEF Reserve!Next
<1>2. ASSUME RoomInv, [Reserve!Next]_(Reserve!vars)
      PROVE  [len' > len => vecCap' = vecCap]_(Reserve!vars)
  <2>1. ASSUME NEW c \in Capacities, Reserve!SetCapacity(c) PROVE ~(len' > len)
    BY <1>2, <2>1, CacheAssumption DEF Reserve!SetCapacity, Reserve!Evicted, Reserve!Clamped, RoomInv
  <2> QED BY <1>2, <2>1, RoomAfterPush DEF Reserve!Next
<1> QED BY RoomAtFirst, <1>1, <1>2, PTL DEF Reserve!Spec, Reserve!PushesInPlace

=============================================================================
