------------------------------ MODULE SlotList ------------------------------
(***************************************************************************)
(* The recency list that HotKeyCache threads through the slots of its      *)
(* entry vector (src/src/hot_key_cache.rs): the newer and older link of    *)
(* every slot and the two ends.  `newer` runs toward the most recently     *)
(* used end.  The operators are the bodies of unlink, link_mru and touch,  *)
(* and what Vec::push, Vec::swap_remove and the repointing after it do to  *)
(* the links.                                                              *)
(***************************************************************************)
EXTENDS Integers

\* The link sentinel, usize::MAX in the code: no slot has its value.
NONE == -1

Slots(n) == 0..(n - 1)

EmptyFcn == [x \in {} |-> x]

EmptyList == [newer |-> EmptyFcn, older |-> EmptyFcn, mru |-> NONE, lru |-> NONE]

ListType(n) == [newer : [Slots(n) -> Slots(n) \cup {NONE}],
                older : [Slots(n) -> Slots(n) \cup {NONE}],
                mru   : Slots(n) \cup {NONE},
                lru   : Slots(n) \cup {NONE}]

\* The list l links the slots of S, and no others, in the order o of n slots,
\* most recently used first, and both directions agree.
IsOrder(l, S, n, o) ==
    /\ o \in [1..n -> S]
    /\ \A s \in S : \E i \in 1..n : o[i] = s
    /\ \A i, j \in 1..n : o[i] = o[j] => i = j
    /\ \A i \in 1..n : l.newer[o[i]] = IF i = 1 THEN NONE ELSE o[i - 1]
    /\ \A i \in 1..n : l.older[o[i]] = IF i = n THEN NONE ELSE o[i + 1]
    /\ l.mru = IF n = 0 THEN NONE ELSE o[1]
    /\ l.lru = IF n = 0 THEN NONE ELSE o[n]

-----------------------------------------------------------------------------
\* Detach slot s: its neighbours, or the ends, are joined.  The links of s
\* itself keep their values.
Unlink(l, s) ==
    LET nw == l.newer[s]
        od == l.older[s]
    IN  [newer |-> IF od = NONE THEN l.newer ELSE [l.newer EXCEPT ![od] = nw],
         older |-> IF nw = NONE THEN l.older ELSE [l.older EXCEPT ![nw] = od],
         mru   |-> IF nw = NONE THEN od ELSE l.mru,
         lru   |-> IF od = NONE THEN nw ELSE l.lru]

\* Attach a detached slot at the most recently used end.
LinkMru(l, s) ==
    LET m == l.mru
    IN  [newer |-> [x \in DOMAIN l.newer |-> IF x = s THEN NONE
                                             ELSE IF x = m THEN s
                                             ELSE l.newer[x]],
         older |-> [l.older EXCEPT ![s] = m],
         mru   |-> s,
         lru   |-> IF m = NONE THEN s ELSE l.lru]

\* A slot that already is the most recent one is left alone.
Touch(l, s) == IF l.mru = s THEN l ELSE LinkMru(Unlink(l, s), s)

\* Vec::push: slot n is added, detached.
Extended(l, n) ==
    [newer |-> [x \in Slots(n + 1) |-> IF x = n THEN NONE ELSE l.newer[x]],
     older |-> [x \in Slots(n + 1) |-> IF x = n THEN NONE ELSE l.older[x]],
     mru   |-> l.mru,
     lru   |-> l.lru]

\* Vec::swap_remove of the detached slot s of n, repointing nothing (faulty).
SwapRemovedOnly(l, n, s) ==
    [l EXCEPT !.newer = [x \in Slots(n - 1) |-> IF x = s THEN l.newer[n - 1] ELSE l.newer[x]],
              !.older = [x \in Slots(n - 1) |-> IF x = s THEN l.older[n - 1] ELSE l.older[x]]]

\* Vec::swap_remove of the detached slot s of n: the entry of the last slot, if
\* that is another, moves into s with its links, and its neighbours, or the
\* ends, are pointed at s.
SwapRemoved(l, n, s) ==
    LET last == n - 1
        nw   == l.newer[last]
        od   == l.older[last]
    IN  IF s = last
        THEN [newer |-> [x \in Slots(last) |-> l.newer[x]],
              older |-> [x \in Slots(last) |-> l.older[x]],
              mru   |-> l.mru,
              lru   |-> l.lru]
        ELSE [newer |-> [x \in Slots(last) |-> IF x = od THEN s
                                             ELSE IF x = s THEN nw
                                             ELSE l.newer[x]],
              older |-> [x \in Slots(last) |-> IF x = nw THEN s
                                             ELSE IF x = s THEN od
                                             ELSE l.older[x]],
              mru   |-> IF nw = NONE THEN s ELSE l.mru,
              lru   |-> IF od = NONE THEN s ELSE l.lru]
=============================================================================
