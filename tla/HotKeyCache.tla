---------------------------- MODULE HotKeyCache ----------------------------
(***************************************************************************)
(* The bounded LRU cache of decoded public keys (src/src/hot_key_cache.rs):*)
(* a vector of entries addressed by slot, a hash index from key to slot,   *)
(* and the recency list of SlotList threaded through the slots.            *)
(*                                                                         *)
(* A retained key stands for its encoding and its decoded table.           *)
(* set_capacity is split where the code loops: its first step moves the    *)
(* bound and the calls of remove_at follow one at a time, no caller        *)
(* running in between.  What it reserves from the allocator, or returns to *)
(* it, is in CacheReserve.                                                 *)
(***************************************************************************)
EXTENDS SlotList, Recency

CONSTANTS Keys,        \* the encodings a caller may look up or retain
          Capacities,  \* the bounds a caller may ask for
          NoKey        \* the answer to a lookup that misses

ASSUME CacheAssumption == Capacities \subseteq Nat /\ NoKey \notin Keys

VARIABLES
    len,       \* entries.len()
    entries,   \* the key in each slot 0 .. len - 1
    index,     \* the slot of each resident key
    list,      \* the links of the entries and the two ends of the list
    capacity,  \* the bound
    ret,       \* the answer to the last get
    pc         \* "evicting" inside the loop of evict_to_capacity, else "idle"

vars == <<len, entries, index, list, capacity, ret, pc>>

Resident == DOMAIN index

\* index.remove(k) and index.insert(k, s)
Unindexed(ix, k)  == [x \in DOMAIN ix \ {k} |-> ix[x]]
Indexed(ix, k, s) == [x \in DOMAIN ix \cup {k} |-> IF x = k THEN s ELSE ix[x]]

\* A constructor that keeps a bound of zero (faulty).
Unclamped(c) == c

\* A bound of zero is raised to one.
Clamped(c) == IF c >= 1 THEN c ELSE 1

TypeOK == /\ len \in Nat
          /\ entries \in [Slots(len) -> Keys]
          /\ Resident \subseteq Keys
          /\ index \in [Resident -> Slots(len)]
          /\ list \in ListType(len)
          /\ capacity \in Nat \ {0}
          /\ ret \in Keys \cup {NoKey}
          /\ pc \in {"idle", "evicting"}

Init == /\ len = 0
        /\ entries = EmptyFcn
        /\ index = EmptyFcn
        /\ list = EmptyList
        /\ capacity \in {Clamped(c) : c \in Capacities}
        /\ ret = NoKey
        /\ pc = "idle"

-----------------------------------------------------------------------------
\* get with the recency left as it was (faulty)
GetHitUntouched(k) == /\ pc = "idle"
                      /\ k \in Resident
                      /\ ret' = entries[index[k]]
                      /\ UNCHANGED <<len, entries, index, list, capacity, pc>>

\* get
GetHit(k) == /\ pc = "idle"
             /\ k \in Resident
             /\ list' = Touch(list, index[k])
             /\ ret' = entries[index[k]]
             /\ UNCHANGED <<len, entries, index, capacity, pc>>

GetMiss(k) == /\ pc = "idle"
              /\ k \notin Resident
              /\ ret' = NoKey
              /\ UNCHANGED <<len, entries, index, list, capacity, pc>>

\* insert of a key that is resident already
InsertResident(k) == /\ pc = "idle"
                     /\ k \in Resident
                     /\ list' = Touch(list, index[k])
                     /\ UNCHANGED <<len, entries, index, capacity, ret, pc>>

\* insert into a full cache: the new key takes the slot of the least recent one
InsertFull(k) ==
    /\ pc = "idle"
    /\ k \notin Resident
    /\ len >= capacity
    /\ LET s == list.lru
       IN  /\ index' = Indexed(Unindexed(index, entries[s]), k, s)
           /\ entries' = [entries EXCEPT ![s] = k]
           /\ list' = LinkMru(Unlink(list, s), s)
    /\ UNCHANGED <<len, capacity, ret, pc>>

\* insert with the comparison against the bound off by one (faulty)
InsertPushPastBound(k) ==
    /\ pc = "idle"
    /\ k \notin Resident
    /\ len <= capacity
    /\ len' = len + 1
    /\ index' = Indexed(index, k, len)
    /\ entries' = [s \in Slots(len + 1) |-> IF s = len THEN k ELSE entries[s]]
    /\ list' = LinkMru(Extended(list, len), len)
    /\ UNCHANGED <<capacity, ret, pc>>

\* insert below the bound: a new slot
InsertPush(k) ==
    /\ pc = "idle"
    /\ k \notin Resident
    /\ len < capacity
    /\ len' = len + 1
    /\ index' = Indexed(index, k, len)
    /\ entries' = [s \in Slots(len + 1) |-> IF s = len THEN k ELSE entries[s]]
    /\ list' = LinkMru(Extended(list, len), len)
    /\ UNCHANGED <<capacity, ret, pc>>

\* set_capacity up to the test of its loop
SetCapacity(c) == /\ pc = "idle"
                  /\ capacity' = Clamped(c)
                  /\ pc' = IF len > capacity' THEN "evicting" ELSE "idle"
                  /\ UNCHANGED <<len, entries, index, list, ret>>

\* remove_at without the repointing of the index at the moved entry (faulty)
RemoveAtKeepingMovedIndex(s) ==
    LET last == len - 1
    IN  /\ len' = last
        /\ entries' = [x \in Slots(last) |-> IF x = s THEN entries[last] ELSE entries[x]]
        /\ index' = Unindexed(index, entries[s])
        /\ list' = SwapRemoved(Unlink(list, s), len, s)

\* remove_at: the last entry moves into the slot that is freed.
RemoveAt(s) ==
    LET last == len - 1
        rest == Unindexed(index, entries[s])
    IN  /\ len' = last
        /\ entries' = [x \in Slots(last) |-> IF x = s THEN entries[last] ELSE entries[x]]
        /\ index' = IF s = last THEN rest ELSE Indexed(rest, entries[last], s)
        /\ list' = SwapRemoved(Unlink(list, s), len, s)

\* remove_at of the wrong end of the list (faulty)
EvictMru == /\ pc = "evicting"
            /\ RemoveAt(list.mru)
            /\ pc' = IF len' > capacity THEN "evicting" ELSE "idle"
            /\ UNCHANGED <<capacity, ret>>

\* evict_to_capacity with an if in the place of its while (faulty)
EvictOnlyOnce == /\ pc = "evicting"
                 /\ RemoveAt(list.lru)
                 /\ pc' = "idle"
                 /\ UNCHANGED <<capacity, ret>>

\* One round of evict_to_capacity, and the test of its loop
Evict == /\ pc = "evicting"
         /\ RemoveAt(list.lru)
         /\ pc' = IF len' > capacity THEN "evicting" ELSE "idle"
         /\ UNCHANGED <<capacity, ret>>

Next == \/ \E k \in Keys : \/ GetHit(k)
                           \/ GetMiss(k)
                           \/ InsertResident(k)
                           \/ InsertFull(k)
                           \/ InsertPush(k)
        \/ \E c \in Capacities : SetCapacity(c)
        \/ Evict

Spec == Init /\ [][Next]_vars

\* The loop of set_capacity runs on the caller's thread: nothing else runs
\* before its next round.
FairSpec == Spec /\ WF_vars(Evict)

-----------------------------------------------------------------------------
(***************************************************************************)
(* Safety.  The first two are assert_invariants of the code's tests.       *)
(***************************************************************************)

\* Walking the links from either end meets every slot of the vector exactly
\* once, in opposite orders: no slot is lost, linked twice, or left pointing at
\* a slot that swap_remove has moved.
ListIntact == \E o \in [1..len -> Slots(len)] : IsOrder(list, Slots(len), len, o)

\* The index names exactly the keys in the slots, each at its own slot, so a
\* lookup never answers with another key's table and no key is retained twice.
IndexExact == /\ Resident = {entries[s] : s \in Slots(len)}
              /\ \A s \in Slots(len) : index[entries[s]] = s

\* Between calls no more keys are retained than the bound allows, and within
\* one the loop of evict_to_capacity runs exactly while there are more.
BoundHolds == (pc = "evicting") <=> (len > capacity)

\* A key that was just looked up or retained is the last one to be evicted:
\* while anything remains, no step but a call that refreshes another key takes
\* it from the most recently used end.  This is about Touch, link_mru and the
\* repointing of the ends in remove_at together.
MostRecent == IF len = 0 THEN NoKey ELSE entries[list.mru]
EvictionSparesMostRecent ==
    [][pc = "evicting" => MostRecent' = MostRecent]_vars

\* set_capacity comes to an end, with the bound respected.
EvictionEnds == pc = "evicting" ~> (pc = "idle" /\ len <= capacity)

-----------------------------------------------------------------------------
(***************************************************************************)
(* The cache implements the abstract LRU.  The keys that set_capacity is   *)
(* about to evict are gone from the abstract order as soon as the bound    *)
(* moves, so each round of its loop is a stutter.                          *)
(***************************************************************************)
TheOrder == CHOOSE o \in [1..len -> Slots(len)] : IsOrder(list, Slots(len), len, o)

AbstractOrder ==
    [i \in 1..SmallerOf(len, capacity) |-> entries[TheOrder[i]]]

Abstract == INSTANCE LRU WITH order <- AbstractOrder, bound <- capacity

\* Every call returns what the abstract cache returns and leaves the keys in
\* the order the abstract cache leaves them in.
ImplementsLRU == Abstract!Spec
=============================================================================
