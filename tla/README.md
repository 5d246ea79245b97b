# Verification of ed25519-simd

TLA+ models of `ed25519-simd`, a batch verifier of Ed25519 signatures for
AVX-512 IFMA: TLC checks them on small instances and TLAPS proves some of their
properties for every value of the constants. Paths below are inside the
repository; `src/hot_key_cache.rs` is the crate's own source file.

## 1. The system

`Verifier<P, C>::verify_batch` takes a slice of inputs (key, signature, message)
and fills a caller-owned slice of booleans with the verdict of policy `P` on
each. Eight inputs form a chunk and travel in the eight lanes of one vector.
Everything runs on the caller's thread: there is no concurrency, no I/O and no
persistence. What makes the code hard is history (a cache, buffers and queues
that outlive a chunk or a call), order (sorting, queueing, late flushes), and
arithmetic whose shortcuts are right only for some operands.

| Component | Source | State | Operations |
|---|---|---|---|
| Key cache | `hot_key_cache.rs` | entry vector, hash index, intrusive recency list, bound | `with_capacity`, `get`, `insert`, `set_capacity` |
| Chunk plan | `batch.rs` | `visit_order`, kept between calls | `for_each_simd_chunk`: choose an order, visit full chunks, visit the padded tail |
| Cached verifier | `verifier/driver.rs`, `policy.rs`, `mod.rs`, `cache.rs`, `input.rs` | the cache, scratch tables, the policy's queue of candidates and pending records | `verify_cached_batch_for`, `verify_chunk`, `retain_decoded_keys`, the flushes; `cache_mut` between calls |
| Cache-free verifier | the same | scratch tables | `verify_uncached_batch_for`, `verify_uncached_chunk` |
| Decoding, key tables | `wide/avx512ifma/decode.rs`, `tables.rs`, `edwards.rs` | a table of sixteen slots for each lane, uninitialised at first | decompression of A and R, the chain of eight multiples |
| Ladder and scoring | `multiscalar.rs`, `point.rs`, `scalar/mod.rs` | an accumulator point, the digits | recoding, `[S]B - [k]A`, the verdicts |
| Shared inversion | `multiscalar.rs` | prefix products, an accumulator | `compress_dalek_candidates` |
| Base point table | `tables.rs`, `edwards.rs` | 17 blocks of 8 multiples | built once |
| Challenge hash | `sha512.rs` | the state of each lane, the block number | `hash_ed25519_challenge_words` |
| Challenge reduction | `scalar/wide.rs` | columns, quotients and a carry | cutting into limbs, two Montgomery products, their sum, recoding |
| Field arithmetic | `wide/avx512ifma/field.rs`, `field.rs` | none of its own; a value may be left loose | products, sums and differences on limbs, the power chains, canonical form, packing |
| Runtime policy choice | `verifier/mod.rs` | one of two verifiers | building one around a cache, forwarding |

How they interact: the driver asks the chunk plan for the order and calls
`verify_chunk` once for each chunk. That looks every lane's key up in the cache.
If one misses, all lanes are decoded together with R and scored at once, and the
decoded tables of the lanes that missed are inserted into the cache. If all hit,
R is not decoded; the result of the ladder waits in the policy's queue, and a
full queue, or the end of the batch, flushes it and writes the verdicts through
the indices recorded when the chunk was queued. Each lane's challenge hash,
recoding, ladder and comparison sit inside the chunk.

What makes each correct:

- *Cache*: the list, the index and the vector describe the same keys through
  every `swap_remove`; it is an LRU within its bound; eviction ends.
- *Plan*: every input is visited once, in a lane of the slice, whatever an
  earlier batch left in the buffer.
- *Verifiers*: the slice receives the policy's verdict on each input alone, and
  neither the cache's history, the neighbours in a chunk, nor the choice between
  scoring and queueing shows. The cache holds only tables of their own keys. No
  `expect`, `unreachable!` or assertion is reached.
- *Arithmetic*: tables hold the multiples they are indexed for, the ladder ends
  on `[S]B - [k]A`, and a T that was skipped is never read. No limb is wider than
  the multiplier reads, no register wraps, and every representation of a residue
  comes to the same canonical one.
- *Shared inversions*: every candidate is scaled with the reciprocal of its own Z.
- *Reduction*: the digits are those of the hash modulo the order, for every hash.
- *Hash*: every lane compresses exactly its own padded message, whatever the
  lengths beside it, and no path reads past a message; a compressed block is the
  one of SHA-512, although its schedule is written over as it is read.

The hazards behind these properties are listed one by one, each at its line,
in `PROJECT.json`.

## 2. The modules

```
 SlotList ─┐
 Recency ──┼─ HotKeyCache ── HotKeyCacheProofs
    │      │        └ implements LRU
    ├──────┴─ LRU
    │          ChunkPlan ─┬─ Batch ───────────── (UncachedVerifierProofs)
    └────────┐            ├─ SharedProofs
 Curve ─ Policy ─┬────────┘
                 ├── Verifier ─────────────────── VerifierProofs
                 │       └ implements BatchVerification
                 ├── UncachedVerifier ─────────── UncachedVerifierProofs
                 │       └ implements BatchVerification
                 └── BatchVerification
 Edwards ─┬─ Decompress ─┬─ Lane ── verdicts compared with Policy
          │   Radix16 ───┘    └────────────────── LaneProofs
          ├─ SharedInversion ──────────────────── (LaneProofs)
          └─ BasepointTable        CacheReserve ─ (HotKeyCacheProofs)
 ScalarPacking, Radix16 ── ScalarReduction ────── ScalarReductionProofs
 ChunkPlan ── ChallengeHash ─┬─────────────────── ChallengeHashProofs
              Compression ───┴ ChallengeDigest
                                   └─ FieldBytes ───┐
 WideField ── PowChain ── LimbLane ── LimbLaneExact ┴ compared with Edwards
                                           └───── LimbLaneProofs
```

A module of proofs in parentheses instantiates the component beside the one it is
named for.

**SlotList, HotKeyCache.** `entries`, `index`, `list` (the links and the two
ends), `len` and `capacity` are the fields of `HotKeyCache`; `Unlink`, `LinkMru`,
`Touch` and `SwapRemoved` are the bodies of the methods of those names, on slot
numbers, with the sentinel `NONE`. `get`, the three paths of `insert`, and
`set_capacity` are actions. `set_capacity` sets the bound and enters the loop of
`evict_to_capacity`; every turn of the loop (`remove_at` with its
`swap_remove`) is a step of its own, and no other call runs until it ends.

**Recency, LRU.** The promise: a sequence of keys without duplicates, most
recent first, no longer than the bound, every operation one atomic step.
`HotKeyCache` implements it under `recency <- ` the walk of its list from the
recent end, cut at the bound; the cut makes the loop of evictions invisible, as
`set_capacity` has its whole effect, abstractly, in its first step.

**CacheReserve.** What the cache asks of the allocator: the capacities of the
vector and of the index map, with the growth rules of the standard library
(external code, modelled from the promises `reserve` and `shrink_to` make and
the sizes the map's tables have).

**ChunkPlan, Batch.** `ChunkPlan` holds the pure decisions of `batch.rs` (block
counts with their saturating sum, the size gate, the sort, the lanes of a chunk
and how many are active). The sort is unstable, so it may leave any order in
which block counts do not decrease. `Batch` runs the visits of call after call
with one buffer.

**Curve, Policy.** The group of the curve is cyclic of order 8L, so a point is a
residue modulo 8L and the group law is exact. An encoding is what the code can
see of 32 bytes: whether they decode and to what (for bytes that do not, the
garbage the arithmetic leaves in the lane), the sign, and whether y is below the
modulus. `Policy` has the four ways to score a lane: ZIP-215 and Dalek, each at
once (with a decoded R) or after queueing.

**BatchVerification.** The promise of `verify_batch`: each input's slot is
written once with the policy's verdict, in any order, and the call returns when
all are. It knows nothing of lanes, caches or queues.

**Verifier.** `verify_cached_batch_for` and `verify_chunk` under both policies:
parse (or skip a chunk without a valid lane), look the keys up lane by lane,
decode, score or queue, retain lane by lane, report, flush when full, flush the
rest. Between batches the caller may look keys up, insert (`from_encoded`),
change the bound, and go on with a verifier of either policy that is built around
the same cache (`WithCache`, which is `RuntimeVerifier::with_cache`; its abstract
form is `Switch`): a key retained under one policy then meets the other. The
cache is the abstract LRU with the table of each key
beside it; `HotKeyCache` implements that LRU. The scratch tables are explicit and
outlive the chunk, as `self.scratch` does: decoding fills them, a lane that missed
and decoded reads its table there, and only the retention empties them, so that
what a lane finds is what was left there.

**UncachedVerifier.** The other driver, which shares no control with the first.

**Edwards, Decompress, Radix16, Lane.** One lane's arithmetic with the formulas
of the code, over a field small enough to enumerate: extended coordinates,
doublings with and without T, the additions of cached points, the chain of
multiples with its affine shortcuts, decompression with its two candidate roots,
signed radix-16 digits, the ladder that takes the base point's digits in pairs,
and both comparisons. `Lane` walks one lane through it: decode, write the table
slot by slot, select, recode, load the top digit, then four doublings and the
additions for each digit, then the verdict. It is the bridge to `Policy`: the
verdicts on coordinates and bytes are those of `Policy` on residues.

**SharedInversion, BasepointTable.** The two uses of one inversion for many Z,
as loops with their prefix products; the second works in place.

**ScalarPacking, ScalarReduction.** `scalar/wide.rs`. The shifts that cut eight
words into ten limbs and pack five limbs into four words are checked at their
real widths, on registers whose bits name the bits of the source. The arithmetic
(the convolution, the nine columns of the Montgomery reduction with the quotients,
the subtractions, the recoding by bytes) is written for any radix of a limb, and
runs on limbs of fewer bits, column by column; the multiplier reads only a limb's bits of its operands, as `vpmadd52`
does, and the quotient depends on it.

**WideField, PowChain, LimbLane.** One lane on limbs. `WideField` has the
operations of `field.rs` as the registers see them: five limbs, a multiplier that
reads the low 52 bits of a limb, the hand-written columns, the one pass of
carries that leaves limb 0 loose, the differences with 4p or 2048p added, the
canonical form. `PowChain` has the two addition chains as data and takes them one
squaring at a time. `LimbLane` sends one encoding through decoding, the eight
multiples, a ladder of four digits and each of the three checks, every formula
for points in three steps (products, sums, result), so that what lies in the
registers between them is part of the state. In a debug build the code asserts
that operands fit; in a release build a limb that does not is truncated without
a sign. Which values may be left loose is nowhere written but in comments, and
that is what the module is about.

**LimbLaneExact, FieldBytes.** `LimbLaneExact` states what `LimbLane` computes,
against `Edwards` on residues. `FieldBytes` has the offsets and shifts between
bytes and limbs at their real widths, in the manner of `ScalarPacking`.

**ChallengeHash.** The lanes of a chunk hash messages of different lengths. The
state of a lane is the sequence of blocks compressed into it, and a byte of the
message is its own name, so a byte taken from the wrong place, or from past the
end of a message, shows. The three paths that assemble a block, the masks and
the early return are those of the code.

**Compression, ChallengeDigest.** `Compression` has `compress_block` as a
function: sixteen words written over as they are read, eight registers that
change places. A word is the set of its bits, so that 64 bits are no trouble; the
reference beside it is the definition of SHA-512, with its eighty words laid out.
The initial state and the constants of the rounds are parameters.
`ChallengeDigest` gives the names in the blocks of `ChallengeHash` their bytes,
compresses them and swaps the words of the last state, as the reduction takes them.

**SampleInputs and the MC modules** only give constants their values; `HotKeyCache`
and `CacheReserve` have configurations of their own and need none.

Each module also holds, beside the definitions they change and marked
`(faulty)`, mutated forms of some definitions: a dropped reset, a swapped order,
a missing guard. No specification uses them; put in the place of the definition
they follow, each makes the property `PROJECT.json` names beside it fail, which
shows that the property depends on that piece of the code.

## 3. What is checked

| Run | Question | Instance |
|---|---|---|
| `hot_key_cache` | do list, index and bound survive everything, and is it an LRU? | 4 keys, bounds 0 to 3 |
| `cache_reserve` | do insertions ever reallocate the entries? | bounds 0 to 16 |
| `cache_raise` | does raising the bound reserve, as documented? **No** | bounds 0 to 16 |
| `batch` | is each input visited once, and does every call return? | 2 lanes, up to 5 inputs, 3 block counts |
| `verifier` | are the verdicts right, and none lost, whatever the cache's history, the neighbour lane and the queue? | every pair of 11 kinds of input, batches of 3 and 5, queues of 3 and 2, both policies |
| `uncached_verifier` | does the other driver keep the same promise? | pairs, and batches of 3 and 5 |
| `lane` | does the arithmetic do what the group says, for every encoding of a key? | curve of order 24 over F29 |
| `shared_inversion` | is each Z scaled by its own reciprocal? | queues of 1 to 4, over F29 |
| `scalar_reduction` | is every hash reduced to its one canonical residue? | limbs of 5 bits, an order of 21, hashes of 48 |
| `basepoint_table` | does each of the slots hold its multiple? | all 136 multiples, curve of order 40 over F37 |
| `limb_lane` | is anything truncated, wrapped or carried wrongly between a key's bytes and its verdict? | limbs of 11 bits, registers of 20, p = 2^55 - 3; 16 encodings, 3 ladders, 3 checks |
| `challenge_hash` | does each lane compress its own padded message, and is the result SHA-512? | 2 lanes, 20 lengths, words of 64 bits |

`hot_key_cache`: `ListIntact` (the walk from either end meets every slot once,
in opposite orders), `IndexExact`, `BoundHolds`, `EvictionSparesMostRecent`,
`EvictionEnds`, and `ImplementsLRU`, the refinement. `TypeOK` says that every
link and indexed slot is in range. `verifier`: `CacheTruthful` (a retained
table is of its own key, and that key decodes), `ChunkKeysStay` (a chunk that
fits the cache does not evict its own keys), `EveryInputAccounted` (each input is
unvisited, queued in one lane of one chunk, or answered), `NothingPanics` (the
queues keep their bound and one length, the tables in the scratch are there when
they are taken), `ScratchTaken` (every path of a chunk leaves the scratch empty), and
`ImplementsVerification`, the refinement. The `assert_eq!` on the lengths of the
slices is a condition on the caller, who meets it in the model.
`lane`: `DecodeFaithful`, `TableExact`, `SelectionsInBounds`, `WrittenWhenRead`
(slots of a table and skipped Ts), `LadderExact`, `VerdictsOfPolicy`.
`shared_inversion`: `EncodingsExact` (each Z inverted through the product of all)
and `OrdersExact` (small order, seen without an inverse). `limb_lane`:
`OperandsFit` (no limb is wider than the multiplier reads), `NothingWraps` (no
difference below zero, no register outgrown), `FormulasExact` and `ChainsExact`
(points and powers are those of the same formula on residues, and the exponents
are those of p), `CanonicalExact`, `ChecksExact`, `BytesExact`. `challenge_hash`:
`DigestsExact` against a padding written from byte positions alone, `ReadsInside`,
and `DigestsAreSha512`, the words handed to the reduction against the definition
of SHA-512, for which messages of one length are enough: `DigestsExact` says that a
lane compresses the same blocks beside any other. `scalar_reduction`: `PackingExact`, `ColumnsFit` (room in
the registers, and a last limb that needs no mask) and `DigitsExact`, against a
residue computed limb by limb.

### Bounds, and why they are enough

- *Four keys, bounds up to 3.* Three slots is where a removed slot, its moved
  replacement and a bystander can stand in every arrangement; a fourth key makes
  an insertion into a full cache of three possible. Proofs remove the bound.
- *LANES = 2* for the code's 8. A chunk needs a lane beside the one looked at;
  nothing in the control depends on a third. The gate `2 * LANES` is 4, so five
  inputs make a sorted batch with two full chunks and a padded tail.
- *L = 3*: 24 points, all eight torsion classes on each of three multiples of
  the base point. The policies tell apart only residues modulo 8 and modulo L.
- *DALEK_BATCH = 3* for the code's 8, *ZIP215_BATCH = 2* as in the code: with up
  to three chunks in a batch a queue stays part full, fills exactly, or fills and
  leaves a remainder.
- *The five-long batches* of `batch` have two block counts and begin with the
  larger, so that every sort moves something; shorter ones have all three.
- *USIZE_MAX = 1023*: above every length used; a slice cannot reach the
  saturating end on a real machine, and a model cannot hold such a message.
- *F29 and the curve of order 24; F37 and the curve of order 40.* The cofactor is
  8 and the group is cyclic, as on the real curve, and -1 is a square, so
  the same root algorithm applies; d is not a square, so the additions are
  complete. Every encoding is enumerated: points of every order, y of no point,
  the y at or above the modulus, both signs. `DIGITS = 6` for 64: an even number,
  with at least two turns of each kind; the scalars hold runs of the digits -8
  and 7, and carries through every digit.
- *The base point table* has its real size of 136: on a group of prime order 5
  its multiples wrap 27 times, so the blocks add equal and opposite points and
  the identity, where incomplete formulas would fail.
- *Limbs of five bits.* Products of two limbs and values of five limbs fit TLC's
  integers. The order (1051571, a prime) is shaped like the code's: a power of
  two, a zero limb below it, then three limbs; its top byte leaves the same room
  for the bias of the recoding. The constants of the run satisfy
  `MontgomeryAssumption`, which ties R, R squared and the factor to the order. That
  the columns fit and the digits are exact is proved for 52 bits as well.
- *Limbs of eleven bits* in registers of twenty, of which the multiplier reads
  twelve, keep every product within TLC's integers. The widths satisfy
  `FieldAssumption`, the inequalities the code's own widths satisfy
  (`CodeWidthsFit`): the nineteenfold carry of a register stays below a radix,
  three columns fit a register, a loose limb 0 is below a known multiple of the
  radix, and the large bias covers three of them. 19 becomes 3 so that this is
  possible. p is then 2^55 - 3, which is not a prime: nothing in the arithmetic
  needs one, and results are compared modulo four prime factors of it, 5, 1871,
  2207 and 2621, so that a value of five limbs never has to be an integer of TLC. A
  carry or a product that is lost changes a residue modulo one of them unless it
  is a multiple of all four. A root or an inverse modulo this p means nothing; the
  chains are therefore compared power by power with their exponents, which are
  those of the real p, and a lane goes on with whatever it decoded, as the
  code does. The encodings are zero, one, p - 1, all ones and four mixed ones,
  under both signs; the ladders hold
  the digits -8, 7 and 0.
- *Arbitrary words and bytes* stand for the initial state, the constants of the
  rounds and the messages; up to four blocks follow one another. The reference
  shares the addition of words with the model, and nothing else.
- *Twenty lengths*, on both sides of the edges of a word, of the half block that
  R and A leave, of the length trailer and of a block, in every pair of lanes. A
  usize ends at 2047 there, so that messages from 192 bytes on have more bits than
  one word counts, which in the code takes 2^61 bytes
  (`length_trailer_includes_the_high_word` in `src/sha512.rs` tests that one trailer).

`CHECK_DEADLOCK FALSE` stands only in `basepoint_table`: the table is built once
and the construction ends. Everywhere else the caller can always call again.

### Fairness

`WF_vars(Evict)` in `HotKeyCache` and `WF_vars(VisitFull \/ VisitTail \/ Return)` in
`Batch` say that a call that has begun goes on. The code is synchronous: a loop's
next turn is run by the thread that ran the last one, and nothing else runs in
between. Nothing is assumed of the caller, who may stop between calls for ever.
`Verifier` assumes no fairness: a chunk is straight-line code over loops of fixed
length, and that the chunks follow each other to the end of a call is `Batch`'s.

### What the code does against its documentation

`set_capacity` is documented (`src/hot_key_cache.rs:60`) to reserve for a raised
bound like `with_capacity`. It compares the new bound with `entries.capacity()`,
which `Vec::reserve` may have doubled beyond the old bound. A raise that stays
under it takes the shrinking branch, and `index.reserve` is not called: from
`with_capacity(5)`, after a raise to 6 the entries have room for 10 and the index
for 7, and a raise to 8 leaves the index at 7. The cost is one rehash of the
index during an insertion; no verdict depends on it (`cache_raise`).

## 4. What is proved

Eight modules hold theorems, for every value of the constants.

**HotKeyCacheProofs**, for every set of keys and of bounds. The inductive
invariant is

    IInv == TypeOK /\ ListIntact /\ IndexExact /\ BoundHolds

None of the last three is inductive alone: `RemoveAt` renames the slot that
`swap_remove` moves in the index through the key it finds there (so `IndexExact`
needs the types, and `ListIntact` for the slot it is given), and the eviction
loop picks its victim from the end of the list (so `BoundHolds` needs `ListIntact`
to know there is one). `ListIntact` is stated with a witness, the order in which
the links thread the slots, and each operation on the links has a lemma that says
what it does to that order: `UnlinkOrder` removes a position, `LinkOrder` puts a
slot in front, `ExtendOrder` adds an unlinked slot, `SwapRemoveOrder` renames the
last slot. `TouchOrder` and `RecycledLru` compose them. The theorems are
`TypeCorrect`, `ListAlwaysIntact`, `IndexAlwaysExact`, `BoundAlwaysHolds` and the
action property `MostRecentSpared`. Last comes `Refinement`,
`Spec => ImplementsLRU`. The abstract recency is a CHOOSE, so the proof first shows that a list links its slots in one
order only (`OrderUnique`, by the least position at which two orders differ),
then that each action does to that order, cut at the bound, what the operators of
`Recency` say. `EntriesNeverMove` instantiates `CacheReserve` beside the cache: a
`reserve` that grows leaves room for what it was asked and a `shrink_to` for the bound,
so the capacity of the vector never falls below the bound (`RoomInv`), and no
insertion moves the entries.

**SharedProofs** has what the proofs about the verifiers share. About the plan: an
order that the sort may leave, or the order of the slice, visits each input once
(`SortedVisitsAll`, `InOrderVisitsAll`); a chunk takes exactly the next inputs of
it, in lanes that differ (`ChunkTakes`, `LanesDiffer`), and the padded lanes
repeat inputs of the slice (`ChunkLanes`). About the policies:
`DalekPathsAgree`, for every order of the base point. Whether
a Dalek lane is scored at once or queued depends on what the cache holds, and the
two scores look at different things, the decoded point and the recompressed
bytes. They agree for every point and every encoding of R, the undecodable, the
non-canonical and the negative zero included (`CompressedIsCanonical`).

One consequence met on the way: in `score_dalek_lanes` the test `!signed_zero`
is implied by the test of R for small order beside it, since the two points with
x = 0 are torsion points. It costs nothing and the models keep it.

**VerifierProofs**, for every number of lanes, sizes of the two queues, batches,
keys and bounds, and any history of the cache. The inductive invariant is

    IInv == CacheInv /\ CallInv /\ ChunkInv /\ QueueInv /\ OutInv

`CacheInv`: the keys retained are distinct, no more than the bound, and each with the table
decoding gives. `CallInv`: the order visits all of the batch. `ChunkInv`: what is
kept for a lane is a function of that lane's input, a lane that hit still finds its
key when its table is read, and (`ScratchInv`) a lane that decoded and one still to
be retained have their own table in the scratch, which is empty between the chunks.
`QueueInv`: a flush would give every lane that waits the verdict of
the input whose index was recorded with it, no input waits twice, and there is
room for one more chunk whenever one may be queued. `OutInv`: the inputs taken are
the ones that wait and the ones answered, the latter with their verdicts.
`CacheTruthful` is a part of it, but inductive only with `ChunkInv`, since a chunk
retains what it finds in the scratch; `EveryInputAccounted` and `NothingPanics` need
`QueueInv`, and the verdicts need all five. From it follow `CacheIsTruthful`,
`NeverPanics`, `ScratchIsTaken`, `EachInputAccounted`, and `VerifiesEachAlone`: `Spec =>
ImplementsVerification`. A step that reports or flushes writes, by `QueueInv` and
`DalekPathsAgree` (and its counterpart for ZIP-215), only verdicts the abstract
specification may write; every other step stutters. `ChunkKeysRetained` has an
invariant of its own over `IInv` (`KeepInv`): the keys of a chunk that were looked
up stand before all others in the order of recency, so that an insertion takes the
last of the others.

**UncachedVerifierProofs**: `ScratchIsTaken` and `VerifiesEachAlone`, the same
refinement for the other driver, from

    IInv == CallInv /\ ChunkInv /\ OutInv

Nothing waits, so no queue is needed; `ChunkInv` says that the scratch holds the keys
of the chunk while it is scored, and nothing otherwise. The module also takes the
plan of the verifiers by itself: `EachInputVisitedOnce` instantiates `Batch` on the
lengths of the batches. `EveryInputOnce` speaks of the end of a call only; `VisitInv`
says at every step that the inputs visited are the first `pos` of the order, once each,
and that the order is one of all inputs, whatever the buffer held before.

**LaneProofs**, for every field, curve, number of digits, key and scalar. The
inductive invariant is

    IInv == key \in EncodedBytes /\ decoded.point \in Coordinates
            /\ TableInv /\ DigitsInv /\ LadderInv

`DigitsInv`: all digits are from -8 to 7, so that no unchecked selection leaves its
table (`DigitsStayInBounds`). `TableInv`: the slots up to the last multiple written, on
both sides, hold points, and every slot does once the lane selects. `LadderInv`: the
accumulator has the T that belongs to its coordinates wherever an addition follows,
and at the end under ZIP-215, which reads it. `NothingReadUnwritten` follows from the
last two. That a computed T is the right one is an identity of every formula
(`ExtendedPoint`); that everything else is an element of the field has to be shown
through square-and-multiply, the multiples of a generator and the weights of the
digits, which are recursive functions. The library's theorems on induction
cannot be used (they take an operator as a parameter), so `RecursionHasFunction`
and `RecursionStaysIn` give what is needed of it, from the least counterexample:
a recursion has a function, and its values stay in a set that every step keeps.

What the values are needs the curve itself. `Congruent` makes integers of the
residues: an expression of the code is congruent to the same expression over the
integers (`StandFor`), whose identities the provers decide. `Complete` is the
completeness of the addition law: for points of the curve, `1 + d x1 x2 y1 y2` and
`1 - d x1 x2 y1 y2` are never zero, because d is not a square and -1 is one
(`SQRT_M1`); without it no formula could divide. From it `AdditionAt`,
`CachedAdditionAt` and `DoublingAt`: coordinates at a point, in any scale and with or
without their T, become coordinates at the sum, and the new Z is not zero. `OppositeIs`
finds the opposite of a point at the opposite residue, which is what the two
halves of the table hold; `EntryOf` says what `Cached` stores; `DecodingOnCurve` that a
decoding that is valid is on the curve. The second invariant of the module is

    ExactInv == KeyInv /\ EntriesInv /\ ProgressInv

`KeyInv`: the decoded key is that of the lane's bytes. `EntriesInv`: the slots written
so far hold the multiples of the key's residue, and those of zero after a key that did
not decode. `ProgressInv`: when the ladder comes to digit i, the accumulator is at 8h -
gK, where h and g are what the digits from i on stand for in s and in k, so that the
four doublings multiply both by 16 (`UpperWithDigit`); the digits of s are added in
pairs, so at an odd digit h is still the one above (`IsBasePart`). Above the top digit
nothing is left because a scalar of the range leaves no carry (`NothingAbove`).
`TableHoldsMultiples` and `LadderEndsAtItsPoint` follow. Neither property is inductive,
since each speaks of one moment only.

`DecodingIsFaithful` and `ScoresArePolicy` take the bytes back to residues.
`RootExists`: the candidate root that the code raises to (p - 5)/8, or that root times
the square root of -1, is a root whenever there is one, since its square times the
denominator differs from the numerator by a fourth root of one (`FourthRootOfOne`). Its
exponent is never compared with a reference: that p - 2 inverts and p is 5 mod 8
is enough, through the recursion of `Power` (`PowerUnfolds`). The sign bit then selects
one of two roots of different parity (`SignIs`), except at x = 0, which only the
residues 0 and 4L have (`XZeroAt`), where a set sign is the negative zero. The tests of
a score become statements on residues: `SmallOrderIs` (eight times the point is
neutral), `EqualsAffineIs`, `TorsionIs` (twice the difference has xy = 0 exactly if eight
times the difference is neutral). The queued score compares bytes and never decodes R;
that it agrees with `FlushDalek` on every encoding (`QueuedIsPolicy`) needs
`RootExists` in the other direction: an R whose bytes equal those of a point of the curve
decodes, and to that point (`SameY`).

Two more theorems instantiate the shared inversion over the same field, one the
table of the base point. `InversionInv` says that the accumulator is the inverse of the
product of all Z that are left, so that the product below it times the accumulator is
the inverse of the next Z (`StepDown`); inverses are unique (`InverseUnique`), and the
encoding is that of the affine point: `EachScaledByItsOwn`. `OrdersAreTheirOwn` says the
same of the verdict on small order, for queues of points of the curve, where ladders
end. `BaseEntriesAreMultiples` is the walk once more, in eight lanes and with each
product overwritten by its reciprocal: `BaseInv` holds the blocks to their multiples
(`NextBlockIs`), the part of `inverseZ` below `left` to products and the part above to
reciprocals (`ReplacedBy`), and the two halves of the table to a point and its opposite
(`EntryIs`).

**ScalarReductionProofs**, for every radix of a limb, every order and every hash.
`ColumnsAlwaysFit`: a sum of a column stays below 32 radixes of the 4096 a register
has room for, the multiples of the order and the carry included. `DigitsAlwaysExact`:
the digits that come out are the balanced radix-16 digits of the hash modulo the
order. `CodeLimbsFit` and `CodeIsMontgomery`: the code's limbs of 52 bits and its
constants satisfy what the two assumptions of the module ask of them, with the numbers of
`scalar/wide.rs` written out. The inductive invariant of the first is

    IInv == TypesHold /\ ColumnsHold /\ PhaseHolds

No column holds more than five products, as many quotients are
there as a column reads, the carry is at most 9(B + 1), which one more column keeps
it under, and the last column, where one product falls, leaves room for twelve and
for the order's last limb below the radix. That is why the last limb of the result,
which nothing masks, fits. The second needs

    ReductionHolds == IInv /\ MontgomeryHolds /\ RecodingHolds

`MontgomeryHolds` follows the value through one pass of the columns. The product of the
half with its factor, plus the multiples of the order that the quotients found so
far stand for, is what the carry, the columns still to be read and the limbs already
split off stand for, times the power of the radix that has been cleared
(`ConvolvedIsProduct`, `EliminateKeeps`, `SplitKeeps`). A quotient clears its column because
the factor is minus the inverse of the order's lowest limb (`QuotientClears`). After
five columns the power is R, which divides the sum; R has an inverse modulo the order, so the
residue of what is left is determined although the sum was never divided
(`RDivides`). It is less than twice the order, which is what one conditional
subtraction, written as a borrow and an addition of the masked order, needs
(`SubtractedReduces`, `HalfIsReduced`); the sum of the two halves needs one more
(`OfTwoMore`). `RecodingHolds` says that the digits so far and the rest of the
scalar with its carry stand for the reduced scalar (`ByteIsTwoDigits`, `RecodeKeeps`),
and that nothing is carried out of the top, which is where the order has to leave
the top byte below 0x20.

**ChallengeHashProofs**, for every number of lanes and every set of lengths.
`AlwaysReadsInside` needs only that the shortest message of a chunk is the shortest
(`MinTotalIsLeast`): the bulk paths slice every message up to a bound tested on
that one. `DigestsAlwaysExact` says that a lane's blocks are those of its own padded
message. Every form of word equals the word of the padded message at its offset
(`PrefixIsPadded`, `MessageIsPadded`, `MixedIsPadded`, `LengthIsPadded`; the two
shifts of the length keep all its bits, `WordSplits`), the blocks
counted are the ones SHA-512 pads to (`PaddedBlocksAre`), and `DigestInv`
says that after any number of steps a lane has compressed that many blocks of its
message, or all: no bulk block comes after a lane is through (`BulkIsBusy`), and no
lane is cut short (`MaxIsGreatest`).

**LimbLaneProofs**: `OperandsAlwaysFit`, `NothingEverWraps`, `FormulasAlwaysExact`,
`ChainsAlwaysExact` and `CanonicalAlwaysExact`, for all widths with
`FieldAssumption`, all constants below the radix, all encodings and all digits.
`CodeWidthsFit` shows that the widths of the code (2^51, 2^13, 19, 2^9 and 2048) are
such widths, so the theorems speak of the code's own registers, which TLC cannot
reach. The argument of the first two is the one the comments of `field.rs` only
sketch. Values fall into classes: *Sums*, which one pass of carries leaves;
*Operands*, which the multiplier reads in full; *Loosened*, which a product leaves
before limb 0 is carried; and each operation takes classes to classes
(`ReduceLooseSums`, `ProductClasses`, `SquareClasses`, `AddOperands`). The inductive
invariant

    IInv == TypesHold /\ StageHolds /\ PhaseHolds

says of every coordinate, entry, power and sum which class it is in: the first
products of a doubling and of the addition of a cached entry are Loosened, those of
the other additions Operands, and a chain's value is Loosened only while another
squaring follows. Neither property is inductive alone, since each only speaks of the
moment a value is read. `SmallBiasEnough` and `LooseBiasEnough` are where 4p and
2048p are shown to suffice, each for the class it is used on.

The other three say that the limbs compute what `Edwards` does. TLC compares residues
modulo small factors of a scaled p; the theorems hold for any set of factors, at the
code's widths for p itself. `Value` is the number that five limbs stand for. A
residue, computed limb by limb, is that of the value (`ResidueIsOfValue`), so values
that differ by a multiple of p have the same ones (`SameResidue`). A pass of carries
telescopes to what leaves limb 4 and comes back times 19, which takes away a multiple
of p (`CarriesTelescope`, `ReducedResidue`); the columns of a product, whose halves
lie 52 bits apart while limbs are 51 wide, add up to the product of the values, the
upper ones folded (`ProductOfValues`, `SquareColumn` for the other columns of a
square, `ProductResidue`). Since nothing wraps, wrapping sums are sums. Each formula
of `Edwards` then has the residues of its form on limbs; the torsion check, which the
code writes as a difference of two points, is there the sum with the opposite of the
second (`OppositeAdded`). The invariants are

    CourseHolds   the products and sums at hand are those of the formula begun
    ChainFollows  every power so far has the residue that its step gives it,
                  and the value under way that of the squarings done

A chain's exponents are found bit by bit (`BitsGrow`, `StepsGrow`), and repeated
squaring is again a recursion, whose function exists by the least counterexample,
here through `WFMin` (`SquaresExist`). For the canonical form, two passes leave every
limb below 2^51 (`FirstPass`, `SecondPass`), though one does not; then a value not
below p has all limbs of p but the lowest, and taking p off leaves that limb only
(`ModulusTaken`). Both passes need that the carries of the first do not overflow.
Values of the lane meet this by their class (`ExaminedFit`); of the values in
`Loose`, examined beside them, it is assumed (`ExactAssumption`), as it is true of
whatever a product or a sum of the code returns.

Assumptions: the named `ASSUME`s of the modules, which TLC evaluates on the
instances. Keys and bounds are any sets of values and of numbers, with a key that is
no key; L is any number above one, lanes and queues are any positive numbers, batches
any sequences; the widths fit each other, as those of the code are proved to. A
message is short enough for the count of its blocks not to saturate, as every slice
is, and a word has whole bytes (`HashAssumption`). The modulus of the field is one
under which the code's inversion inverts (`InverseAssumption`, as under a prime), the
points of the curve form one cycle (`GeneratorAssumption`), d is no square and the
points add up as their residues do (`GroupAssumption`, which a textbook proves of
every such curve and TLC confirms of the two small ones), and what an uninitialised
slot holds is no point (`DecompressAssumption`). The verifiers are proved over the
LRU, which `HotKeyCache` is proved to implement; the digests and the arithmetic of a
lane enter them as the group law.

**Only model-checked**: liveness (`EvictionEnds`, `EveryCallReturns`),
which TLAPS cannot reach. `ChecksExact`, that the lane decides
on limbs as on residues: one direction needs that the residues modulo all `Factors`
determine a value, which nothing assumes of them. `PackingExact` and `BytesExact`
have no parameters: the runs decide them for every bit of the code's own registers.
`DigestsAreSha512`, whose rounds are a recursion over words.

## 5. What is not modelled

- *Whole verifications on limbs*: `LimbLane` is compared with `Edwards` formula by
  formula, power by power and value by value; that these make up the verdicts is
  proved of `Lane`, over residues. What TLC sees of the limbs is scaled: at 51 bits
  the products exceed its integers.
- *The interleaved pair* (`WideFePair`, `square_repeat_x2`) runs two chains that
  do not touch each other; each is the chain of `PowChain`.
- *The tables of SHA-512* (initial state, round constants) and the constants of
  the curve at their real values: numbers that are right or wrong, with no
  behaviour to them.
- *The accessors of `RuntimeVerifier`*, which forward to the verifier inside.
- *Feature detection, exports, mask conversions* (`lib.rs`, `wide/*/mod.rs`).
- *Another `KeyCache`*: the trait is sealed (`src/cache.rs:34`), so that there are
  only the two the crate ships, and both are modelled.
- *Tests, vectors and benchmarks*, read as statements about the code.

## 6. Plan

Done, in the order of importance: the cache and its refinement; the chunk plan;
the policies and the abstract verification; the cached verifier, then the other;
one lane's arithmetic; the shared inversions; the hash; the challenge reduction;
the limbs of the field with the proof that they fit; the compression function and the digest; the
change of policy over one cache.

Proved, in the same order: the cache and its refinement, the visits, both verifiers
with their refinement, the selections of a lane, its table, ladder, decoding and
scores on the group of the curve, the shared inversions, the columns and the digits of
the reduction, the blocks of the hash, the limbs of the field: that they fit, and
that formulas, chains and the canonical form are exact.

Left: that factors whose product is p determine a value, and with it `ChecksExact`.

## 7. Running it

`tlc -config MCBatch.cfg MCBatch` checks a run (the module and the
configuration of each are in `PROJECT.json`), `tlapm HotKeyCacheProofs.tla` a
module of proofs.
