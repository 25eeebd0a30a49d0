# TLA+ models of the malloc-lab allocators

This directory holds TLA+ models of the two dynamic memory allocators in
this repository, the TLC configurations that model-check them, and TLAPS
proofs about them.

* `src/unnamed/part_000` is a build-and-test script (lines 1-10) followed by
  **mm-baseline.c**, the implicit free-list allocator. Line numbers below are
  line numbers of that file.
* `src/labs/malloc-lab/mm-segregated.c` is the **segregated-fits**
  allocator: 16 size classes, each an explicit circular doubly-linked free
  list, LIFO insertion, first fit, and immediate coalescing.

## The system

Both allocators manage one region that only grows. It is obtained from
`mem_sbrk` in memlib, which is not part of this repository. Each allocator
is made of these parts:

| part | implicit (part_000) | segregated (mm-segregated.c) |
|---|---|---|
| block encoding: `pack`, `extract_*`, header and footer tags, `find_next`/`find_prev` | 378-501 | 463-602 |
| bootstrap: `mm_init` | 106-125 | 158-197 (16 list heads, prologue, epilogue) |
| extender: `extend_heap` | 275-296 | 334-354 |
| coalescer: `coalesce` | 303-336 | 364-409 (also unlinks and relinks) |
| placer: `place` | 343-358 | 419-430 and `split_block` 644-653 |
| fit search: `find_fit` | 364-373 (heap walk) | 436-458 (class lists, then larger classes) |
| free lists | none | `insert_free_block` 607-620, `remove_from_free_list` 625-628 |
| size classes | none | `get_seglist_idx` 658-679, `get_highest_1bit_idx` 684-692 |
| public API | `malloc`, `free`, `realloc`, `calloc` 138-265 | 212-324 |
| checker | `mm_checkheap` 510-538 | 697-720 |

A public call runs to completion before the next call starts, because the
allocator is single-threaded. A call composes the internal routines. For
example, `malloc` does lazy init, then the adjusted size, then `find_fit`,
then `extend_heap` when no block fits, then `place`. The hard behaviour is
therefore not concurrency. It is:

* long sequences of legal calls that interleave splits, merges and list
  splices;
* tags written at positions computed from other tags;
* the heap edges: the prologue, the epilogue, and the end of the region;
* size_t wrap-around;
* `mem_sbrk` running out of space.

## Modules

| module | models |
|---|---|
| `MMBlock` | the word encoding both files share: `wsize`, `dsize`, `tsize`, `max`, `round_up` (in size_t, i.e. modulo `SIZE_T_MOD`), `pack`, `extract_size`, `extract_alloc` |
| `MMImplicit` | mm-baseline.c, with a driver |
| `MMImplicitProofs` | TLAPS proof of type correctness of `MMImplicit` |
| `MMSegregatedProofs` | TLAPS proof of type correctness of `MMSegregated` |
| `MMAlloc` | the client contract both allocators promise, with the heap left out |
| `MMAllocProofs` | TLAPS proof that the contract keeps payloads disjoint |
| `MMSizeClass` | `get_highest_1bit_idx` and `get_seglist_idx` |
| `MMSizeClassProofs` | TLAPS proof that `get_seglist_idx` returns the documented class for every size below 2^31 |
| `MMBlockProofs` | TLAPS lemmas on what `round_up(x, dsize)` computes in size_t arithmetic |
| `MMImplicitLayoutProofs` | TLAPS proof that the baseline's `mm_init` runs once, at `brk = 0`, and that `brk` only grows |
| `MMSegregatedLayoutProofs` | TLAPS proof that the segregated prefix (class heads, prologue) stays in place, and that `brk` only grows |
| `MMSegregated` | mm-segregated.c, with a driver |
| `MC_MMImplicit`, `MC_MMSegregated`, `MC_MMSizeClass` | TLC instances: slots as model values with symmetry, or the enumeration of sizes |

**State.** The state is a heap, a record `[mem, brk, listp, trap]`. The
segregated model adds `seg`, which is `seglist`.

* `mem` maps the byte address of every 4-byte word below `MAX_HEAP` to its
  contents. Headers, footers, and in the segregated model the `pred` and
  `succ` links, are written into `mem` and read back from it, exactly as
  the code does.
* `find_next`, `find_prev` and the footer position are computed from the
  words in `mem`. So a tag written at a stale place is a misparsed heap in
  the model too.
* A `pred` or `succ` pointer is 8 bytes. The model keeps it whole in the
  word at its offset (`b+8`, `b+16`) and never reads the word after it.
* A read outside the region yields 0. A write outside it is lost.

**Operations.** Every C function that changes the heap is an operator with
the C function's name. It takes a heap and returns the new heap and the
result. The helpers are called in the order the C code calls them, so each
operator models the whole function: `coalesce` includes its unlinks and the
final `insert_free_block`, and `malloc` includes the lazy `mm_init`, the
fit, the extension and the placement.

Where the C code reads memory it has just written (a list splice in
`insert_free_block`, the footer and next header in `place`, the chain of
`malloc`: fit, then extension, then placement), the model passes the
intermediate memory or result as the parameter of a helper operator
named for that part of the function (`link_succ`, `place_split`,
`malloc_fit`, `malloc_extended`, ...). The helpers keep the order of
the writes, and "map" gives each one the lines it stands for. The loops
of `find_fit` are recursive functions of the iteration count and the
current block (`find_fit_scan`), bounded by the number of blocks the
region can hold.

The driver stands for the trace player of mdriver. It holds returned
pointers in slots `Ids`, together with the size requested for each slot
(`ptr`, `reqsz`). The actions are `MmInit`, `Malloc(i, n)`, `Free(i)`,
`Realloc(i, n)` and `Calloc(i, a, b)`. Each action applies one public call
atomically. A failed `realloc` of a non-zero size keeps the old pointer.

**Errors.** Undefined behaviour that kills the process is the variable
`trap`. There are two cases:

* `SIGSEGV`: `malloc` ignores a failed `mm_init` and dereferences NULL.
  Run `seg_initfail` shows it for the segregated allocator. The implicit
  model reaches the same trap when `MAX_HEAP` is below its 16-byte prefix.
* `SIGFPE`: the baseline `calloc(0, n)` divides by zero.

**Arithmetic.** size_t arithmetic is taken modulo `SIZE_T_MOD`, which is
2^16 in the instances. This is where request sizes near `SIZE_MAX` wrap.
Header words hold at most `MAX_HEAP`, far below 2^32, so the truncation to
`word_t` is the identity and is not written.

**Left out.**

* Payload bytes. `memcpy` in `realloc`, `memset` in `calloc` and client
  writes move data only. `ClientDataPreserved` checks instead that the
  allocator never writes a live payload word.
* `dbg_print_heap`, which is output only.
* The test script.

`mem_sbrk` is modelled from the spec as `sbrk_ok`, a bump of `brk` that
fails past `MAX_HEAP`.

**The contract.** `MMAlloc` describes what a client of either allocator
sees. Its state is the slots (`ptr`, `reqsz`) and the end of the managed
region, `top`. Every step is a call of one slot, and the region grows or
stays, up to `MAX_HEAP`. The call does one of four things:

* it hands the slot a fresh payload (`Allocate`, `Resize`). The payload is
  8-aligned, lies below `top`, and is apart from the bytes every other
  live slot holds;
* it empties the slot (`Release`);
* it leaves the slot as it was (`Keep`: a failed call, `mm_init`,
  `malloc(0)`).

Each allocator module instantiates it as `Alloc == INSTANCE MMAlloc WITH
top <- brk`. The driver's slots are the contract's slots, so the
refinement mapping is the identity on them and sends `brk` to `top`. The
heap, the lists and `trap` are hidden. `AllocSpec == Alloc!Spec` is checked
as a PROPERTY, so TLC checks that every step of the detailed model is a
step of the contract or a stutter.

## Properties and runs

| run | cfg | expect | properties | shows |
|---|---|---|---|---|
| implicit_safety | `MC_MMImplicit_safety.cfg` | pass | TypeOK, HeapWellFormed, NoAdjacentFree, Ownership, PayloadFits, AllocSpec, ImplLayout | the baseline keeps `heap_listp` NULL exactly while the region is empty and at the prologue (address 4) after that; it keeps a parseable heap (I1, I4, sentinels), coalesces immediately (I3), hands out each block to exactly one holder, gives at least the requested bytes, and implements the contract `MMAlloc` |
| implicit_align16 | `MC_MMImplicit_align16.cfg` | violation | Aligned16 | payloads are only 8-aligned (I2) |
| implicit_huge | `MC_MMImplicit_huge.cfg` | violation | Ownership | `malloc(SIZE_MAX-7)` wraps `asize` to 0 and returns a pointer into a free block |
| implicit_calloc0 | `MC_MMImplicit_calloc0.cfg` | violation | NoTrap | `calloc(0, n)` divides by zero |
| sizeclass | `MC_MMSizeClass.cfg` | pass | SizeClassCorrect | `get_seglist_idx` agrees with the documented classes for sizes 1..300 and both sides of every power of two up to 2^22 |
| seg_safety | `MC_MMSegregated_safety.cfg` | pass | TypeOK, HeapWellFormed, FreeListsExact, Ownership, PayloadFits, ClientDataPreserved, AllocSpec, SegLayout | the segregated allocator keeps `seglist` and `heap_listp` NULL together or at the 16 class heads and the prologue below `brk`, `mm_init` running once, at `brk = 0`, and the only trap being the NULL `seglist` in a region still empty; it stays well typed with `brk` inside the region, keeps the heap parseable, and every class list circular and doubly linked, holding exactly the free blocks of its class (I5, I6); no step writes the live part of a payload a slot keeps (L2 for in-place shrink, and no stray tag or link write); and it implements the contract `MMAlloc` |
| seg_coalesce | `MC_MMSegregated_coalesce.cfg` | pass | NoAdjacentFree | I3 holds when `realloc` never shrinks in place |
| seg_shrink | `MC_MMSegregated_shrink.cfg` | violation | NoAdjacentFree | the in-place shrink leaves its remainder next to a free block |
| seg_align16 | `MC_MMSegregated_align16.cfg` | violation | Aligned16 | the 552-byte prefix puts the first payload at 8 mod 16 |
| seg_huge | `MC_MMSegregated_huge.cfg` | violation | PayloadFits | `get_asize` wraps for `size = SIZE_MAX-7` and returns a 32-byte block |
| seg_callocwrap | `MC_MMSegregated_callocwrap.cfg` | violation | PayloadFits | `calloc` does not test `nmemb * size` for overflow |
| seg_initfail | `MC_MMSegregated_initfail.cfg` | violation | NoTrap | with `MAX_HEAP = 544`, below the 552-byte prefix, `mm_init` fails and `malloc` reads the NULL `seglist` |

Some properties span several blocks or several steps:

* `HeapWellFormed` is `mm_checkheap`'s walk: from the prologue, following
  the header sizes must reach a size-0 allocated epilogue at `brk`, with a
  footer equal to the header on every block.
* `FreeListsExact` ties every class list to the set of free blocks found
  by that walk.
* `Ownership` ties the allocated blocks to the driver's slots.
* `ClientDataPreserved` is an action property over two states.
* `SegLayout` relates `seglist`, `heap_listp`, `brk` and `trap`.
  `seglist` and `heap_listp` are NULL exactly while `brk = 0`. After
  that `seglist` is 0, `heap_listp` is the prologue after the 16 heads,
  and the 552-byte prefix lies below `brk`. So `mm_init` ran at most
  once, at the start of the region (H14), and the crash on a NULL
  `seglist` at line 228 (H19) happens only in a region that could not
  take the prefix. An `mm_init` that ran again on a set-up heap breaks
  it. The safety run cannot show that case, because at `MAX_HEAP = 680`
  a second prefix does not fit. With the guard `heap_listp = NULL`
  removed from `MmInit`, TLC finds the violation at `MAX_HEAP = 1240`.
* `ImplLayout` does the same for the baseline. `heap_listp` is NULL
  exactly while `brk = 0`, and is `wsize` after that. So `mm_init` ran at
  most once, at the start of the region. The NULL dereference at line 154
  can only happen while `heap_listp` is NULL.

Each property of a passing run has a mutant in `PROJECT.json`: an operator
that models a plausible bug, and that TLC must catch with that property.
The mutants are:

* a footer written before its header;
* case 2 of `coalesce` skipped;
* `find_fit` that ignores the allocated bit;
* no header/footer overhead in the adjusted size;
* `extend_heap` that ignores a failed `mem_sbrk` (in both models);
* an unlink that fixes only the forward link;
* a moving `realloc` that never frees the old block (`realloc_moved`);
* `get_seglist_idx` without its power-of-two correction;
* for `SegLayout`, an `mm_init` that puts the prologue at the last class
  head instead of after it (`initialized_prologue_low`);
* for `ImplLayout`, an `mm_init` that sets `heap_listp` to the padding
  word `&start[0]` (`initialized_listp_padding`);
* for `AllocSpec`, `find_fit` that ignores the allocated bit
  (implicit), and a `place` that does not unlink the block it allocates
  (segregated). A later fit then hands the same block out twice, which
  the contract's `Fresh` rejects.

**Bounds.** size_t has 16 bits (`SIZE_T_MOD = 65536`). The requests
`65528` and `2 * 32772` reach the wrap-around that a 64-bit size_t reaches
at `SIZE_MAX - 7`. The two instances are:

* **Implicit:** `chunksize = 32` and `MAX_HEAP = 80`. That is the 16-byte
  prefix and two chunks. Three slots, with requests 1, 9 and 40, cover
  every split and no split, a request larger than a chunk, and heap
  exhaustion. At this bound `mm_init` never fails, so `ImplLayout` on
  this run does not meet a failed `mm_init` (H20); `ImplLayoutInvariant`
  covers that case for every `MAX_HEAP`.
* **Segregated:** `chunksize = 64` and `MAX_HEAP = 680`. That is the
  552-byte prefix and two chunks. Two slots, with requests 40 (a 56-byte
  block), 8 through calloc (32 bytes), and realloc to 1 or 40, cover:
  * blocks of classes 0, 1 and 2;
  * splits with a 32-byte remainder;
  * an in-place shrink, and a moving grow;
  * all four coalescing cases, and coalescing at the epilogue;
  * a failing extension.

  Three slots give more than 300,000 distinct states, because stale link
  and footer words make heaps distinct, and take longer than a run may.

`MaxWalk`, the bound on list and heap walks, is the number of blocks the
region can hold. It is computed from `MAX_HEAP`, so it is never the bound
that stops a walk of a well-formed heap.

**Fairness.** None is assumed. The allocator makes no progress promise
beyond returning from each call, and each call is one atomic step.
Deadlock is checked and does not occur, because `free` is always enabled.

## Proofs

`MMImplicitProofs` proves `THEOREM TypeCorrect == Spec => []TypeOK` for
every value of the constants that satisfies `SizeTAssumption` and
`ImplicitAssumption`.

* There is one typing lemma per helper, each stated with ASSUME ... PROVE:
  `RdType`, `EncodeType`, `SizeType`, `WriteType`, `NavType`,
  `CoalesceType`, `PlaceType`, `FindFitType`, `RoundUpType`,
  `ExtendHeapType`, `MmInitType`.
* There is one lemma per public function: `MallocType`, `FreeType`,
  `ReallocType`, `CallocType`.
* The step case of the theorem takes one step per driver action.
* TypeOK is inductive as it stands. Two things in the model make this so:
  * memory reads are total (`Rd` yields 0 outside the region);
  * `find_fit` passes the block its loop stops at through `fit_or_null`,
    which yields a block of `Addr` or NULL. So the loop itself, a
    recursive function, is never expanded in a proof.

  The main fact the proof establishes is that `brk` stays within
  `0..MAX_HEAP`. It holds because every growth is guarded by `sbrk_ok`.

`MMSegregatedProofs` proves the same theorem, `TypeCorrect`, for the
segregated allocator, from `SizeTAssumption` and `SegregatedAssumption`.
It has the same structure. Three things are new:

* `WrType`, `InsertType` and `RemoveType` cover the list splices. Each
  splice is a chain of word writes, and each write stores an integer read
  from the memory as it stands after the previous write.
* `SeglistIdxType` shows that the size-class index is one of the 16 classes
  for any size. `get_highest_1bit_idx` is one plus the cardinality of a
  subset of `1..31`. That subset is finite by `FS_Interval` and
  `FS_Subset` of `FiniteSetTheorems`, so its cardinality is a natural.
* `MmInitType` shows that the 552-byte prefix mm_init writes
  (`InitialWords`) is integers everywhere. It also shows that `brk` stays
  within the region when the prefix fits.

`TypeOK` is checked by `seg_safety` as well. Its mutant is an
`extend_heap` that ignores a failed `mem_sbrk`: TLC then finds `brk`
beyond `MAX_HEAP`.

Some things stay with TLC:

* Everything about the loops and walks (`find_fit_scan`, `Walk`,
  `ListWalk`). They are recursive functions, and the provers cannot do
  induction over such data.
* Liveness. There is none to check here, and the provers cannot reason
  about fairness or ENABLED.

`MMAllocProofs` proves `THEOREM AllocDisjoint == Spec => []Disjoint` for
the contract, for every set of slots and every `MAX_HEAP`.

* `Disjoint` says that live payloads are pairwise apart and lie below
  `top`. It is not inductive alone, because a step's new payload must be
  compared with the old ones, and that needs their types. The inductive
  invariant is `TypeOK /\ Disjoint`.
* `NextInv` shows the invariant is preserved. It picks the calling slot and
  checks the region bound and pairwise disjointness. Each check splits on
  whether a slot is the caller. A caller's new payload is apart by `Fresh`.
  Other slots are unchanged, and `top` only grows.
* Together with the refinement checked in the two safety runs, this gives disjoint payloads for
  both allocators on the checked instances. The refinement itself is only
  checked by TLC: the mapping hides the heap, and relating the heap to the
  slots needs the walk, a recursive function.

`MMSizeClassProofs` proves the size-class algorithm for all sizes.

* `THEOREM SizeClassAll` states that for every `s` with `0 < s < 2^31`,
  `get_seglist_idx(s) = ClassOf(s)`, the reference that picks the class
  whose range `[2^(c+4), 2^(c+5))` holds `s`, with the last class open.
  The bound is the range of the code's `uint32_t` argument and `int`
  shift.
* The provers know nothing of `2^k` for a symbolic `k`. The proof
  therefore works with a table `pw == [k \in 0..31 |-> 2^k]`, whose
  entries are literals. Lemmas on the table give `pw[k+1] = 2 * pw[k]`,
  monotonicity, and `BitLength`: every `s` lies between `pw[p]` and
  `pw[p+1]` for one `p`.
* From `p` the proof computes `get_highest_1bit_idx(s) = p`: the shifts
  `j` that leave `(s \div 2) \div 2^(j-1)` non-zero are `1..p-1`, and
  the function counts them plus one. It then
  shows that the power-of-two correction and the shift by 4 land on the
  one class `ClassOf` chooses.
* `THEOREM SizeClassInvariant == Spec => []SizeClassCorrect` carries the
  result to the sizeclass run. It relies on `SmallSizesAssumption`
  (`SmallSizes \in 1..2^30`), which TLC evaluates on that run, and on
  the enumerated sizes staying below 2^31.

`MMSegregatedLayoutProofs` proves `THEOREM SegLayoutInvariant == Spec =>
[]SegLayout` and `THEOREM RegionGrows == Spec => [][Alloc!Grows]_vars`
for every value of the constants.

* `SegLayout` is not inductive with the heap left free, but it is
  inductive together with `TypeOK`, which `TypeCorrect` of
  `MMSegregatedProofs` supplies. No walk is needed, because the layout
  is about the prefix only.
* The argument rests on two relations between heap records:
  * `Keeps(h, g)`: `g` is typed, has the same `seglist`, `heap_listp` and
    `trap` as `h`, and a `brk` at least as large;
  * `Advances(h, g)`: `g` is typed, satisfies the layout, and has a `brk`
    at least as large.
* `Keeps` also requires that `brk` stay put while `seglist` is NULL.
  This is what pins `mm_init` to the start of the region: the only path
  to `extend_heap` runs through `find_fit` on a set `seglist`, and
  `mm_init` itself is reached only while `heap_listp` is NULL.
* Each helper that a public function calls after `mm_init` keeps the
  record: `extend_heap` only writes memory and raises `brk`, and a fit
  only rewrites memory. `mm_init` (`MmInitLayout`, with `heap_listp`
  NULL and so `brk = 0`) advances it: the heads sit at 0, the prologue
  16 words on, and the epilogue below the new `brk`.
  Each public function (`MallocLayout`, `FreeKeeps`, `ReallocLayout`,
  `CallocLayout`) therefore advances the heap it is given.
* `NextLayout` takes one step per driver action and yields both
  `SegLayout'` and `brk' \in brk..MAX_HEAP`. The second is the region
  step of the refinement to `MMAlloc`.

`MMImplicitLayoutProofs` proves the same pair for the baseline:
`THEOREM ImplLayoutInvariant == Spec => []ImplLayout` and `THEOREM
RegionGrows`.

* The argument is the one above, with one difference. `Keeps` also
  requires that `brk` stay put while `heap_listp` is NULL.
* This holds because of the order in which the code runs:
  * the only calls made with a NULL `heap_listp` are `free` (memory
    only), `mm_init`, and `malloc`'s dereference of NULL;
  * `extend_heap` runs only after `heap_listp` is set.
* So `mm_init` always starts at `brk = 0` and puts the prologue at
  `wsize`.
* `MmInitLayout` needs `trap = "none"`, which both of its callers
  guarantee.

In both allocators only `RegionGrows` of the refinement is proved. The
slot part needs the heap walk.

`MMBlockProofs` shows what `round_up(x, dsize)` computes, for every
width of size_t. It is the least multiple of `dsize` at or above `x`
while `x + dsize - 1` does not wrap (`RoundUpExact`), and 0 once it does
(`RoundUpWraps`). On these lemmas rest four theorems about the adjusted
block sizes:

* `AsizeCovers` (`MMImplicitProofs`): for every request up to
  `SIZE_MAX - 15`, `round_up(size, dsize) + dsize` is a multiple of
  `dsize` at least `size + dsize`.
* `AsizeWraps`: for every request from `SIZE_MAX - 14` on, the adjusted
  size is 0 or `dsize`. This is the whole range behind the
  `implicit_huge` finding.
* `GetAsizeCovers` (`MMSegregatedProofs`): for every request up to
  `SIZE_MAX - 19`, `get_asize` is a multiple of `dsize`, at least
  `min_block_size` and at least `size + tsize`.
* `GetAsizeWraps`: for every request from `SIZE_MAX - 18` on, `get_asize`
  is `min_block_size`. This is the whole range behind `seg_huge`.

TLC meets these wraps only at the few sizes a run enumerates. The theorems
give the exact boundary for a 64-bit size_t as well.

## Plan for further work

* **Size checks.** Prove that `PayloadFits` holds once requests are
  below the boundaries of `AsizeCovers` and `GetAsizeCovers`. This needs
  the header of a held block to be left alone, which needs the walk.
* **Refinement proof.** Prove `Spec => AllocSpec` for the implicit
  allocator, from an inductive invariant that records the allocated blocks
  of the slots without the walk.
