----------------------- MODULE MMSegregatedLayoutProofs -----------------------
(***************************************************************************)
(* Proof that the prefix mm_init lays out stays in place (SegLayout), and  *)
(* that brk never shrinks, for every heap size, chunk size and set of      *)
(* requests.                                                               *)
(*                                                                         *)
(* mm_init runs only while heap_listp is NULL, and while it is NULL no  *)
(* call has grown the region: malloc dereferences the NULL seglist before *)
(* it could call extend_heap, and free and realloc write memory only.  So *)
(* mm_init always starts at brk = 0 and puts seglist there.  Every routine *)
(* that runs once the prefix is set writes memory, and brk only upward    *)
(* through extend_heap (Keeps); every public call hence takes a heap with *)
(* the layout to a heap with the layout (Advances).                        *)
(***************************************************************************)
EXTENDS MMSegregatedProofs

\* SegLayout, of a heap record.
Layout(h) ==
  /\ h.seg \in {NULL, 0}
  /\ (h.seg = NULL) = (h.listp = NULL)
  /\ (h.seg = NULL) = (h.brk = 0)
  /\ h.seg # NULL =>
       /\ h.listp = Head(h.seg, size_class_cnt)
       /\ init_size <= h.brk
  /\ h.trap # "none" => h.brk = 0

\* g is h after a routine that wrote memory, and grew the region only if
\* the prefix was set.
Keeps(h, g) ==
  /\ g \in HeapT
  /\ g.seg = h.seg /\ g.listp = h.listp /\ g.trap = h.trap
  /\ h.brk <= g.brk
  /\ h.seg = NULL => g.brk = h.brk

LEMMA KeepsLayout ==
  ASSUME NEW h \in HeapT, NEW g, Layout(h), Keeps(h, g)
  PROVE  Layout(g)
<1>1. g.seg = h.seg /\ g.listp = h.listp /\ g.trap = h.trap /\ h.brk <= g.brk
      /\ (h.seg = NULL => g.brk = h.brk)
  BY DEF Keeps
<1>2. h.brk \in Int /\ g.brk \in Int
  BY DEF Keeps, HeapT
<1>3. CASE h.seg = NULL
  BY <1>1, <1>3 DEF Layout
<1>4. CASE h.seg # NULL
  <2>1. init_size \in Nat /\ init_size > 0
    BY DEF init_size, size_class_cnt, block_size, min_block_size, prologue_size,
           epilogue_size, dsize, wsize, ptr_size
  <2>2. h.seg = 0 /\ h.listp = Head(h.seg, size_class_cnt) /\ init_size <= h.brk
        /\ h.trap = "none"
    <3>1. h.brk # 0
      BY <1>4 DEF Layout
    <3>2. QED
      BY <1>4, <3>1 DEF Layout, NULL
  <2>3. init_size <= g.brk /\ g.brk # 0
    BY <1>1, <1>2, <2>1, <2>2
  <2>4. QED
    BY <1>1, <1>4, <2>2, <2>3 DEF Layout
<1>5. QED
  BY <1>3, <1>4

LEMMA KeepsTrans ==
  ASSUME NEW h \in HeapT, NEW g, NEW k, Keeps(h, g), Keeps(g, k)
  PROVE  Keeps(h, k)
BY DEF Keeps, HeapT

LEMMA KeepsMem ==
  ASSUME NEW h \in HeapT, NEW m \in MemT
  PROVE  Keeps(h, [h EXCEPT !.mem = m])
BY DEF Keeps, HeapT

LEMMA KeepsRefl ==
  ASSUME NEW h \in HeapT
  PROVE  Keeps(h, h)
BY DEF Keeps, HeapT

-----------------------------------------------------------------------------
(* Internal routines.                                                      *)

LEMMA ExtendHeapKeeps ==
  ASSUME NEW h \in HeapT, h.seg # NULL, NEW size \in Int
  PROVE  Keeps(h, extend_heap(h, size).h)
<1> DEFINE sz == round_up(size, dsize)
           old_epi == h.brk - epilogue_size
           c == coalesce(write_epilogue_after(write_block(h.mem, old_epi, sz, FALSE),
                                              old_epi), h.seg, old_epi)
<1>1. extend_heap(h, size).h \in HeapT
  BY ExtendHeapType
<1>2. sz \in 0 .. SIZE_T_MOD - 1
  BY RoundUpType DEF dsize, wsize
<1>3. CASE sbrk_ok(h, sz)
  <2>1. extend_heap(h, size) = extended(h, sz, c)
    BY <1>3 DEF extend_heap, extend_heap_rounded, c, old_epi, sz
  <2>2. extended(h, sz, c).h = [h EXCEPT !.mem = c.mem, !.brk = h.brk + sz]
    BY DEF extended
  <2>3. extend_heap(h, size).h = [h EXCEPT !.mem = c.mem, !.brk = h.brk + sz]
    BY <2>1, <2>2, Zenon
  <2>4. QED
    BY <1>1, <1>2, <2>3 DEF Keeps, HeapT
<1>4. CASE ~sbrk_ok(h, sz)
  <2>1. extend_heap(h, size).h = h
    BY <1>4 DEF extend_heap, extend_heap_rounded, sz
  <2>2. QED
    BY <2>1, KeepsRefl
<1>5. QED
  BY <1>3, <1>4

LEMMA MallocFitKeeps ==
  ASSUME NEW h \in HeapT, h.seg # NULL, NEW asize \in Int, NEW fit \in Int
  PROVE  Keeps(h, malloc_fit(h, asize, fit).h)
<1>1. CASE fit # NULL
  <2>1. place(h.mem, h.seg, fit, asize) \in MemT
    BY PlaceType DEF HeapT
  <2>2. QED
    BY <1>1, <2>1, KeepsMem DEF malloc_fit
<1>2. CASE fit = NULL
  <2> DEFINE ext == extend_heap(h, max(asize, chunksize))
  <2>1. max(asize, chunksize) \in Int
    BY MaxType, SegregatedAssumption
  <2>2. Keeps(h, ext.h) /\ ext.h \in HeapT /\ ext.blk \in Int
    BY <2>1, ExtendHeapKeeps, ExtendHeapType
  <2>3. Keeps(ext.h, malloc_extended(asize, ext).h)
    <3>1. CASE ext.blk = NULL
      BY <2>2, <3>1, KeepsRefl DEF malloc_extended
    <3>2. CASE ext.blk # NULL
      <4>1. place(ext.h.mem, ext.h.seg, ext.blk, asize) \in MemT
        BY <2>2, PlaceType DEF HeapT
      <4>2. QED
        BY <2>2, <3>2, <4>1, KeepsMem DEF malloc_extended
    <3>3. QED
      BY <3>1, <3>2
  <2>4. QED
    BY <1>2, <2>2, <2>3, KeepsTrans DEF malloc_fit
<1>3. QED
  BY <1>1, <1>2

\* g is h after a public call: a well-typed heap with the layout, and a
\* region at least as large.
Advances(h, g) == g \in HeapT /\ Layout(g) /\ h.brk <= g.brk

LEMMA KeepsAdvances ==
  ASSUME NEW h \in HeapT, NEW g, Layout(h), Keeps(h, g)
  PROVE  Advances(h, g)
BY KeepsLayout DEF Keeps, Advances

LEMMA AdvancesTrans ==
  ASSUME NEW h \in HeapT, NEW g, NEW k, Advances(h, g), Keeps(g, k)
  PROVE  Advances(h, k)
<1>1. Layout(k)
  BY KeepsLayout DEF Advances
<1>2. QED
  BY <1>1 DEF Advances, Keeps, HeapT

(* mm_init on a heap without a prefix: the region is still empty, so      *)
(* seglist lands at 0, the prologue after the 16 heads and brk past the  *)
(* epilogue, and the first chunk is added on top of that.                 *)
LEMMA MmInitLayout ==
  ASSUME NEW h \in HeapT, Layout(h), h.listp = NULL, h.trap = "none"
  PROVE  Advances(h, mm_init(h).h) /\ mm_init(h).h.trap = "none"
<1>0. h.brk = 0
  BY DEF Layout
<1>1. CASE sbrk_ok(h, init_size)
  <2> DEFINE h1 == initialized(h)
  <2>1. h1 \in HeapT
    BY <1>1, InitializedType
  <2>2. /\ h1.seg = h.brk
        /\ h1.listp = Head(h.brk, size_class_cnt)
        /\ h1.brk = h.brk + init_size
        /\ h1.trap = h.trap
    BY DEF initialized
  <2>3. Layout(h1)
    <3>1. h.brk \in Nat
      BY DEF HeapT
    <3>2. QED
      BY <1>0, <2>2, <3>1 DEF Layout, NULL, Head, block_size, min_block_size, wsize, ptr_size,
                        prologue_size, epilogue_size, init_size, size_class_cnt, dsize
  <2>4. Advances(h, h1)
    BY <2>1, <2>2, <2>3 DEF Advances, HeapT, init_size, size_class_cnt, block_size,
                           min_block_size, wsize, ptr_size, prologue_size, epilogue_size, dsize
  <2>5. Keeps(h1, extend_heap(h1, chunksize).h)
    <3>1. h1.seg # NULL
      BY <1>0, <2>2 DEF NULL
    <3>2. QED
      BY <2>1, <3>1, ExtendHeapKeeps, SegregatedAssumption
  <2>6. mm_init(h).h = extend_heap(h1, chunksize).h
    BY <1>1 DEF mm_init, init_result
  <2>7. QED
    BY <2>1, <2>2, <2>4, <2>5, <2>6, AdvancesTrans DEF Keeps
<1>2. CASE ~sbrk_ok(h, init_size)
  <2>1. mm_init(h).h = h
    BY <1>2 DEF mm_init
  <2>2. QED
    BY <2>1, KeepsRefl, KeepsAdvances
<1>3. QED
  BY <1>1, <1>2

-----------------------------------------------------------------------------
(* Public functions.                                                       *)

LEMMA MallocLayout ==
  ASSUME NEW h \in HeapT, Layout(h), h.trap = "none", NEW size \in Int
  PROVE  Advances(h, malloc(h, size).h)
<1> DEFINE h1 == IF h.listp = NULL THEN mm_init(h).h ELSE h
           asize == get_asize(size)
<1>1. Advances(h, h1) /\ h1.trap = "none"
  <2>1. CASE h.listp = NULL
    BY <2>1, MmInitLayout
  <2>2. CASE h.listp # NULL
    BY <2>2, KeepsRefl, KeepsAdvances
  <2>3. QED
    BY <2>1, <2>2
<1>2. h1 \in HeapT /\ Layout(h1)
  BY <1>1 DEF Advances
<1>3. asize \in Int
  BY AsizeType
<1>4. Advances(h, malloc_search(h1, asize).h)
  <2>1. CASE h1.seg = NULL
    <3> DEFINE h2 == [h1 EXCEPT !.trap = "SIGSEGV"]
    <3>1. malloc_search(h1, asize).h = h2
      BY <2>1 DEF malloc_search
    <3>2. h2 \in HeapT
      BY <1>2 DEF HeapT, Traps
    <3>3. Layout(h2)
      BY <1>2, <2>1 DEF Layout
    <3>4. QED
      BY <1>1, <3>1, <3>2, <3>3 DEF Advances, HeapT
  <2>2. CASE h1.seg # NULL
    <3> DEFINE fit == find_fit(h1.mem, h1.seg, asize)
    <3>1. fit \in Int
      <4>1. fit \in Addr \cup {NULL}
        BY <1>2, <1>3, FindFitType DEF HeapT
      <4>2. QED
        BY <4>1 DEF Addr, NULL
    <3>2. malloc_search(h1, asize).h = malloc_fit(h1, asize, fit).h
      BY <2>2 DEF malloc_search
    <3>3. Keeps(h1, malloc_fit(h1, asize, fit).h)
      BY <1>2, <1>3, <2>2, <3>1, MallocFitKeeps
    <3>4. QED
      BY <1>1, <3>2, <3>3, AdvancesTrans
  <2>3. QED
    BY <2>1, <2>2
<1>5. CASE size # 0
  <2>1. malloc(h, size).h = malloc_search(h1, asize).h
    BY <1>5 DEF malloc
  <2>2. QED
    BY <1>4, <2>1
<1>6. CASE size = 0
  BY <1>6, KeepsRefl, KeepsAdvances DEF malloc
<1>7. QED
  BY <1>5, <1>6

LEMMA FreeKeeps ==
  ASSUME NEW h \in HeapT, NEW bp \in Int
  PROVE  Keeps(h, free(h, bp))
<1>1. free(h, bp) \in HeapT
  BY FreeType
<1>2. QED
  BY <1>1 DEF free, Keeps, HeapT

LEMMA ReallocLayout ==
  ASSUME NEW h \in HeapT, Layout(h), h.trap = "none", NEW p \in Int, NEW size \in Int
  PROVE  Advances(h, realloc(h, p, size).h)
<1> DEFINE old == payload_to_header(p)
           asize == get_asize(size)
           r == malloc(h, size)
<1>1. Advances(h, r.h) /\ r \in MallocT
  BY MallocLayout, MallocType
<1>2. Advances(h, realloc_moved(h, p, r).h)
  <2>1. CASE r.ret = NULL
    BY <1>1, <2>1 DEF realloc_moved
  <2>2. CASE r.ret # NULL
    <3>1. Keeps(r.h, free(r.h, p))
      BY <1>1, FreeKeeps DEF MallocT
    <3>2. QED
      BY <1>1, <2>2, <3>1, AdvancesTrans DEF realloc_moved
  <2>3. QED
    BY <2>1, <2>2
<1>3. Advances(h, free(h, p))
  BY FreeKeeps, KeepsAdvances
<1>4. Advances(h, [h EXCEPT !.mem = split_block(h.mem, h.seg, old, asize)])
  <2>1. old \in Int /\ asize \in Int /\ h.mem \in MemT /\ h.seg \in Int
    BY AsizeType DEF old, asize, payload_to_header, dsize, wsize, HeapT
  <2>2. split_block(h.mem, h.seg, old, asize) \in MemT
    BY <2>1, SplitType
  <2>3. QED
    BY <2>2, KeepsMem, KeepsAdvances
<1>5. Advances(h, h)
  BY KeepsRefl, KeepsAdvances
<1>6. QED
  BY <1>1, <1>2, <1>3, <1>4, <1>5 DEF realloc

LEMMA CallocLayout ==
  ASSUME NEW h \in HeapT, Layout(h), h.trap = "none", NEW nmemb \in Int, NEW size \in Int
  PROVE  Advances(h, calloc(h, nmemb, size).h)
<1>1. (nmemb * size) % SIZE_T_MOD \in Int
  BY SizeTAssumption
<1>2. QED
  BY <1>1, MallocLayout DEF calloc

-----------------------------------------------------------------------------
(* The driver.                                                             *)

LEMMA LayoutHeap ==
  SegLayout => Layout(heap)
BY DEF SegLayout, Layout, heap

LEMMA CommitAdvances ==
  ASSUME NEW h, Advances(heap, h), Commit(h)
  PROVE  SegLayout' /\ brk' \in brk .. MAX_HEAP
BY DEF Advances, Layout, Commit, SegLayout, HeapT, heap

LEMMA NextLayout ==
  ASSUME TypeOK, SegLayout, [Next]_vars
  PROVE  SegLayout' /\ brk' \in brk .. MAX_HEAP
<1>1. heap \in HeapT /\ Layout(heap)
  BY HeapFromTypeOK, LayoutHeap
<1>2. CASE MmInit
  <2>1. heap.trap = "none" /\ heap.listp = NULL
    BY <1>2 DEF MmInit, heap
  <2>2. Advances(heap, mm_init(heap).h)
    BY <1>1, <2>1, MmInitLayout
  <2>3. QED
    BY <1>2, <2>2, CommitAdvances DEF MmInit
<1>3. ASSUME NEW i \in Ids, NEW n \in Requests, Malloc(i, n)
      PROVE  SegLayout' /\ brk' \in brk .. MAX_HEAP
  <2>1. heap.trap = "none" /\ n \in Int
    BY <1>3, SegregatedAssumption DEF Malloc, heap
  <2>2. Advances(heap, malloc(heap, n).h)
    BY <1>1, <2>1, MallocLayout
  <2>3. QED
    BY <1>3, <2>2, CommitAdvances DEF Malloc, Return
<1>4. ASSUME NEW i \in Ids, Free(i)
      PROVE  SegLayout' /\ brk' \in brk .. MAX_HEAP
  <2>1. ptr[i] \in Int
    BY DEF TypeOK
  <2>2. Advances(heap, free(heap, ptr[i]))
    BY <1>1, <2>1, FreeKeeps, KeepsAdvances
  <2>3. QED
    BY <1>4, <2>2, CommitAdvances DEF Free
<1>5. ASSUME NEW i \in Ids, NEW n \in ReallocRequests \cup {0}, Realloc(i, n)
      PROVE  SegLayout' /\ brk' \in brk .. MAX_HEAP
  <2>1. heap.trap = "none" /\ n \in Int /\ ptr[i] \in Int
    BY <1>5, SegregatedAssumption DEF Realloc, heap, TypeOK
  <2>2. Advances(heap, realloc(heap, ptr[i], n).h)
    BY <1>1, <2>1, ReallocLayout
  <2>3. QED
    BY <1>5, <2>2, CommitAdvances DEF Realloc, ReallocReturn
<1>6. ASSUME NEW i \in Ids, NEW a \in CallocNmemb, NEW b \in CallocSize, Calloc(i, a, b)
      PROVE  SegLayout' /\ brk' \in brk .. MAX_HEAP
  <2>1. heap.trap = "none" /\ a \in Int /\ b \in Int
    BY <1>6, SegregatedAssumption DEF Calloc, heap
  <2>2. Advances(heap, calloc(heap, a, b).h)
    BY <1>1, <2>1, CallocLayout
  <2>3. QED
    BY <1>6, <2>2, CommitAdvances DEF Calloc, Return
<1>7. CASE UNCHANGED vars
  BY <1>7 DEF vars, SegLayout, TypeOK
<1>8. QED
  BY <1>2, <1>3, <1>4, <1>5, <1>6, <1>7 DEF Next

(* mm_init runs at most once, at the start of the region: whatever the    *)
(* sequence of calls, seglist and heap_listp are NULL exactly while brk  *)
(* is 0, and after that seglist is 0, heap_listp the prologue after the  *)
(* 16 class heads and the 552-byte prefix below brk; the crash of malloc *)
(* on a NULL seglist happens only in a region that is still empty.       *)
THEOREM SegLayoutInvariant == Spec => []SegLayout
<1>1. Init => SegLayout
  BY DEF Init, SegLayout, NULL
<1>2. TypeOK /\ SegLayout /\ [Next]_vars => SegLayout'
  BY NextLayout
<1>3. QED
  BY <1>1, <1>2, TypeCorrect, PTL DEF Spec

(* brk never shrinks and never passes MAX_HEAP: the region step of the   *)
(* refinement of MMAlloc (AllocSpec), for every instance.  Every growth   *)
(* of the heap goes through mem_sbrk with a non-negative increment.       *)
THEOREM RegionGrows == Spec => [][Alloc!Grows]_vars
<1>1. TypeOK /\ SegLayout /\ [Next]_vars => [Alloc!Grows]_vars
  BY NextLayout DEF Alloc!Grows
<1>2. QED
  BY <1>1, TypeCorrect, SegLayoutInvariant, PTL DEF Spec
=============================================================================
