------------------------ MODULE MMImplicitLayoutProofs ------------------------
(***************************************************************************)
(* Proof that the prefix mm_init lays out in mm-baseline.c stays in place  *)
(* (ImplLayout), and that brk never shrinks, for every heap size, chunk    *)
(* size and set of requests.                                               *)
(*                                                                         *)
(* mm_init runs only while heap_listp is NULL.  As long as it is NULL no   *)
(* call has grown the region: malloc dereferences the NULL heap_listp     *)
(* before it could call extend_heap, and free writes memory only.  So     *)
(* mm_init always starts at brk = 0 and puts the prologue at wsize.       *)
(* Every routine that runs once heap_listp is set writes memory, and      *)
(* brk only upward through extend_heap (Keeps); every public call hence   *)
(* takes a heap with the layout to a heap with the layout (Advances).      *)
(***************************************************************************)
EXTENDS MMImplicitProofs

\* ImplLayout, of a heap record.
Layout(h) ==
  /\ h.listp \in {NULL, wsize}
  /\ (h.listp = NULL) = (h.brk = 0)
  /\ h.listp # NULL => h.listp + 3 * wsize <= h.brk
  /\ h.trap = "SIGSEGV" => h.listp = NULL

\* g is h after a routine that wrote memory, and grew the region only if
\* heap_listp was set.
Keeps(h, g) ==
  /\ g \in HeapT
  /\ g.listp = h.listp /\ g.trap = h.trap
  /\ h.brk <= g.brk
  /\ h.listp = NULL => g.brk = h.brk

LEMMA KeepsLayout ==
  ASSUME NEW h \in HeapT, NEW g, Layout(h), Keeps(h, g)
  PROVE  Layout(g)
<1>1. g.listp = h.listp /\ g.trap = h.trap /\ h.brk <= g.brk
      /\ (h.listp = NULL => g.brk = h.brk)
  BY DEF Keeps
<1>2. h.brk \in Int /\ g.brk \in Int
  BY DEF Keeps, HeapT
<1>3. CASE h.listp = NULL
  BY <1>1, <1>3 DEF Layout
<1>4. CASE h.listp # NULL
  <2>1. h.listp = wsize /\ h.listp + 3 * wsize <= h.brk
    BY <1>4 DEF Layout, NULL
  <2>2. g.listp + 3 * wsize <= g.brk /\ g.brk # 0
    BY <1>1, <1>2, <2>1 DEF wsize
  <2>3. QED
    BY <1>1, <1>4, <2>1, <2>2 DEF Layout
<1>5. QED
  BY <1>3, <1>4

LEMMA KeepsTrans ==
  ASSUME NEW h \in HeapT, NEW g, NEW k, Keeps(h, g), Keeps(g, k)
  PROVE  Keeps(h, k)
BY DEF Keeps, HeapT

LEMMA KeepsMem ==
  ASSUME NEW h \in HeapT, NEW m \in MemT
  PROVE  Keeps(h, [h EXCEPT !.mem = m])
BY DEF Keeps, HeapT

LEMMA KeepsRefl ==
  ASSUME NEW h \in HeapT
  PROVE  Keeps(h, h)
BY DEF Keeps, HeapT

-----------------------------------------------------------------------------
(* Internal routines.                                                      *)

LEMMA ExtendHeapKeeps ==
  ASSUME NEW h \in HeapT, h.listp # NULL, NEW size \in Int
  PROVE  Keeps(h, extend_heap(h, size).h)
<1> DEFINE sz == round_up(size, dsize)
           blk == payload_to_header(h.brk)
           c == coalesce(write_epilogue_after(write_block(h.mem, blk, sz, FALSE), blk), blk)
<1>1. extend_heap(h, size).h \in HeapT
  BY ExtendHeapType
<1>2. sz \in 0 .. SIZE_T_MOD - 1
  BY RoundUpType DEF dsize, wsize
<1>3. CASE sbrk_ok(h, sz)
  <2>1. extend_heap(h, size) = extended(h, sz, c)
    BY <1>3 DEF extend_heap, extend_heap_rounded, extend_body, c, blk, sz
  <2>2. extended(h, sz, c).h = [h EXCEPT !.mem = c.mem, !.brk = h.brk + sz]
    BY DEF extended
  <2>3. extend_heap(h, size).h = [h EXCEPT !.mem = c.mem, !.brk = h.brk + sz]
    BY <2>1, <2>2, Zenon
  <2>4. QED
    BY <1>1, <1>2, <2>3 DEF Keeps, HeapT
<1>4. CASE ~sbrk_ok(h, sz)
  <2>1. extend_heap(h, size).h = h
    BY <1>4 DEF extend_heap, extend_heap_rounded, sz
  <2>2. QED
    BY <2>1, KeepsRefl
<1>5. QED
  BY <1>3, <1>4

LEMMA MallocFitKeeps ==
  ASSUME NEW h \in HeapT, h.listp # NULL, NEW asize \in Int, NEW fit \in Int
  PROVE  Keeps(h, malloc_fit(h, asize, fit).h)
<1>1. CASE fit # NULL
  <2>1. place(h.mem, fit, asize) \in MemT
    BY PlaceType DEF HeapT
  <2>2. QED
    BY <1>1, <2>1, KeepsMem DEF malloc_fit
<1>2. CASE fit = NULL
  <2> DEFINE ext == extend_heap(h, max(asize, chunksize))
  <2>1. max(asize, chunksize) \in Int
    BY MaxType, ImplicitAssumption
  <2>2. Keeps(h, ext.h) /\ ext.h \in HeapT /\ ext.blk \in Int
    BY <2>1, ExtendHeapKeeps, ExtendHeapType
  <2>3. Keeps(ext.h, malloc_extended(asize, ext).h)
    <3>1. CASE ext.blk = NULL
      BY <2>2, <3>1, KeepsRefl DEF malloc_extended
    <3>2. CASE ext.blk # NULL
      <4>1. place(ext.h.mem, ext.blk, asize) \in MemT
        BY <2>2, PlaceType DEF HeapT
      <4>2. QED
        BY <2>2, <3>2, <4>1, KeepsMem DEF malloc_extended
    <3>3. QED
      BY <3>1, <3>2
  <2>4. QED
    BY <1>2, <2>2, <2>3, KeepsTrans DEF malloc_fit
<1>3. QED
  BY <1>1, <1>2

\* g is h after a public call: a well-typed heap with the layout, and a
\* region at least as large.
Advances(h, g) == g \in HeapT /\ Layout(g) /\ h.brk <= g.brk

LEMMA KeepsAdvances ==
  ASSUME NEW h \in HeapT, NEW g, Layout(h), Keeps(h, g)
  PROVE  Advances(h, g)
BY KeepsLayout DEF Keeps, Advances

LEMMA AdvancesTrans ==
  ASSUME NEW h \in HeapT, NEW g, NEW k, Advances(h, g), Keeps(g, k)
  PROVE  Advances(h, k)
<1>1. Layout(k)
  BY KeepsLayout DEF Advances
<1>2. QED
  BY <1>1 DEF Advances, Keeps, HeapT

LEMMA InitializedType ==
  ASSUME NEW h \in HeapT, sbrk_ok(h, 4 * wsize)
  PROVE  initialized(h) \in HeapT
<1>1. pack(dsize, TRUE) \in Int /\ pack(0, TRUE) \in Int
  <2>1. dsize \in Int /\ 0 \in Int /\ TRUE \in BOOLEAN
    BY DEF dsize, wsize
  <2>2. QED
    BY <2>1, EncodeType
<1>2. h.brk + 4 * wsize \in 0 .. MAX_HEAP /\ h.brk + wsize \in Int
  BY DEF HeapT, sbrk_ok, wsize
<1>3. QED
  BY <1>1, <1>2 DEF initialized, HeapT, MemT

(* mm_init on a heap without a prologue: the region is still empty, so    *)
(* the prologue lands at wsize and brk at 16, and the first chunk is      *)
(* added on top of that.                                                   *)
LEMMA MmInitLayout ==
  ASSUME NEW h \in HeapT, Layout(h), h.listp = NULL, h.trap = "none"
  PROVE  Advances(h, mm_init(h).h) /\ mm_init(h).h.trap = "none"
<1>1. h.brk = 0
  BY DEF Layout
<1>2. CASE sbrk_ok(h, 4 * wsize)
  <2> DEFINE h1 == initialized(h)
  <2>1. h1 \in HeapT
    BY <1>2, InitializedType
  <2>2. h1.listp = wsize /\ h1.brk = 4 * wsize /\ h1.trap = h.trap
    BY <1>1 DEF h1, initialized, HeapT, wsize
  <2>3. Advances(h, h1)
    BY <1>1, <2>1, <2>2 DEF Advances, Layout, NULL, wsize, Traps
  <2>4. Keeps(h1, extend_heap(h1, chunksize).h)
    BY <2>1, <2>2, ExtendHeapKeeps, ImplicitAssumption DEF NULL, wsize
  <2>5. mm_init(h).h = extend_heap(h1, chunksize).h
    BY <1>2 DEF mm_init, init_result
  <2>6. QED
    BY <2>1, <2>2, <2>3, <2>4, <2>5, AdvancesTrans DEF Keeps
<1>3. CASE ~sbrk_ok(h, 4 * wsize)
  <2>1. mm_init(h).h = h
    BY <1>3 DEF mm_init
  <2>2. QED
    BY <2>1, KeepsRefl, KeepsAdvances
<1>4. QED
  BY <1>2, <1>3
-----------------------------------------------------------------------------
(* Public functions.                                                       *)

LEMMA MallocLayout ==
  ASSUME NEW h \in HeapT, Layout(h), h.trap = "none", NEW size \in Int
  PROVE  Advances(h, malloc(h, size).h)
<1> DEFINE h1 == IF h.listp = NULL THEN mm_init(h).h ELSE h
           asize == malloc_asize(size)
<1>1. Advances(h, h1) /\ h1.trap = "none"
  <2>1. CASE h.listp = NULL
    BY <2>1, MmInitLayout
  <2>2. CASE h.listp # NULL
    BY <2>2, KeepsRefl, KeepsAdvances
  <2>3. QED
    BY <2>1, <2>2
<1>2. h1 \in HeapT /\ Layout(h1)
  BY <1>1 DEF Advances
<1>3. asize \in Int
  BY RoundUpType, SizeTAssumption DEF asize, malloc_asize, dsize, wsize
<1>4. Advances(h, malloc_search(h1, asize).h)
  <2>1. CASE h1.listp = NULL
    <3> DEFINE h2 == [h1 EXCEPT !.trap = "SIGSEGV"]
    <3>1. malloc_search(h1, asize).h = h2
      BY <2>1 DEF malloc_search
    <3>2. h2 \in HeapT
      BY <1>2 DEF HeapT, Traps
    <3>3. Layout(h2)
      BY <1>2, <2>1 DEF Layout
    <3>4. QED
      BY <1>1, <3>1, <3>2, <3>3 DEF Advances, HeapT
  <2>2. CASE h1.listp # NULL
    <3> DEFINE fit == find_fit(h1.mem, h1.listp, asize)
    <3>1. fit \in Int
      <4>1. fit \in Addr \cup {NULL}
        BY <1>2, <1>3, FindFitType DEF HeapT
      <4>2. QED
        BY <4>1 DEF Addr, NULL
    <3>2. malloc_search(h1, asize).h = malloc_fit(h1, asize, fit).h
      BY <2>2 DEF malloc_search
    <3>3. Keeps(h1, malloc_fit(h1, asize, fit).h)
      BY <1>2, <1>3, <2>2, <3>1, MallocFitKeeps
    <3>4. QED
      BY <1>1, <3>2, <3>3, AdvancesTrans
  <2>3. QED
    BY <2>1, <2>2
<1>5. CASE size # 0
  <2>1. malloc(h, size).h = malloc_search(h1, asize).h
    BY <1>5 DEF malloc
  <2>2. QED
    BY <1>4, <2>1
<1>6. CASE size = 0
  BY <1>6, KeepsRefl, KeepsAdvances DEF malloc
<1>7. QED
  BY <1>5, <1>6

LEMMA FreeKeeps ==
  ASSUME NEW h \in HeapT, NEW bp \in Int
  PROVE  Keeps(h, free(h, bp))
<1>1. free(h, bp) \in HeapT
  BY FreeType
<1>2. QED
  BY <1>1 DEF free, Keeps, HeapT

LEMMA ReallocLayout ==
  ASSUME NEW h \in HeapT, Layout(h), h.trap = "none", NEW p \in Int, NEW size \in Int
  PROVE  Advances(h, realloc(h, p, size).h)
<1> DEFINE r == malloc(h, size)
<1>1. Advances(h, r.h) /\ r \in MallocT
  BY MallocLayout, MallocType
<1>2. Advances(h, realloc_moved(h, p, r).h)
  <2>1. CASE r.ret = NULL
    BY <1>1, <2>1 DEF realloc_moved
  <2>2. CASE r.ret # NULL
    <3>1. Keeps(r.h, free(r.h, p))
      BY <1>1, FreeKeeps DEF MallocT
    <3>2. QED
      BY <1>1, <2>2, <3>1, AdvancesTrans DEF realloc_moved
  <2>3. QED
    BY <2>1, <2>2
<1>3. Advances(h, free(h, p))
  BY FreeKeeps, KeepsAdvances
<1>4. QED
  BY <1>1, <1>2, <1>3 DEF realloc

LEMMA CallocLayout ==
  ASSUME NEW h \in HeapT, Layout(h), h.trap = "none", NEW nmemb \in Int, NEW size \in Int
  PROVE  Advances(h, calloc(h, nmemb, size).h)
<1> DEFINE asize == (nmemb * size) % SIZE_T_MOD
<1>1. asize \in Int
  BY SizeTAssumption
<1>2. Advances(h, malloc(h, asize).h)
  BY <1>1, MallocLayout
<1>3. Advances(h, [h EXCEPT !.trap = "SIGFPE"])
  BY DEF Advances, Layout, HeapT, Traps
<1>4. Advances(h, h)
  BY KeepsRefl, KeepsAdvances
<1>5. QED
  BY <1>2, <1>3, <1>4 DEF calloc, calloc_checked

-----------------------------------------------------------------------------
(* The driver.                                                             *)

LEMMA LayoutHeap ==
  ImplLayout => Layout(heap)
BY DEF ImplLayout, Layout, heap

LEMMA CommitAdvances ==
  ASSUME NEW h, Advances(heap, h), Commit(h)
  PROVE  ImplLayout' /\ brk' \in brk .. MAX_HEAP
BY DEF Advances, Layout, Commit, ImplLayout, HeapT, heap

LEMMA NextLayout ==
  ASSUME TypeOK, ImplLayout, [Next]_vars
  PROVE  ImplLayout' /\ brk' \in brk .. MAX_HEAP
<1>1. heap \in HeapT /\ Layout(heap)
  BY HeapFromTypeOK, LayoutHeap
<1>2. CASE MmInit
  <2>1. heap.trap = "none" /\ heap.listp = NULL
    BY <1>2 DEF MmInit, heap
  <2>2. Advances(heap, mm_init(heap).h)
    BY <1>1, <2>1, MmInitLayout
  <2>3. QED
    BY <1>2, <2>2, CommitAdvances DEF MmInit
<1>3. ASSUME NEW i \in Ids, NEW n \in Requests, Malloc(i, n)
      PROVE  ImplLayout' /\ brk' \in brk .. MAX_HEAP
  <2>1. heap.trap = "none" /\ n \in Int
    BY <1>3, ImplicitAssumption DEF Malloc, heap
  <2>2. Advances(heap, malloc(heap, n).h)
    BY <1>1, <2>1, MallocLayout
  <2>3. QED
    BY <1>3, <2>2, CommitAdvances DEF Malloc, Return
<1>4. ASSUME NEW i \in Ids, Free(i)
      PROVE  ImplLayout' /\ brk' \in brk .. MAX_HEAP
  <2>1. ptr[i] \in Int
    BY DEF TypeOK
  <2>2. Advances(heap, free(heap, ptr[i]))
    BY <1>1, <2>1, FreeKeeps, KeepsAdvances
  <2>3. QED
    BY <1>4, <2>2, CommitAdvances DEF Free
<1>5. ASSUME NEW i \in Ids, NEW n \in Requests \cup {0}, Realloc(i, n)
      PROVE  ImplLayout' /\ brk' \in brk .. MAX_HEAP
  <2>1. heap.trap = "none" /\ n \in Int /\ ptr[i] \in Int
    BY <1>5, ImplicitAssumption DEF Realloc, heap, TypeOK
  <2>2. Advances(heap, realloc(heap, ptr[i], n).h)
    BY <1>1, <2>1, ReallocLayout
  <2>3. QED
    BY <1>5, <2>2, CommitAdvances DEF Realloc, ReallocReturn
<1>6. ASSUME NEW i \in Ids, NEW a \in CallocNmemb, NEW b \in CallocSize, Calloc(i, a, b)
      PROVE  ImplLayout' /\ brk' \in brk .. MAX_HEAP
  <2>1. heap.trap = "none" /\ a \in Int /\ b \in Int
    BY <1>6, ImplicitAssumption DEF Calloc, heap
  <2>2. Advances(heap, calloc(heap, a, b).h)
    BY <1>1, <2>1, CallocLayout
  <2>3. QED
    BY <1>6, <2>2, CommitAdvances DEF Calloc, Return
<1>7. CASE UNCHANGED vars
  BY <1>7 DEF vars, ImplLayout, TypeOK
<1>8. QED
  BY <1>2, <1>3, <1>4, <1>5, <1>6, <1>7 DEF Next

(* Whatever the sequence of calls, mm_init ran at most once and at brk =  *)
(* 0: heap_listp is NULL exactly while the region is empty and is the    *)
(* prologue at wsize after that, with prologue and epilogue below brk;   *)
(* malloc's dereference of a NULL heap_listp (line 154) happens only in a *)
(* region where mm_init could not take its 16 bytes.                      *)
THEOREM ImplLayoutInvariant == Spec => []ImplLayout
<1>1. Init => ImplLayout
  BY DEF Init, ImplLayout, NULL
<1>2. TypeOK /\ ImplLayout /\ [Next]_vars => ImplLayout'
  BY NextLayout
<1>3. QED
  BY <1>1, <1>2, TypeCorrect, PTL DEF Spec

(* brk never shrinks and never passes MAX_HEAP: the region step of the   *)
(* refinement of MMAlloc (AllocSpec) by mm-baseline.c, for every          *)
(* instance.  Every growth goes through mem_sbrk with a size_t increment. *)
THEOREM RegionGrows == Spec => [][Alloc!Grows]_vars
<1>1. TypeOK /\ ImplLayout /\ [Next]_vars => [Alloc!Grows]_vars
  BY NextLayout DEF Alloc!Grows
<1>2. QED
  BY <1>1, TypeCorrect, ImplLayoutInvariant, PTL DEF Spec
=============================================================================
