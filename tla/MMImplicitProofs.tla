--------------------------- MODULE MMImplicitProofs ---------------------------
(***************************************************************************)
(* Proofs about the implicit-free-list allocator (MMImplicit).             *)
(*                                                                         *)
(* The type invariant is proved bottom-up: every helper that writes the    *)
(* heap memory keeps it a map from word addresses to integers, every       *)
(* internal routine keeps the heap record well typed, and so every public  *)
(* call does.  find_fit's loop (a recursive function) is never expanded:  *)
(* its result is tested for membership in Addr, so nothing about what the  *)
(* loop computes is needed.                                                *)
(***************************************************************************)
EXTENDS MMImplicit, MMBlockProofs, TLAPS

MemT == [Addr -> Int]
HeapT == [mem : MemT, brk : 0 .. MAX_HEAP, listp : Int, trap : Traps]

-----------------------------------------------------------------------------
(* Block encoding and memory helpers.                                      *)

LEMMA RdType ==
  ASSUME NEW m \in MemT, NEW a
  PROVE  Rd(m, a) \in Int
BY DEF Rd, MemT

LEMMA EncodeType ==
  ASSUME NEW w \in Int, NEW al \in BOOLEAN
  PROVE  /\ extract_size(w) \in Int
         /\ pack(w, al) \in Int
         /\ extract_alloc(w) \in BOOLEAN
<1>1. extract_size(w) \in Int
  BY DEF extract_size
<1>2. pack(w, al) \in Int
  BY DEF pack
<1>3. extract_alloc(w) \in BOOLEAN
  BY DEF extract_alloc
<1>4. QED
  BY <1>1, <1>2, <1>3

LEMMA SizeType ==
  ASSUME NEW m \in MemT, NEW b
  PROVE  /\ get_size(m, b) \in Int
         /\ get_alloc(m, b) \in BOOLEAN
<1>1. Rd(m, b) \in Int
  BY RdType
<1>2. QED
  BY <1>1, EncodeType DEF get_size, get_alloc

LEMMA WriteType ==
  ASSUME NEW m \in MemT, NEW b \in Int, NEW size \in Int, NEW al \in BOOLEAN
  PROVE  /\ write_header(m, b, size, al) \in MemT
         /\ write_footer(m, b, size, al) \in MemT
         /\ write_block(m, b, size, al) \in MemT
<1>1. pack(size, al) \in Int
  BY EncodeType
<1>2. write_header(m, b, size, al) \in MemT
  BY <1>1 DEF write_header, MemT
<1>3. ASSUME NEW m2 \in MemT PROVE write_footer(m2, b, size, al) \in MemT
  BY <1>1 DEF write_footer, MemT
<1>4. QED
  BY <1>2, <1>3 DEF write_block

LEMMA NavType ==
  ASSUME NEW m \in MemT, NEW b \in Int
  PROVE  /\ find_next(m, b) \in Int
         /\ find_prev(m, b) \in Int
<1>1. get_size(m, b) \in Int
  BY SizeType
<1>2. extract_size(Rd(m, b - wsize)) \in Int
  BY RdType, EncodeType
<1>3. QED
  BY <1>1, <1>2 DEF find_next, find_prev

-----------------------------------------------------------------------------
(* Internal routines.                                                      *)

LEMMA CoalesceType ==
  ASSUME NEW m \in MemT, NEW b \in Int
  PROVE  /\ coalesce(m, b).mem \in MemT
         /\ coalesce(m, b).blk \in Int
<1> DEFINE nxt == find_next(m, b)
           prv == find_prev(m, b)
           size == get_size(m, b)
<1>1. nxt \in Int /\ prv \in Int /\ size \in Int
  BY NavType, SizeType
<1>2. get_size(m, nxt) \in Int /\ get_size(m, prv) \in Int
  BY <1>1, SizeType
<1>3. /\ size + get_size(m, nxt) \in Int
      /\ size + get_size(m, prv) \in Int
      /\ size + get_size(m, nxt) + get_size(m, prv) \in Int
  BY <1>1, <1>2
<1>4. /\ write_block(m, b, size + get_size(m, nxt), FALSE) \in MemT
      /\ write_block(m, prv, size + get_size(m, prv), FALSE) \in MemT
      /\ write_block(m, prv, size + get_size(m, nxt) + get_size(m, prv), FALSE) \in MemT
  BY <1>1, <1>3, WriteType, Zenon
<1>5. QED
  BY <1>1, <1>4 DEF coalesce

LEMMA PlaceType ==
  ASSUME NEW m \in MemT, NEW b \in Int, NEW asize \in Int
  PROVE  place(m, b, asize) \in MemT
<1> DEFINE csize == get_size(m, b)
           rest == (csize - asize) % SIZE_T_MOD
           m1 == write_block(m, b, asize, TRUE)
<1>1. csize \in Int /\ rest \in Int
  BY SizeType, SizeTAssumption
<1>2. m1 \in MemT /\ write_block(m, b, csize, TRUE) \in MemT
  BY <1>1, WriteType, Zenon
<1>3. find_next(m1, b) \in Int
  BY <1>2, NavType
<1>4. place_split(m1, b, rest) \in MemT
  BY <1>1, <1>2, <1>3, WriteType, Zenon DEF place_split
<1>5. QED
  BY <1>2, <1>4 DEF place

LEMMA FindFitType ==
  ASSUME NEW m \in MemT, NEW start, NEW asize
  PROVE  find_fit(m, start, asize) \in Addr \cup {NULL}
<1>1. \A x : fit_or_null(x) \in Addr \cup {NULL}
  BY DEF fit_or_null
<1>2. QED
  BY <1>1 DEF find_fit

LEMMA RoundUpType ==
  ASSUME NEW size \in Int, NEW n \in Nat \ {0}
  PROVE  round_up(size, n) \in 0 .. SIZE_T_MOD - 1
BY SizeTAssumption DEF round_up

LEMMA ExtendBodyType ==
  ASSUME NEW h \in HeapT, NEW sz \in 0 .. SIZE_T_MOD - 1, sbrk_ok(h, sz)
  PROVE  /\ extend_body(h, sz).h \in HeapT
         /\ extend_body(h, sz).blk \in Int
<1> DEFINE blk == payload_to_header(h.brk)
           m1 == write_block(h.mem, blk, sz, FALSE)
           m2 == write_epilogue_after(m1, blk)
           c == coalesce(m2, blk)
<1>1. blk \in Int /\ sz \in Int
  BY SizeTAssumption DEF HeapT, payload_to_header, wsize
<1>2. m1 \in MemT
  <2>1. h.mem \in MemT
    BY DEF HeapT
  <2>2. QED
    BY <1>1, <2>1, WriteType, Zenon DEF m1
<1>3. m2 \in MemT
  <2>1. find_next(m1, blk) \in Int
    BY <1>1, <1>2, NavType
  <2>2. 0 \in Int /\ TRUE \in BOOLEAN
    OBVIOUS
  <2>3. QED
    BY <1>2, <2>1, <2>2, WriteType, Zenon DEF m2, write_epilogue_after
<1>4. c.mem \in MemT /\ c.blk \in Int
  BY <1>1, <1>3, CoalesceType DEF c
<1>5. h.brk + sz \in 0 .. MAX_HEAP
  BY <1>1 DEF sbrk_ok, HeapT
<1>6. [h EXCEPT !.mem = c.mem, !.brk = h.brk + sz] \in HeapT
  BY <1>4, <1>5 DEF HeapT
<1>7. QED
  BY <1>4, <1>6 DEF extend_body, extended

LEMMA ExtendHeapType ==
  ASSUME NEW h \in HeapT, NEW size \in Int
  PROVE  /\ extend_heap(h, size).h \in HeapT
         /\ extend_heap(h, size).blk \in Int
<1> DEFINE sz == round_up(size, dsize)
<1>1. sz \in 0 .. SIZE_T_MOD - 1
  BY RoundUpType DEF dsize, wsize
<1>2. CASE sbrk_ok(h, sz)
  BY <1>1, <1>2, ExtendBodyType DEF extend_heap, extend_heap_rounded
<1>3. CASE ~sbrk_ok(h, sz)
  BY <1>3 DEF extend_heap, extend_heap_rounded, NULL
<1>4. QED
  BY <1>2, <1>3

LEMMA MmInitType ==
  ASSUME NEW h \in HeapT
  PROVE  mm_init(h).h \in HeapT
<1> DEFINE start == h.brk
           m1 == [h.mem EXCEPT ![start + wsize] = pack(dsize, TRUE),
                               ![start + 2 * wsize] = pack(dsize, TRUE),
                               ![start + 3 * wsize] = pack(0, TRUE)]
           h1 == [h EXCEPT !.mem = m1, !.brk = start + 4 * wsize, !.listp = start + wsize]
<1>1. pack(dsize, TRUE) \in Int /\ pack(0, TRUE) \in Int
  <2>1. dsize \in Int /\ 0 \in Int /\ TRUE \in BOOLEAN
    BY DEF dsize, wsize
  <2>2. QED
    BY <2>1, EncodeType
<1>2. m1 \in MemT
  <2>1. h.mem \in MemT /\ start \in Int
    BY DEF HeapT
  <2>2. QED
    BY <1>1, <2>1 DEF m1, MemT
<1>3. CASE sbrk_ok(h, 4 * wsize)
  <2>1. initialized(h) \in HeapT
    <3>1. start \in 0 .. MAX_HEAP /\ start + 4 * wsize <= MAX_HEAP
      BY <1>3 DEF HeapT, sbrk_ok
    <3>2. start + 4 * wsize \in 0 .. MAX_HEAP /\ start + wsize \in Int
      BY <3>1 DEF wsize
    <3>3. h1 \in HeapT
      BY <1>2, <3>2 DEF h1, HeapT
    <3>4. QED
      BY <3>3 DEF initialized, h1, m1
  <2>2. extend_heap(initialized(h), chunksize).h \in HeapT
    BY <2>1, ExtendHeapType, ImplicitAssumption
  <2>3. QED
    BY <1>3, <2>2 DEF mm_init, init_result
<1>4. CASE ~sbrk_ok(h, 4 * wsize)
  BY <1>4 DEF mm_init
<1>5. QED
  BY <1>3, <1>4

MallocT == [h : HeapT, ret : Int]

LEMMA MaxType ==
  ASSUME NEW x \in Int, NEW y \in Int
  PROVE  max(x, y) \in Int
BY DEF max

LEMMA MallocExtendedType ==
  ASSUME NEW asize \in Int, NEW ext, ext.h \in HeapT, ext.blk \in Int
  PROVE  malloc_extended(asize, ext) \in MallocT
<1>1. place(ext.h.mem, ext.blk, asize) \in MemT
  BY PlaceType DEF HeapT
<1>2. [ext.h EXCEPT !.mem = place(ext.h.mem, ext.blk, asize)] \in HeapT
  BY <1>1 DEF HeapT
<1>3. QED
  BY <1>2 DEF malloc_extended, MallocT, NULL, header_to_payload, wsize

LEMMA MallocFitType ==
  ASSUME NEW h \in HeapT, NEW asize \in Int, NEW fit \in Int
  PROVE  malloc_fit(h, asize, fit) \in MallocT
<1>1. [h EXCEPT !.mem = place(h.mem, fit, asize)] \in HeapT
  <2>1. place(h.mem, fit, asize) \in MemT
    BY PlaceType DEF HeapT
  <2>2. QED
    BY <2>1 DEF HeapT
<1>2. extend_heap(h, max(asize, chunksize)).h \in HeapT
      /\ extend_heap(h, max(asize, chunksize)).blk \in Int
  <2>1. max(asize, chunksize) \in Int
    BY MaxType, ImplicitAssumption
  <2>2. QED
    BY <2>1, ExtendHeapType
<1>3. malloc_extended(asize, extend_heap(h, max(asize, chunksize))) \in MallocT
  BY <1>2, MallocExtendedType
<1>4. QED
  BY <1>1, <1>3 DEF malloc_fit, MallocT, header_to_payload, wsize

LEMMA MallocType ==
  ASSUME NEW h \in HeapT, NEW size \in Int
  PROVE  malloc(h, size) \in MallocT
<1> DEFINE h1 == IF h.listp = NULL THEN mm_init(h).h ELSE h
           asize == malloc_asize(size)
<1>1. h1 \in HeapT
  BY MmInitType DEF h1
<1>2. asize \in Int
  BY RoundUpType, SizeTAssumption DEF asize, malloc_asize, dsize, wsize
<1>3. find_fit(h1.mem, h1.listp, asize) \in Int
  <2>1. find_fit(h1.mem, h1.listp, asize) \in Addr \cup {NULL}
    BY <1>1, FindFitType DEF HeapT
  <2>2. QED
    BY <2>1 DEF Addr, NULL
<1>4. malloc_search(h1, asize) \in MallocT
  <2>1. malloc_fit(h1, asize, find_fit(h1.mem, h1.listp, asize)) \in MallocT
    BY <1>1, <1>2, <1>3, MallocFitType
  <2>2. [h1 EXCEPT !.trap = "SIGSEGV"] \in HeapT
    BY <1>1 DEF HeapT, Traps
  <2>3. QED
    BY <2>1, <2>2 DEF malloc_search, MallocT, NULL
<1>5. QED
  BY <1>4 DEF malloc, MallocT, NULL

LEMMA FreeType ==
  ASSUME NEW h \in HeapT, NEW bp \in Int
  PROVE  free(h, bp) \in HeapT
<1> DEFINE block == payload_to_header(bp)
           m1 == write_block(h.mem, block, get_size(h.mem, block), FALSE)
<1>1. block \in Int /\ get_size(h.mem, block) \in Int
  BY SizeType DEF payload_to_header, wsize, HeapT
<1>2. m1 \in MemT
  BY <1>1, WriteType DEF m1, HeapT
<1>3. coalesce(m1, block).mem \in MemT
  BY <1>1, <1>2, CoalesceType
<1>4. QED
  BY <1>3 DEF free, HeapT

LEMMA ReallocType ==
  ASSUME NEW h \in HeapT, NEW p \in Int, NEW size \in Int
  PROVE  realloc(h, p, size) \in MallocT
<1>1. malloc(h, size) \in MallocT
  BY MallocType
<1>2. free(h, p) \in HeapT /\ free(malloc(h, size).h, p) \in HeapT
  BY <1>1, FreeType DEF MallocT
<1>3. realloc_moved(h, p, malloc(h, size)) \in MallocT
  BY <1>1, <1>2 DEF realloc_moved, MallocT, NULL
<1>4. QED
  BY <1>1, <1>2, <1>3 DEF realloc, MallocT, NULL

LEMMA CallocType ==
  ASSUME NEW h \in HeapT, NEW nmemb \in Int, NEW size \in Int
  PROVE  calloc(h, nmemb, size) \in MallocT
<1>1. (nmemb * size) % SIZE_T_MOD \in Int
  BY SizeTAssumption
<1>2. malloc(h, (nmemb * size) % SIZE_T_MOD) \in MallocT
  BY <1>1, MallocType
<1>3. [h EXCEPT !.trap = "SIGFPE"] \in HeapT
  BY DEF HeapT, Traps
<1>4. QED
  BY <1>2, <1>3 DEF calloc, calloc_checked, MallocT, NULL

LEMMA HeapFromTypeOK ==
  TypeOK => heap \in HeapT
BY DEF TypeOK, heap, HeapT, MemT

LEMMA CommitType ==
  ASSUME NEW h \in HeapT, Commit(h)
  PROVE  /\ mem' \in [Addr -> Int]
         /\ brk' \in 0 .. MAX_HEAP
         /\ heap_listp' \in Int
         /\ trap' \in Traps
BY DEF Commit, HeapT, MemT

LEMMA HoldType ==
  ASSUME TypeOK, NEW i \in Ids, NEW p \in Int, NEW n \in Nat, Hold(i, p, n)
  PROVE  ptr' \in [Ids -> Int] /\ reqsz' \in [Ids -> Nat]
BY DEF TypeOK, Hold

(* Type correctness: every reachable state of the driver, whatever the   *)
(* sequence of mm_init, malloc, free, realloc and calloc calls, keeps    *)
(* the memory a map from word addresses to integers, brk within the     *)
(* backing region, and the slots holding integer pointers and sizes.    *)
THEOREM TypeCorrect == Spec => []TypeOK
<1>1. Init => TypeOK
  BY ImplicitAssumption DEF Init, TypeOK, NULL, Traps
<1>2. TypeOK /\ [Next]_vars => TypeOK'
  <2> SUFFICES ASSUME TypeOK, [Next]_vars PROVE TypeOK'
    OBVIOUS
  <2>0. heap \in HeapT
    BY HeapFromTypeOK
  <2>1. CASE MmInit
    <3>1. mm_init(heap).h \in HeapT
      BY <2>0, MmInitType
    <3>2. QED
      BY <2>1, <3>1, CommitType DEF MmInit, TypeOK
  <2>2. ASSUME NEW i \in Ids, NEW n \in Requests, Malloc(i, n)
        PROVE  TypeOK'
    <3>1. n \in Nat
      BY ImplicitAssumption
    <3>2. malloc(heap, n) \in MallocT
      BY <2>0, <3>1, MallocType
    <3>3. QED
      BY <2>2, <3>1, <3>2, CommitType, HoldType DEF Malloc, Return, MallocT, TypeOK
  <2>3. ASSUME NEW i \in Ids, Free(i)
        PROVE  TypeOK'
    <3>1. free(heap, ptr[i]) \in HeapT
      BY <2>0, FreeType DEF TypeOK
    <3>2. NULL \in Int /\ 0 \in Nat
      BY DEF NULL
    <3>3. QED
      BY <2>3, <3>1, <3>2, CommitType, HoldType DEF Free, TypeOK
  <2>4. ASSUME NEW i \in Ids, NEW n \in Requests \cup {0}, Realloc(i, n)
        PROVE  TypeOK'
    <3>1. n \in Nat
      BY ImplicitAssumption
    <3>2. realloc(heap, ptr[i], n) \in MallocT
      BY <2>0, <3>1, ReallocType DEF TypeOK
    <3>3. QED
      BY <2>4, <3>1, <3>2, CommitType, HoldType DEF Realloc, ReallocReturn, MallocT, TypeOK
  <2>5. ASSUME NEW i \in Ids, NEW a \in CallocNmemb, NEW b \in CallocSize, Calloc(i, a, b)
        PROVE  TypeOK'
    <3>1. a \in Nat /\ b \in Nat /\ a * b \in Nat
      BY ImplicitAssumption
    <3>2. calloc(heap, a, b) \in MallocT
      BY <2>0, <3>1, CallocType
    <3>3. QED
      BY <2>5, <3>1, <3>2, CommitType, HoldType DEF Calloc, Return, MallocT, TypeOK
  <2>6. CASE UNCHANGED vars
    BY <2>6 DEF vars, TypeOK
  <2>7. QED
    BY <2>1, <2>2, <2>3, <2>4, <2>5, <2>6 DEF Next
<1>3. QED
  BY <1>1, <1>2, PTL DEF Spec

-----------------------------------------------------------------------------
(* The adjusted size of malloc, round_up(size, dsize) + dsize (line 158), *)
(* for every width of size_t.                                              *)

(* For every request up to SIZE_MAX - 15 the adjusted size is a multiple  *)
(* of dsize that holds the request and the header and footer: the block   *)
(* malloc places carries the bytes asked for.                             *)
THEOREM AsizeCovers ==
  ASSUME NEW size \in 0 .. SIZE_T_MOD - 16
  PROVE  /\ malloc_asize(size) >= size + dsize
         /\ malloc_asize(size) % dsize = 0
<1> DEFINE r == round_up(size, dsize)
<1>1. r \in Nat /\ size <= r /\ r < size + dsize /\ r % dsize = 0
  BY RoundUpExact, DsizeFacts
<1>2. r + dsize < SIZE_T_MOD
  BY <1>1, DsizeFacts, SizeTAssumption
<1>3. malloc_asize(size) = r + dsize
  BY <1>1, <1>2, DsizeFacts DEF malloc_asize
<1>4. QED
  BY <1>1, <1>3, DsizeFacts

(* For every request from SIZE_MAX - 14 on the adjusted size wraps to 0  *)
(* or dsize, smaller than any block: malloc then places a block of size   *)
(* 0 or one without room for the request (the implicit_huge finding).    *)
THEOREM AsizeWraps ==
  ASSUME NEW size \in SIZE_T_MOD - 15 .. SIZE_T_MOD - 1
  PROVE  malloc_asize(size) \in {0, dsize}
<1>1. CASE size + dsize - 1 < SIZE_T_MOD
  <2> DEFINE r == round_up(size, dsize)
  <2>1. r \in Nat /\ size <= r /\ r < size + dsize /\ r % dsize = 0
    BY <1>1, RoundUpExact, DsizeFacts
  <2>2. r = SIZE_T_MOD - dsize
    <3>1. r = 8 * (r \div 8) /\ SIZE_T_MOD = 8 * (SIZE_T_MOD \div 8)
      BY <2>1, DsizeFacts, SizeTAssumption
    <3>2. SIZE_T_MOD - 15 <= r /\ r <= SIZE_T_MOD - 1
      BY <1>1, <2>1, DsizeFacts
    <3>3. r \div 8 = SIZE_T_MOD \div 8 - 1
      <4>1. \A k, n \in Int : 8 * n - 15 <= 8 * k /\ 8 * k <= 8 * n - 1 => k = n - 1
        OBVIOUS
      <4>2. r \div 8 \in Int /\ SIZE_T_MOD \div 8 \in Int
        BY <2>1, DsizeFacts
      <4>3. QED
        BY <3>1, <3>2, <4>1, <4>2
    <3>4. QED
      BY <3>1, <3>3, DsizeFacts
  <2>3. QED
    BY <2>2, DsizeFacts DEF malloc_asize
<1>2. CASE size + dsize - 1 >= SIZE_T_MOD
  <2>1. round_up(size, dsize) = 0
    BY <1>2, RoundUpWraps, DsizeFacts
  <2>2. QED
    BY <2>1, DsizeFacts DEF malloc_asize
<1>3. QED
  BY <1>1, <1>2, DsizeFacts
=============================================================================
