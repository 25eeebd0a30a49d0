-------------------------- MODULE MMSegregatedProofs --------------------------
(***************************************************************************)
(* Proofs about the segregated-fits allocator (MMSegregated).              *)
(*                                                                         *)
(* As for the implicit allocator, the type invariant is proved bottom-up:  *)
(* every list splice and tag write keeps the memory a map from word        *)
(* addresses to integers, every internal routine keeps the heap record     *)
(* well typed, and so every public call does.  The loops of find_fit (a    *)
(* recursive function) are never expanded: their result passes through    *)
(* fit_or_null.  The size-class index is an integer because the set whose *)
(* cardinality get_highest_1bit_idx takes is a subset of 1..31.            *)
(***************************************************************************)
EXTENDS MMSegregated, MMBlockProofs, FiniteSetTheorems, TLAPS

MemT == [Addr -> Int]
HeapT == [mem : MemT, brk : 0 .. MAX_HEAP, listp : Int, seg : Int, trap : Traps]

-----------------------------------------------------------------------------
(* Block encoding, memory and list helpers.                                *)

LEMMA RdType ==
  ASSUME NEW m \in MemT, NEW a
  PROVE  Rd(m, a) \in Int
BY DEF Rd, MemT

LEMMA WrType ==
  ASSUME NEW m \in MemT, NEW a, NEW v \in Int
  PROVE  Wr(m, a, v) \in MemT
BY DEF Wr, MemT

LEMMA EncodeType ==
  ASSUME NEW w \in Int, NEW al \in BOOLEAN
  PROVE  /\ extract_size(w) \in Int
         /\ pack(w, al) \in Int
         /\ extract_alloc(w) \in BOOLEAN
<1>1. extract_size(w) \in Int
  BY DEF extract_size
<1>2. pack(w, al) \in Int
  BY DEF pack
<1>3. extract_alloc(w) \in BOOLEAN
  BY DEF extract_alloc
<1>4. QED
  BY <1>1, <1>2, <1>3

LEMMA SizeType ==
  ASSUME NEW m \in MemT, NEW b
  PROVE  /\ get_size(m, b) \in Int
         /\ get_alloc(m, b) \in BOOLEAN
         /\ pred(m, b) \in Int
         /\ succ(m, b) \in Int
<1>1. Rd(m, b) \in Int /\ Rd(m, b + pred_off) \in Int /\ Rd(m, b + succ_off) \in Int
  BY RdType
<1>2. QED
  BY <1>1, EncodeType DEF get_size, get_alloc, pred, succ

LEMMA WriteType ==
  ASSUME NEW m \in MemT, NEW b \in Int, NEW size \in Int, NEW al \in BOOLEAN
  PROVE  /\ write_header(m, b, size, al) \in MemT
         /\ write_block(m, b, size, al) \in MemT
<1>1. pack(size, al) \in Int
  BY EncodeType
<1>2. write_header(m, b, size, al) \in MemT
  BY <1>1, WrType DEF write_header
<1>3. ASSUME NEW m2 \in MemT PROVE write_footer(m2, b, size, al) \in MemT
  BY <1>1, WrType DEF write_footer
<1>4. QED
  BY <1>2, <1>3 DEF write_block

LEMMA NavType ==
  ASSUME NEW m \in MemT, NEW b \in Int
  PROVE  /\ find_next(m, b) \in Int
         /\ find_prev(m, b) \in Int
<1>1. get_size(m, b) \in Int
  BY SizeType
<1>2. extract_size(Rd(m, b - wsize)) \in Int
  BY RdType, EncodeType
<1>3. QED
  BY <1>1, <1>2 DEF find_next, find_prev

(* The size-class index is one of the 16 classes whatever the size. *)
LEMMA SeglistIdxType ==
  ASSUME NEW size
  PROVE  get_seglist_idx(size) \in 0 .. size_class_cnt - 1
<1> DEFINE S == {j \in 1 .. 31 : (size \div 2) \div 2^(j - 1) > 0}
<1>1. IsFiniteSet(S)
  <2>1. IsFiniteSet(1 .. 31)
    <3>1. \A a, b \in Int : IsFiniteSet(a .. b)
      BY FS_Interval
    <3>2. 1 \in Int /\ 31 \in Int
      OBVIOUS
    <3>3. QED
      BY <3>1, <3>2, Zenon
  <2>2. S \in SUBSET (1 .. 31)
    BY Zenon DEF S
  <2>3. QED
    BY <2>1, <2>2, FS_Subset, Zenon
<1>2. Cardinality(S) \in Nat
  BY <1>1, FS_CardinalityType, Zenon
<1>3. get_highest_1bit_idx(size) \in Int
  BY <1>2 DEF get_highest_1bit_idx
<1>4. QED
  BY <1>3 DEF get_seglist_idx, size_class_cnt

LEMMA InsertType ==
  ASSUME NEW m \in MemT, NEW seg \in Int, NEW bp \in Int
  PROVE  insert_free_block(m, seg, bp) \in MemT
<1> DEFINE head == Head(seg, get_seglist_idx(get_size(m, bp)))
           m1 == Wr(m, bp + pred_off, head)
           m2 == Wr(m1, bp + succ_off, succ(m1, head))
           m3 == Wr(m2, pred(m2, bp) + succ_off, bp)
<1>1. head \in Int
  BY SeglistIdxType DEF Head, block_size, min_block_size, wsize, ptr_size
<1>2. m1 \in MemT
  BY <1>1, WrType
<1>3. m2 \in MemT
  BY <1>2, SizeType, WrType
<1>4. m3 \in MemT
  BY <1>3, WrType
<1>5. Wr(m3, succ(m3, bp) + pred_off, bp) \in MemT
  BY <1>4, WrType
<1>6. QED
  BY <1>5 DEF insert_free_block, link_succ, link_neighbours

LEMMA RemoveType ==
  ASSUME NEW m \in MemT, NEW bp
  PROVE  remove_from_free_list(m, bp) \in MemT
<1> DEFINE m1 == Wr(m, pred(m, bp) + succ_off, succ(m, bp))
<1>1. m1 \in MemT
  BY SizeType, WrType
<1>2. Wr(m1, succ(m1, bp) + pred_off, pred(m1, bp)) \in MemT
  BY <1>1, SizeType, WrType
<1>3. QED
  BY <1>2 DEF remove_from_free_list, unlink_back

-----------------------------------------------------------------------------
(* Internal routines.                                                      *)

LEMMA SplitType ==
  ASSUME NEW m \in MemT, NEW seg \in Int, NEW bp \in Int, NEW asize \in Int
  PROVE  split_block(m, seg, bp, asize) \in MemT
<1> DEFINE m1 == write_block(m, bp, asize, TRUE)
           rest == (get_size(m, bp) - asize) % SIZE_T_MOD
           nxt == find_next(m1, bp)
<1>1. m1 \in MemT
  BY WriteType, Zenon
<1>2. rest \in Int /\ nxt \in Int
  <2>1. get_size(m, bp) \in Int
    BY SizeType
  <2>2. rest \in Int
    BY <2>1, SizeTAssumption DEF rest
  <2>3. nxt \in Int
    BY <1>1, NavType DEF nxt
  <2>4. QED
    BY <2>2, <2>3
<1>3. write_block(m1, nxt, rest, FALSE) \in MemT
  BY <1>1, <1>2, WriteType, Zenon
<1>4. insert_free_block(write_block(m1, nxt, rest, FALSE), seg, nxt) \in MemT
  BY <1>2, <1>3, InsertType
<1>5. QED
  BY <1>4 DEF split_block, split_rest

LEMMA CoalesceType ==
  ASSUME NEW m \in MemT, NEW seg \in Int, NEW b \in Int
  PROVE  /\ coalesce(m, seg, b).mem \in MemT
         /\ coalesce(m, seg, b).blk \in Int
<1> DEFINE nxt == find_next(m, b)
           prv == find_prev(m, b)
           size == get_size(m, b)
           merged == CASE get_alloc(m, prv) /\ get_alloc(m, nxt) ->
                            [mem |-> m, blk |-> b]
                       [] get_alloc(m, prv) /\ ~get_alloc(m, nxt) ->
                            [mem |-> remove_from_free_list(
                                       write_block(m, b, size + get_size(m, nxt), FALSE), nxt),
                             blk |-> b]
                       [] ~get_alloc(m, prv) /\ get_alloc(m, nxt) ->
                            [mem |-> remove_from_free_list(
                                       write_block(m, prv, size + get_size(m, prv), FALSE), prv),
                             blk |-> prv]
                       [] OTHER ->
                            [mem |-> remove_from_free_list(remove_from_free_list(
                                       write_block(m, prv, size + get_size(m, nxt)
                                                           + get_size(m, prv), FALSE), prv), nxt),
                             blk |-> prv]
<1>1. nxt \in Int /\ prv \in Int /\ size \in Int
  BY NavType, SizeType
<1>2. get_size(m, nxt) \in Int /\ get_size(m, prv) \in Int
  BY <1>1, SizeType
<1>3. /\ size + get_size(m, nxt) \in Int
      /\ size + get_size(m, prv) \in Int
      /\ size + get_size(m, nxt) + get_size(m, prv) \in Int
  BY <1>1, <1>2
<1>4. /\ write_block(m, b, size + get_size(m, nxt), FALSE) \in MemT
      /\ write_block(m, prv, size + get_size(m, prv), FALSE) \in MemT
      /\ write_block(m, prv, size + get_size(m, nxt) + get_size(m, prv), FALSE) \in MemT
  BY <1>1, <1>3, WriteType, Zenon
<1>5. merged.mem \in MemT /\ merged.blk \in Int
  BY <1>1, <1>4, RemoveType DEF merged
<1>6. insert_free_block(merged.mem, seg, merged.blk) \in MemT
  BY <1>5, InsertType
<1>7. coalesce(m, seg, b) = insert_merged(seg, merged)
  BY DEF coalesce, merged
<1>8. insert_merged(seg, merged).mem \in MemT /\ insert_merged(seg, merged).blk \in Int
  BY <1>5, <1>6 DEF insert_merged
<1>9. QED
  BY <1>7, <1>8, Zenon

LEMMA PlaceType ==
  ASSUME NEW m \in MemT, NEW seg \in Int, NEW b \in Int, NEW asize \in Int
  PROVE  place(m, seg, b, asize) \in MemT
<1> DEFINE m1 == remove_from_free_list(m, b)
<1>1. m1 \in MemT /\ get_size(m, b) \in Int
  BY RemoveType, SizeType
<1>2. split_block(m1, seg, b, asize) \in MemT
  BY <1>1, SplitType
<1>3. write_block(m1, b, get_size(m, b), TRUE) \in MemT
  BY <1>1, WriteType, Zenon
<1>4. QED
  BY <1>2, <1>3 DEF place

LEMMA FindFitType ==
  ASSUME NEW m \in MemT, NEW seg, NEW asize
  PROVE  find_fit(m, seg, asize) \in Addr \cup {NULL}
<1>1. \A x : fit_or_null(x) \in Addr \cup {NULL}
  BY DEF fit_or_null
<1>2. QED
  BY <1>1 DEF find_fit

LEMMA RoundUpType ==
  ASSUME NEW size \in Int, NEW n \in Nat \ {0}
  PROVE  round_up(size, n) \in 0 .. SIZE_T_MOD - 1
BY SizeTAssumption DEF round_up

LEMMA ExtendHeapType ==
  ASSUME NEW h \in HeapT, NEW size \in Int
  PROVE  /\ extend_heap(h, size).h \in HeapT
         /\ extend_heap(h, size).blk \in Int
<1> DEFINE sz == round_up(size, dsize)
           old_epi == h.brk - epilogue_size
           m1 == write_block(h.mem, old_epi, sz, FALSE)
           m2 == write_epilogue_after(m1, old_epi)
           c == coalesce(m2, h.seg, old_epi)
<1>1. sz \in 0 .. SIZE_T_MOD - 1 /\ sz \in Int /\ old_epi \in Int
  BY RoundUpType, SizeTAssumption DEF dsize, wsize, HeapT, epilogue_size
<1>2. CASE sbrk_ok(h, sz)
  <2>1. m1 \in MemT
    <3>1. h.mem \in MemT
      BY DEF HeapT
    <3>2. QED
      BY <1>1, <3>1, WriteType, Zenon DEF m1
  <2>2. m2 \in MemT
    <3>1. find_next(m1, old_epi) \in Int
      BY <1>1, <2>1, NavType
    <3>2. 0 \in Int /\ TRUE \in BOOLEAN
      OBVIOUS
    <3>3. QED
      BY <2>1, <3>1, <3>2, WriteType, Zenon DEF m2, write_epilogue_after
  <2>3. c.mem \in MemT /\ c.blk \in Int
    BY <1>1, <2>2, CoalesceType DEF c, HeapT
  <2>4. h.brk + sz \in 0 .. MAX_HEAP
    BY <1>1, <1>2 DEF sbrk_ok, HeapT
  <2>5. [h EXCEPT !.mem = c.mem, !.brk = h.brk + sz] \in HeapT
    BY <2>3, <2>4 DEF HeapT
  <2>6. extend_heap(h, size) = extended(h, sz, c)
    BY <1>2 DEF extend_heap, extend_heap_rounded, c, m2, m1, old_epi, sz
  <2>7. extended(h, sz, c).h \in HeapT /\ extended(h, sz, c).blk \in Int
    BY <2>3, <2>5 DEF extended
  <2>8. QED
    BY <2>6, <2>7, Zenon
<1>3. CASE ~sbrk_ok(h, sz)
  BY <1>3 DEF extend_heap, extend_heap_rounded, NULL
<1>4. QED
  BY <1>2, <1>3

LEMMA InitialWordsType ==
  ASSUME NEW start \in Int, NEW a \in Int, NEW old \in Int
  PROVE  InitialWords(start, a, old) \in Int
<1>1. /\ pack(block_size, TRUE) \in Int
      /\ pack(prologue_size, TRUE) \in Int
      /\ pack(0, TRUE) \in Int
  <2>1. block_size \in Int /\ prologue_size \in Int /\ 0 \in Int /\ TRUE \in BOOLEAN
    BY DEF block_size, prologue_size, min_block_size, wsize, ptr_size
  <2>2. QED
    BY <2>1, EncodeType
<1>2. Head(start, (a - start) \div block_size) \in Int
  BY DEF Head, block_size, min_block_size, wsize, ptr_size
<1>3. QED
  BY <1>1, <1>2 DEF InitialWords

LEMMA InitializedType ==
  ASSUME NEW h \in HeapT, sbrk_ok(h, init_size)
  PROVE  initialized(h) \in HeapT
<1>1. h.brk \in 0 .. MAX_HEAP /\ h.brk + init_size <= MAX_HEAP
  BY DEF HeapT, sbrk_ok
<1>2. init_size \in Nat /\ Head(h.brk, size_class_cnt) \in Int
  BY <1>1 DEF init_size, size_class_cnt, block_size, prologue_size, epilogue_size,
              min_block_size, wsize, dsize, ptr_size, Head
<1>3. [a \in DOMAIN h.mem |-> InitialWords(h.brk, a, h.mem[a])] \in MemT
  <2>1. DOMAIN h.mem = Addr /\ \A a \in Addr : a \in Int /\ h.mem[a] \in Int
    BY DEF HeapT, MemT, Addr
  <2>2. \A a \in Addr : InitialWords(h.brk, a, h.mem[a]) \in Int
    <3>1. SUFFICES ASSUME NEW a \in Addr PROVE InitialWords(h.brk, a, h.mem[a]) \in Int
      OBVIOUS
    <3>2. h.brk \in Int /\ a \in Int /\ h.mem[a] \in Int
      BY <1>1, <2>1
    <3>3. QED
      BY <3>2, InitialWordsType
  <2>3. QED
    BY <2>1, <2>2 DEF MemT
<1>4. h.brk + init_size \in 0 .. MAX_HEAP /\ h.brk \in Int
  BY <1>1, <1>2
<1>5. QED
  BY <1>2, <1>3, <1>4 DEF initialized, HeapT

LEMMA MmInitType ==
  ASSUME NEW h \in HeapT
  PROVE  mm_init(h).h \in HeapT
<1>1. CASE sbrk_ok(h, init_size)
  <2>1. initialized(h) \in HeapT
    BY <1>1, InitializedType
  <2>2. extend_heap(initialized(h), chunksize).h \in HeapT
    BY <2>1, ExtendHeapType, SegregatedAssumption
  <2>3. QED
    BY <1>1, <2>2 DEF mm_init, init_result
<1>2. CASE ~sbrk_ok(h, init_size)
  BY <1>2 DEF mm_init
<1>3. QED
  BY <1>1, <1>2

-----------------------------------------------------------------------------
(* Public functions.                                                       *)

MallocT == [h : HeapT, ret : Int]

LEMMA MaxType ==
  ASSUME NEW x \in Int, NEW y \in Int
  PROVE  max(x, y) \in Int
BY DEF max

LEMMA AsizeType ==
  ASSUME NEW size \in Int
  PROVE  get_asize(size) \in Int
<1>1. round_up((size + tsize) % SIZE_T_MOD, dsize) \in Int
  <2>1. (size + tsize) % SIZE_T_MOD \in Int /\ dsize \in Nat \ {0}
    BY SizeTAssumption DEF tsize, dsize, wsize
  <2>2. QED
    BY <2>1, RoundUpType
<1>2. min_block_size \in Int
  BY DEF min_block_size, wsize, ptr_size
<1>3. QED
  BY <1>1, <1>2, MaxType DEF get_asize

LEMMA MallocExtendedType ==
  ASSUME NEW asize \in Int, NEW ext, ext.h \in HeapT, ext.blk \in Int
  PROVE  malloc_extended(asize, ext) \in MallocT
<1>1. place(ext.h.mem, ext.h.seg, ext.blk, asize) \in MemT
  BY PlaceType DEF HeapT
<1>2. [ext.h EXCEPT !.mem = place(ext.h.mem, ext.h.seg, ext.blk, asize)] \in HeapT
  BY <1>1 DEF HeapT
<1>3. QED
  BY <1>2 DEF malloc_extended, MallocT, NULL, header_to_payload, dsize, wsize

LEMMA MallocFitType ==
  ASSUME NEW h \in HeapT, NEW asize \in Int, NEW fit \in Int
  PROVE  malloc_fit(h, asize, fit) \in MallocT
<1>1. [h EXCEPT !.mem = place(h.mem, h.seg, fit, asize)] \in HeapT
  <2>1. place(h.mem, h.seg, fit, asize) \in MemT
    BY PlaceType DEF HeapT
  <2>2. QED
    BY <2>1 DEF HeapT
<1>2. extend_heap(h, max(asize, chunksize)).h \in HeapT
      /\ extend_heap(h, max(asize, chunksize)).blk \in Int
  <2>1. max(asize, chunksize) \in Int
    BY MaxType, SegregatedAssumption
  <2>2. QED
    BY <2>1, ExtendHeapType
<1>3. malloc_extended(asize, extend_heap(h, max(asize, chunksize))) \in MallocT
  BY <1>2, MallocExtendedType
<1>4. QED
  BY <1>1, <1>3 DEF malloc_fit, MallocT, header_to_payload, dsize, wsize

LEMMA MallocType ==
  ASSUME NEW h \in HeapT, NEW size \in Int
  PROVE  malloc(h, size) \in MallocT
<1> DEFINE h1 == IF h.listp = NULL THEN mm_init(h).h ELSE h
           asize == get_asize(size)
<1>1. h1 \in HeapT
  BY MmInitType DEF h1
<1>2. asize \in Int
  BY AsizeType DEF asize
<1>3. find_fit(h1.mem, h1.seg, asize) \in Int
  <2>1. find_fit(h1.mem, h1.seg, asize) \in Addr \cup {NULL}
    BY <1>1, FindFitType DEF HeapT
  <2>2. QED
    BY <2>1 DEF Addr, NULL
<1>4. malloc_search(h1, asize) \in MallocT
  <2>1. malloc_fit(h1, asize, find_fit(h1.mem, h1.seg, asize)) \in MallocT
    BY <1>1, <1>2, <1>3, MallocFitType
  <2>2. [h1 EXCEPT !.trap = "SIGSEGV"] \in HeapT
    BY <1>1 DEF HeapT, Traps
  <2>3. QED
    BY <2>1, <2>2 DEF malloc_search, MallocT, NULL
<1>5. QED
  BY <1>4 DEF malloc, MallocT, NULL

LEMMA FreeType ==
  ASSUME NEW h \in HeapT, NEW bp \in Int
  PROVE  free(h, bp) \in HeapT
<1> DEFINE block == payload_to_header(bp)
           m1 == write_block(h.mem, block, get_size(h.mem, block), FALSE)
<1>1. block \in Int /\ get_size(h.mem, block) \in Int /\ h.seg \in Int
  BY SizeType DEF payload_to_header, dsize, wsize, HeapT
<1>2. m1 \in MemT
  BY <1>1, WriteType DEF m1, HeapT
<1>3. coalesce(m1, h.seg, block).mem \in MemT
  BY <1>1, <1>2, CoalesceType
<1>4. QED
  BY <1>3 DEF free, HeapT

LEMMA ReallocType ==
  ASSUME NEW h \in HeapT, NEW p \in Int, NEW size \in Int
  PROVE  realloc(h, p, size) \in MallocT
<1> DEFINE old == payload_to_header(p)
           asize == get_asize(size)
<1>1. malloc(h, size) \in MallocT
  BY MallocType
<1>2. free(h, p) \in HeapT /\ free(malloc(h, size).h, p) \in HeapT
  BY <1>1, FreeType DEF MallocT
<1>3. realloc_moved(h, p, malloc(h, size)) \in MallocT
  BY <1>1, <1>2 DEF realloc_moved, MallocT, NULL
<1>4. [h EXCEPT !.mem = split_block(h.mem, h.seg, old, asize)] \in HeapT
  <2>1. old \in Int /\ asize \in Int /\ h.mem \in MemT /\ h.seg \in Int
    BY AsizeType DEF old, asize, payload_to_header, dsize, wsize, HeapT
  <2>2. split_block(h.mem, h.seg, old, asize) \in MemT
    BY <2>1, SplitType
  <2>3. QED
    BY <2>2 DEF HeapT
<1>5. QED
  BY <1>1, <1>2, <1>3, <1>4 DEF realloc, MallocT, NULL

LEMMA CallocType ==
  ASSUME NEW h \in HeapT, NEW nmemb \in Int, NEW size \in Int
  PROVE  calloc(h, nmemb, size) \in MallocT
<1>1. (nmemb * size) % SIZE_T_MOD \in Int
  BY SizeTAssumption
<1>2. QED
  BY <1>1, MallocType DEF calloc

-----------------------------------------------------------------------------
(* The driver.                                                             *)

LEMMA HeapFromTypeOK ==
  TypeOK => heap \in HeapT
BY DEF TypeOK, heap, HeapT, MemT

LEMMA CommitType ==
  ASSUME NEW h \in HeapT, Commit(h)
  PROVE  /\ mem' \in [Addr -> Int]
         /\ brk' \in 0 .. MAX_HEAP
         /\ heap_listp' \in Int
         /\ seglist' \in Int
         /\ trap' \in Traps
BY DEF Commit, HeapT, MemT

LEMMA HoldType ==
  ASSUME TypeOK, NEW i \in Ids, NEW p \in Int, NEW n \in Nat, Hold(i, p, n)
  PROVE  ptr' \in [Ids -> Int] /\ reqsz' \in [Ids -> Nat]
BY DEF TypeOK, Hold

(* Type correctness: whatever the sequence of mm_init, malloc, free,      *)
(* realloc and calloc calls, the memory stays a map from word addresses   *)
(* to integers, brk stays within the backing region (every growth of the  *)
(* heap, the 552-byte prefix of mm_init included, is guarded by mem_sbrk),*)
(* and the slots hold integer pointers and sizes.                         *)
THEOREM TypeCorrect == Spec => []TypeOK
<1>1. Init => TypeOK
  BY SegregatedAssumption DEF Init, TypeOK, NULL, Traps
<1>2. TypeOK /\ [Next]_vars => TypeOK'
  <2> SUFFICES ASSUME TypeOK, [Next]_vars PROVE TypeOK'
    OBVIOUS
  <2>0. heap \in HeapT
    BY HeapFromTypeOK
  <2>1. CASE MmInit
    <3>1. mm_init(heap).h \in HeapT
      BY <2>0, MmInitType
    <3>2. QED
      BY <2>1, <3>1, CommitType DEF MmInit, TypeOK
  <2>2. ASSUME NEW i \in Ids, NEW n \in Requests, Malloc(i, n)
        PROVE  TypeOK'
    <3>1. n \in Nat
      BY SegregatedAssumption
    <3>2. malloc(heap, n) \in MallocT
      BY <2>0, <3>1, MallocType
    <3>3. QED
      BY <2>2, <3>1, <3>2, CommitType, HoldType DEF Malloc, Return, MallocT, TypeOK
  <2>3. ASSUME NEW i \in Ids, Free(i)
        PROVE  TypeOK'
    <3>1. free(heap, ptr[i]) \in HeapT
      BY <2>0, FreeType DEF TypeOK
    <3>2. NULL \in Int /\ 0 \in Nat
      BY DEF NULL
    <3>3. QED
      BY <2>3, <3>1, <3>2, CommitType, HoldType DEF Free, TypeOK
  <2>4. ASSUME NEW i \in Ids, NEW n \in ReallocRequests \cup {0}, Realloc(i, n)
        PROVE  TypeOK'
    <3>1. n \in Nat
      BY SegregatedAssumption
    <3>2. realloc(heap, ptr[i], n) \in MallocT
      BY <2>0, <3>1, ReallocType DEF TypeOK
    <3>3. QED
      BY <2>4, <3>1, <3>2, CommitType, HoldType DEF Realloc, ReallocReturn, MallocT, TypeOK
  <2>5. ASSUME NEW i \in Ids, NEW a \in CallocNmemb, NEW b \in CallocSize, Calloc(i, a, b)
        PROVE  TypeOK'
    <3>1. a \in Nat /\ b \in Nat /\ a * b \in Nat
      BY SegregatedAssumption
    <3>2. calloc(heap, a, b) \in MallocT
      BY <2>0, <3>1, CallocType
    <3>3. QED
      BY <2>5, <3>1, <3>2, CommitType, HoldType DEF Calloc, Return, MallocT, TypeOK
  <2>6. CASE UNCHANGED vars
    BY <2>6 DEF vars, TypeOK
  <2>7. QED
    BY <2>1, <2>2, <2>3, <2>4, <2>5, <2>6 DEF Next
<1>3. QED
  BY <1>1, <1>2, PTL DEF Spec

-----------------------------------------------------------------------------
(* get_asize(size) = max(round_up(size + tsize, dsize), min_block_size)   *)
(* (line 634), for every width of size_t.                                  *)

(* For every request up to SIZE_MAX - 19 the adjusted size is a multiple  *)
(* of dsize, at least min_block_size, that holds the request, the header, *)
(* the padding and the footer.                                             *)
THEOREM GetAsizeCovers ==
  ASSUME NEW size \in 0 .. SIZE_T_MOD - 20
  PROVE  /\ get_asize(size) >= size + tsize
         /\ get_asize(size) % dsize = 0
         /\ get_asize(size) >= min_block_size
<1> DEFINE x == size + tsize
           r == round_up(x, dsize)
<1>1. (size + tsize) % SIZE_T_MOD = x
  BY DsizeFacts
<1>2. r \in Nat /\ x <= r /\ r % dsize = 0
  BY RoundUpExact, DsizeFacts
<1>3. get_asize(size) = max(r, min_block_size)
  BY <1>1 DEF get_asize
<1>4. QED
  BY <1>2, <1>3, DsizeFacts DEF max, min_block_size, ptr_size

(* For every request from SIZE_MAX - 18 on, size + tsize or its rounding  *)
(* wraps and the adjusted size is min_block_size, far below the request   *)
(* (the seg_huge finding).                                                 *)
THEOREM GetAsizeWraps ==
  ASSUME NEW size \in SIZE_T_MOD - 19 .. SIZE_T_MOD - 1
  PROVE  get_asize(size) = min_block_size
<1>1. CASE size + tsize < SIZE_T_MOD
  <2>1. (size + tsize) % SIZE_T_MOD = size + tsize
    BY <1>1, DsizeFacts
  <2>2. round_up(size + tsize, dsize) = 0
    BY <1>1, RoundUpWraps, DsizeFacts
  <2>3. QED
    BY <2>1, <2>2 DEF get_asize, max, min_block_size, ptr_size, wsize
<1>2. CASE size + tsize >= SIZE_T_MOD
  <2> DEFINE x == size + tsize - SIZE_T_MOD
  <2>1. (size + tsize) % SIZE_T_MOD = x
    BY <1>2, DsizeFacts
  <2>2. round_up(x, dsize) \in Nat /\ round_up(x, dsize) < x + dsize
    BY <1>2, RoundUpExact, DsizeFacts
  <2>3. round_up(x, dsize) < min_block_size
    BY <2>2, DsizeFacts DEF min_block_size, ptr_size
  <2>4. get_asize(size) = max(round_up(x, dsize), min_block_size)
    BY <2>1 DEF get_asize
  <2>5. QED
    BY <2>2, <2>3, <2>4 DEF max, min_block_size, ptr_size, wsize
<1>3. QED
  BY <1>1, <1>2, DsizeFacts
=============================================================================
