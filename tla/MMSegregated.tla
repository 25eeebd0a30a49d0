----------------------------- MODULE MMSegregated -----------------------------
(***************************************************************************)
(* The segregated-fits allocator of mm-segregated.c.                       *)
(*                                                                         *)
(* Memory is modelled as in MMImplicit: mem maps the byte address of every *)
(* 4-byte word of the backing region to its contents.  A block_t is       *)
(*   header (b), pad (b+4), payload (b+8) = pred (b+8), succ (b+16), pad,   *)
(* with the footer in the last word of the block.  pred and succ are       *)
(* 8-byte pointers; each is kept whole in the word at its offset and the   *)
(* word after it is never read.  The first 512 bytes of the heap are the   *)
(* 16 class-list heads (block_t's whose pred and succ make each list       *)
(* circular), followed by a 32-byte prologue and an 8-byte epilogue.       *)
(*                                                                         *)
(* Each public function is a pure operator from a heap record              *)
(*   [mem, brk, listp (heap_listp), seg (seglist), trap]                   *)
(* to its result, composed from the helpers in the order the C code calls  *)
(* them, every list splice included.  The driver holds the returned        *)
(* pointers in slots Ids and calls one public function per step.           *)
(***************************************************************************)
EXTENDS Integers, MMBlock, MMSizeClass

CONSTANTS
  chunksize,        \* extension unit of extend_heap (1 << 12 in the source)
  MAX_HEAP,         \* capacity of the backing region (memlib)
  Ids,              \* the driver's allocation slots
  Requests,         \* sizes passed to malloc
  ReallocRequests,  \* non-zero sizes passed to realloc
  CallocNmemb,      \* nmemb values passed to calloc
  CallocSize        \* size values passed to calloc

ASSUME SegregatedAssumption ==
  /\ chunksize \in Nat /\ chunksize > 0 /\ chunksize % 8 = 0
  /\ MAX_HEAP \in Nat /\ MAX_HEAP % 8 = 0
  /\ Requests \subseteq Nat /\ ReallocRequests \subseteq Nat
  /\ CallocNmemb \subseteq Nat /\ CallocSize \subseteq Nat

VARIABLES
  mem,          \* word address -> word contents
  brk,          \* current top of the backing region (mem_sbrk)
  heap_listp,   \* static heap_listp: the prologue block, or NULL
  seglist,      \* static seglist: the first class-list head, or NULL
  trap,         \* "none", or the signal that killed the process
  ptr,          \* slot -> payload pointer held by the driver, or NULL
  reqsz         \* slot -> number of bytes the driver asked for

vars == <<mem, brk, heap_listp, seglist, trap, ptr, reqsz>>

NULL == -1
ptr_size == 8
min_block_size == 2 * wsize + 2 * ptr_size + 2 * wsize
prologue_size == min_block_size
epilogue_size == dsize
block_size == min_block_size     \* sizeof(block_t)
pred_off == 2 * wsize            \* offsetof(block_t, pred)
succ_off == pred_off + ptr_size  \* offsetof(block_t, succ)
Addr == {a \in 0 .. MAX_HEAP - wsize : a % wsize = 0}
init_size == size_class_cnt * block_size + prologue_size + epilogue_size
\* Every block past the prefix has at least min_block_size bytes, so a
\* class list has at most this many members less two, and the heap at
\* most this many blocks, prologue and epilogue included.
MaxWalk == max((MAX_HEAP - init_size) \div min_block_size, 0) + 2
Traps == {"none", "SIGSEGV"}

-----------------------------------------------------------------------------
(* Block helpers.  A read outside the backing region yields 0.             *)

Rd(m, a) == IF a \in DOMAIN m THEN m[a] ELSE 0
Wr(m, a, v) == [m EXCEPT ![a] = v]

get_size(m, b) == extract_size(Rd(m, b))
get_alloc(m, b) == extract_alloc(Rd(m, b))
get_payload_size(m, b) == (get_size(m, b) - tsize) % SIZE_T_MOD
pred(m, b) == Rd(m, b + pred_off)
succ(m, b) == Rd(m, b + succ_off)

write_header(m, b, size, alloc) == Wr(m, b, pack(size, alloc))

\* get_footer: payload + get_payload_size, from the size now in the header.
get_footer(m, b) == b + dsize + get_payload_size(m, b)

write_footer(m, b, size, alloc) == Wr(m, get_footer(m, b), pack(size, alloc))

\* Fault model: footer written before the header, at the old size's end.
write_block_footer_first(m, b, size, alloc) ==
  write_header(write_footer(m, b, size, alloc), b, size, alloc)

\* The code's write_header(b, ...); write_footer(b, ...) pair.
write_block(m, b, size, alloc) ==
  write_footer(write_header(m, b, size, alloc), b, size, alloc)

find_next(m, b) == b + get_size(m, b)
find_prev(m, b) == b - extract_size(Rd(m, b - wsize))
payload_to_header(p) == p - dsize
header_to_payload(b) == b + dsize

\* The head block_t of size class idx in the seglist array.
Head(seg, idx) == seg + block_size * idx

\* Fault model: the header, pad and footer left out of the block size.
get_asize_no_overhead(size) == max(round_up(size, dsize), min_block_size)

\* get_asize(size): max(round_up(size + tsize, dsize), min_block_size).
get_asize(size) == max(round_up((size + tsize) % SIZE_T_MOD, dsize), min_block_size)

\* The blocks of a circular list from head->succ on; it stays on head, so
\* w[j] # head says that a loop over the list has not yet returned to head.
\* Each level binds the previous one once, as the element of a singleton,
\* and the result is tabulated.
ListWalk(m, head) ==
  LET w[i \in 0 .. MaxWalk] ==
        IF i = 0 THEN succ(m, head)
        ELSE CHOOSE n \in {IF b = head THEN head ELSE succ(m, b) : b \in {w[i - 1]}} : TRUE
  IN [i \in 0 .. MaxWalk |-> w[i]]

\* One step of the heap walk: the next block, or b itself on a size-0 block.
NextBlock(m, b) == IF get_size(m, b) > 0 THEN find_next(m, b) ELSE b

\* The blocks reached from start by find_next, tabulated.
Walk(m, start) ==
  LET w[i \in 0 .. MaxWalk] ==
        IF i = 0 THEN start
        ELSE CHOOSE n \in {NextBlock(m, b) : b \in {w[i - 1]}} : TRUE
  IN [i \in 0 .. MaxWalk |-> w[i]]

-----------------------------------------------------------------------------
(* Free-list splices and internal routines.  A routine whose C code reads  *)
(* memory it has just written is split into operators that take the memory *)
(* after each write as a parameter.                                        *)

\* The last two lines of insert_free_block: bp->pred->succ = bp, then
\* bp->succ->pred = bp, each through the links as they now are.
link_neighbours(m, bp) ==
  LET m3 == Wr(m, pred(m, bp) + succ_off, bp) IN Wr(m3, succ(m3, bp) + pred_off, bp)

\* bp->succ = head->succ, read after bp->pred = head was written.
link_succ(m1, head, bp) == link_neighbours(Wr(m1, bp + succ_off, succ(m1, head)), bp)

\* insert_free_block(bp): LIFO insertion after the head of bp's class.
insert_free_block(m, seg, bp) ==
  LET head == Head(seg, get_seglist_idx(get_size(m, bp)))
  IN link_succ(Wr(m, bp + pred_off, head), head, bp)

\* bp->succ->pred = bp->pred, read after bp->pred->succ was written.
unlink_back(m1, bp) == Wr(m1, succ(m1, bp) + pred_off, pred(m1, bp))

\* Fault model: the successor's back link left pointing at bp.
remove_from_free_list_forward_only(m, bp) ==
  Wr(m, pred(m, bp) + succ_off, succ(m, bp))

\* remove_from_free_list(bp): unlink bp from its circular list.
remove_from_free_list(m, bp) == unlink_back(Wr(m, pred(m, bp) + succ_off, succ(m, bp)), bp)

\* The remainder of split_block once bp carries asize: the next block gets
\* the rest of the old size and joins its class list.
split_rest(m1, seg, bp, rest) ==
  LET nxt == find_next(m1, bp)
  IN insert_free_block(write_block(m1, nxt, rest, FALSE), seg, nxt)

\* split_block(bp, asize): bp allocated with asize bytes, the rest a free
\* block inserted into its class list.
split_block(m, seg, bp, asize) ==
  split_rest(write_block(m, bp, asize, TRUE), seg, bp, (get_size(m, bp) - asize) % SIZE_T_MOD)

\* mem_sbrk(incr) of memlib: fails when the region would exceed MAX_HEAP.
sbrk_ok(h, incr) == h.brk + incr <= MAX_HEAP

\* The end of coalesce: the merged block joins its class list.
insert_merged(seg, merged) ==
  [mem |-> insert_free_block(merged.mem, seg, merged.blk), blk |-> merged.blk]

\* Fault model: case 2 (next block free) left unmerged.
coalesce_skip_next(m, seg, b) ==
  LET nxt == find_next(m, b)
      prv == find_prev(m, b)
      size == get_size(m, b)
  IN insert_merged(seg,
       CASE get_alloc(m, prv) ->
              [mem |-> m, blk |-> b]
         [] get_alloc(m, nxt) ->
              [mem |-> remove_from_free_list(
                         write_block(m, prv, size + get_size(m, prv), FALSE), prv),
               blk |-> prv]
         [] OTHER ->
              [mem |-> remove_from_free_list(remove_from_free_list(
                         write_block(m, prv, size + get_size(m, nxt) + get_size(m, prv),
                                     FALSE), prv), nxt),
               blk |-> prv])

\* coalesce(block): the four boundary-tag cases, unlinking every merged
\* neighbour, then the result inserted into its class list.
coalesce(m, seg, b) ==
  LET nxt == find_next(m, b)
      prv == find_prev(m, b)
      prev_alloc == get_alloc(m, prv)
      next_alloc == get_alloc(m, nxt)
      size == get_size(m, b)
  IN insert_merged(seg,
       CASE prev_alloc /\ next_alloc ->
              [mem |-> m, blk |-> b]
         [] prev_alloc /\ ~next_alloc ->
              [mem |-> remove_from_free_list(
                         write_block(m, b, size + get_size(m, nxt), FALSE), nxt),
               blk |-> b]
         [] ~prev_alloc /\ next_alloc ->
              [mem |-> remove_from_free_list(
                         write_block(m, prv, size + get_size(m, prv), FALSE), prv),
               blk |-> prv]
         [] OTHER ->
              [mem |-> remove_from_free_list(remove_from_free_list(
                         write_block(m, prv, size + get_size(m, nxt) + get_size(m, prv),
                                     FALSE), prv), nxt),
               blk |-> prv])

\* Fault model: the placed block left on its free list.
place_no_unlink(m, seg, b, asize) ==
  IF (get_size(m, b) - asize) % SIZE_T_MOD >= min_block_size
  THEN split_block(m, seg, b, asize)
  ELSE write_block(m, b, get_size(m, b), TRUE)

\* place(block, asize): unlink the block, then split or take it whole.
place(m, seg, b, asize) ==
  IF (get_size(m, b) - asize) % SIZE_T_MOD >= min_block_size
  THEN split_block(remove_from_free_list(m, b), seg, b, asize)
  ELSE write_block(remove_from_free_list(m, b), b, get_size(m, b), TRUE)

\* The bound on the iterations of find_fit's two loops: one per class, and
\* one per member of a list.
MaxScan == size_class_cnt + MaxWalk

\* The block find_fit returns: a block of the region, or NULL.
fit_or_null(blk) == IF blk \in Addr THEN blk ELSE NULL

\* The loops of find_fit as a recursive function of the iteration count k,
\* the class idx and the current block b.  From the class of asize on,
\* each list is scanned from head->succ until it returns to its head; the
\* first block of at least asize bytes is returned, and NULL when every
\* class was scanned.
find_fit_scan(m, seg, asize) ==
  LET scan[k \in 0 .. MaxScan, idx \in Int, b \in Int] ==
        IF k = MaxScan \/ idx >= size_class_cnt THEN NULL
        ELSE IF b = Head(seg, idx) THEN scan[k + 1, idx + 1, succ(m, Head(seg, idx + 1))]
        ELSE IF asize <= get_size(m, b) THEN b
        ELSE scan[k + 1, idx, succ(m, b)]
  IN scan[0, get_seglist_idx(asize), succ(m, Head(seg, get_seglist_idx(asize)))]

\* find_fit(asize): the block the loops stop at, or NULL.
find_fit(m, seg, asize) == fit_or_null(find_fit_scan(m, seg, asize))

\* The body of extend_heap after a successful mem_sbrk: the old epilogue
\* becomes the header of a free block of sz bytes, a new epilogue header
\* follows it, and the block is coalesced.
write_epilogue_after(m1, b) == write_header(m1, find_next(m1, b), 0, TRUE)
extended(h, sz, c) == [h |-> [h EXCEPT !.mem = c.mem, !.brk = h.brk + sz], blk |-> c.blk]

\* Fault model: the failure of mem_sbrk not tested.
extend_heap_unchecked(h, sz) ==
  LET old_epi == h.brk - epilogue_size
  IN extended(h, sz, coalesce(write_epilogue_after(write_block(h.mem, old_epi, sz, FALSE),
                                                   old_epi), h.seg, old_epi))

\* extend_heap(size): round size up, mem_sbrk it, then the body above.
extend_heap_rounded(h, sz) ==
  LET old_epi == h.brk - epilogue_size
  IN IF sbrk_ok(h, sz)
     THEN extended(h, sz, coalesce(write_epilogue_after(write_block(h.mem, old_epi, sz, FALSE),
                                                        old_epi), h.seg, old_epi))
     ELSE [h |-> h, blk |-> NULL]
extend_heap(h, size) == extend_heap_rounded(h, round_up(size, dsize))

\* The heap prefix mm_init writes: for every head i its header and footer
\* (size block_size, allocated) and pred = succ = the head itself, then the
\* prologue header and footer and the epilogue header.
InitialWords(start, a, old) ==
  LET i == (a - start) \div block_size
      off == (a - start) % block_size
      prologue == Head(start, size_class_cnt)
  IN CASE a >= start /\ i < size_class_cnt /\ off \in {0, block_size - wsize} ->
            pack(block_size, TRUE)
       [] a >= start /\ i < size_class_cnt /\ off \in {pred_off, succ_off} ->
            Head(start, i)
       [] a \in {prologue, prologue + prologue_size - wsize} ->
            pack(prologue_size, TRUE)
       [] a = prologue + prologue_size ->
            pack(0, TRUE)
       [] OTHER -> old

\* Fault model: the prologue placed at start[size_class_cnt - 1], over the
\* last class head.
initialized_prologue_low(h) ==
  [h EXCEPT !.mem = [a \in DOMAIN h.mem |-> InitialWords(h.brk, a, h.mem[a])],
            !.brk = h.brk + init_size,
            !.seg = h.brk,
            !.listp = Head(h.brk, size_class_cnt - 1)]

\* The heap once mm_init wrote the prefix from start = the old brk on.
initialized(h) ==
  [h EXCEPT !.mem = [a \in DOMAIN h.mem |-> InitialWords(h.brk, a, h.mem[a])],
            !.brk = h.brk + init_size,
            !.seg = h.brk,
            !.listp = Head(h.brk, size_class_cnt)]

\* mm_init's return code after its extend_heap(chunksize).
init_result(e) == [h |-> e.h, rc |-> IF e.blk = NULL THEN -1 ELSE 0]

\* mm_init(): the heads, prologue and epilogue, then one chunk.
mm_init(h) ==
  IF sbrk_ok(h, init_size)
  THEN init_result(extend_heap(initialized(h), chunksize))
  ELSE [h |-> h, rc |-> -1]

-----------------------------------------------------------------------------
(* Public functions.                                                       *)

\* The end of malloc when find_fit found nothing: place into the block
\* extend_heap returned, or NULL when it failed.
malloc_extended(asize, ext) ==
  IF ext.blk = NULL THEN [h |-> ext.h, ret |-> NULL]
  ELSE [h |-> [ext.h EXCEPT !.mem = place(ext.h.mem, ext.h.seg, ext.blk, asize)],
        ret |-> header_to_payload(ext.blk)]

\* malloc after find_fit(asize) returned fit.
malloc_fit(h, asize, fit) ==
  IF fit # NULL
  THEN [h |-> [h EXCEPT !.mem = place(h.mem, h.seg, fit, asize)],
        ret |-> header_to_payload(fit)]
  ELSE malloc_extended(asize, extend_heap(h, max(asize, chunksize)))

\* malloc once the heap was initialized; the result of mm_init is ignored,
\* and when it left seglist NULL, find_fit dereferences NULL.
malloc_search(h, asize) ==
  IF h.seg = NULL THEN [h |-> [h EXCEPT !.trap = "SIGSEGV"], ret |-> NULL]
  ELSE malloc_fit(h, asize, find_fit(h.mem, h.seg, asize))

\* malloc(size).
malloc(h, size) ==
  IF size = 0 THEN [h |-> h, ret |-> NULL]
  ELSE malloc_search(IF h.listp = NULL THEN mm_init(h).h ELSE h, get_asize(size))

\* free(ptr): mark the block free and coalesce it into the lists.
free(h, bp) ==
  LET block == payload_to_header(bp)
  IN IF bp = NULL THEN h
     ELSE [h EXCEPT !.mem = coalesce(write_block(h.mem, block, get_size(h.mem, block), FALSE),
                                     h.seg, block).mem]

\* Fault model: the old block of a moving realloc never freed.
realloc_moved_no_free(h, p, r) ==
  IF r.ret = NULL THEN [h |-> r.h, ret |-> NULL] ELSE r

\* The end of a moving realloc with r = malloc(size): NULL when malloc
\* failed, else the old block freed.  The memcpy moves payload bytes only
\* and is not modelled.
realloc_moved(h, p, r) ==
  IF r.ret = NULL THEN [h |-> r.h, ret |-> NULL] ELSE [h |-> free(r.h, p), ret |-> r.ret]

\* realloc(oldptr, size): an in-place shrink that splits off a remainder of
\* at least min_block_size (inserted without coalescing), or malloc, copy,
\* free.
realloc(h, p, size) ==
  LET old == payload_to_header(p)
      oldsize == get_size(h.mem, old)
      asize == get_asize(size)
  IN IF size = 0 THEN [h |-> free(h, p), ret |-> NULL]
     ELSE IF p = NULL THEN malloc(h, size)
     ELSE IF oldsize >= asize
          THEN [h |-> IF (oldsize - asize) % SIZE_T_MOD >= min_block_size
                      THEN [h EXCEPT !.mem = split_block(h.mem, h.seg, old, asize)]
                      ELSE h,
                ret |-> p]
     ELSE realloc_moved(h, p, malloc(h, size))

\* calloc(nmemb, size): malloc of the product, which wraps unchecked.  The
\* memset of the payload is not modelled.
calloc(h, nmemb, size) == malloc(h, (nmemb * size) % SIZE_T_MOD)

-----------------------------------------------------------------------------
(* The driver: one public call per step on one slot.                       *)

heap == [mem |-> mem, brk |-> brk, listp |-> heap_listp, seg |-> seglist, trap |-> trap]

Commit(h) ==
  /\ mem' = h.mem
  /\ brk' = h.brk
  /\ heap_listp' = h.listp
  /\ seglist' = h.seg
  /\ trap' = h.trap

Hold(i, p, n) ==
  /\ ptr' = [ptr EXCEPT ![i] = p]
  /\ reqsz' = [reqsz EXCEPT ![i] = IF p = NULL THEN 0 ELSE n]

\* The driver takes the result r of a call that returns a pointer into
\* slot i, for a request of n bytes.
Return(i, r, n) == Commit(r.h) /\ Hold(i, r.ret, n)

\* A failed realloc of a non-zero size leaves the old pointer valid.
ReallocReturn(i, r, n) ==
  /\ Commit(r.h)
  /\ IF n # 0 /\ r.ret = NULL THEN UNCHANGED <<ptr, reqsz>> ELSE Hold(i, r.ret, n)

Init ==
  /\ mem = [a \in Addr |-> 0]
  /\ brk = 0
  /\ heap_listp = NULL
  /\ seglist = NULL
  /\ trap = "none"
  /\ ptr = [i \in Ids |-> NULL]
  /\ reqsz = [i \in Ids |-> 0]

\* The driver's explicit mm_init() before the first request.
MmInit ==
  /\ trap = "none" /\ heap_listp = NULL
  /\ Commit(mm_init(heap).h)
  /\ UNCHANGED <<ptr, reqsz>>

Malloc(i, n) ==
  /\ trap = "none" /\ ptr[i] = NULL
  /\ Return(i, malloc(heap, n), n)

Free(i) ==
  /\ trap = "none"
  /\ Commit(free(heap, ptr[i]))
  /\ Hold(i, NULL, 0)

Realloc(i, n) ==
  /\ trap = "none"
  /\ ReallocReturn(i, realloc(heap, ptr[i], n), n)

Calloc(i, a, b) ==
  /\ trap = "none" /\ ptr[i] = NULL
  /\ Return(i, calloc(heap, a, b), a * b)

Next ==
  \/ MmInit
  \/ \E i \in Ids, n \in Requests : Malloc(i, n)
  \/ \E i \in Ids : Free(i)
  \/ \E i \in Ids, n \in ReallocRequests \cup {0} : Realloc(i, n)
  \/ \E i \in Ids, a \in CallocNmemb, b \in CallocSize : Calloc(i, a, b)

Spec == Init /\ [][Next]_vars

-----------------------------------------------------------------------------
(* Invariants and properties.                                              *)

(* Type correctness of the segregated heap state. *)
TypeOK ==
  /\ mem \in [Addr -> Int]
  /\ brk \in 0 .. MAX_HEAP
  /\ heap_listp \in Int
  /\ seglist \in Int
  /\ trap \in Traps
  /\ ptr \in [Ids -> Int]
  /\ reqsz \in [Ids -> Nat]

\* The non-sentinel blocks between the prologue and the epilogue.
Blocks ==
  LET w == Walk(mem, heap_listp) IN {w[i] : i \in 1 .. MaxWalk} \ {brk - epilogue_size}

\* The blocks on the list of class c, up to the return to its head.
ListMembers(c) ==
  LET head == Head(seglist, c)
      w == ListWalk(mem, head)
  IN {w[j] : j \in {k \in 0 .. MaxWalk : w[k] # head}}

(* I1, I4 and the sentinels (spec 3.2), as mm_checkheap would verify them *)
(* after every call: walking from the prologue by header sizes lands      *)
(* exactly on a size-0 allocated epilogue in the last 8 bytes below brk,  *)
(* every block on the way has a footer equal to its header, and every     *)
(* non-sentinel block is at least min_block_size bytes.  Broken by a tag  *)
(* written at a stale position in coalesce, split_block or extend_heap.   *)
HeapWellFormed ==
  heap_listp # NULL =>
    LET w == Walk(mem, heap_listp)
    IN /\ Rd(mem, heap_listp) = pack(prologue_size, TRUE)
       /\ \E k \in 1 .. MaxWalk :
            /\ w[k] = brk - epilogue_size
            /\ Rd(mem, w[k]) = pack(0, TRUE)
            /\ \A i \in 0 .. k - 1 : Rd(mem, get_footer(mem, w[i])) = Rd(mem, w[i])
            /\ \A i \in 1 .. k - 1 : get_size(mem, w[i]) >= min_block_size

(* I5 and I6: every class list is a circular doubly-linked list through   *)
(* its head (following succ returns to the head, and every node's pred is *)
(* the node before it), and its members are exactly the free blocks of    *)
(* the heap whose size maps to that class.  Broken by a splice that       *)
(* leaves a dangling link, a block unlinked twice or never, or a block    *)
(* filed under the wrong class: insert_free_block and                      *)
(* remove_from_free_list run from coalesce, place and split_block.        *)
FreeListsExact ==
  heap_listp # NULL =>
    LET freeBlocks == {b \in Blocks : ~get_alloc(mem, b)}
        class == [b \in freeBlocks |-> get_seglist_idx(get_size(mem, b))]
    IN \A c \in 0 .. size_class_cnt - 1 :
         LET head == Head(seglist, c)
             w == ListWalk(mem, head)
         IN /\ w[MaxWalk] = head
            /\ pred(mem, w[0]) = head
            /\ \A l \in 1 .. MaxWalk : w[l - 1] # head => pred(mem, w[l]) = w[l - 1]
            /\ ListMembers(c) = {b \in freeBlocks : class[b] = c}

(* I3: no two adjacent blocks are both free after a public call returns.  *)
NoAdjacentFree ==
  heap_listp # NULL =>
    \A b \in Blocks : ~get_alloc(mem, b) => get_alloc(mem, find_next(mem, b))

(* Ownership: the allocated blocks of the heap are exactly the blocks     *)
(* whose payloads the driver holds, each held by one slot.  Broken when   *)
(* malloc hands out a block that is in use or still free, or a block is   *)
(* left allocated with no slot holding it (a leak).                       *)
Ownership ==
  /\ heap_listp = NULL => \A i \in Ids : ptr[i] = NULL
  /\ heap_listp # NULL =>
     LET blocks == Blocks IN
       /\ \A i \in Ids : ptr[i] # NULL =>
             payload_to_header(ptr[i]) \in blocks /\ get_alloc(mem, payload_to_header(ptr[i]))
       /\ \A b \in blocks : get_alloc(mem, b) => \E i \in Ids : ptr[i] = header_to_payload(b)
       /\ \A i, j \in Ids : i # j /\ ptr[i] # NULL => ptr[i] # ptr[j]

(* Every payload handed out by malloc, realloc or calloc holds at least   *)
(* the bytes requested (C11 7.22.3; for calloc, spec 4.G.4 and L5).       *)
PayloadFits ==
  \A i \in Ids : ptr[i] # NULL =>
    get_payload_size(mem, payload_to_header(ptr[i])) >= reqsz[i]

\* The words that hold the first n bytes of the payload at p.
PayloadWords(p, n) == {a \in Addr : a + wsize > p /\ a < p + n}

(* Client data is never overwritten (spec L2): across any call, every     *)
(* slot that keeps its pointer finds the first min(old, new) requested    *)
(* bytes of its payload unchanged.  This covers the in-place shrink of    *)
(* realloc and every tag, pred and succ word the allocator writes for     *)
(* other blocks: a write through a stale link or at a stale footer        *)
(* position lands in someone's payload.                                   *)
ClientDataPreserved ==
  [][\A i \in Ids :
       ptr[i] # NULL /\ ptr'[i] = ptr[i] =>
         \A a \in PayloadWords(ptr[i], IF reqsz'[i] < reqsz[i] THEN reqsz'[i] ELSE reqsz[i]) :
           mem'[a] = mem[a]]_vars

(* I2: every payload pointer returned is 16-byte aligned (spec 3.2, 8).   *)
Aligned16 == \A i \in Ids : ptr[i] # NULL => ptr[i] % 16 = 0

(* The process is never killed by the allocator (spec 7: every error      *)
(* surfaces as NULL or -1, the allocator never aborts).                   *)
NoTrap == trap = "none"

(* mm_init runs at most once, at the start of the region: malloc calls   *)
(* it only while heap_listp is NULL (line 227), and as long as it is NULL *)
(* no call has grown the region, because the only path to extend_heap    *)
(* goes through find_fit on a set seglist.  So seglist is NULL exactly    *)
(* while brk is 0 and is 0 after that, heap_listp is the prologue after   *)
(* the 16 heads, and the 552-byte prefix lies below brk, whether or not   *)
(* mm_init's first chunk was granted (line 193).  The crash of malloc on  *)
(* the NULL seglist (line 228) happens only in a region that could not    *)
(* take the prefix.  Broken by an mm_init that runs again on a set-up     *)
(* heap, or that sets one pointer and not the other.                       *)
SegLayout ==
  /\ seglist \in {NULL, 0}
  /\ (seglist = NULL) = (heap_listp = NULL)
  /\ (seglist = NULL) = (brk = 0)
  /\ seglist # NULL =>
       /\ heap_listp = Head(seglist, size_class_cnt)
       /\ init_size <= brk
  /\ trap # "none" => brk = 0

\* The refinement mapping onto the abstract allocator: the driver's slots
\* are its slots, and brk is the top of its region.
Alloc == INSTANCE MMAlloc WITH top <- brk

(* The allocator implements MMAlloc: every pointer malloc, calloc or      *)
(* realloc hands out is 8-aligned and carries the requested bytes inside  *)
(* the region, apart from every byte another slot holds; a failed call    *)
(* changes nothing the client holds; free and realloc(p, 0) empty the     *)
(* slot; and brk never shrinks.  Broken by a fit search or an unlink that *)
(* hands out a block twice, or a size computation that gives too few      *)
(* bytes.                                                                  *)
AllocSpec == Alloc!Spec

=============================================================================
