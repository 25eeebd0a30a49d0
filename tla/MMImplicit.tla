------------------------------ MODULE MMImplicit ------------------------------
(***************************************************************************)
(* The implicit-free-list allocator of mm-baseline.c.                      *)
(*                                                                         *)
(* The heap is word-addressed memory: mem maps the byte address of every   *)
(* 4-byte word of the backing region to its contents, and brk is the top  *)
(* returned by mem_sbrk.  Blocks exist only as header and footer words in  *)
(* mem; every navigation step (find_next, find_prev, the footer position)  *)
(* is computed from those words exactly as the C code computes it, so a    *)
(* stale or misplaced tag shows up as a misparsed heap.                    *)
(*                                                                         *)
(* Each public function is a pure operator from a heap record              *)
(*   [mem, brk, listp (heap_listp), trap]                                  *)
(* to its result, composed from the helpers in the order the C code calls  *)
(* them.  The driver (the trace player of mdriver) holds the returned      *)
(* pointers in slots Ids and calls one public function per step; the      *)
(* allocator is single-threaded, so each call is one atomic action.        *)
(***************************************************************************)
EXTENDS Integers, MMBlock

CONSTANTS
  chunksize,     \* extension unit of extend_heap (1 << 12 in the source)
  MAX_HEAP,      \* capacity of the backing region (memlib)
  Ids,           \* the driver's allocation slots
  Requests,      \* sizes passed to malloc and realloc
  CallocNmemb,   \* nmemb values passed to calloc
  CallocSize     \* size values passed to calloc

ASSUME ImplicitAssumption ==
  /\ chunksize \in Nat /\ chunksize > 0 /\ chunksize % 8 = 0
  /\ MAX_HEAP \in Nat /\ MAX_HEAP % 8 = 0
  /\ Requests \subseteq Nat /\ CallocNmemb \subseteq Nat /\ CallocSize \subseteq Nat

VARIABLES
  mem,          \* word address -> word contents
  brk,          \* current top of the backing region (mem_sbrk)
  heap_listp,   \* static heap_listp: the prologue block, or NULL
  trap,         \* "none", or the signal that killed the process
  ptr,          \* slot -> payload pointer held by the driver, or NULL
  reqsz         \* slot -> number of bytes the driver asked for

vars == <<mem, brk, heap_listp, trap, ptr, reqsz>>

NULL == -1
min_block_size == 2 * dsize
Addr == {a \in 0 .. MAX_HEAP - wsize : a % wsize = 0}
MaxWalk == MAX_HEAP \div dsize
Traps == {"none", "SIGSEGV", "SIGFPE"}

-----------------------------------------------------------------------------
(* Block helpers.  A read outside the backing region yields 0.             *)

Rd(m, a) == IF a \in DOMAIN m THEN m[a] ELSE 0

get_size(m, b) == extract_size(Rd(m, b))
get_alloc(m, b) == extract_alloc(Rd(m, b))
get_payload_size(m, b) == (get_size(m, b) - dsize) % SIZE_T_MOD

write_header(m, b, size, alloc) == [m EXCEPT ![b] = pack(size, alloc)]

\* The footer position comes from the size currently in the header.
write_footer(m, b, size, alloc) ==
  [m EXCEPT ![b + wsize + get_size(m, b) - dsize] = pack(size, alloc)]

\* Fault model: footer written before the header, at the old size's end.
write_block_footer_first(m, b, size, alloc) ==
  write_header(write_footer(m, b, size, alloc), b, size, alloc)

\* The code's write_header(b, ...); write_footer(b, ...) pair.
write_block(m, b, size, alloc) ==
  write_footer(write_header(m, b, size, alloc), b, size, alloc)

find_next(m, b) == b + get_size(m, b)
find_prev(m, b) == b - extract_size(Rd(m, b - wsize))
payload_to_header(p) == p - wsize
header_to_payload(b) == b + wsize

\* One step of the heap walk: the next block, or b itself on a size-0 block.
NextBlock(m, b) == IF get_size(m, b) > 0 THEN find_next(m, b) ELSE b

\* The blocks reached from start by find_next, tabulated.  Each level binds
\* the previous one once, as the element of a singleton.
Walk(m, start) ==
  LET w[i \in 0 .. MaxWalk] ==
        IF i = 0 THEN start
        ELSE CHOOSE n \in {NextBlock(m, b) : b \in {w[i - 1]}} : TRUE
  IN [i \in 0 .. MaxWalk |-> w[i]]

-----------------------------------------------------------------------------
(* Internal routines.                                                      *)

\* mem_sbrk(incr) of memlib: fails when the region would exceed MAX_HEAP.
sbrk_ok(h, incr) == h.brk + incr <= MAX_HEAP

\* Fault model: case 2 (next block free) left unmerged.
coalesce_skip_next(m, b) ==
  LET prv == find_prev(m, b)
      size == get_size(m, b)
  IN IF get_alloc(m, prv)
     THEN [mem |-> m, blk |-> b]
     ELSE IF get_alloc(m, find_next(m, b))
     THEN [mem |-> write_block(m, prv, size + get_size(m, prv), FALSE), blk |-> prv]
     ELSE [mem |-> write_block(m, prv, size + get_size(m, find_next(m, b))
                                   + get_size(m, prv), FALSE), blk |-> prv]

\* coalesce(block): the four boundary-tag cases; returns the new memory
\* and the coalesced block.
coalesce(m, b) ==
  LET nxt == find_next(m, b)
      prv == find_prev(m, b)
      prev_alloc == get_alloc(m, prv)
      next_alloc == get_alloc(m, nxt)
      size == get_size(m, b)
  IN CASE prev_alloc /\ next_alloc ->
            [mem |-> m, blk |-> b]
       [] prev_alloc /\ ~next_alloc ->
            [mem |-> write_block(m, b, size + get_size(m, nxt), FALSE), blk |-> b]
       [] ~prev_alloc /\ next_alloc ->
            [mem |-> write_block(m, prv, size + get_size(m, prv), FALSE), blk |-> prv]
       [] OTHER ->
            [mem |-> write_block(m, prv, size + get_size(m, nxt) + get_size(m, prv), FALSE),
             blk |-> prv]

\* place(block, asize): allocate, splitting off a free remainder of at
\* least min_block_size.  The remainder's header is found from the header
\* just written.
place_split(m1, b, rest) == write_block(m1, find_next(m1, b), rest, FALSE)
place(m, b, asize) ==
  IF (get_size(m, b) - asize) % SIZE_T_MOD >= min_block_size
  THEN place_split(write_block(m, b, asize, TRUE), b, (get_size(m, b) - asize) % SIZE_T_MOD)
  ELSE write_block(m, b, get_size(m, b), TRUE)

\* The block find_fit returns: a block of the region, or NULL.
fit_or_null(blk) == IF blk \in Addr THEN blk ELSE NULL

\* Fault model: the allocated-bit test dropped from the scan.
find_fit_scan_any(m, start, asize) ==
  LET scan[k \in 0 .. MaxWalk, b \in Int] ==
        IF k = MaxWalk \/ get_size(m, b) = 0 THEN NULL
        ELSE IF asize <= get_size(m, b) THEN b
        ELSE scan[k + 1, find_next(m, b)]
  IN scan[0, start]

\* The loop of find_fit as a recursive function of the iteration count k
\* and the current block b: from heap_listp on, while the block's size is
\* not 0, the first free block of at least asize bytes; NULL at the
\* epilogue.
find_fit_scan(m, start, asize) ==
  LET scan[k \in 0 .. MaxWalk, b \in Int] ==
        IF k = MaxWalk \/ get_size(m, b) = 0 THEN NULL
        ELSE IF ~get_alloc(m, b) /\ asize <= get_size(m, b) THEN b
        ELSE scan[k + 1, find_next(m, b)]
  IN scan[0, start]

\* find_fit(asize): the block the loop stops at, or NULL.
find_fit(m, start, asize) == fit_or_null(find_fit_scan(m, start, asize))

\* The body of extend_heap after mem_sbrk: the old epilogue becomes the
\* header of a free block of sz bytes, a new epilogue header follows it,
\* and the block is coalesced.
write_epilogue_after(m1, b) == write_header(m1, find_next(m1, b), 0, TRUE)
extended(h, sz, c) == [h |-> [h EXCEPT !.mem = c.mem, !.brk = h.brk + sz], blk |-> c.blk]
extend_body(h, sz) ==
  LET blk == payload_to_header(h.brk)
  IN extended(h, sz, coalesce(write_epilogue_after(write_block(h.mem, blk, sz, FALSE), blk), blk))

\* Fault model: the failure of mem_sbrk not checked.
extend_heap_unchecked(h, sz) == extend_body(h, sz)

\* extend_heap once size was rounded up: mem_sbrk, then the body above.
extend_heap_rounded(h, sz) ==
  IF sbrk_ok(h, sz) THEN extend_body(h, sz) ELSE [h |-> h, blk |-> NULL]

\* extend_heap(size).
extend_heap(h, size) == extend_heap_rounded(h, round_up(size, dsize))

\* Fault model: heap_listp set to &start[0], the padding word, instead of
\* the prologue header at &start[1].
initialized_listp_padding(h) ==
  [h EXCEPT !.mem = [h.mem EXCEPT ![h.brk + wsize] = pack(dsize, TRUE),
                                  ![h.brk + 2 * wsize] = pack(dsize, TRUE),
                                  ![h.brk + 3 * wsize] = pack(0, TRUE)],
            !.brk = h.brk + 4 * wsize,
            !.listp = h.brk]

\* The heap once mm_init wrote the padding, prologue and epilogue from
\* start = the old brk on.
initialized(h) ==
  [h EXCEPT !.mem = [h.mem EXCEPT ![h.brk + wsize] = pack(dsize, TRUE),
                                  ![h.brk + 2 * wsize] = pack(dsize, TRUE),
                                  ![h.brk + 3 * wsize] = pack(0, TRUE)],
            !.brk = h.brk + 4 * wsize,
            !.listp = h.brk + wsize]

\* mm_init's return code after its extend_heap(chunksize).
init_result(e) == [h |-> e.h, rc |-> IF e.blk = NULL THEN -1 ELSE 0]

\* mm_init(): padding, prologue header and footer, epilogue, then one chunk.
mm_init(h) ==
  IF sbrk_ok(h, 4 * wsize)
  THEN init_result(extend_heap(initialized(h), chunksize))
  ELSE [h |-> h, rc |-> -1]

-----------------------------------------------------------------------------
(* Public functions.                                                       *)

\* Fault model: the header and footer overhead left out of the block size.
malloc_asize_no_overhead(size) == max(round_up(size, dsize), min_block_size)

\* The adjusted block size of malloc: round_up(size, dsize) + dsize.
malloc_asize(size) == (round_up(size, dsize) + dsize) % SIZE_T_MOD

\* The end of malloc when find_fit found nothing: place into the block
\* extend_heap returned, or NULL when it failed.
malloc_extended(asize, ext) ==
  IF ext.blk = NULL THEN [h |-> ext.h, ret |-> NULL]
  ELSE [h |-> [ext.h EXCEPT !.mem = place(ext.h.mem, ext.blk, asize)],
        ret |-> header_to_payload(ext.blk)]

\* malloc after find_fit(asize) returned fit.
malloc_fit(h, asize, fit) ==
  IF fit # NULL
  THEN [h |-> [h EXCEPT !.mem = place(h.mem, fit, asize)], ret |-> header_to_payload(fit)]
  ELSE malloc_extended(asize, extend_heap(h, max(asize, chunksize)))

\* malloc once the heap was initialized; the result of mm_init is ignored,
\* and when it left heap_listp NULL, find_fit dereferences NULL.
malloc_search(h, asize) ==
  IF h.listp = NULL THEN [h |-> [h EXCEPT !.trap = "SIGSEGV"], ret |-> NULL]
  ELSE malloc_fit(h, asize, find_fit(h.mem, h.listp, asize))

\* malloc(size).
malloc(h, size) ==
  IF size = 0 THEN [h |-> h, ret |-> NULL]
  ELSE malloc_search(IF h.listp = NULL THEN mm_init(h).h ELSE h, malloc_asize(size))

\* free(bp)
free(h, bp) ==
  LET block == payload_to_header(bp)
  IN IF bp = NULL THEN h
     ELSE [h EXCEPT !.mem = coalesce(write_block(h.mem, block, get_size(h.mem, block), FALSE),
                                     block).mem]

\* The end of realloc with r = malloc(size): NULL when malloc failed, and
\* the old block untouched; else the old block freed.  The copy moves
\* payload bytes only and is not modelled.
realloc_moved(h, p, r) ==
  IF r.ret = NULL THEN [h |-> r.h, ret |-> NULL] ELSE [h |-> free(r.h, p), ret |-> r.ret]

\* realloc(ptr, size): malloc, copy, free.
realloc(h, p, size) ==
  IF size = 0 THEN [h |-> free(h, p), ret |-> NULL]
  ELSE IF p = NULL THEN malloc(h, size)
  ELSE realloc_moved(h, p, malloc(h, size))

\* calloc(nmemb, size): the overflow test divides by nmemb unguarded.
\* The memset of the payload is not modelled.
calloc_checked(h, nmemb, size, asize) ==
  IF nmemb = 0 THEN [h |-> [h EXCEPT !.trap = "SIGFPE"], ret |-> NULL]
  ELSE IF asize \div nmemb # size THEN [h |-> h, ret |-> NULL]
  ELSE malloc(h, asize)
calloc(h, nmemb, size) == calloc_checked(h, nmemb, size, (nmemb * size) % SIZE_T_MOD)

-----------------------------------------------------------------------------
(* The driver: one public call per step on one slot.                       *)

heap == [mem |-> mem, brk |-> brk, listp |-> heap_listp, trap |-> trap]

Commit(h) ==
  /\ mem' = h.mem
  /\ brk' = h.brk
  /\ heap_listp' = h.listp
  /\ trap' = h.trap

Hold(i, p, n) ==
  /\ ptr' = [ptr EXCEPT ![i] = p]
  /\ reqsz' = [reqsz EXCEPT ![i] = IF p = NULL THEN 0 ELSE n]

\* The driver takes the result r of a call that returns a pointer into
\* slot i, for a request of n bytes.
Return(i, r, n) == Commit(r.h) /\ Hold(i, r.ret, n)

\* A failed realloc of a non-zero size leaves the old pointer valid.
ReallocReturn(i, r, n) ==
  /\ Commit(r.h)
  /\ IF n # 0 /\ r.ret = NULL THEN UNCHANGED <<ptr, reqsz>> ELSE Hold(i, r.ret, n)

Init ==
  /\ mem = [a \in Addr |-> 0]
  /\ brk = 0
  /\ heap_listp = NULL
  /\ trap = "none"
  /\ ptr = [i \in Ids |-> NULL]
  /\ reqsz = [i \in Ids |-> 0]

\* The driver's explicit mm_init() before the first request.
MmInit ==
  /\ trap = "none" /\ heap_listp = NULL
  /\ Commit(mm_init(heap).h)
  /\ UNCHANGED <<ptr, reqsz>>

Malloc(i, n) ==
  /\ trap = "none" /\ ptr[i] = NULL
  /\ Return(i, malloc(heap, n), n)

Free(i) ==
  /\ trap = "none"
  /\ Commit(free(heap, ptr[i]))
  /\ Hold(i, NULL, 0)

Realloc(i, n) ==
  /\ trap = "none"
  /\ ReallocReturn(i, realloc(heap, ptr[i], n), n)

Calloc(i, a, b) ==
  /\ trap = "none" /\ ptr[i] = NULL
  /\ Return(i, calloc(heap, a, b), a * b)

Next ==
  \/ MmInit
  \/ \E i \in Ids, n \in Requests : Malloc(i, n)
  \/ \E i \in Ids : Free(i)
  \/ \E i \in Ids, n \in Requests \cup {0} : Realloc(i, n)
  \/ \E i \in Ids, a \in CallocNmemb, b \in CallocSize : Calloc(i, a, b)

Spec == Init /\ [][Next]_vars

-----------------------------------------------------------------------------
(* Invariants.                                                             *)

(* Type correctness; in particular brk never passes the end of the      *)
(* backing region, whatever extend_heap is asked for.                     *)
TypeOK ==
  /\ mem \in [Addr -> Int]
  /\ brk \in 0 .. MAX_HEAP
  /\ heap_listp \in Int
  /\ trap \in Traps
  /\ ptr \in [Ids -> Int]
  /\ reqsz \in [Ids -> Nat]

\* The non-sentinel blocks between the prologue and the epilogue.
Blocks ==
  LET w == Walk(mem, heap_listp) IN {w[i] : i \in 1 .. MaxWalk} \ {brk - wsize}

(* I1, I4 and the sentinels (spec 3.1, 3.3), as mm_checkheap would verify *)
(* them after every call: walking from the prologue by header sizes lands *)
(* exactly on a size-0 allocated epilogue in the last word below brk,     *)
(* every block on the way has a footer equal to its header, and every     *)
(* non-sentinel block is at least min_block_size bytes.  Broken by any    *)
(* tag written at a stale position in coalesce, place or extend_heap.     *)
HeapWellFormed ==
  heap_listp # NULL =>
    LET w == Walk(mem, heap_listp)
    IN /\ Rd(mem, heap_listp) = pack(dsize, TRUE)
       /\ \E k \in 1 .. MaxWalk :
            /\ w[k] = brk - wsize
            /\ Rd(mem, w[k]) = pack(0, TRUE)
            /\ \A i \in 0 .. k - 1 :
                  Rd(mem, w[i] + get_size(mem, w[i]) - wsize) = Rd(mem, w[i])
            /\ \A i \in 1 .. k - 1 : get_size(mem, w[i]) >= min_block_size

(* The prefix mm_init lays out stays where it was put: mm_init runs only  *)
(* while heap_listp is NULL, which is while no mem_sbrk has succeeded, so *)
(* the prologue header is the word at wsize of the region; heap_listp and *)
(* brk are NULL and 0 together; the prologue and the epilogue lie below   *)
(* brk; and the one dereference of NULL (find_fit after a failed mm_init, *)
(* line 154) happens only with heap_listp still NULL.  Broken by an       *)
(* mm_init that points heap_listp elsewhere or runs twice, or an          *)
(* extend_heap that lowers brk.                                           *)
ImplLayout ==
  /\ heap_listp \in {NULL, wsize}
  /\ (heap_listp = NULL) = (brk = 0)
  /\ heap_listp # NULL => heap_listp + 3 * wsize <= brk
  /\ trap = "SIGSEGV" => heap_listp = NULL

(* I3: after every public call no free block is followed by a free block  *)
(* (coalesce merges in all four cases, extend_heap merges the new chunk). *)
NoAdjacentFree ==
  heap_listp # NULL =>
    \A b \in Blocks : ~get_alloc(mem, b) => get_alloc(mem, find_next(mem, b))

(* Ownership: the allocated blocks of the heap are exactly the blocks     *)
(* whose payloads the driver holds, each held by one slot.  Broken when  *)
(* malloc hands out a block that is already in use or still free, or a    *)
(* free leaves a block marked allocated.                                  *)
Ownership ==
  /\ heap_listp = NULL => \A i \in Ids : ptr[i] = NULL
  /\ heap_listp # NULL =>
       /\ \A i \in Ids : ptr[i] # NULL =>
             payload_to_header(ptr[i]) \in Blocks /\ get_alloc(mem, payload_to_header(ptr[i]))
       /\ \A b \in Blocks : get_alloc(mem, b) => \E i \in Ids : ptr[i] = header_to_payload(b)
       /\ \A i, j \in Ids : i # j /\ ptr[i] # NULL => ptr[i] # ptr[j]

(* Every payload handed out by malloc, realloc or calloc holds at least   *)
(* the bytes requested (C11 7.22.3): the adjusted size covers the         *)
(* request plus the header and footer.                                    *)
PayloadFits ==
  \A i \in Ids : ptr[i] # NULL =>
    get_size(mem, payload_to_header(ptr[i])) - dsize >= reqsz[i]

(* I2: every payload pointer returned is 16-byte aligned (spec 3.1, 8).   *)
Aligned16 == \A i \in Ids : ptr[i] # NULL => ptr[i] % 16 = 0

(* The process is never killed by the allocator (spec 7: every error      *)
(* surfaces as NULL or -1, the allocator never aborts).                   *)
NoTrap == trap = "none"

\* The refinement mapping onto the abstract allocator: the driver's slots
\* are its slots, and brk is the top of its region.
Alloc == INSTANCE MMAlloc WITH top <- brk

(* The allocator implements MMAlloc: every pointer malloc, calloc or      *)
(* realloc hands out is 8-aligned and carries the requested bytes inside  *)
(* the region, apart from every byte another slot holds; a failed call    *)
(* changes nothing the client holds; free and realloc(p, 0) empty the     *)
(* slot; and brk never shrinks.  Broken by a fit search or an unlink that *)
(* hands out a block twice, or a size computation that gives too few      *)
(* bytes.                                                                  *)
AllocSpec == Alloc!Spec

=============================================================================
