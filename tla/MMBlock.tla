------------------------------- MODULE MMBlock -------------------------------
(***************************************************************************)
(* Boundary-tag word encoding shared by both allocators of the malloc lab  *)
(* (mm-baseline.c and mm-segregated.c define these helpers identically).  *)
(*                                                                         *)
(* A header or footer is a 32-bit word_t holding the block size (a         *)
(* multiple of 8) with the allocated flag in bit 0.  Block sizes are       *)
(* bounded by the backing region, which is far below 2^32, so the          *)
(* truncation of pack's result to word_t never changes a value and is not  *)
(* modelled.  size_t arithmetic does wrap, and a request size near         *)
(* SIZE_MAX reaches it, so it is taken modulo SIZE_T_MOD (2^64 in the      *)
(* build, a smaller power of two in the model-checking instances).         *)
(***************************************************************************)
EXTENDS Integers

CONSTANT SIZE_T_MOD      \* 2^(bits of size_t)

ASSUME SizeTAssumption == SIZE_T_MOD \in Nat /\ SIZE_T_MOD >= 64 /\ SIZE_T_MOD % 8 = 0

wsize == 4               \* sizeof(word_t): header and footer size
dsize == 2 * wsize       \* double word: the alignment of block sizes
tsize == 3 * wsize       \* header + pad + footer in the segregated layout

\* max(x, y)
max(x, y) == IF x > y THEN x ELSE y

\* round_up(size, n): n * ((size + (n - 1)) / n), in size_t arithmetic.
round_up(size, n) == (n * (((size + (n - 1)) % SIZE_T_MOD) \div n)) % SIZE_T_MOD

\* pack(size, alloc): alloc ? (size | 1) : size.
pack(size, alloc) == IF alloc THEN size + (1 - (size % 2)) ELSE size

\* extract_size(word): word & ~0x7.
extract_size(word) == word - (word % 8)

\* extract_alloc(word): word & 0x1.
extract_alloc(word) == word % 2 = 1

=============================================================================
