---------------------------- MODULE MC_MMSizeClass ----------------------------
(***************************************************************************)
(* Checks get_seglist_idx against the size classes of the file comment    *)
(* and spec 4.F: class 0 is (0, 32], class i is (2^(i+4), 2^(i+5)], class  *)
(* 15 is everything above 2^19.  Each state is one argument; the set of   *)
(* arguments covers every size up to SmallSizes and both sides of every   *)
(* power of two up to 2^22.                                                *)
(***************************************************************************)
EXTENDS MMSizeClass

CONSTANT SmallSizes

\* The small sizes are sizes the uint32_t argument of get_highest_1bit_idx
\* and the int shift of get_seglist_idx can carry (2^30 keeps the bound
\* within TLC's integers).
ASSUME SmallSizesAssumption == SmallSizes \in 1 .. 2^30

VARIABLE size

Sizes == (1 .. SmallSizes) \cup {2^k + d : k \in 5 .. 22, d \in {-1, 0, 1}}

\* The reference: the least class whose upper bound covers size.
ClassOf(s) ==
  IF s > 2^19 THEN size_class_cnt - 1
  ELSE CHOOSE c \in 0 .. size_class_cnt - 1 :
         /\ s <= 2^(c + 5)
         /\ \A d \in 0 .. c - 1 : s > 2^(d + 5)

Init == size \in Sizes
Next == size' \in Sizes
Spec == Init /\ [][Next]_size

(* Every size lands in the class the allocator documents, including the   *)
(* exact powers of two that close a class, where the highest-bit index    *)
(* alone would put them one class too high.                               *)
SizeClassCorrect == get_seglist_idx(size) = ClassOf(size)

=============================================================================
