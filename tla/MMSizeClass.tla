----------------------------- MODULE MMSizeClass -----------------------------
(***************************************************************************)
(* The size-class index of mm-segregated.c.  Class 0 holds sizes up to 32, *)
(* class i (0 < i < 15) the sizes in (2^(i+4), 2^(i+5)], class 15 all      *)
(* larger sizes.  The index is computed from the position of the highest  *)
(* set bit, with a correction for exact powers of two.                     *)
(*                                                                         *)
(* get_highest_1bit_idx takes a uint32_t: a size_t of 2^32 or more is      *)
(* truncated.  No block or request of the modelled heaps reaches 2^32, so *)
(* the truncation is the identity here and is not written out.            *)
(***************************************************************************)
EXTENDS Integers, FiniteSets

size_class_cnt == 16

(* get_highest_1bit_idx(num): the do-while loop shifts num right once per *)
(* iteration and stops when it reaches 0, so it runs once plus once for   *)
(* every j in 1..31 such that num >> j is still non-zero.  num >> j > 0   *)
(* is written (num \div 2) \div 2^(j-1) > 0 to stay below 2^31.           *)
get_highest_1bit_idx(num) ==
  1 + Cardinality({j \in 1 .. 31 : (num \div 2) \div 2^(j - 1) > 0})

\* Fault model: the power-of-two correction dropped.
get_seglist_idx_no_boundary(size) ==
  LET idx == get_highest_1bit_idx(size)
  IN IF idx <= 5 THEN 0
     ELSE IF idx >= 20 THEN size_class_cnt - 1
     ELSE idx - 5

(* get_seglist_idx(size).  1 << (idx - 1) is an int shift: for idx = 32    *)
(* it is undefined; sizes of 2^31 or more are outside the modelled heaps. *)
get_seglist_idx(size) ==
  LET hb == get_highest_1bit_idx(size)
      idx == IF size = 2^(hb - 1) THEN hb - 1 ELSE hb
  IN IF idx <= 5 THEN 0
     ELSE IF idx >= 20 THEN size_class_cnt - 1
     ELSE idx - 5


=============================================================================
