--------------------------- MODULE MC_MMSegregated ---------------------------
(***************************************************************************)
(* Model-checking instance of MMSegregated: a 16-bit size_t, 64-byte       *)
(* chunks and a backing region of the 552-byte prefix plus two chunks.     *)
(***************************************************************************)
EXTENDS MMSegregated, TLC

CONSTANTS i1, i2

MC_Ids == {i1, i2}

\* The driver's slots are interchangeable.
MC_Symmetry == Permutations(MC_Ids)

=============================================================================
