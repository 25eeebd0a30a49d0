---------------------------- MODULE MC_MMImplicit ----------------------------
(***************************************************************************)
(* Model-checking instance of MMImplicit: a 16-bit size_t, 32-byte chunks  *)
(* and a backing region of the initial 16 bytes plus two chunks.         *)
(***************************************************************************)
EXTENDS MMImplicit, TLC

CONSTANTS i1, i2, i3

MC_Ids == {i1, i2, i3}

\* The driver's slots are interchangeable.
MC_Symmetry == Permutations(MC_Ids)

=============================================================================
