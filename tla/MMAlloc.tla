------------------------------- MODULE MMAlloc -------------------------------
(***************************************************************************)
(* What a malloc-lab allocator promises its client, with the heap left     *)
(* out.  The client holds payload pointers in slots Ids, each with the     *)
(* number of bytes it asked for.  The region the allocator manages is      *)
(* [0, top), and top only grows, up to MAX_HEAP.                            *)
(*                                                                         *)
(* Every call is one step of one slot, and nothing else changes for the    *)
(* other slots.  A call that hands the slot a pointer (malloc, calloc, a   *)
(* successful realloc) gives it n bytes from an 8-aligned address, inside  *)
(* the region, and disjoint from the bytes every other slot holds.  free   *)
(* and realloc(p, 0) empty the slot.  A failed call leaves the client's    *)
(* view unchanged, though the region may have grown.                       *)
(***************************************************************************)
EXTENDS Integers

CONSTANTS
  Ids,        \* the client's slots
  NULL,       \* the null pointer
  MAX_HEAP    \* the largest the region can grow

VARIABLES
  ptr,        \* slot -> payload pointer, or NULL
  reqsz,      \* slot -> bytes the slot holds at ptr
  top         \* end of the region

vars == <<ptr, reqsz, top>>

TypeOK ==
  /\ ptr \in [Ids -> Int \cup {NULL}]
  /\ reqsz \in [Ids -> Nat]
  /\ top \in Int

Live(i) == ptr[i] # NULL

\* The byte ranges [p, p + n) and [q, q + m) do not meet.
Apart(p, n, q, m) == p + n <= q \/ q + m <= p

Init ==
  /\ ptr = [i \in Ids |-> NULL]
  /\ reqsz = [i \in Ids |-> 0]
  /\ top = 0

\* The region grows or stays, within MAX_HEAP.
Grows == top' \in top .. MAX_HEAP

\* The other slots keep what they hold.
Others(i) == \A j \in Ids \ {i} : ptr'[j] = ptr[j] /\ reqsz'[j] = reqsz[j]

\* Slot i is handed reqsz'[i] bytes at ptr'[i]: 8-aligned, inside the
\* region, apart from every other live slot.
Fresh(i) ==
  /\ ptr'[i] \in Nat /\ ptr'[i] # NULL /\ reqsz'[i] \in Nat
  /\ ptr'[i] % 8 = 0
  /\ ptr'[i] + reqsz'[i] <= top'
  /\ \A j \in Ids \ {i} : Live(j) => Apart(ptr'[i], reqsz'[i], ptr[j], reqsz[j])

\* malloc or calloc into an empty slot.
Allocate(i) == ~Live(i) /\ Fresh(i)

\* A successful realloc of a held pointer: in place or moved.
Resize(i) == Live(i) /\ Fresh(i)

\* free, or realloc(p, 0).
Release(i) == ptr'[i] = NULL /\ reqsz'[i] = 0

\* A failed call, or one that returns nothing (mm_init, malloc(0)).
Keep(i) == ptr'[i] = ptr[i] /\ reqsz'[i] = reqsz[i]

Next ==
  /\ Grows
  /\ \E i \in Ids :
       /\ ptr' \in [Ids -> Int \cup {NULL}] /\ reqsz' \in [Ids -> Nat]
       /\ Others(i)
       /\ Allocate(i) \/ Resize(i) \/ Release(i) \/ Keep(i)

Spec == Init /\ [][Next]_vars

-----------------------------------------------------------------------------
(* The bytes held by two different slots never overlap, and every slot's  *)
(* bytes lie inside the region.  This is what lets a client write its     *)
(* payload without corrupting another's.                                  *)
Disjoint ==
  /\ \A i, j \in Ids : i # j /\ Live(i) /\ Live(j) =>
                        Apart(ptr[i], reqsz[i], ptr[j], reqsz[j])
  /\ \A i \in Ids : Live(i) => ptr[i] \in Nat /\ ptr[i] + reqsz[i] <= top

=============================================================================
