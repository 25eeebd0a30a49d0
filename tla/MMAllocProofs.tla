---------------------------- MODULE MMAllocProofs ----------------------------
(***************************************************************************)
(* Proof that the abstract allocator keeps the bytes of different slots    *)
(* apart and inside the region, for every set of slots and every bound on  *)
(* the region.  Disjoint is inductive together with the type invariant:    *)
(* a step changes one slot, and Fresh tests the new bytes of that slot     *)
(* against the bytes of every other slot, which the step leaves alone.     *)
(***************************************************************************)
EXTENDS MMAlloc, TLAPS

Inv == TypeOK /\ Disjoint

LEMMA ApartSym ==
  ASSUME NEW p \in Int, NEW n \in Int, NEW q \in Int, NEW m \in Int,
         Apart(p, n, q, m)
  PROVE  Apart(q, m, p, n)
BY DEF Apart

LEMMA InitInv == Init => Inv
BY DEF Init, Inv, TypeOK, Disjoint, Live

LEMMA NextInv == Inv /\ [Next]_vars => Inv'
<1> SUFFICES ASSUME Inv, [Next]_vars PROVE Inv'
  OBVIOUS
<1>1. CASE UNCHANGED vars
  BY <1>1 DEF vars, Inv, TypeOK, Disjoint, Live
<1>2. CASE Next
  <2>1. PICK i \in Ids :
          /\ Grows
          /\ ptr' \in [Ids -> Int \cup {NULL}] /\ reqsz' \in [Ids -> Nat]
          /\ Others(i)
          /\ Allocate(i) \/ Resize(i) \/ Release(i) \/ Keep(i)
    BY <1>2 DEF Next
  <2>2. TypeOK'
    BY <2>1 DEF TypeOK, Grows
  <2>3. ASSUME NEW j \in Ids, Live(j)'
        PROVE  ptr'[j] \in Nat /\ ptr'[j] + reqsz'[j] <= top'
    <3>1. CASE j = i
      BY <2>1, <2>3, <3>1 DEF Allocate, Resize, Release, Keep, Fresh, Live, Grows,
                              Inv, TypeOK, Disjoint
    <3>2. CASE j # i
      BY <2>1, <2>3, <3>2 DEF Others, Live, Grows, Inv, TypeOK, Disjoint
    <3>3. QED
      BY <3>1, <3>2
  <2>4. ASSUME NEW j \in Ids, NEW k \in Ids, j # k, Live(j)', Live(k)'
        PROVE  Apart(ptr'[j], reqsz'[j], ptr'[k], reqsz'[k])
    <3>1. CASE j # i /\ k # i
      BY <2>1, <2>4, <3>1 DEF Others, Live, Inv, Disjoint
    <3>2. CASE j = i
      BY <2>1, <2>4, <3>2 DEF Allocate, Resize, Release, Keep, Fresh, Others, Live,
                              Inv, Disjoint
    <3>3. CASE k = i
      <4>1. Apart(ptr'[k], reqsz'[k], ptr'[j], reqsz'[j])
        BY <2>1, <2>4, <3>3 DEF Allocate, Resize, Release, Keep, Fresh, Others, Live,
                                Inv, Disjoint
      <4>2. ptr'[j] \in Int /\ ptr'[k] \in Int /\ reqsz'[j] \in Int /\ reqsz'[k] \in Int
        BY <2>3, <2>4, <2>2 DEF TypeOK
      <4>3. QED
        BY <4>1, <4>2, ApartSym
    <3>4. QED
      BY <3>1, <3>2, <3>3
  <2>5. QED
    BY <2>2, <2>3, <2>4 DEF Inv, Disjoint
<1>3. QED
  BY <1>1, <1>2

(* The abstract allocator never hands two slots overlapping bytes, and    *)
(* every byte it hands out lies inside the region: for every set of       *)
(* slots, every bound MAX_HEAP and every choice of NULL.                  *)
THEOREM AllocDisjoint == Spec => []Disjoint
<1>1. Init => Inv
  BY InitInv
<1>2. Inv /\ [Next]_vars => Inv'
  BY NextInv
<1>3. Inv => Disjoint
  BY DEF Inv
<1>4. QED
  BY <1>1, <1>2, <1>3, PTL DEF Spec

=============================================================================
