-------------------------- MODULE MMSizeClassProofs --------------------------
(***************************************************************************)
(* Proof that get_seglist_idx puts every size of 1 .. 2^31 - 1 into the   *)
(* class the file comment of mm-segregated.c documents, where the run      *)
(* sizeclass checks only a few hundred sizes.                              *)
(*                                                                         *)
(* The argument: every such size s has a bit length p, 2^(p-1) <= s < 2^p. *)
(* The loop of get_highest_1bit_idx counts the j with (s >> j) > 0, which  *)
(* are exactly 1 .. p-1, so it returns p.  The power-of-two correction     *)
(* turns p into the least q with s <= 2^q, and the class is q - 5 clamped *)
(* to 0 .. 15, which is the least class whose upper bound covers s.       *)
(*                                                                         *)
(* The provers do not evaluate 2^k for a symbolic k, so the powers are     *)
(* read through the table pw, whose 32 entries they do evaluate.           *)
(***************************************************************************)
EXTENDS MC_MMSizeClass, FiniteSetTheorems, TLAPS

pw == [k \in 0 .. 31 |-> 2^k]

LEMMA PwValues ==
  /\ pw[0] = 1
  /\ pw[1] = 2
  /\ pw[2] = 4
  /\ pw[3] = 8
  /\ pw[4] = 16
  /\ pw[5] = 32
  /\ pw[6] = 64
  /\ pw[7] = 128
  /\ pw[8] = 256
  /\ pw[9] = 512
  /\ pw[10] = 1024
  /\ pw[11] = 2048
  /\ pw[12] = 4096
  /\ pw[13] = 8192
  /\ pw[14] = 16384
  /\ pw[15] = 32768
  /\ pw[16] = 65536
  /\ pw[17] = 131072
  /\ pw[18] = 262144
  /\ pw[19] = 524288
  /\ pw[20] = 1048576
  /\ pw[21] = 2097152
  /\ pw[22] = 4194304
  /\ pw[23] = 8388608
  /\ pw[24] = 16777216
  /\ pw[25] = 33554432
  /\ pw[26] = 67108864
  /\ pw[27] = 134217728
  /\ pw[28] = 268435456
  /\ pw[29] = 536870912
  /\ pw[30] = 1073741824
  /\ pw[31] = 2147483648
BY DEF pw

LEMMA PwCases == \A k \in 0 .. 31 : k = 0 \/ k = 1 \/ k = 2 \/ k = 3 \/ k = 4 \/ k = 5 \/ k = 6 \/ k = 7 \/ k = 8 \/ k = 9 \/ k = 10 \/ k = 11 \/ k = 12 \/ k = 13 \/ k = 14 \/ k = 15 \/ k = 16 \/ k = 17 \/ k = 18 \/ k = 19 \/ k = 20 \/ k = 21 \/ k = 22 \/ k = 23 \/ k = 24 \/ k = 25 \/ k = 26 \/ k = 27 \/ k = 28 \/ k = 29 \/ k = 30 \/ k = 31
OBVIOUS

LEMMA PwNat == \A k \in 0 .. 31 : pw[k] \in Nat \ {0}
BY PwValues, PwCases

LEMMA PwDouble == \A k \in 0 .. 30 : pw[k + 1] = 2 * pw[k]
BY PwValues, PwCases

LEMMA PwMono == \A a, b \in 0 .. 31 : a < b => pw[a] < pw[b]
BY PwValues, PwCases

\* Every size below 2^31 has a bit length p.
LEMMA BitLength ==
  ASSUME NEW s \in Int, 1 <= s, s < pw[31]
  PROVE  \E k \in 0 .. 30 : pw[k] <= s /\ s < pw[k + 1]
BY PwValues, PwCases, PwNat

LEMMA DivPos ==
  ASSUME NEW x \in Nat, NEW d \in Nat \ {0}
  PROVE  (x \div d > 0) <=> x >= d
OBVIOUS

(* get_seglist_idx agrees with the documented size classes on every size  *)
(* the allocator can ask it about: class 0 for (0, 32], class i for        *)
(* (2^(i+4), 2^(i+5)], class 15 above 2^19, the exact powers of two that  *)
(* close a class included.                                                 *)
THEOREM SizeClassAll ==
  \A s \in Nat : 0 < s /\ s < 2^31 => get_seglist_idx(s) = ClassOf(s)
<1> SUFFICES ASSUME NEW s \in Nat, 0 < s, s < 2^31
             PROVE  get_seglist_idx(s) = ClassOf(s)
  OBVIOUS
<1>1. PICK p \in 1 .. 31 : pw[p - 1] <= s /\ s < pw[p]
  <2>1. s < 2147483648
    OBVIOUS
  <2>2. s < pw[31]
    BY <2>1, PwValues, PwNat
  <2>3. PICK k \in 0 .. 30 : pw[k] <= s /\ s < pw[k + 1]
    BY <2>2, BitLength
  <2>4. QED
    BY <2>3
<1> DEFINE x == s \div 2
<1>2. /\ x \in Nat
      /\ x < pw[p - 1]
      /\ p >= 2 => pw[p - 2] <= x
  BY <1>1, PwDouble, PwNat
<1>3. ASSUME NEW j \in 1 .. 31
      PROVE  (x \div 2^(j - 1) > 0) <=> j <= p - 1
  <2>1. 2^(j - 1) = pw[j - 1]
    BY DEF pw
  <2>2. (x \div pw[j - 1] > 0) <=> x >= pw[j - 1]
    <3>1. pw[j - 1] \in Nat \ {0}
      BY PwNat
    <3>2. QED
      BY <1>2, <3>1, DivPos
  <2>3. x >= pw[j - 1] <=> j <= p - 1
    BY <1>2, PwMono, PwNat
  <2>4. QED
    BY <2>1, <2>2, <2>3
<1>4. get_highest_1bit_idx(s) = p
  <2>1. {j \in 1 .. 31 : x \div 2^(j - 1) > 0} = 1 .. p - 1
    <3>1. {j \in 1 .. 31 : x \div 2^(j - 1) > 0} = {j \in 1 .. 31 : j <= p - 1}
      BY <1>3, Zenon
    <3>2. {j \in 1 .. 31 : j <= p - 1} = 1 .. p - 1
      OBVIOUS
    <3>3. QED
      BY <3>1, <3>2
  <2>2. Cardinality(1 .. p - 1) = p - 1
    <3>1. \A a, b \in Int : Cardinality(a .. b) = IF a > b THEN 0 ELSE b - a + 1
      BY FS_Interval
    <3>2. QED
      BY <3>1
  <2>3. get_highest_1bit_idx(s) = 1 + Cardinality({j \in 1 .. 31 : x \div 2^(j - 1) > 0})
    BY DEF get_highest_1bit_idx, x
  <2>4. get_highest_1bit_idx(s) = 1 + Cardinality(1 .. p - 1)
    BY <2>1, <2>3, Zenon
  <2>5. QED
    BY <2>2, <2>4
<1> DEFINE q == IF s = pw[p - 1] THEN p - 1 ELSE p
<1>5. /\ q \in 0 .. 31
      /\ s <= pw[q]
      /\ q >= 1 => pw[q - 1] < s
  BY <1>1, PwMono, PwNat
<1>6. get_seglist_idx(s) = IF q <= 5 THEN 0 ELSE IF q >= 20 THEN 15 ELSE q - 5
  <2>1. 2^(p - 1) = pw[p - 1]
    BY DEF pw
  <2>2. QED
    BY <1>4, <2>1 DEF get_seglist_idx, size_class_cnt
<1>7. CASE s > 2^19
  <2>1. q >= 20
    BY <1>5, <1>7, PwMono, PwNat, PwValues
  <2>2. QED
    BY <1>6, <1>7, <2>1 DEF ClassOf, size_class_cnt
<1>8. CASE ~(s > 2^19)
  <2>1. q <= 19
    BY <1>5, <1>8, PwMono, PwNat, PwValues
  <2> DEFINE c == IF q <= 5 THEN 0 ELSE q - 5
  <2>3. c \in 0 .. 15
    BY <1>5, <2>1
  <2>4. s <= pw[c + 5]
    BY <1>5, <2>3, PwMono, PwNat
  <2>5. \A d \in 0 .. c - 1 : s > pw[d + 5]
    BY <1>5, <2>3, PwMono, PwNat
  \* The class predicate of ClassOf, and the same with the powers read from pw.
  <2> DEFINE Covers(e) == s <= 2^(e + 5) /\ \A d \in 0 .. e - 1 : s > 2^(d + 5)
             CoversPw(e) == s <= pw[e + 5] /\ \A d \in 0 .. e - 1 : s > pw[d + 5]
  <2>6. ASSUME NEW e \in 0 .. 15
        PROVE  Covers(e) <=> CoversPw(e)
    <3>1. 2^(e + 5) = pw[e + 5]
      BY DEF pw
    <3>2. \A d \in 0 .. e - 1 : 2^(d + 5) = pw[d + 5]
      BY DEF pw
    <3>3. QED
      BY <3>1, <3>2, Zenon DEF Covers, CoversPw
  <2>7. ASSUME NEW e \in 0 .. 15, CoversPw(e)
        PROVE  e = c
    <3>1. pw[e + 5] \in Nat /\ pw[c + 5] \in Nat
      BY <2>3, PwNat
    <3>2. ~(e < c)
      BY <2>5, <2>7, <3>1 DEF CoversPw
    <3>3. ~(c < e)
      <4>1. SUFFICES ASSUME c < e PROVE FALSE
        OBVIOUS
      <4>2. c \in 0 .. e - 1
        BY <2>3, <4>1
      <4>3. s > pw[c + 5]
        BY <4>2, <2>7 DEF CoversPw
      <4>4. QED
        BY <4>3, <2>4, <3>1
    <3>4. QED
      BY <2>3, <3>2, <3>3
  <2>8. ClassOf(s) = c
    <3> DEFINE ch == CHOOSE e \in 0 .. 15 : Covers(e)
    <3>1. ClassOf(s) = ch
      <4>1. size_class_cnt - 1 = 15
        BY DEF size_class_cnt
      <4>2. ClassOf(s) = CHOOSE e \in 0 .. size_class_cnt - 1 :
                           s <= 2^(e + 5) /\ \A d \in 0 .. e - 1 : s > 2^(d + 5)
        BY <1>8, Zenon DEF ClassOf
      <4>3. QED
        BY <4>1, <4>2, Zenon DEF Covers
    <3>2. Covers(c)
      BY <2>3, <2>4, <2>5, <2>6 DEF CoversPw
    <3>3. ch \in 0 .. 15 /\ Covers(ch)
      BY <2>3, <3>2
    <3>4. ch = c
      BY <3>3, <2>6, <2>7
    <3>5. QED
      BY <3>1, <3>4
  <2>9. QED
    BY <1>6, <2>1, <2>8
<1>9. QED
  BY <1>7, <1>8
-----------------------------------------------------------------------------
(* The run sizeclass as a theorem: every argument it draws is a size of    *)
(* 1 .. 2^31 - 1, so SizeClassCorrect holds in every state, whatever       *)
(* SmallSizes is.                                                          *)

SizeOK == size \in Nat /\ 0 < size /\ size < 2^31

LEMMA SizesBounded == \A s \in Sizes : s \in Nat /\ 0 < s /\ s < 2^31
<1> SUFFICES ASSUME NEW s \in Sizes PROVE s \in Nat /\ 0 < s /\ s < 2^31
  OBVIOUS
<1>1. CASE s \in 1 .. SmallSizes
  BY <1>1, SmallSizesAssumption
<1>2. CASE s \in {2^k + d : k \in 5 .. 22, d \in {-1, 0, 1}}
  <2>1. PICK k \in 5 .. 22, d \in {-1, 0, 1} : s = 2^k + d
    BY <1>2
  <2>2. 2^k = pw[k]
    BY DEF pw
  <2>3. pw[5] <= pw[k] /\ pw[k] <= pw[22] /\ pw[k] \in Nat
    BY PwMono, PwNat
  <2>4. QED
    BY <2>1, <2>2, <2>3, PwValues
<1>3. QED
  BY <1>1, <1>2 DEF Sizes

(* Every size the run sizeclass can draw lands in its documented class.   *)
THEOREM SizeClassInvariant == Spec => []SizeClassCorrect
<1>1. Init => SizeOK
  BY SizesBounded DEF Init, SizeOK
<1>2. SizeOK /\ [Next]_size => SizeOK'
  BY SizesBounded DEF Next, SizeOK
<1>3. SizeOK => SizeClassCorrect
  BY SizeClassAll DEF SizeOK, SizeClassCorrect
<1>4. QED
  BY <1>1, <1>2, <1>3, PTL DEF Spec
=============================================================================
