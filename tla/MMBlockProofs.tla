---------------------------- MODULE MMBlockProofs ----------------------------
(***************************************************************************)
(* What round_up(x, dsize) computes in size_t arithmetic, for every width  *)
(* of size_t: the next multiple of dsize at or above x while x + dsize - 1 *)
(* does not wrap, and 0 once it does.  Both allocators compute their      *)
(* adjusted block size with it.                                            *)
(***************************************************************************)
EXTENDS MMBlock, TLAPS

(* The word sizes of both files, and the bounds on size_t they assume.  *)
LEMMA DsizeFacts ==
  /\ dsize = 8 /\ wsize = 4 /\ tsize = 12
  /\ SIZE_T_MOD \in Nat /\ SIZE_T_MOD >= 64
BY SizeTAssumption DEF dsize, wsize, tsize

(* round_up(x, dsize) without wrap-around: the least multiple of dsize   *)
(* that is at least x.                                                     *)
LEMMA RoundUpExact ==
  ASSUME NEW x \in Int, 0 <= x, x + dsize - 1 < SIZE_T_MOD
  PROVE  /\ round_up(x, dsize) \in Nat
         /\ x <= round_up(x, dsize)
         /\ round_up(x, dsize) < x + dsize
         /\ round_up(x, dsize) % dsize = 0
<1> DEFINE q == (x + 7) \div 8
<1>1. (x + 7) % SIZE_T_MOD = x + 7
  BY DsizeFacts
<1>2. q \in Nat /\ 8 * q <= x + 7 /\ x + 7 < 8 * q + 8
  BY DsizeFacts
<1>3. (8 * q) % SIZE_T_MOD = 8 * q
  BY <1>2, DsizeFacts
<1>4. round_up(x, dsize) = 8 * q
  BY <1>1, <1>3, DsizeFacts DEF round_up
<1>5. QED
  BY <1>2, <1>4, DsizeFacts

(* round_up(x, dsize) once x + dsize - 1 wraps size_t: 0.                *)
LEMMA RoundUpWraps ==
  ASSUME NEW x \in 0 .. SIZE_T_MOD - 1, x + dsize - 1 >= SIZE_T_MOD
  PROVE  round_up(x, dsize) = 0
<1>1. (x + 7) % SIZE_T_MOD = x + 7 - SIZE_T_MOD
  BY DsizeFacts
<1>2. (x + 7 - SIZE_T_MOD) \div 8 = 0
  BY DsizeFacts
<1>3. QED
  BY <1>1, <1>2, DsizeFacts DEF round_up
=============================================================================
