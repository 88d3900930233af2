---------------------------- MODULE ModuloLemmas ----------------------------
(***************************************************************************)
(* Arithmetic modulo a number that is not a literal, which the SMT solver  *)
(* does not do by itself: what the wrapping words and the slot masks of a  *)
(* ring buffer rest on; and that a set of numbers has a least one.         *)
(***************************************************************************)
EXTENDS Integers, WellFoundedInduction, TLAPS

\* x % m is the only remainder in range (the uint64_t words of ShmSpscRing).
LEMMA ModUnique ==
  ASSUME NEW m \in Nat, m > 0, NEW x \in Int, NEW q \in Int, NEW r \in 0..m-1, x = q*m + r
  PROVE  x % m = r
  BY SMT

\* x % m is x less a multiple of m, and in range.
LEMMA ModDef ==
  ASSUME NEW m \in Nat, m > 0, NEW x \in Int
  PROVE  \E q \in Int : x = q * m + (x % m) /\ x % m \in 0..m-1
<1>1. /\ x \div m \in Int
      /\ x % m \in 0..m-1
      /\ x = (x \div m) * m + (x % m)
  BY SMT
<1> QED BY <1>1

\* Adding a multiple of m changes nothing modulo m: a wrapped word still
\* stands for the same count.
LEMMA ModShift ==
  ASSUME NEW m \in Nat, m > 0, NEW x \in Int, NEW y \in Int, NEW k \in Int, y = x + k*m
  PROVE  y % m = x % m
<1>1. PICK q \in Int : x = q * m + (x % m) /\ x % m \in 0..m-1 BY ModDef
<1>2. PICK r \in 0..m-1 : r = x % m BY <1>1
<1>3. PICK j \in Int : j = q + k  OBVIOUS
<1>4. y = j*m + r BY <1>1, <1>2, <1>3
<1>5. y % m = r BY <1>4, ModUnique
<1> QED BY <1>5, <1>2

\* Fewer than m apart, two different counts have different remainders: two
\* frames in the ring at once are never in one slot.
LEMMA ModDistinct ==
  ASSUME NEW m \in Nat, m > 0, NEW x \in Int, NEW y \in Int, x<y, y<x+m
  PROVE  x % m # y % m
<1>1. PICK q \in Int : x = q * m + (x % m) /\ x % m \in 0..m-1 BY ModDef
<1>2. PICK p \in Int : y = p * m + (y % m) /\ y % m \in 0..m-1 BY ModDef
<1>3. SUFFICES ASSUME x % m = y % m PROVE FALSE OBVIOUS
<1>4. y - x = (p - q) * m BY <1>1, <1>2, <1>3
<1>5. p - q > 0 BY <1>4
<1>6. (p-q) * m >= m BY <1>5
<1> QED BY <1>4, <1>6

\* Wrapping at a multiple of s does not disturb the remainder by s: toIndex of
\* a wrapped word is the slot of the count it stands for.
LEMMA ModMod ==
  ASSUME NEW m \in Nat, m > 0, NEW s \in Nat, s > 0, m % s = 0, NEW x \in Int
  PROVE  (x % m) % s = x % s
<1>1. PICK q \in Int : x = q * m + (x % m) /\ x % m \in 0..m-1 BY ModDef
<1>2. PICK p \in Int : m = p * s + (m % s) BY ModDef
<1>3. PICK y \in Int : y = x % m BY <1>1
<1>4. PICK k \in Int : k = q*p OBVIOUS
<1>5. x = y + k*s BY <1>1, <1>2, <1>3, <1>4
<1>6. x % s = y % s BY ModShift, <1>5
<1> QED BY <1>3, <1>6

\* The difference of two wrapped words is the difference of the counts, as
\* size() and the test for a full ring assume.
LEMMA ModDiff ==
  ASSUME NEW m \in Nat, m > 0, NEW a \in Int, NEW b \in Int
  PROVE  ((a % m) - (b % m)) % m = (a-b) % m
<1>1. PICK q \in Int : a = q * m + (a % m) /\ a % m \in 0..m-1 BY ModDef
<1>2. PICK p \in Int : b = p * m + (b % m) /\ b % m \in 0..m-1 BY ModDef
<1>3. PICK x \in Int, y \in Int, k \in Int : x = (a % m) - (b % m) /\ y = a - b /\ k = q - p BY <1>1, <1>2
<1>4. y = x + k*m BY <1>1, <1>2, <1>3
<1>5. y % m = x % m BY <1>4, ModShift
<1> QED BY <1>3, <1>5

\* Incrementing a wrapped word, as the stores of head and tail do.
LEMMA ModSucc ==
  ASSUME NEW m \in Nat, m > 0, NEW a \in Int
  PROVE  ((a % m) + 1) % m = (a+1) % m
<1>1. PICK q \in Int : a = q * m + (a % m) /\ a % m \in 0..m-1 BY ModDef
<1>2. PICK x \in Int, y \in Int : x = (a % m) + 1 /\ y = a + 1 BY <1>1
<1>3. y = x + q*m BY <1>1, <1>2
<1>4. y % m = x % m BY <1>3, ModShift
<1> QED BY <1>2, <1>4

-----------------------------------------------------------------------------
\* What a scan that takes the first of several finds (palloc's bitmap_scan,
\* std::bit_ceil).
LEMMA LeastNat ==
  ASSUME NEW S \in SUBSET Nat, S # {}
  PROVE  \E x \in S : \A y \in S : x <= y
<1>1. PICK R : R = {ss \in Nat \X Nat : ss[1] < ss[2]}
  OBVIOUS
<1>2. IsWellFoundedOn(R, Nat)
  BY <1>1, NatLessThanWellFounded, Zenon DEF OpToRel
<1>3. PICK x \in S : \A y \in S : ~(<<y, x>> \in R)
  BY <1>2, WFMin
<1>4. \A y \in S : x <= y
  <2>1. SUFFICES ASSUME NEW y \in S, ~(x <= y) PROVE FALSE
    OBVIOUS
  <2>2. x \in Nat /\ y \in Nat /\ y < x
    BY <2>1
  <2>3. <<y, x>> \in R
    BY <2>2, <1>1
  <2> QED BY <2>3, <1>3
<1> QED BY <1>4
=============================================================================
