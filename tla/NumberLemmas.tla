---------------------------- MODULE NumberLemmas ----------------------------
(***************************************************************************)
(* What the proofs of several components need of numbers: the least and    *)
(* the greatest of a set, and the function that a loop defines, which is a *)
(* CHOOSE to the provers until it is shown to exist.                       *)
(***************************************************************************)
EXTENDS Integers, FiniteSetsExt, TLAPS, WellFoundedInduction, NaturalsInduction

\* The page the allocation loop stops at, the slot the directory scan stops at: a
\* non-empty set of numbers has a least one, and Min is it.
LEMMA MinIsLeast ==
  ASSUME NEW S \in SUBSET Nat, S # {}
  PROVE  Min(S) \in S /\ \A y \in S : Min(S) <= y
<1>1. PICK x \in S : \A y \in S : ~ (<<y, x>> \in OpToRel(<, Nat))
  BY NatLessThanWellFounded, WFMin, Zenon
<1>2. \A y \in S : ~ (y < x)
  <2> TAKE y \in S
  <2>1. <<y, x>> \in Nat \X Nat
    OBVIOUS
  <2>2. <<y, x>>[1] = y /\ <<y, x>>[2] = x
    OBVIOUS
  <2>3. <<y, x>> \notin OpToRel(<, Nat)
    BY <1>1, Zenon
  <2>4. <<y, x>> \notin {ss \in Nat \X Nat : ss[1] < ss[2]}
    BY <2>3, Zenon DEF OpToRel
  <2> QED
    BY <2>1, <2>2, <2>4, SMT
<1>3. \A y \in S : x <= y
  BY <1>2, SMT
<1> QED
  BY <1>3, Zenon DEF Min

\* The window in front at a place is the greatest of those that are under it: a set of
\* numbers below a bound has a greatest one, and Max is it.
LEMMA MaxIsGreatest ==
  ASSUME NEW n \in Nat, NEW S \in SUBSET (0 .. n - 1), S # {}
  PROVE  Max(S) \in S /\ \A y \in S : y <= Max(S)
<1> DEFINE D == {d \in Nat : n - 1 - d \in S}
           x == n - 1 - Min(D)
<1>1. D # {}
  <2> PICK y \in S : TRUE
    OBVIOUS
  <2>1. n - 1 - y \in Nat /\ n - 1 - (n - 1 - y) = y
    OBVIOUS
  <2> QED
    BY <2>1
<1>2. Min(D) \in D /\ \A d \in D : Min(D) <= d
  BY <1>1, MinIsLeast
<1> HIDE DEF D
<1>3. Min(D) \in Nat /\ x \in S
  BY <1>2 DEF D
<1>4. \A y \in S : y <= x
  <2> TAKE y \in S
  <2>1. n - 1 - y \in Nat /\ n - 1 - (n - 1 - y) = y
    OBVIOUS
  <2>2. n - 1 - y \in D
    BY <2>1 DEF D
  <2>3. Min(D) <= n - 1 - y
    BY <1>2, <2>2
  <2> QED
    BY <1>3, <2>3
<1> HIDE DEF x
<1> QED
  BY <1>3, <1>4, Zenon DEF Max

\* Induction up to a bound, with the set of what holds in place of a formula.
LEMMA UpTo ==
  ASSUME NEW m \in Nat, NEW G, 0 \in G, \A i \in 1 .. m : i - 1 \in G => i \in G
  PROVE  \A i \in 0 .. m : i \in G
<1> DEFINE Bad == {i \in 0 .. m : i \notin G}
           b == Min(Bad)
<1> SUFFICES ASSUME Bad # {} PROVE FALSE
  OBVIOUS
<1>1. b \in Bad /\ \A j \in Bad : b <= j
  BY MinIsLeast
<1> HIDE DEF b
<1>2. b \in 1 .. m /\ b - 1 \in 0 .. m /\ b \notin G
  BY <1>1
<1>3. b - 1 \in G
  BY <1>1, <1>2
<1> QED
  BY <1>2, <1>3

\* The values a loop computes, turn by turn,
LoopOf(P, m, base, step) == P[0] = base /\ \A i \in 1 .. m : P[i] = step[i][P[i - 1]]

\* are there when each turn stays within S.
LEMMA LoopExists ==
  ASSUME NEW S, NEW base \in S, NEW m \in Nat, NEW step,
         \A i \in 1 .. m : \A x \in S : step[i][x] \in S
  PROVE  \E P \in [0 .. m -> S] : LoopOf(P, m, base, step)
<1> USE DEF LoopOf
<1> DEFINE Good(k) == \E P \in [0 .. k -> S] : LoopOf(P, k, base, step)
           Bad == {j \in 0 .. m : ~ Good(j)}
<1> HIDE DEF Good
<1> SUFFICES ASSUME Bad # {} PROVE FALSE
  <2>1. Good(m)
    OBVIOUS
  <2> QED
    BY <2>1 DEF Good
<1> DEFINE k == Min(Bad)
<1>1. k \in Bad /\ \A j \in Bad : k <= j
  <2>1. Bad \in SUBSET Nat
    OBVIOUS
  <2> HIDE DEF Bad
  <2> QED
    BY <2>1, MinIsLeast
<1> HIDE DEF k
<1>2. k \in 0 .. m /\ ~ Good(k)
  BY <1>1
<1>3. CASE k = 0
  <2>1. [i \in 0 .. 0 |-> base] \in [0 .. 0 -> S] /\ [i \in 0 .. 0 |-> base][0] = base
    OBVIOUS
  <2>2. Good(0)
    <3> USE DEF Good
    <3> WITNESS [i \in 0 .. 0 |-> base] \in [0 .. 0 -> S]
    <3> QED
      BY <2>1
  <2> QED
    BY <1>2, <1>3, <2>2
<1>4. CASE k # 0
  <2>1. k - 1 \in 0 .. m /\ k - 1 \notin Bad
    BY <1>1, <1>2, <1>4
  <2>2. PICK Q \in [0 .. k - 1 -> S] :
          Q[0] = base /\ \A i \in 1 .. k - 1 : Q[i] = step[i][Q[i - 1]]
    BY <2>1 DEF Good
  <2> DEFINE P == [i \in 0 .. k |-> IF i < k THEN Q[i] ELSE step[k][Q[k - 1]]]
  <2>3. k \in 1 .. m /\ k - 1 \in 0 .. k - 1 /\ Q[k - 1] \in S
    BY <1>2, <1>4
  <2>4. step[k][Q[k - 1]] \in S
    BY <2>3
  <2>5. P \in [0 .. k -> S] /\ P[0] = base
    BY <1>2, <1>4, <2>2, <2>4
  <2>6. ASSUME NEW i \in 1 .. k PROVE P[i] = step[i][P[i - 1]]
    <3>1. P[i - 1] = Q[i - 1]
      BY <1>2
    <3>2. CASE i = k
      BY <1>2, <3>1, <3>2
    <3>3. CASE i # k
      <4>1. i \in 1 .. k - 1 /\ P[i] = Q[i]
        BY <1>2, <3>3
      <4> QED
        BY <2>2, <3>1, <4>1
    <3> QED
      BY <3>2, <3>3
  <2> HIDE DEF P
  <2>7. Good(k)
    BY <2>5, <2>6 DEF Good
  <2> QED
    BY <1>2, <2>7
<1> QED
  BY <1>3, <1>4

\* A place of a ring that is less than a whole turn past the end of it.
LEMMA ModIs ==
  ASSUME NEW m \in Nat \ {0}, NEW a \in 0 .. 2 * m - 1
  PROVE  a % m = IF a < m THEN a ELSE a - m
<1>1. /\ a = m * (a \div m) + (a % m)
      /\ a % m \in 0 .. m - 1 /\ a \div m \in Int
  OBVIOUS
<1>2. PICK q \in Int, r \in 0 .. m - 1 : a = m * q + r /\ a % m = r
  BY <1>1
<1>3. q >= 0
  <2>1. CASE q <= -1
    <3>1. m * q <= m * (-1)
      BY <2>1
    <3> QED
      BY <1>2, <3>1
  <2> QED
    BY <2>1
<1>4. q <= 1
  <2>1. CASE q >= 2
    <3>1. m * q >= m * 2
      BY <2>1
    <3> QED
      BY <1>2, <3>1
  <2> QED
    BY <2>1
<1>5. q = 0 \/ q = 1
  BY <1>3, <1>4
<1>6. CASE q = 0
  BY <1>2, <1>6
<1>7. CASE q = 1
  BY <1>2, <1>7
<1> QED
  BY <1>5, <1>6, <1>7

=============================================================================
