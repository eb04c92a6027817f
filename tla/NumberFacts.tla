---------------------------- MODULE NumberFacts -----------------------------
(***************************************************************************)
(* Facts about numbers that the proofs share: induction over the naturals, *)
(* division by a number that is not a constant, powers of two.             *)
(***************************************************************************)
EXTENDS Integers, FiniteSetTheorems, TLAPS

-----------------------------------------------------------------------------
(* Induction over the naturals, stated for a set: were m missing, adding   *)
(* one would map the finite set of the members up to m into itself, so     *)
(* onto itself, and reach 0.                                               *)
LEMMA SetInduction ==
  ASSUME NEW S \in SUBSET Nat, 0 \in S, \A n \in S : n + 1 \in S
  PROVE  S = Nat
<1> SUFFICES ASSUME NEW m \in Nat, m \notin S PROVE FALSE
  OBVIOUS
<1> DEFINE T == S \cap 0..m
           next == [n \in T |-> n + 1]
<1>1. IsFiniteSet(T)
  <2>1. IsFiniteSet(0..m)
    BY FS_Interval
  <2> QED
    BY <2>1, FS_Intersection
<1>2. next \in Injection(T, T)
  BY DEF Injection, IsInjective
<1>3. next \in Surjection(T, T)
  BY <1>1, <1>2, FS_Injection
<1>4. PICK n \in T : next[n] = 0
  <2>1. 0 \in T
    OBVIOUS
  <2> QED
    BY <1>3, <2>1 DEF Surjection
<1> QED
  BY <1>4

-----------------------------------------------------------------------------
(* Division. *)

LEMMA TimesNat ==
  ASSUME NEW a \in Nat, NEW b \in Nat
  PROVE  a * b \in Nat
OBVIOUS

LEMMA TimesMonotone ==
  ASSUME NEW a \in Nat, NEW b \in Nat, NEW c \in Nat, a <= b
  PROVE  a * c <= b * c
OBVIOUS

LEMMA TimesReflects ==
  ASSUME NEW a \in Int, NEW b \in Int, NEW c \in Nat, a * c < b * c
  PROVE  a < b
OBVIOUS

LEMMA Division ==
  ASSUME NEW n \in Nat, NEW d \in Nat \ {0}
  PROVE  /\ n \div d \in Nat /\ n % d \in Nat /\ n % d < d
         /\ n = (n \div d) * d + (n % d)
OBVIOUS

LEMMA IntDivision ==
  ASSUME NEW n \in Int, NEW d \in Nat \ {0}
  PROVE  /\ n \div d \in Int /\ n % d \in 0..(d - 1)
         /\ n = (n \div d) * d + (n % d)
OBVIOUS

(* A quotient is the only one of its remainder.                            *)
LEMMA Quotient ==
  ASSUME NEW n \in Nat, NEW d \in Nat \ {0}, NEW q \in Nat, NEW r \in Nat,
         r < d, n = q * d + r
  PROVE  n \div d = q /\ n % d = r
OBVIOUS

-----------------------------------------------------------------------------
(* Powers of two. *)

LEMMA PowerNat ==
  ASSUME NEW n \in Nat
  PROVE  2^n \in Nat
<1>1. IsFiniteSet(1..n) /\ Cardinality(1..n) = n
  BY FS_Interval
<1>2. Cardinality(SUBSET (1..n)) = 2^n /\ IsFiniteSet(SUBSET (1..n))
  BY <1>1, FS_SUBSET
<1> QED
  BY <1>2, FS_CardinalityType

(* The subsets of 1..n+1 are those of 1..n, and those with n + 1 as well.  *)
LEMMA PowerNext ==
  ASSUME NEW n \in Nat
  PROVE  2^(n + 1) = 2 * 2^n
<1> DEFINE A == SUBSET (1..n)
           B == SUBSET (1..(n + 1))
           C == B \ A
           f == [S \in A |-> S \cup {n + 1}]
<1>1. /\ IsFiniteSet(1..n) /\ Cardinality(1..n) = n
      /\ IsFiniteSet(1..(n + 1)) /\ Cardinality(1..(n + 1)) = n + 1
  BY FS_Interval
<1>2. /\ IsFiniteSet(A) /\ Cardinality(A) = 2^n
      /\ IsFiniteSet(B) /\ Cardinality(B) = 2^(n + 1)
  BY <1>1, FS_SUBSET
<1>3. f \in [A -> C]
  OBVIOUS
<1>4. f \in Injection(A, C)
  <2>1. ASSUME NEW S \in A, NEW T \in A, f[S] = f[T] PROVE S = T
    <3>1. n + 1 \notin S /\ n + 1 \notin T
      OBVIOUS
    <3> QED
      BY <2>1, <3>1
  <2> QED
    BY <1>3, <2>1 DEF Injection, IsInjective
<1>5. f \in Surjection(A, C)
  <2>1. ASSUME NEW T \in C PROVE \E S \in A : f[S] = T
    <3>1. n + 1 \in T
      <4>1. \A i \in 1..(n + 1) : i \in 1..n \/ i = n + 1
        OBVIOUS
      <4> QED
        BY <4>1
    <3>2. T \ {n + 1} \in A
      OBVIOUS
    <3>3. f[T \ {n + 1}] = T
      BY <3>1, <3>2
    <3> QED
      BY <3>2, <3>3
  <2> QED
    BY <1>3, <2>1 DEF Surjection
<1>6. ExistsBijection(A, C)
  BY <1>4, <1>5 DEF ExistsBijection, Bijection
<1>7. A \subseteq B /\ A \cap C = {} /\ A \cup C = B
  OBVIOUS
<1> HIDE DEF A, B, C
<1>8. IsFiniteSet(C)
  <2>1. C \in SUBSET B
    BY DEF C
  <2> QED
    BY <1>2, <2>1, FS_Subset
<1>9. Cardinality(C) = Cardinality(A)
  BY <1>2, <1>6, FS_Bijection
<1>10. Cardinality(B) = Cardinality(A) + Cardinality(C) - 0
  BY <1>2, <1>7, <1>8, FS_Union, FS_EmptySet
<1> QED
  BY <1>2, <1>9, <1>10, PowerNat

LEMMA PowerPositive ==
  ASSUME NEW n \in Nat
  PROVE  2^n \in Nat \ {0}
<1> DEFINE S == {m \in Nat : 2^m # 0}
<1>1. 0 \in S
  OBVIOUS
<1>2. ASSUME NEW m \in S PROVE m + 1 \in S
  <2>1. 2^(m + 1) = 2 * 2^m /\ 2^m \in Nat
    BY PowerNext, PowerNat
  <2> QED
    BY <2>1
<1>3. S = Nat
  <2> HIDE DEF S
  <2>1. S \in SUBSET Nat
    BY DEF S
  <2> QED
    BY <1>1, <1>2, <2>1, SetInduction
<1> QED
  BY <1>3, PowerNat

LEMMA PowerSum ==
  ASSUME NEW m \in Nat, NEW n \in Nat
  PROVE  2^(m + n) = 2^m * 2^n
<1> DEFINE S == {k \in Nat : 2^(m + k) = 2^m * 2^k}
<1>1. 0 \in S
  <2>1. m + 0 = m /\ 2^0 = 1 /\ 2^m \in Nat
    BY PowerNat
  <2> QED
    BY <2>1
<1>2. ASSUME NEW k \in S PROVE k + 1 \in S
  <2>1. /\ 2^(k + 1) = 2 * 2^k /\ 2^((m + k) + 1) = 2 * 2^(m + k)
        /\ (m + k) + 1 = m + (k + 1)
    BY PowerNext
  <2>2. 2^m \in Nat /\ 2^k \in Nat /\ 2^(m + k) = 2^m * 2^k
    BY PowerNat
  <2>3. 2 * (2^m * 2^k) = 2^m * (2 * 2^k)
    BY <2>2
  <2> QED
    BY <2>1, <2>2, <2>3
<1>3. S = Nat
  <2> HIDE DEF S
  <2>1. S \in SUBSET Nat
    BY DEF S
  <2> QED
    BY <1>1, <1>2, <2>1, SetInduction
<1> QED
  BY <1>3

LEMMA PowerMonotone ==
  ASSUME NEW m \in Nat, NEW n \in Nat, m <= n
  PROVE  2^m <= 2^n
<1>1. n - m \in Nat /\ m + (n - m) = n
  OBVIOUS
<1>2. 2^n = 2^m * 2^(n - m)
  BY <1>1, PowerSum
<1>3. 2^m \in Nat /\ 2^(n - m) \in Nat \ {0}
  BY <1>1, PowerPositive
<1> QED
  BY <1>2, <1>3
=============================================================================
