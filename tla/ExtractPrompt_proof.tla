------------------------- MODULE ExtractPrompt_proof ------------------------
(***************************************************************************)
(* Proofs about ExtractPrompt for any sessions, archives and number of     *)
(* prompts.  First what the binary search of FindInSorted computes, then   *)
(* what AddFile and RemoveFile do to a list, then the invariants.          *)
(***************************************************************************)
EXTENDS ExtractPrompt, NumberFacts, SequenceTheorems

-----------------------------------------------------------------------------
(* FindInSorted. *)

(* The search is a function that satisfies this equation with itself.      *)
Search(list, name, search) ==
  [w \in Windows(list) |-> Turn(list, name, search, w[1], w[2])]

(* A turn that goes on looks at an element of its window and searches on   *)
(* one side of it, in a smaller window.                                    *)
LEMMA Middle ==
  ASSUME NEW list \in Seq(Nat), NEW w \in Windows(list), w[1] < w[2],
         NEW mid, mid = (w[1] + w[2]) \div 2
  PROVE  /\ mid \in w[1]..(w[2] - 1) /\ mid + 1 \in DOMAIN list
         /\ <<w[1], mid>> \in Windows(list) /\ <<mid + 1, w[2]>> \in Windows(list)
         /\ w[1] \in Nat /\ w[2] \in 0..Len(list)
BY DEF Windows

(* The recursion comes to an end, so there is such a function.             *)
LEMMA SearchExists ==
  ASSUME NEW list \in Seq(Nat), NEW name \in Nat
  PROVE  \E f : f = Search(list, name, f)
<1> DEFINE Good(f, k) ==
             \A w \in Windows(list) :
               w[2] - w[1] < k => f[w] = Turn(list, name, f, w[1], w[2])
           S == {k \in Nat : \E f : f = [w \in Windows(list) |-> f[w]] /\ Good(f, k)}
<1>1. 0 \in S
  <2> DEFINE f == [w \in Windows(list) |-> -1]
  <2>1. f = [w \in Windows(list) |-> f[w]]
    OBVIOUS
  <2>2. Good(f, 0)
    BY DEF Windows, Turn
  <2> HIDE DEF f
  <2> QED
    BY <2>1, <2>2
<1>2. ASSUME NEW k \in S PROVE k + 1 \in S
  <2>1. PICK f : f = [w \in Windows(list) |-> f[w]] /\ Good(f, k)
    OBVIOUS
  <2> DEFINE g == Search(list, name, f)
  <2>2. g = [w \in Windows(list) |-> g[w]]
    BY DEF Search
  <2>3. \A w \in Windows(list) : w[2] - w[1] < k => g[w] = f[w]
    BY <2>1 DEF Search
  <2>4. ASSUME NEW w \in Windows(list), w[2] - w[1] < k + 1
        PROVE  g[w] = Turn(list, name, g, w[1], w[2])
    <3>1. g[w] = Turn(list, name, f, w[1], w[2])
      BY DEF Search
    <3>2. CASE w[1] >= w[2]
      BY <3>1, <3>2 DEF Turn
    <3>3. CASE w[1] < w[2]
      <4> DEFINE mid == (w[1] + w[2]) \div 2
      <4> HIDE DEF mid, g
      <4>1. /\ mid \in w[1]..(w[2] - 1)
            /\ <<w[1], mid>> \in Windows(list) /\ <<mid + 1, w[2]>> \in Windows(list)
            /\ w[1] \in Nat /\ w[2] \in Nat
        BY <3>3, Middle DEF mid
      <4>2. mid - w[1] < k /\ w[2] - (mid + 1) < k
        BY <4>1, <2>4
      <4>3. g[<<w[1], mid>>] = f[<<w[1], mid>>] /\ g[<<mid + 1, w[2]>>] = f[<<mid + 1, w[2]>>]
        BY <2>3, <4>1, <4>2
      <4> QED
        BY <3>1, <4>3 DEF Turn, UpperHalf, mid
    <3> QED
      BY <3>2, <3>3 DEF Windows
  <2>5. Good(g, k + 1)
    BY <2>4
  <2> HIDE DEF g
  <2> QED
    BY <2>2, <2>5
<1>3. Len(list) + 1 \in S
  <2> HIDE DEF S
  <2>1. S \in SUBSET Nat
    BY DEF S
  <2>2. S = Nat
    BY <1>1, <1>2, <2>1, SetInduction
  <2> QED
    BY <2>2
<1>4. PICK f : f = [w \in Windows(list) |-> f[w]] /\ Good(f, Len(list) + 1)
  BY <1>3
<1>5. \A w \in Windows(list) : w[2] - w[1] < Len(list) + 1
  BY DEF Windows
<1> QED
  BY <1>4, <1>5, Zenon DEF Search

LEMMA SearchEquation ==
  ASSUME NEW list \in Seq(Nat), NEW name \in Nat
  PROVE  \E f : /\ f = Search(list, name, f)
                /\ FindInSorted(list, name) = f[<<0, Len(list)>>]
<1> DEFINE c == CHOOSE f : f = Search(list, name, f)
<1>1. c = Search(list, name, c)
  BY SearchExists
<1>2. FindInSorted(list, name) = c[<<0, Len(list)>>]
  BY Zenon DEF FindInSorted, Search
<1> QED
  BY <1>1, <1>2, Zenon

(* In every window the search answers -1 or an index inside the window at  *)
(* which it has seen the name.                                             *)
LEMMA SearchInside ==
  ASSUME NEW list \in Seq(Nat), NEW name \in Nat,
         NEW f, f = Search(list, name, f)
  PROVE  \A w \in Windows(list) :
           \/ f[w] = -1
           \/ /\ f[w] \in w[1]..(w[2] - 1)
              /\ list[f[w] + 1] = name
<1> DEFINE Inside(w) == \/ f[w] = -1
                        \/ /\ f[w] \in w[1]..(w[2] - 1)
                           /\ list[f[w] + 1] = name
           S == {k \in Nat : \A w \in Windows(list) : w[2] - w[1] < k => Inside(w)}
<1>1. \A w \in Windows(list) : f[w] = Turn(list, name, f, w[1], w[2])
  BY Zenon DEF Search
<1>2. 0 \in S
  <2>1. ASSUME NEW w \in Windows(list), w[2] - w[1] < 0 PROVE Inside(w)
    <3>1. w[1] >= w[2]
      BY <2>1 DEF Windows
    <3> QED
      BY <1>1, <3>1 DEF Turn
  <2> QED
    BY <2>1
<1>3. ASSUME NEW k \in S PROVE k + 1 \in S
  <2>1. ASSUME NEW w \in Windows(list), w[2] - w[1] < k + 1 PROVE Inside(w)
    <3>1. CASE w[1] >= w[2]
      BY <1>1, <3>1 DEF Turn
    <3>2. CASE w[1] < w[2]
      <4> DEFINE mid == (w[1] + w[2]) \div 2
                 left == <<w[1], mid>>
                 right == <<mid + 1, w[2]>>
      <4> HIDE DEF mid
      <4>1. /\ mid \in w[1]..(w[2] - 1) /\ mid + 1 \in DOMAIN list
            /\ left \in Windows(list) /\ right \in Windows(list)
            /\ w[1] \in Nat /\ w[2] \in Nat
        BY <3>2, Middle DEF mid
      <4>2. left[2] - left[1] < k /\ right[2] - right[1] < k
        BY <2>1, <4>1
      <4>3. Inside(left) /\ Inside(right)
        BY <4>1, <4>2
      <4>4. \/ f[w] = mid /\ list[mid + 1] = name
            \/ f[w] = f[left] \/ f[w] = f[right]
        <5>1. ~(w[1] >= w[2])
          BY <3>2, <4>1
        <5> QED
          BY <1>1, <5>1 DEF Turn, UpperHalf, mid
      <4>5. CASE f[w] = mid /\ list[mid + 1] = name
        BY <4>1, <4>5
      <4>6. CASE f[w] = f[left]
        BY <4>1, <4>3, <4>6
      <4>7. CASE f[w] = f[right]
        BY <4>1, <4>3, <4>7
      <4> QED
        BY <4>4, <4>5, <4>6, <4>7
    <3> QED
      BY <3>1, <3>2 DEF Windows
  <2> QED
    BY <2>1
<1>5. Len(list) + 1 \in S
  <2> HIDE DEF S
  <2>1. S \in SUBSET Nat
    BY DEF S
  <2>2. S = Nat
    BY <1>2, <1>3, <2>1, SetInduction
  <2> QED
    BY <2>2
<1>6. \A w \in Windows(list) : w[2] - w[1] < Len(list) + 1
  BY DEF Windows
<1> QED
  BY <1>5, <1>6

(* On a list that is in order, a window the search answers -1 for does not *)
(* hold the name.                                                          *)
LEMMA SearchMisses ==
  ASSUME NEW list \in Seq(Nat), NEW name \in Nat, InOrder(list),
         NEW f, f = Search(list, name, f)
  PROVE  \A w \in Windows(list) :
           f[w] = -1 => \A i \in (w[1] + 1)..w[2] : list[i] # name
<1> DEFINE Misses(w) == f[w] = -1 => \A i \in (w[1] + 1)..w[2] : list[i] # name
           S == {k \in Nat : \A w \in Windows(list) : w[2] - w[1] < k => Misses(w)}
<1>1. \A w \in Windows(list) : f[w] = Turn(list, name, f, w[1], w[2])
  BY Zenon DEF Search
<1>2. 0 \in S
  BY DEF Windows
<1>3. ASSUME NEW k \in S PROVE k + 1 \in S
  <2>0. k \in Nat /\ \A w \in Windows(list) : w[2] - w[1] < k => Misses(w)
    OBVIOUS
  <2>1. ASSUME NEW w \in Windows(list), w[2] - w[1] < k + 1 PROVE Misses(w)
    <3>1. CASE w[1] >= w[2]
      BY <3>1 DEF Windows
    <3>2. CASE w[1] < w[2]
      <4> DEFINE mid == (w[1] + w[2]) \div 2
                 left == <<w[1], mid>>
                 right == <<mid + 1, w[2]>>
      <4> HIDE DEF mid, S
      <4>1. /\ mid \in w[1]..(w[2] - 1) /\ mid + 1 \in DOMAIN list
            /\ left \in Windows(list) /\ right \in Windows(list)
            /\ w[1] \in Nat /\ w[2] \in 0..Len(list) /\ w[2] \in Nat
        BY <3>2, Middle DEF mid
      <4>2. mid - w[1] < k /\ w[2] - (mid + 1) < k
        BY <2>0, <2>1, <4>1
      <4>3. Misses(left) /\ Misses(right)
        BY <2>0, <4>1, <4>2
      <4> SUFFICES ASSUME f[w] = -1, NEW i \in Nat, w[1] + 1 <= i, i <= w[2]
                   PROVE  list[i] # name
        BY <4>1
      <4>4. i \in DOMAIN list /\ list[i] \in Nat /\ list[mid + 1] \in Nat
        <5>1. 1 <= i /\ i <= Len(list)
          BY <4>1
        <5>2. i \in 1..Len(list) /\ DOMAIN list = 1..Len(list)
          BY <5>1
        <5> QED
          BY <4>1, <5>2, ElementOfSeq
      <4>5. \/ name < list[mid + 1] /\ f[left] = -1
            \/ list[mid + 1] < name /\ f[right] = -1
        <5>1. ~(w[1] >= w[2]) /\ mid # -1
          BY <3>2, <4>1
        <5>2. f[w] = Turn(list, name, f, w[1], w[2])
          BY <1>1
        <5>3. name # list[mid + 1]
          BY <5>1, <5>2 DEF Turn, mid
        <5> QED
          BY <4>4, <5>1, <5>2, <5>3 DEF Turn, UpperHalf, mid
      <4>6. CASE name < list[mid + 1] /\ f[left] = -1
        <5>1. i <= mid => list[i] # name
          BY <4>1, <4>3, <4>6
        <5>2. mid + 1 <= i => list[mid + 1] <= list[i]
          BY <4>1, <4>4 DEF InOrder
        <5> QED
          BY <4>1, <4>4, <4>6, <5>1, <5>2
      <4>7. CASE list[mid + 1] < name /\ f[right] = -1
        <5>1. mid + 2 <= i => list[i] # name
          BY <4>1, <4>3, <4>7
        <5>2. i <= mid + 1 => list[i] <= list[mid + 1]
          BY <4>1, <4>4 DEF InOrder
        <5> QED
          BY <4>1, <4>4, <4>7, <5>1, <5>2
      <4> QED
        BY <4>5, <4>6, <4>7
    <3> QED
      BY <3>1, <3>2 DEF Windows
  <2> QED
    BY <2>1
<1>5. Len(list) + 1 \in S
  <2> HIDE DEF S
  <2>1. S \in SUBSET Nat
    BY DEF S
  <2>2. S = Nat
    BY <1>2, <1>3, <2>1, SetInduction
  <2> QED
    BY <2>2
<1>6. \A w \in Windows(list) : w[2] - w[1] < Len(list) + 1
  BY DEF Windows
<1> QED
  BY <1>5, <1>6

(* FindInSorted never reports a name that is not where it says, whatever   *)
(* order the list is in: RemoveFile takes its own archive's name.          *)
THEOREM FindIsSound ==
  ASSUME NEW list \in Seq(Nat), NEW name \in Nat
  PROVE  \/ FindInSorted(list, name) = -1
         \/ /\ FindInSorted(list, name) \in 0..(Len(list) - 1)
            /\ list[FindInSorted(list, name) + 1] = name
<1>1. PICK f : /\ f = Search(list, name, f)
               /\ FindInSorted(list, name) = f[<<0, Len(list)>>]
  BY SearchEquation
<1>2. <<0, Len(list)>> \in Windows(list)
  BY DEF Windows
<1> QED
  BY <1>1, <1>2, SearchInside

(* On a list that is in order FindInSorted misses no name.                 *)
THEOREM FindIsComplete ==
  ASSUME NEW list \in Seq(Nat), NEW name \in Nat, InOrder(list)
  PROVE  FindInSorted(list, name) >= 0 <=> \E i \in DOMAIN list : list[i] = name
<1>1. PICK f : /\ f = Search(list, name, f)
               /\ FindInSorted(list, name) = f[<<0, Len(list)>>]
  BY SearchEquation
<1>2. <<0, Len(list)>> \in Windows(list)
  BY DEF Windows
<1>3. FindInSorted(list, name) = -1 => \A i \in DOMAIN list : list[i] # name
  <2> DEFINE w == <<0, Len(list)>>
  <2>1. f[w] = -1 => \A i \in (w[1] + 1)..w[2] : list[i] # name
    BY <1>1, <1>2, SearchMisses
  <2> QED
    BY <1>1, <2>1
<1> QED
  BY <1>3, FindIsSound

-----------------------------------------------------------------------------
(* The list. *)

Positions(list, name) == {i \in DOMAIN list : list[i] = name}

LEMMA PositionsFinite ==
  ASSUME NEW list \in Seq(Nat), NEW name
  PROVE  IsFiniteSet(Positions(list, name)) /\ Cardinality(Positions(list, name)) \in Nat
<1>1. IsFiniteSet(1..Len(list)) /\ Positions(list, name) \in SUBSET (1..Len(list))
  BY FS_Interval DEF Positions
<1> QED
  BY <1>1, FS_Subset, FS_CardinalityType

(* AddFile adds one occurrence of its name. *)
LEMMA PositionsAdded ==
  ASSUME NEW list \in Seq(Nat), NEW e \in Nat, NEW name
  PROVE  Cardinality(Positions(Append(list, e), name)) =
           Cardinality(Positions(list, name)) + (IF name = e THEN 1 ELSE 0)
<1>1. CASE name = e
  <2>1. Positions(Append(list, e), name) = Positions(list, name) \cup {Len(list) + 1}
    BY <1>1 DEF Positions
  <2>2. Len(list) + 1 \notin Positions(list, name)
    BY DEF Positions
  <2> QED
    BY <1>1, <2>1, <2>2, PositionsFinite, FS_AddElement
<1>2. CASE name # e
  <2>1. Positions(Append(list, e), name) = Positions(list, name)
    BY <1>2 DEF Positions
  <2> QED
    BY <1>2, <2>1, PositionsFinite
<1> QED
  BY <1>1, <1>2

LEMMA Removed ==
  ASSUME NEW S, NEW list \in Seq(S), NEW k \in 1..Len(list)
  PROVE  /\ RemoveAt(list, k) \in Seq(S)
         /\ Len(RemoveAt(list, k)) = Len(list) - 1
         /\ \A i \in 1..(Len(list) - 1) :
              RemoveAt(list, k)[i] = IF i < k THEN list[i] ELSE list[i + 1]
<1> DEFINE a == SubSeq(list, 1, k - 1)
           b == SubSeq(list, k + 1, Len(list))
<1>1. a \in Seq(S) /\ Len(a) = k - 1 /\ \A i \in 1..(k - 1) : a[i] = list[i]
  BY SubSeqProperties
<1>2. /\ b \in Seq(S) /\ Len(b) = Len(list) - k
      /\ \A i \in 1..(Len(list) - k) : b[i] = list[k + i]
  BY SubSeqProperties
<1>3. RemoveAt(list, k) = a \o b
  BY DEF RemoveAt
<1> HIDE DEF a, b
<1>4. /\ a \o b \in Seq(S) /\ Len(a \o b) = Len(list) - 1
      /\ \A i \in 1..(Len(list) - 1) :
           (a \o b)[i] = IF i <= k - 1 THEN a[i] ELSE b[i - (k - 1)]
  BY <1>1, <1>2, ConcatProperties
<1>5. ASSUME NEW i \in 1..(Len(list) - 1)
      PROVE  (a \o b)[i] = IF i < k THEN list[i] ELSE list[i + 1]
  <2>1. CASE i < k
    BY <1>1, <1>4, <2>1
  <2>2. CASE i >= k
    <3>1. i - (k - 1) \in 1..(Len(list) - k) /\ k + (i - (k - 1)) = i + 1
      BY <2>2
    <3>2. (a \o b)[i] = b[i - (k - 1)]
      BY <1>4, <2>2
    <3>3. b[i - (k - 1)] = list[i + 1]
      BY <1>2, <3>1
    <3> QED
      BY <2>2, <3>2, <3>3
  <2>3. i < k \/ i >= k
    OBVIOUS
  <2> QED
    BY <2>1, <2>2, <2>3, Zenon
<1> QED
  BY <1>3, <1>4, <1>5

(* RemoveFile takes one occurrence away, of the name it has found. *)
LEMMA PositionsRemoved ==
  ASSUME NEW list \in Seq(Nat), NEW k \in 1..Len(list), NEW name
  PROVE  Cardinality(Positions(RemoveAt(list, k), name)) =
           Cardinality(Positions(list, name)) - (IF name = list[k] THEN 1 ELSE 0)
<1> DEFINE R == RemoveAt(list, k)
           O == Positions(list, name)
           P == O \ {k}
           Q == Positions(R, name)
           f == [i \in P |-> IF i < k THEN i ELSE i - 1]
<1>1. /\ R \in Seq(Nat) /\ DOMAIN R = 1..(Len(list) - 1) /\ k \in Nat
      /\ \A i \in 1..(Len(list) - 1) :
           R[i] = IF i < k THEN list[i] ELSE list[i + 1]
  BY Removed
<1> HIDE DEF R
<1>2. O = {i \in 1..Len(list) : list[i] = name}
  BY DEF Positions
<1>3. Q = {i \in 1..(Len(list) - 1) : R[i] = name}
  BY <1>1 DEF Positions
<1>4. IsFiniteSet(O) /\ Cardinality(O) \in Nat
  BY PositionsFinite
<1> HIDE DEF O, Q
<1>5. IsFiniteSet(P)
  BY <1>4, FS_Subset
<1>6. Cardinality(P) = Cardinality(O) - (IF name = list[k] THEN 1 ELSE 0)
  <2>1. Cardinality(P) = IF k \in O THEN Cardinality(O) - 1 ELSE Cardinality(O)
    BY <1>4, FS_RemoveElement
  <2>2. k \in O <=> name = list[k]
    BY <1>2
  <2> HIDE DEF P
  <2> QED
    BY <1>4, <2>1, <2>2
<1>7. f \in [P -> Q]
  <2> SUFFICES ASSUME NEW i \in P PROVE f[i] \in Q
    OBVIOUS
  <2>1. i \in 1..Len(list) /\ list[i] = name /\ i # k
    BY <1>2
  <2>2. CASE i < k
    <3>1. f[i] = i
      BY <2>2
    <3>2. i \in 1..(Len(list) - 1)
      BY <2>1, <2>2, <1>1
    <3> HIDE DEF f
    <3> QED
      BY <1>1, <1>3, <2>1, <2>2, <3>1, <3>2
  <2>3. CASE i > k
    <3>1. f[i] = i - 1
      BY <1>1, <2>1, <2>3
    <3>2. i - 1 \in 1..(Len(list) - 1) /\ ~(i - 1 < k) /\ (i - 1) + 1 = i
      BY <2>1, <2>3, <1>1
    <3>3. R[i - 1] = list[i]
      BY <1>1, <3>2
    <3> HIDE DEF f
    <3> QED
      BY <1>3, <2>1, <3>1, <3>2, <3>3
  <2> QED
    BY <1>1, <2>1, <2>2, <2>3
<1>8. f \in Injection(P, Q)
  <2>1. P \subseteq Nat /\ k \notin P
    BY <1>2
  <2> QED
    BY <1>1, <1>7, <2>1 DEF Injection, IsInjective
<1>9. f \in Surjection(P, Q)
  <2>1. ASSUME NEW j \in Q PROVE \E i \in P : f[i] = j
    <3>1. j \in 1..(Len(list) - 1) /\ R[j] = name
      BY <1>3
    <3>2. CASE j < k
      <4>1. j \in 1..Len(list) /\ list[j] = name /\ j # k
        BY <1>1, <3>1, <3>2
      <4>2. j \in P
        BY <1>2, <4>1
      <4>3. f[j] = j
        BY <3>2, <4>2
      <4> QED
        BY <4>2, <4>3
    <3>3. CASE j >= k
      <4>1. j + 1 \in 1..Len(list) /\ list[j + 1] = name /\ j + 1 # k /\ ~(j + 1 < k)
        BY <1>1, <3>1, <3>3
      <4>2. j + 1 \in P
        BY <1>2, <4>1
      <4>3. f[j + 1] = j
        BY <3>1, <4>1, <4>2
      <4> QED
        BY <4>2, <4>3
    <3> QED
      BY <1>1, <3>1, <3>2, <3>3
  <2> QED
    BY <1>7, <2>1 DEF Surjection
<1>10. ExistsBijection(P, Q)
  BY <1>8, <1>9 DEF ExistsBijection, Bijection
<1> HIDE DEF P
<1>11. Cardinality(Q) = Cardinality(P)
  BY <1>5, <1>10, FS_Bijection
<1> QED
  BY <1>6, <1>11 DEF Q, O, R

(* RemoveFile either misses and leaves the list alone, or takes one entry  *)
(* of its own name out.                                                    *)
LEMMA WithoutCases ==
  ASSUME NEW list \in Seq(Nat), NEW name \in Nat
  PROVE  \/ FindInSorted(list, name) = -1 /\ Without(list, name) = list
         \/ \E k \in 1..Len(list) :
              list[k] = name /\ Without(list, name) = RemoveAt(list, k)
<1> DEFINE index == FindInSorted(list, name)
<1>1. \/ index = -1
      \/ index \in 0..(Len(list) - 1) /\ list[index + 1] = name
  BY FindIsSound
<1>2. Without(list, name) = IF index >= 0 THEN RemoveAt(list, index + 1) ELSE list
  BY DEF Without
<1> HIDE DEF index
<1>3. CASE index = -1
  BY <1>2, <1>3 DEF index
<1>4. CASE index \in 0..(Len(list) - 1) /\ list[index + 1] = name
  <2>1. index >= 0 /\ index + 1 \in 1..Len(list)
    BY <1>4
  <2> QED
    BY <1>2, <1>4, <2>1
<1> QED
  BY <1>1, <1>3, <1>4

-----------------------------------------------------------------------------
(* The invariants. *)

LEMMA Names ==
  /\ Name \in SUBSET Nat
  /\ Seq(Name) \subseteq Seq(Nat)
  /\ \A s \in Session : NameOf[s] \in Name
<1>1. Name \in SUBSET Nat /\ \A s \in Session : NameOf[s] \in Name
  BY NameAssumption DEF Name
<1> QED
  BY <1>1, SeqMonotonic

LEMMA OccurrencesAre ==
  \A n : Occurrences(n) = Cardinality(Positions(fileNames, n))
BY DEF Occurrences, Positions

(* FileNames empty, nobody prompting. *)
LEMMA InitPromptListInv == Init => PromptListInv
<1> SUFFICES ASSUME Init PROVE PromptListInv
  OBVIOUS
<1>1. TypeOK
  <2>1. << >> \in Seq(Name) /\ 0 \in 0..MaxPrompts
    BY PromptAssumption, EmptySeq
  <2> QED
    BY <2>1 DEF Init, TypeOK
<1>2. CountInv
  <2> SUFFICES ASSUME NEW n \in Name
               PROVE  /\ Prompting(n) = {}
                      /\ {i \in DOMAIN fileNames : fileNames[i] = n} = {}
    BY FS_EmptySet DEF CountInv, Occurrences
  <2> QED
    BY DEF Init, Prompting
<1>3. InOrder(fileNames)
  BY DEF Init, InOrder
<1> QED
  BY <1>1, <1>2, <1>3 DEF PromptListInv

(* What a step that neither changes the list nor starts or ends a prompt   *)
(* leaves true.                                                            *)
LEMMA ListUnchanged ==
  ASSUME PromptListInv, TypeOK', UNCHANGED <<fileNames, inOrder>>,
         \A n \in Name : Prompting(n)' = Prompting(n)
  PROVE  PromptListInv'
<1>1. \A n \in Name : Occurrences(n)' = Occurrences(n)
  BY DEF Occurrences
<1>2. CountInv'
  BY <1>1 DEF PromptListInv, CountInv
<1> QED
  BY <1>2 DEF PromptListInv, InOrder

(* AddFile: one more entry for one more prompt. *)
LEMMA PromptStep ==
  ASSUME PromptListInv, NEW s \in Session, Prompt(s)
  PROVE  PromptListInv'
<1> USE DEF PromptListInv
<1>1. TypeOK'
  BY Names, PromptAssumption, AppendProperties DEF TypeOK, Prompt, Relist, Listed
<1>2. fileNames \in Seq(Nat) /\ NameOf[s] \in Nat
  BY Names DEF TypeOK
<1>3. fileNames' = Append(fileNames, NameOf[s]) /\ inOrder' = (inOrder /\ InOrder(fileNames'))
  BY DEF Prompt, Relist, Listed
<1>4. ASSUME NEW n \in Name
      PROVE  /\ IsFiniteSet(Prompting(n)')
             /\ Occurrences(n)' >= Cardinality(Prompting(n)')
             /\ inOrder' => Occurrences(n)' = Cardinality(Prompting(n)')
  <2>1. /\ IsFiniteSet(Prompting(n)) /\ Occurrences(n) >= Cardinality(Prompting(n))
        /\ inOrder => Occurrences(n) = Cardinality(Prompting(n))
    BY DEF CountInv
  <2>2. Cardinality(Prompting(n)) \in Nat /\ Occurrences(n) \in Nat
    BY <1>2, <2>1, FS_CardinalityType, OccurrencesAre, PositionsFinite
  <2>3. Occurrences(n)' = Occurrences(n) + (IF n = NameOf[s] THEN 1 ELSE 0)
    <3>1. Occurrences(n)' = Cardinality(Positions(fileNames', n))
      BY DEF Occurrences, Positions
    <3> QED
      BY <1>2, <1>3, <3>1, OccurrencesAre, PositionsAdded
  <2>4. Prompting(n)' = IF n = NameOf[s] THEN Prompting(n) \cup {s} ELSE Prompting(n)
    BY DEF TypeOK, Prompt, Prompting
  <2>5. s \notin Prompting(n)
    BY DEF Prompt, Prompting
  <2>6. /\ IsFiniteSet(Prompting(n)')
        /\ Cardinality(Prompting(n)') =
             Cardinality(Prompting(n)) + (IF n = NameOf[s] THEN 1 ELSE 0)
    BY <2>1, <2>2, <2>4, <2>5, FS_AddElement
  <2>7. Occurrences(n)' >= Cardinality(Prompting(n)')
    BY <2>1, <2>2, <2>3, <2>6
  <2>8. Occurrences(n) = Cardinality(Prompting(n)) =>
          Occurrences(n)' = Cardinality(Prompting(n)')
    BY <2>2, <2>3, <2>6
  <2> QED
    BY <1>3, <2>1, <2>6, <2>7, <2>8, Zenon
<1>5. CountInv'
  BY <1>4 DEF CountInv
<1>6. inOrder' => InOrder(fileNames)'
  BY <1>3 DEF InOrder
<1> QED
  BY <1>1, <1>5, <1>6

(* RemoveFile: one entry less for one prompt less.  If the search misses,  *)
(* the entry stays behind; on a list in order it cannot miss.              *)
LEMMA RemoveFileStep ==
  ASSUME PromptListInv, NEW s \in Session, RemoveFile(s)
  PROVE  PromptListInv'
<1> USE DEF PromptListInv
<1> DEFINE name == NameOf[s]
<1>1. fileNames \in Seq(Nat) /\ fileNames \in Seq(Name) /\ name \in Nat /\ name \in Name
  BY Names DEF TypeOK
<1>2. /\ fileNames' = Without(fileNames, name)
      /\ inOrder' = (inOrder /\ InOrder(fileNames'))
  BY DEF RemoveFile, Relist
<1>3. \/ FindInSorted(fileNames, name) = -1 /\ fileNames' = fileNames
      \/ \E k \in 1..Len(fileNames) :
           fileNames[k] = name /\ fileNames' = RemoveAt(fileNames, k)
  BY <1>1, <1>2, WithoutCases
<1>4. TypeOK'
  <2>1. fileNames' \in Seq(Name)
    BY <1>1, <1>3, Removed
  <2> QED
    BY <1>2, <2>1 DEF TypeOK, RemoveFile
<1>5. s \in Prompting(name)
  BY DEF RemoveFile, Prompting
<1>6. ASSUME NEW n \in Name
      PROVE  /\ IsFiniteSet(Prompting(n)')
             /\ Occurrences(n)' >= Cardinality(Prompting(n)')
             /\ inOrder' => Occurrences(n)' = Cardinality(Prompting(n)')
  <2>1. /\ IsFiniteSet(Prompting(n)) /\ Occurrences(n) >= Cardinality(Prompting(n))
        /\ inOrder => Occurrences(n) = Cardinality(Prompting(n))
    BY DEF CountInv
  <2>2. Cardinality(Prompting(n)) \in Nat /\ Occurrences(n) \in Nat
    BY <1>1, <2>1, FS_CardinalityType, OccurrencesAre, PositionsFinite
  <2>3. Prompting(n)' = IF n = name THEN Prompting(n) \ {s} ELSE Prompting(n)
    BY DEF TypeOK, RemoveFile, Prompting
  <2>4. /\ IsFiniteSet(Prompting(n)')
        /\ Cardinality(Prompting(n)') =
             Cardinality(Prompting(n)) - (IF n = name THEN 1 ELSE 0)
    BY <1>5, <2>1, <2>2, <2>3, FS_RemoveElement
  <2>5. Occurrences(n)' = Cardinality(Positions(fileNames', n))
    BY DEF Occurrences, Positions
  <2>6. CASE FindInSorted(fileNames, name) = -1 /\ fileNames' = fileNames
    <3>1. Occurrences(n)' = Occurrences(n)
      BY <2>5, <2>6, OccurrencesAre
    <3>2. ~inOrder
      <4> SUFFICES ASSUME inOrder PROVE FALSE
        OBVIOUS
      <4>1. \A i \in DOMAIN fileNames : fileNames[i] # name
        BY <1>1, <2>6, FindIsComplete
      <4>2. Cardinality(Positions(fileNames, name)) = 0
        BY <4>1, FS_EmptySet DEF Positions
      <4>3. IsFiniteSet(Prompting(name)) /\ Cardinality(Prompting(name)) = 0
        BY <1>1, <4>2, OccurrencesAre DEF CountInv
      <4> QED
        BY <1>5, <4>3, FS_EmptySet
    <3>3. Occurrences(n)' >= Cardinality(Prompting(n)')
      BY <2>1, <2>2, <2>4, <3>1
    <3> QED
      BY <1>2, <2>4, <3>2, <3>3, Zenon
  <2>7. CASE \E k \in 1..Len(fileNames) :
               fileNames[k] = name /\ fileNames' = RemoveAt(fileNames, k)
    <3>1. Occurrences(n)' = Occurrences(n) - (IF n = name THEN 1 ELSE 0)
      BY <1>1, <2>5, <2>7, OccurrencesAre, PositionsRemoved
    <3>2. Occurrences(n)' >= Cardinality(Prompting(n)')
      BY <2>1, <2>2, <2>4, <3>1
    <3>3. Occurrences(n) = Cardinality(Prompting(n)) =>
            Occurrences(n)' = Cardinality(Prompting(n)')
      BY <2>2, <2>4, <3>1
    <3> QED
      BY <1>2, <2>1, <2>4, <3>2, <3>3, Zenon
  <2> QED
    BY <1>3, <2>6, <2>7
<1>7. CountInv'
  BY <1>6 DEF CountInv
<1>8. inOrder' => InOrder(fileNames)'
  BY <1>2 DEF InOrder
<1> QED
  BY <1>4, <1>7, <1>8

LEMMA NextPromptListInv == PromptListInv /\ [Next]_vars => PromptListInv'
<1> SUFFICES ASSUME PromptListInv, [Next]_vars PROVE PromptListInv'
  OBVIOUS
<1>0. TypeOK
  BY DEF PromptListInv
<1>1. CASE SetHandler
  <2>1. TypeOK' /\ UNCHANGED <<fileNames, inOrder>> /\ UNCHANGED task
    BY <1>0, <1>1 DEF TypeOK, SetHandler
  <2> QED
    BY <2>1, ListUnchanged DEF Prompting
<1>2. ASSUME NEW s \in Session, Prompt(s) PROVE PromptListInv'
  BY <1>2, PromptStep
<1>3. ASSUME NEW s \in Session, PromptRefused(s) PROVE PromptListInv'
  <2>1. TypeOK' /\ UNCHANGED <<fileNames, inOrder>>
    BY <1>0, <1>3 DEF TypeOK, PromptRefused
  <2>2. \A n \in Name : Prompting(n)' = Prompting(n)
    BY <1>0, <1>3 DEF TypeOK, PromptRefused, Prompting
  <2> QED
    BY <2>1, <2>2, ListUnchanged
<1>4. ASSUME NEW s \in Session, Answer(s) PROVE PromptListInv'
  <2>1. TypeOK' /\ UNCHANGED <<fileNames, inOrder>>
    BY <1>0, <1>4 DEF TypeOK, Answer
  <2>2. \A n \in Name : Prompting(n)' = Prompting(n)
    BY <1>0, <1>4 DEF TypeOK, Answer, Prompting
  <2> QED
    BY <2>1, <2>2, ListUnchanged
<1>5. ASSUME NEW s \in Session, RemoveFile(s) PROVE PromptListInv'
  BY <1>5, RemoveFileStep
<1>6. ASSUME NEW s \in Session, StartWait(s) PROVE PromptListInv'
  <2>1. TypeOK' /\ UNCHANGED <<fileNames, inOrder>> /\ UNCHANGED task
    BY <1>0, <1>6 DEF TypeOK, StartWait
  <2> QED
    BY <2>1, ListUnchanged DEF Prompting
<1>7. ASSUME NEW s \in Session, Poll(s) PROVE PromptListInv'
  <2>1. /\ AfterPoll(NameOf[s]) \in {"idle", "waiting"}
        /\ ContainsFile(NameOf[s]) \in BOOLEAN
    BY DEF AfterPoll, ContainsFile
  <2>2. TypeOK' /\ UNCHANGED <<fileNames, inOrder>> /\ UNCHANGED task
    BY <1>0, <1>7, <2>1 DEF TypeOK, Poll
  <2> QED
    BY <2>2, ListUnchanged DEF Prompting
<1>8. CASE UNCHANGED vars
  <2>1. TypeOK' /\ UNCHANGED <<fileNames, inOrder>> /\ UNCHANGED task
    BY <1>0, <1>8 DEF TypeOK, vars
  <2> QED
    BY <2>1, ListUnchanged DEF Prompting
<1> QED
  BY <1>1, <1>2, <1>3, <1>4, <1>5, <1>6, <1>7, <1>8 DEF Next

(* The list holds at least one entry for each prompt in progress, and      *)
(* exactly one as long as it stays in order.                               *)
THEOREM PromptInvariance == Spec => []PromptListInv
<1>1. Init => PromptListInv
  BY InitPromptListInv
<1>2. PromptListInv /\ [Next]_vars => PromptListInv'
  BY NextPromptListInv
<1> QED
  BY <1>1, <1>2, PTL DEF Spec

(* The list holds names and the threads are where a thread can be.         *)
THEOREM PromptTypeOK == Spec => []TypeOK
<1>1. PromptListInv => TypeOK
  BY DEF PromptListInv
<1> QED
  BY <1>1, PromptInvariance, PTL

(* However many sessions prompt and answer in whatever order, RemoveFile   *)
(* never takes the entry of a prompt that is still in progress.            *)
THEOREM PromptsListed == Spec => []EveryPromptListed
<1>1. PromptListInv => EveryPromptListed
  BY DEF PromptListInv, CountInv, EveryPromptListed
<1> QED
  BY <1>1, PromptInvariance, PTL

(* Wherever the list is in order, ContainsFile is exact.                   *)
THEOREM SearchExact == Spec => []SearchExactWhenSorted
<1>1. TypeOK => SearchExactWhenSorted
  <2> SUFFICES ASSUME TypeOK, InOrder(fileNames), NEW n \in Name
               PROVE  ContainsFile(n) <=> Occurrences(n) > 0
    BY DEF SearchExactWhenSorted
  <2>1. fileNames \in Seq(Nat) /\ n \in Nat
    BY Names DEF TypeOK
  <2>2. ContainsFile(n) <=> Positions(fileNames, n) # {}
    BY <2>1, FindIsComplete DEF ContainsFile, Positions
  <2>3. /\ Positions(fileNames, n) = {} <=> Occurrences(n) = 0
        /\ Occurrences(n) \in Nat
    BY <2>1, PositionsFinite, OccurrencesAre, FS_EmptySet
  <2> QED
    BY <2>2, <2>3
<1> QED
  BY <1>1, PromptTypeOK, PTL

(* While the list has stayed in order, Wait only waits for a prompt that   *)
(* is in progress.                                                         *)
THEOREM NobodyWaitsForThePast == Spec => []NoStalePrompt
<1>1. PromptListInv => NoStalePrompt
  <2> SUFFICES ASSUME PromptListInv, inOrder, NEW n \in Name, ContainsFile(n)
               PROVE  Prompting(n) # {}
    BY DEF NoStalePrompt
  <2>1. fileNames \in Seq(Nat) /\ n \in Nat
    BY Names DEF PromptListInv, TypeOK
  <2>2. Positions(fileNames, n) # {}
    BY <2>1, FindIsComplete DEF PromptListInv, ContainsFile, Positions
  <2>3. Occurrences(n) # 0
    BY <2>1, <2>2, PositionsFinite, OccurrencesAre, FS_EmptySet
  <2>4. Cardinality(Prompting(n)) # 0
    BY <2>3 DEF PromptListInv, CountInv
  <2> QED
    BY <2>4, FS_EmptySet
<1> QED
  BY <1>1, PromptInvariance, PTL

-----------------------------------------------------------------------------
(* The finding's scope: how far PromptVisible does hold. *)

(* A prompt is visible wherever the list is in order.                      *)
LEMMA VisibleInOrder ==
  ASSUME PromptListInv, InOrder(fileNames)
  PROVE  PromptVisible
<1> SUFFICES ASSUME NEW s \in Session, task[s] = "asking"
             PROVE  ContainsFile(NameOf[s])
  BY DEF PromptVisible
<1> DEFINE n == NameOf[s]
<1>1. fileNames \in Seq(Nat) /\ n \in Nat /\ n \in Name
  BY Names DEF PromptListInv, TypeOK
<1>2. s \in Prompting(n)
  BY DEF Prompting
<1> HIDE DEF n
<1>3. IsFiniteSet(Prompting(n)) /\ Occurrences(n) >= Cardinality(Prompting(n))
  BY <1>1 DEF PromptListInv, CountInv
<1>4. Cardinality(Prompting(n)) \in Nat /\ Cardinality(Prompting(n)) # 0
  BY <1>2, <1>3, FS_CardinalityType, FS_EmptySet
<1>5. Occurrences(n) # 0 /\ Occurrences(n) \in Nat
  BY <1>1, <1>3, <1>4, PositionsFinite, OccurrencesAre
<1>6. Positions(fileNames, n) # {}
  BY <1>5, OccurrencesAre, FS_EmptySet
<1> QED
  BY <1>1, <1>6, FindIsComplete DEF ContainsFile, Positions, n

(* A client that looks while a prompt for its archive is up finds it,      *)
(* wherever the list is in order, even if it was not before.               *)
THEOREM VisibleWhenSorted == Spec => [](InOrder(fileNames) => PromptVisible)
<1>1. PromptListInv => (InOrder(fileNames) => PromptVisible)
  BY VisibleInOrder
<1> QED
  BY <1>1, PromptInvariance, PTL

(* With one archive, however many of its entries are open, the check of    *)
(* ArchiveEntry::Buffer keeps its promise: it takes two archives for a     *)
(* prompt to be missed.                                                    *)
THEOREM OneArchiveIsSafe ==
  ASSUME \A s, t \in Session : NameOf[s] = NameOf[t]
  PROVE  Spec => []PromptVisible
<1>1. PromptListInv => PromptVisible
  <2> SUFFICES ASSUME PromptListInv PROVE PromptVisible
    OBVIOUS
  <2>1. \A m, n \in Name : m = n
    BY DEF Name
  <2>2. \A i \in DOMAIN fileNames : fileNames[i] \in Name /\ fileNames[i] \in Nat
    BY Names, ElementOfSeq DEF PromptListInv, TypeOK
  <2>3. InOrder(fileNames)
    BY <2>1, <2>2 DEF InOrder
  <2> QED
    BY <2>3, VisibleInOrder
<1> QED
  BY <1>1, PromptInvariance, PTL
=============================================================================
