---------------------------- MODULE Pipeline_proofs ----------------------------
(* Theorems about Pipeline, for all texts, allowlists, limits, hash operators   *)
(* and faults.  First what its operators compute - sort, dedupe, search, split, *)
(* lines, chunks -, then the inductive invariant of a cycle and what follows    *)
(* from it, last what the sinkhole answers with the artifact of such a cycle.   *)
EXTENDS Pipeline, FiniteSetTheorems, SequenceTheorems, TLAPS

-----------------------------------------------------------------------------
(* Induction and order on numbers *)

LEMMA LeastNat ==
    ASSUME NEW T \in SUBSET Nat, T # {}
    PROVE  \E x \in T : \A y \in T : x <= y
<1>1. \E x \in T : \A y \in T : ~(<<y, x>> \in OpToRel(<, Nat))
  BY NatLessThanWellFounded, WFMin
<1>2. \A x, y \in Nat : ~(<<y, x>> \in OpToRel(<, Nat)) => x <= y
  BY SMT DEF OpToRel
<1>3. QED
  BY <1>1, <1>2

\* Induction up to a bound, for a set of numbers.
LEMMA UpTo ==
    ASSUME NEW N \in Nat, NEW T \in SUBSET Nat, 0 \in T,
           \A n \in 1..N : n - 1 \in T => n \in T
    PROVE  0..N \subseteq T
<1>. SUFFICES ASSUME ~(0..N \subseteq T) PROVE FALSE
  OBVIOUS
<1>. DEFINE bad == {n \in 0..N : n \notin T}
<1>1. bad \in SUBSET Nat /\ bad # {}
  OBVIOUS
<1>2. PICK n \in bad : \A k \in bad : n <= k
  BY <1>1, LeastNat
<1>3. n \in 1..N /\ n - 1 \in 0..N /\ n - 1 \notin bad
  BY <1>2
<1>4. QED
  BY <1>2, <1>3

\* In a finite total order, an element is told by how many precede it.
LEMMA Ranking ==
    ASSUME NEW I, IsFiniteSet(I), NEW B \in [I -> SUBSET I],
           \A i \in I : i \in B[i],
           \A i, j \in I : j \in B[i] => B[j] \subseteq B[i],
           \A i, j \in I : i # j => j \notin B[i] \/ i \notin B[j],
           \A i, j \in I : j \in B[i] \/ i \in B[j]
    PROVE  /\ Cardinality(I) \in Nat
           /\ \A i \in I : Cardinality(B[i]) \in 1..Cardinality(I)
           /\ \A i, j \in I : j \in B[i] <=> Cardinality(B[j]) <= Cardinality(B[i])
           /\ \A k \in 1..Cardinality(I) : \E i \in I : Cardinality(B[i]) = k
<1>. DEFINE n == Cardinality(I)
            rank == [i \in I |-> Cardinality(B[i])]
<1>1. n \in Nat
  BY FS_CardinalityType
<1>2. ASSUME NEW i \in I
      PROVE  IsFiniteSet(B[i]) /\ Cardinality(B[i]) \in 1..n
  <2>1. IsFiniteSet(B[i]) /\ Cardinality(B[i]) <= n
    BY FS_Subset
  <2>2. Cardinality(B[i]) \in Nat /\ Cardinality(B[i]) # 0
    BY <2>1, FS_CardinalityType, FS_EmptySet
  <2>3. QED
    BY <1>1, <2>1, <2>2
<1>3. ASSUME NEW i \in I, NEW j \in I, i # j, j \in B[i]
      PROVE  Cardinality(B[j]) < Cardinality(B[i])
  <2>1. B[j] \in SUBSET B[i] /\ B[j] # B[i]
    BY <1>3
  <2>2. Cardinality(B[j]) <= Cardinality(B[i]) /\ Cardinality(B[i]) # Cardinality(B[j])
    BY <1>2, <2>1, FS_Subset
  <2>3. QED
    BY <1>1, <1>2, <2>2
<1>4. \A i, j \in I : i # j => Cardinality(B[j]) # Cardinality(B[i])
  BY <1>1, <1>2, <1>3
<1>5. \A i, j \in I : j \in B[i] <=> Cardinality(B[j]) <= Cardinality(B[i])
  BY <1>1, <1>2, <1>3
<1>6. rank \in Injection(I, 1..n)
  <2>1. rank \in [I -> 1..n]
    BY <1>2
  <2>2. \A i, j \in I : rank[i] = rank[j] => i = j
    BY <1>4
  <2>3. QED
    BY <2>1, <2>2 DEF Injection, IsInjective
<1>7. IsFiniteSet(1..n) /\ Cardinality(1..n) = n
  BY <1>1, FS_Interval
<1>8. rank \in Surjection(I, 1..n)
  BY <1>6, <1>7, FS_Injection
<1>9. \A k \in 1..n : \E i \in I : rank[i] = k
  BY <1>8 DEF Surjection
<1>10. QED
  BY <1>1, <1>2, <1>5, <1>9

\* Nth enumerates a finite set of numbers upwards.
LEMMA NthEnumerates ==
    ASSUME NEW I \in SUBSET Int, IsFiniteSet(I)
    PROVE  /\ Cardinality(I) \in Nat
           /\ \A k \in 1..Cardinality(I) : Nth(I, k) \in I
           /\ \A i \in I : \E k \in 1..Cardinality(I) : Nth(I, k) = i
           /\ \A k, l \in 1..Cardinality(I) : k < l => Nth(I, k) < Nth(I, l)
<1>. DEFINE n == Cardinality(I)
            B == [i \in I |-> {j \in I : j <= i}]
<1>1. /\ n \in Nat
      /\ \A i \in I : Cardinality(B[i]) \in 1..n
      /\ \A i, j \in I : j \in B[i] <=> Cardinality(B[j]) <= Cardinality(B[i])
      /\ \A k \in 1..n : \E i \in I : Cardinality(B[i]) = k
  <2>1. B \in [I -> SUBSET I]
    OBVIOUS
  <2>2. \A i, j \in I : j \in B[i] <=> j <= i
    OBVIOUS
  <2>. HIDE DEF B
  <2>3. ASSUME NEW i \in I, NEW j \in I, j \in B[i], NEW k \in B[j]
        PROVE  k \in B[i]
    <3>1. i \in Int /\ j \in Int /\ k \in Int /\ k \in I
      BY <2>1
    <3>2. QED
      BY <3>1, <2>2, <2>3
  <2>. \A i \in I : i \in Int
    OBVIOUS
  <2>4. /\ \A i \in I : i \in B[i]
        /\ \A i, j \in I : i # j => j \notin B[i] \/ i \notin B[j]
        /\ \A i, j \in I : j \in B[i] \/ i \in B[j]
    BY <2>2
  <2>5. QED
    BY <2>1, <2>3, <2>4, Ranking, Zenon
<1>2. \A i, j \in I : j <= i <=> Cardinality(B[j]) <= Cardinality(B[i])
  BY <1>1
<1>3. ASSUME NEW k \in 1..n
      PROVE  Nth(I, k) \in I /\ Cardinality(B[Nth(I, k)]) = k
  <2>1. PICK i \in I : Cardinality({j \in I : j <= i}) = k
    BY <1>1
  <2>2. Nth(I, k) \in I /\ Cardinality({j \in I : j <= Nth(I, k)}) = k
    BY <2>1 DEF Nth
  <2>3. QED
    BY <2>2
<1>. HIDE DEF B
<1>4. ASSUME NEW i \in I PROVE Nth(I, Cardinality(B[i])) = i
  <2>. DEFINE j == Nth(I, Cardinality(B[i]))
  <2>1. j \in I /\ Cardinality(B[j]) = Cardinality(B[i]) /\ Cardinality(B[i]) \in Int
    BY <1>1, <1>3
  <2>. HIDE DEF j
  <2>2. i \in Int /\ j \in Int
    BY <2>1
  <2>3. j <= i /\ i <= j
    BY <1>2, <2>1, SMT
  <2>4. QED
    BY <2>2, <2>3 DEF j
<1>5. QED
  BY <1>1, <1>2, <1>3, <1>4

LEMMA ListOfItsMembers ==
    ASSUME NEW S, NEW s \in Seq(S)
    PROVE  s \in Seq(ToSet(s)) /\ ToSet(s) \subseteq S /\ ToSet(s) = {s[i] : i \in 1..Len(s)}
<1>1. s \in Seq(Range(s)) /\ Range(s) \subseteq S /\ Range(s) = {s[i] : i \in 1..Len(s)}
  BY SeqOfRange, RangeOfSeq, RangeEquality
<1>2. Range(s) = ToSet(s)
  BY DEF Range, ToSet
<1>3. QED
  BY <1>1, <1>2

LEMMA AtPositionsShape ==
    ASSUME NEW s, NEW I \in SUBSET Int, IsFiniteSet(I)
    PROVE  /\ AtPositions(s, I) \in Seq({s[i] : i \in I})
           /\ Len(AtPositions(s, I)) = Cardinality(I)
           /\ ToSet(AtPositions(s, I)) = {s[i] : i \in I}
           /\ \A k \in 1..Cardinality(I) : AtPositions(s, I)[k] = s[Nth(I, k)]
<1>. DEFINE t == AtPositions(s, I)
            n == Cardinality(I)
<1>1. /\ n \in Nat
      /\ \A k \in 1..n : Nth(I, k) \in I
      /\ \A i \in I : \E k \in 1..n : Nth(I, k) = i
  BY NthEnumerates
<1>2. t = [k \in 1..n |-> s[Nth(I, k)]]
  BY DEF AtPositions
<1>. HIDE DEF t, n
<1>3. t \in [1..n -> {s[i] : i \in I}]
  BY <1>1, <1>2
<1>4. t \in Seq({s[i] : i \in I}) /\ Len(t) = n
  BY <1>1, <1>3
<1>5. ToSet(t) = {s[i] : i \in I}
  BY <1>1, <1>2 DEF ToSet
<1>6. QED
  BY <1>2, <1>4, <1>5 DEF t, n

-----------------------------------------------------------------------------
(* Sorting and dropping duplicates *)

LEMMA SortedShape ==
    ASSUME NEW list \in Seq(Nat)
    PROVE  /\ Sorted(list) \in Seq(Nat)
           /\ Len(Sorted(list)) = Len(list)
           /\ ToSet(Sorted(list)) = ToSet(list)
           /\ \A k, l \in 1..Len(list) : k <= l => Sorted(list)[k] <= Sorted(list)[l]
<1>. DEFINE n == Len(list)
            I == 1..n
            B == [i \in I |-> {j \in I : list[j] < list[i] \/ (list[j] = list[i] /\ j <= i)}]
            at(k) == CHOOSE i \in I : Cardinality(B[i]) = k
<1>1. n \in Nat /\ I \subseteq Int /\ \A i \in I : list[i] \in Nat
  OBVIOUS
<1>2. IsFiniteSet(I) /\ Cardinality(I) = n
  BY <1>1, FS_Interval
<1>3. \A i, j \in I : j \in B[i] <=> (list[j] < list[i] \/ (list[j] = list[i] /\ j <= i))
  OBVIOUS
<1>4. B \in [I -> SUBSET I]
  OBVIOUS
<1>5. Sorted(list) = [k \in I |-> list[CHOOSE i \in I : Cardinality(
                        {j \in I : list[j] < list[i] \/ (list[j] = list[i] /\ j <= i)}) = k]]
  BY DEF Sorted
<1>6. \A i \in I : B[i] = {j \in I : list[j] < list[i] \/ (list[j] = list[i] /\ j <= i)}
  OBVIOUS
<1>. HIDE DEF B, I, n
<1>7. /\ \A i \in I : Cardinality(B[i]) \in 1..n
      /\ \A i, j \in I : j \in B[i] <=> Cardinality(B[j]) <= Cardinality(B[i])
      /\ \A k \in 1..n : \E i \in I : Cardinality(B[i]) = k
  <2>1. ASSUME NEW i \in I, NEW j \in I, j \in B[i], NEW k \in B[j]
        PROVE  k \in B[i]
    <3>1. k \in I
      BY <1>4
    <3>2. i \in Int /\ j \in Int /\ k \in Int
      BY <1>1, <3>1
    <3>3. list[i] \in Nat /\ list[j] \in Nat /\ list[k] \in Nat
      BY <1>1, <3>1
    <3>4. QED
      BY <1>3, <2>1, <3>1, <3>2, <3>3
  <2>2. ASSUME NEW i \in I, NEW j \in I
        PROVE  /\ i \in B[i]
               /\ i # j => j \notin B[i] \/ i \notin B[j]
               /\ j \in B[i] \/ i \in B[j]
    <3>1. i \in Int /\ j \in Int /\ list[i] \in Nat /\ list[j] \in Nat
      BY <1>1
    <3>2. QED
      BY <1>3, <3>1
  <2>3. QED
    BY <1>2, <1>4, <2>1, <2>2, Ranking
<1>8. ASSUME NEW k \in 1..n
      PROVE  at(k) \in I /\ Cardinality(B[at(k)]) = k
  BY <1>7
<1>9. \A k \in I : Sorted(list)[k] = list[at(k)]
  <2>1. ASSUME NEW k \in I PROVE at(k) = CHOOSE i \in I : Cardinality(
                 {j \in I : list[j] < list[i] \/ (list[j] = list[i] /\ j <= i)}) = k
    BY <1>6
  <2>2. QED
    BY <1>5, <2>1
<1>. HIDE DEF at
<1>10. DOMAIN Sorted(list) = I
  BY <1>5
<1>11. Sorted(list) \in [1..n -> Nat]
  <2>1. \A k \in I : list[at(k)] \in Nat
    BY <1>1, <1>8 DEF I
  <2>2. Sorted(list) = [k \in I |-> Sorted(list)[k]]
    BY <1>5
  <2>3. QED
    BY <1>9, <2>1, <2>2 DEF I
<1>12. Sorted(list) \in Seq(Nat) /\ Len(Sorted(list)) = n
  BY <1>1, <1>11
<1>13. ASSUME NEW i \in I PROVE at(Cardinality(B[i])) = i
  <2>. DEFINE k == Cardinality(B[i])
  <2>1. k \in 1..n /\ at(k) \in I /\ Cardinality(B[at(k)]) = k
    BY <1>7, <1>8
  <2>2. at(k) \in B[i] /\ i \in B[at(k)]
    BY <1>7, <2>1
  <2>. HIDE DEF k
  <2>3. i \in Int /\ at(k) \in Int /\ list[i] \in Nat /\ list[at(k)] \in Nat
    BY <1>1, <2>1
  <2>4. at(k) = i
    BY <1>3, <2>1, <2>2, <2>3
  <2>5. QED
    BY <2>4 DEF k
<1>14. ToSet(Sorted(list)) = ToSet(list)
  <2>1. ToSet(Sorted(list)) = {list[at(k)] : k \in I}
    BY <1>9, <1>10 DEF ToSet
  <2>2. \A k \in I : at(k) \in I
    BY <1>8 DEF I
  <2>3. \A i \in I : \E k \in I : at(k) = i
    BY <1>7, <1>13 DEF I
  <2>4. {list[at(k)] : k \in I} = {list[i] : i \in I}
    BY <2>2, <2>3
  <2>5. ToSet(list) = {list[i] : i \in I}
    BY DEF ToSet, I, n
  <2>6. QED
    BY <2>1, <2>4, <2>5
<1>15. ASSUME NEW k \in I, NEW l \in I, k <= l
       PROVE  Sorted(list)[k] <= Sorted(list)[l]
  <2>1. at(k) \in I /\ at(l) \in I /\ at(k) \in B[at(l)]
    BY <1>7, <1>8, <1>15 DEF I
  <2>2. list[at(k)] \in Nat /\ list[at(l)] \in Nat
    BY <1>1, <2>1
  <2>3. list[at(k)] <= list[at(l)]
    BY <1>3, <2>1, <2>2
  <2>4. QED
    BY <1>9, <2>3
<1>16. QED
  BY <1>12, <1>14, <1>15 DEF I, n

\* Strictly ascending, said of any two entries.
LEMMA AscendingPairs ==
    ASSUME NEW s \in Seq(Nat), \A k, l \in 1..Len(s) : k < l => s[k] < s[l]
    PROVE  Ascending(s)
BY DEF Ascending

LEMMA DedupedShape ==
    ASSUME NEW list \in Seq(Nat)
    PROVE  /\ Deduped(list) \in Seq(Nat)
           /\ ToSet(Deduped(list)) = ToSet(list)
           /\ \A k, l \in 1..Len(Deduped(list)) : k < l => Deduped(list)[k] < Deduped(list)[l]
<1>. DEFINE h == Sorted(list)
            n == Len(list)
            I == {i \in 1..n : i = 1 \/ h[i] # h[i-1]}
            d == AtPositions(h, I)
<1>1. /\ h \in Seq(Nat) /\ Len(h) = n /\ ToSet(h) = ToSet(list)
      /\ \A k, l \in 1..n : k <= l => h[k] <= h[l]
  BY SortedShape
<1>2. n \in Nat
  OBVIOUS
<1>3. Deduped(list) = d
  BY <1>1 DEF Deduped
<1>. HIDE DEF h, n
<1>4. I \in SUBSET Int /\ IsFiniteSet(I)
  <2>1. IsFiniteSet(1..n)
    BY <1>2, FS_Interval
  <2>2. I \in SUBSET (1..n) /\ 1..n \subseteq Int
    OBVIOUS
  <2>. HIDE DEF I
  <2>3. QED
    BY <2>1, <2>2, FS_Subset
<1>5. \A i \in 1..n : h[i] \in Nat
  BY <1>1
<1>6. \A i \in I : i \in 1..n /\ (i = 1 \/ h[i] # h[i-1])
  OBVIOUS
<1>7. \A i \in 1..n : i = 1 \/ h[i] # h[i-1] => i \in I
  OBVIOUS
<1>. HIDE DEF I
<1>8. /\ d \in Seq({h[i] : i \in I})
      /\ Len(d) = Cardinality(I)
      /\ ToSet(d) = {h[i] : i \in I}
      /\ \A k \in 1..Cardinality(I) : d[k] = h[Nth(I, k)]
  BY <1>4, AtPositionsShape
<1>. HIDE DEF d
<1>9. d \in Seq(Nat)
  <2>1. {h[i] : i \in I} \subseteq Nat
    BY <1>5, <1>6
  <2>2. QED
    BY <1>8, <2>1, SeqMonotonic
<1>10. ToSet(d) = ToSet(h)
  <2>1. ToSet(h) = {h[i] : i \in 1..n}
    <3>1. DOMAIN h = 1..n
      BY <1>1
    <3>2. QED
      BY <3>1 DEF ToSet
  <2>2. ASSUME NEW i \in 1..n
        PROVE  \E j \in I : h[j] = h[i]
    <3>. DEFINE same == {j \in 1..n : h[j] = h[i]}
    <3>1. PICK j \in same : \A k \in same : j <= k
      <4>1. same \in SUBSET Nat /\ same # {}
        OBVIOUS
      <4>. HIDE DEF same
      <4>2. QED
        BY <4>1, LeastNat
    <3>2. j \in 1..n /\ h[j] = h[i]
      OBVIOUS
    <3>3. CASE j = 1
      BY <1>7, <3>2, <3>3
    <3>4. CASE j # 1
      <4>1. j - 1 \in 1..n /\ ~(j <= j - 1)
        BY <1>2, <3>2, <3>4
      <4>2. j - 1 \notin same
        BY <3>1, <4>1
      <4>3. h[j-1] # h[i]
        BY <4>1, <4>2
      <4>4. QED
        BY <1>7, <3>2, <4>3
    <3>5. QED
      BY <3>3, <3>4
  <2>3. I \subseteq 1..n
    BY <1>6
  <2>4. {h[i] : i \in I} = {h[i] : i \in 1..n}
    BY <2>2, <2>3
  <2>5. QED
    BY <1>8, <2>1, <2>4
<1>11. ASSUME NEW k \in 1..Len(d), NEW l \in 1..Len(d), k < l
       PROVE  d[k] < d[l]
  <2>. DEFINE p == Nth(I, k)
              q == Nth(I, l)
  <2>1. p \in I /\ q \in I /\ p < q /\ d[k] = h[p] /\ d[l] = h[q]
    BY <1>4, <1>8, <1>11, NthEnumerates
  <2>. HIDE DEF p, q
  <2>2. p \in 1..n /\ q \in 1..n /\ q - 1 \in 1..n /\ p <= q - 1 /\ q # 1 /\ q - 1 <= q
    BY <1>2, <1>6, <2>1
  <2>3. h[p] <= h[q-1] /\ h[q-1] <= h[q] /\ h[q-1] # h[q]
    BY <1>1, <1>6, <2>1, <2>2
  <2>4. h[p] \in Nat /\ h[q-1] \in Nat /\ h[q] \in Nat
    BY <1>5, <2>2
  <2>5. QED
    BY <2>1, <2>3, <2>4
<1>12. QED
  BY <1>1, <1>3, <1>9, <1>10, <1>11

-----------------------------------------------------------------------------
(* Definition by recursion up to a bound *)

\* e is the start, and G what n and the value before make the value at n.
Recursion(N, S, e, G) == N \in Nat /\ e \in S /\ G \in [(1..N) \X S -> S]
Runs(N, S, e, G, f) ==
    f \in [0..N -> S] /\ f[0] = e /\ \A n \in 1..N : f[n] = G[<<n, f[n-1]>>]

LEMMA RecursionExists ==
    ASSUME NEW N, NEW S, NEW e, NEW G, Recursion(N, S, e, G)
    PROVE  \E f : Runs(N, S, e, G, f)
<1>. DEFINE Good(m, f) == /\ f \in [0..m -> S] /\ f[0] = e
                          /\ \A n \in 1..m : f[n] = G[<<n, f[n-1]>>]
            T == {m \in 0..N : \E f : Good(m, f)}
<1>. N \in Nat /\ e \in S /\ G \in [(1..N) \X S -> S]
  BY DEF Recursion
<1>1. 0 \in T
  <2>1. Good(0, [n \in 0..0 |-> e])
    OBVIOUS
  <2>. HIDE DEF Good
  <2>2. QED
    BY <2>1
<1>2. ASSUME NEW m \in 1..N, m - 1 \in T PROVE m \in T
  <2>1. PICK f : Good(m - 1, f)
    BY <1>2
  <2>2. f \in [0..m-1 -> S] /\ f[0] = e /\ \A n \in 1..m-1 : f[n] = G[<<n, f[n-1]>>]
    BY <2>1
  <2>. DEFINE x == G[<<m, f[m-1]>>]
              g == [n \in 0..m |-> IF n = m THEN x ELSE f[n]]
  <2>3. x \in S
    <3>1. f[m-1] \in S
      BY <2>2
    <3>2. <<m, f[m-1]>> \in (1..N) \X S
      BY <3>1
    <3>3. QED
      BY <3>2
  <2>. HIDE DEF x
  <2>4. g \in [0..m -> S] /\ g[0] = e
    BY <2>2, <2>3
  <2>5. g[m] = x /\ \A n \in 0..m-1 : g[n] = f[n]
    OBVIOUS
  <2>. HIDE DEF g
  <2>6. ASSUME NEW n \in 1..m PROVE g[n] = G[<<n, g[n-1]>>]
    <3>1. CASE n = m
      BY <2>5, <3>1 DEF x
    <3>2. CASE n # m
      <4>1. n \in 1..m-1 /\ n \in 0..m-1 /\ n - 1 \in 0..m-1
        BY <3>2
      <4>2. QED
        BY <2>2, <2>5, <4>1
    <3>3. QED
      BY <3>1, <3>2
  <2>7. Good(m, g)
    BY <2>4, <2>6
  <2>. HIDE DEF Good
  <2>8. QED
    BY <2>7
<1>. HIDE DEF Good
<1>3. T \in SUBSET Nat
  OBVIOUS
<1>. HIDE DEF T
<1>4. 0..N \subseteq T
  BY <1>1, <1>2, <1>3, UpTo
<1>5. PICK f : Good(N, f)
  BY <1>4 DEF T
<1>6. QED
  BY <1>5 DEF Good, Runs

-----------------------------------------------------------------------------
(* The binary search *)

\* The rounds of the loop narrow the range to where h belongs.
LEMMA SearchNarrows ==
    ASSUME NEW list \in Seq(Nat), NEW h \in Nat,
           \A k, l \in 1..Len(list) : k < l => list[k] < list[l]
    PROVE  LET at == SearchRange(list, h)[Len(list)].lo
           IN  /\ at \in 0..Len(list)
               /\ \A i \in 1..Len(list) : (i <= at => list[i] < h) /\ (i > at => h <= list[i])
<1>. DEFINE n == Len(list)
            R == [lo : 0..n, hi : 0..n]
            mid(r) == r.lo + (r.hi - r.lo) \div 2
            next(r) == IF r.lo = r.hi THEN r
                       ELSE IF list[mid(r) + 1] < h THEN [r EXCEPT !.lo = mid(r) + 1]
                       ELSE [r EXCEPT !.hi = mid(r)]
            start == [lo |-> 0, hi |-> n]
            Ok(r) == /\ r.lo <= r.hi
                     /\ \A i \in 1..n : (i <= r.lo => list[i] < h) /\ (i > r.hi => h <= list[i])
            Sound == {r \in R : Ok(r)}
            IsRun(f) == f = [k \in 0..n |-> IF k = 0 THEN start ELSE next(f[k-1])]
            range == SearchRange(list, h)
<1>1. /\ n \in Nat /\ \A i \in 1..n : list[i] \in Nat
      /\ \A k, l \in 1..n : k < l => list[k] < list[l]
  OBVIOUS
<1>2. range = CHOOSE f : IsRun(f)
  BY DEF SearchRange
<1>. HIDE DEF n
<1>3. start \in Sound
  BY <1>1
<1>4. ASSUME NEW r \in Sound
      PROVE  /\ next(r) \in Sound
             /\ r.lo = r.hi => next(r) = r
             /\ r.lo # r.hi => next(r).hi - next(r).lo < r.hi - r.lo
  <2>1. /\ r = [lo |-> r.lo, hi |-> r.hi]
        /\ r.lo \in 0..n /\ r.hi \in 0..n /\ r.lo <= r.hi
        /\ \A i \in 1..n : (i <= r.lo => list[i] < h) /\ (i > r.hi => h <= list[i])
    OBVIOUS
  <2>2. CASE r.lo = r.hi
    BY <2>2
  <2>3. CASE r.lo # r.hi
    <3>. DEFINE m == mid(r)
    <3>1. m \in Nat /\ r.lo <= m /\ m < r.hi /\ m + 1 \in 1..n
      BY <1>1, <2>1, <2>3
    <3>. HIDE DEF m, mid
    <3>2. CASE list[m + 1] < h
      <4>1. next(r) = [lo |-> m + 1, hi |-> r.hi]
        BY <2>1, <2>3, <3>2 DEF m
      <4>2. \A i \in 1..n : i <= m + 1 => list[i] < h
        BY <1>1, <3>1, <3>2
      <4>3. QED
        BY <1>1, <2>1, <2>3, <3>1, <4>1, <4>2
    <3>3. CASE ~(list[m + 1] < h)
      <4>1. next(r) = [lo |-> r.lo, hi |-> m]
        BY <2>1, <2>3, <3>3 DEF m
      <4>2. ASSUME NEW i \in 1..n, i > m PROVE h <= list[i]
        <5>1. i = m + 1 \/ list[m + 1] < list[i]
          BY <1>1, <3>1, <4>2
        <5>2. QED
          BY <1>1, <3>1, <3>3, <5>1
      <4>3. QED
        BY <1>1, <2>1, <2>3, <3>1, <4>1, <4>2
    <3>4. QED
      BY <3>2, <3>3
  <2>4. QED
    BY <2>2, <2>3
<1>. HIDE DEF next, mid, Ok, R
<1>5. \E f : IsRun(f)
  <2>. DEFINE G == [p \in (1..n) \X Sound |-> next(p[2])]
  <2>1. G \in [(1..n) \X Sound -> Sound]
    BY <1>4
  <2>2. \A k \in 1..n, r \in Sound : G[<<k, r>>] = next(r)
    OBVIOUS
  <2>. HIDE DEF G
  <2>3. PICK f : Runs(n, Sound, start, G, f)
    <3>1. Recursion(n, Sound, start, G)
      BY <1>1, <1>3, <2>1 DEF Recursion
    <3>2. QED
      BY <3>1, RecursionExists
  <2>. f \in [0..n -> Sound] /\ f[0] = start /\ \A k \in 1..n : f[k] = G[<<k, f[k-1]>>]
    BY <2>3 DEF Runs
  <2>4. \A k \in 1..n : f[k] = next(f[k-1])
    <3>1. \A k \in 1..n : k - 1 \in 0..n
      BY <1>1
    <3>2. QED
      BY <2>2, <3>1
  <2>5. IsRun(f)
    BY <2>4
  <2>6. QED
    BY <2>5
<1>6. IsRun(range)
  BY <1>2, <1>5
<1>. DEFINE T == {k \in 0..n : range[k] \in Sound /\ range[k].hi - range[k].lo <= n - k}
<1>7. 0 \in T
  BY <1>1, <1>3, <1>6
<1>8. ASSUME NEW k \in 1..n, k - 1 \in T PROVE k \in T
  <2>. DEFINE r == range[k-1]
  <2>1. r \in Sound /\ r.hi - r.lo <= n - (k - 1) /\ k - 1 \in 0..n
    BY <1>8
  <2>2. range[k] = next(r)
    BY <1>1, <1>6
  <2>. HIDE DEF r
  <2>3. r.lo \in 0..n /\ r.hi \in 0..n /\ next(r).lo \in 0..n /\ next(r).hi \in 0..n
    BY <1>4, <2>1 DEF R
  <2>4. next(r).hi - next(r).lo <= n - k
    BY <1>1, <1>4, <2>1, <2>3
  <2>5. QED
    BY <1>4, <2>1, <2>2, <2>4
<1>. HIDE DEF range
<1>9. 0..n \subseteq T
  <2>1. T \in SUBSET Nat
    OBVIOUS
  <2>. HIDE DEF T
  <2>2. QED
    BY <1>1, <1>7, <1>8, <2>1, UpTo
<1>10. range[n] \in Sound /\ range[n].hi - range[n].lo <= 0
  BY <1>1, <1>9
<1>11. range[n].lo \in 0..n /\ range[n].hi = range[n].lo
  BY <1>1, <1>10 DEF R, Ok
<1>12. QED
  BY <1>10, <1>11 DEF Ok, range, n

\* blob_contains finds in an ascending list what is in it, and nothing else.
THEOREM SearchFinds ==
    ASSUME NEW list \in Seq(Nat), NEW h \in Nat,
           \A k, l \in 1..Len(list) : k < l => list[k] < list[l]
    PROVE  BlobContains(list, h) <=> h \in ToSet(list)
<1>. DEFINE at == SearchRange(list, h)[Len(list)].lo
<1>1. /\ at \in 0..Len(list)
      /\ \A i \in 1..Len(list) : (i <= at => list[i] < h) /\ (i > at => h <= list[i])
  BY SearchNarrows
<1>2. BlobContains(list, h) <=> at < Len(list) /\ list[at + 1] = h
  BY DEF BlobContains
<1>. HIDE DEF at
<1>3. Len(list) \in Nat /\ DOMAIN list = 1..Len(list) /\ \A i \in 1..Len(list) : list[i] \in Nat
  OBVIOUS
<1>4. ASSUME BlobContains(list, h) PROVE h \in ToSet(list)
  <2>1. at + 1 \in 1..Len(list) /\ list[at + 1] = h
    BY <1>1, <1>2, <1>3, <1>4
  <2>2. QED
    BY <1>3, <2>1 DEF ToSet
<1>5. ASSUME NEW i \in 1..Len(list), list[i] = h PROVE BlobContains(list, h)
  <2>1. i > at /\ at + 1 \in 1..Len(list) /\ at < Len(list) /\ at + 1 > at
    BY <1>1, <1>3, <1>5
  <2>2. h <= list[at + 1] /\ (at + 1 < i => list[at + 1] < list[i]) /\ list[at + 1] \in Nat
    BY <1>1, <1>3, <2>1
  <2>3. at + 1 = i
    BY <1>1, <1>3, <1>5, <2>1, <2>2
  <2>4. QED
    BY <1>2, <1>5, <2>1, <2>3
<1>6. QED
  BY <1>3, <1>4, <1>5 DEF ToSet

-----------------------------------------------------------------------------
(* What parse_line hands to the sink *)

LEMMA Extremes ==
    ASSUME NEW n \in Nat, NEW I \in SUBSET (0..n), I # {}
    PROVE  /\ Min(I) \in I /\ \A i \in I : Min(I) <= i
           /\ Max(I) \in I /\ \A i \in I : i <= Max(I)
<1>1. \E i \in I : \A j \in I : i <= j
  BY LeastNat
<1>2. \E i \in I : \A j \in I : i >= j
  <2>. DEFINE J == {n - i : i \in I}
  <2>1. J \in SUBSET Nat /\ J # {}
    <3>1. \A i \in I : n - i \in Nat
      OBVIOUS
    <3>2. QED
      BY <3>1
  <2>2. PICK x \in J : \A y \in J : x <= y
    BY <2>1, LeastNat
  <2>3. PICK i \in I : x = n - i
    BY <2>2
  <2>4. ASSUME NEW j \in I PROVE i >= j
    <3>1. n - i <= n - j
      BY <2>2, <2>3
    <3>2. i \in Int /\ j \in Int
      OBVIOUS
    <3>3. QED
      BY <3>1, <3>2
  <2>5. QED
    BY <2>4
<1>3. \A i, j \in I : i >= j <=> j <= i
  OBVIOUS
<1>4. QED
  BY <1>1, <1>2, <1>3 DEF Min, Max

LEMMA MinOfTwo ==
    ASSUME NEW a \in Nat, NEW b \in Nat
    PROVE  Min({a, b}) = (IF a <= b THEN a ELSE b)
<1>1. {a, b} \in SUBSET (0..(a + b)) /\ {a, b} # {} /\ a + b \in Nat
  OBVIOUS
<1>2. Min({a, b}) \in {a, b} /\ Min({a, b}) <= a /\ Min({a, b}) <= b
  BY <1>1, Extremes
<1>3. QED
  BY <1>2

LEMMA NonEmptyShape ==
    ASSUME NEW list, Len(list) \in Nat
    PROVE  /\ NonEmpty(list) \in Seq(ToSet(NonEmpty(list)))
           /\ ToSet(NonEmpty(list)) = {list[i] : i \in {k \in 1..Len(list) : list[k] # <<>>}}
<1>. DEFINE n == Len(list)
            I == {i \in 1..n : list[i] # <<>>}
<1>1. IsFiniteSet(1..n)
  BY FS_Interval
<1>2. I \in SUBSET (1..n) /\ 1..n \subseteq Int
  OBVIOUS
<1>3. NonEmpty(list) = AtPositions(list, I)
  BY DEF NonEmpty
<1>. HIDE DEF I
<1>4. I \in SUBSET Int /\ IsFiniteSet(I)
  BY <1>1, <1>2, FS_Subset
<1>5. ToSet(AtPositions(list, I)) = {list[i] : i \in I}
      /\ AtPositions(list, I) \in Seq({list[i] : i \in I})
  BY <1>4, AtPositionsShape
<1>6. QED
  BY <1>3, <1>5 DEF I

LEMMA TwoMembers ==
    ASSUME NEW a, NEW b, a # b
    PROVE  Cardinality({a, b}) = 2
<1>1. IsFiniteSet({a}) /\ Cardinality({a}) = 1
  BY FS_Singleton
<1>2. Cardinality({a} \cup {b}) = Cardinality({a}) + 1
  <2>1. b \notin {a}
    OBVIOUS
  <2>2. QED
    BY <1>1, <2>1, FS_AddElement, Zenon
<1>3. {a} \cup {b} = {a, b}
  OBVIOUS
<1>4. QED
  BY <1>1, <1>2, <1>3

LEMMA SplitShape ==
    ASSUME NEW s, NEW seps, Len(s) \in Nat
    PROVE  LET cuts == {0, Len(s) + 1} \cup {i \in 1..Len(s) : s[i] \in seps}
           IN  /\ Len(Split(s, seps)) \in Nat
               /\ Len(Split(s, seps)) = Cardinality(cuts) - 1
               /\ IsFiniteSet(cuts) /\ Cardinality(cuts) >= 2
<1>. DEFINE n == Len(s)
            cuts == {0, n + 1} \cup {i \in 1..n : s[i] \in seps}
            piece(k) == SubSeq(s, Nth(cuts, k) + 1, Nth(cuts, k + 1) - 1)
            c == Cardinality(cuts)
<1>1. cuts \in SUBSET (0..(n + 1)) /\ {0, n + 1} \in SUBSET cuts /\ 0 # n + 1
  OBVIOUS
<1>2. Split(s, seps) = [k \in 1..(c - 1) |-> piece(k)]
  BY DEF Split
<1>. HIDE DEF cuts, piece
<1>3. IsFiniteSet(0..(n + 1))
  BY FS_Interval
<1>4. IsFiniteSet(cuts)
  BY <1>1, <1>3, FS_Subset
<1>5. Cardinality({0, n + 1}) = 2
  BY <1>1, TwoMembers
<1>6. c \in Nat /\ c >= 2
  BY <1>1, <1>4, <1>5, FS_Subset, FS_CardinalityType
<1>. HIDE DEF c, n
<1>7. Split(s, seps) \in [1..(c - 1) -> {piece(k) : k \in 1..(c - 1)}] /\ c - 1 \in Nat
  BY <1>2, <1>6
<1>8. Len(Split(s, seps)) = c - 1
  BY <1>7
<1>9. QED
  BY <1>4, <1>6, <1>8 DEF c, n, cuts

LEMMA TrimShape ==
    ASSUME NEW C, NEW s \in Seq(C)
    PROVE  Trim(s) \in Seq(C)
<1>. DEFINE solid == {i \in DOMAIN s : s[i] \notin Spaces}
<1>1. solid \in SUBSET (0..Len(s)) /\ Len(s) \in Nat /\ solid \in SUBSET (1..Len(s))
  OBVIOUS
<1>2. Trim(s) = (IF solid = {} THEN <<>> ELSE SubSeq(s, Min(solid), Max(solid)))
  BY DEF Trim
<1>. HIDE DEF solid
<1>3. CASE solid = {}
  BY <1>2, <1>3
<1>4. CASE solid # {}
  <2>1. Min(solid) \in 1..Len(s) /\ Max(solid) \in 1..Len(s)
    BY <1>1, <1>4, Extremes
  <2>2. SubSeq(s, Min(solid), Max(solid)) \in Seq(C)
    BY <2>1, SubSeqProperties
  <2>3. QED
    BY <1>2, <1>4, <2>2
<1>5. QED
  BY <1>3, <1>4

LEMMA BeforeCommentShape ==
    ASSUME NEW C, NEW ln \in Seq(C)
    PROVE  BeforeComment(ln) \in Seq(C)
<1>. DEFINE I == {i \in 1..Len(ln) : ln[i] = "#"}
            hash == IF I # {} THEN Min(I) ELSE 0
<1>1. I \in SUBSET (0..Len(ln)) /\ Len(ln) \in Nat /\ I \in SUBSET (1..Len(ln))
  OBVIOUS
<1>2. BeforeComment(ln) = (IF hash = 0 THEN ln ELSE SubSeq(ln, 1, hash - 1))
  BY DEF BeforeComment, SelectInSeq
<1>3. hash \in 0..Len(ln)
  <2>. HIDE DEF I
  <2>1. I # {} => Min(I) \in I
    BY <1>1, Extremes
  <2>2. I # {} => Min(I) \in 0..Len(ln)
    BY <1>1, <2>1
  <2>3. 0 \in 0..Len(ln)
    BY <1>1
  <2>4. QED
    BY <2>2, <2>3
<1>. HIDE DEF hash
<1>4. SubSeq(ln, 1, hash - 1) \in Seq(C)
  BY <1>1, <1>3, SubSeqProperties
<1>5. QED
  BY <1>2, <1>4

LEMMA NamesShape ==
    ASSUME NEW text, Len(text) \in Nat
    PROVE  Names(text) \in Seq(ToSet(Names(text)))
<1>. DEFINE words == NonEmpty(Split(text, Spaces))
            first == IF Ipv4Shape(words[1]) \/ ":" \in ToSet(words[1]) THEN 2 ELSE 1
            last == Min({MaxTokens, Len(words)})
<1>1. words \in Seq(ToSet(words))
  BY SplitShape, NonEmptyShape
<1>2. Names(text) = SubSeq(words, first, last)
  BY DEF Names
<1>3. first \in 1..2
  OBVIOUS
<1>. HIDE DEF words, first
<1>4. Len(words) \in Nat /\ MaxTokens \in Nat
  BY <1>1, PipelineAssumption
<1>5. last \in 0..Len(words)
  BY <1>4, MinOfTwo
<1>. HIDE DEF last
<1>6. SubSeq(words, first, last) \in Seq(ToSet(words))
  BY <1>1, <1>3, <1>4, <1>5, SubSeqProperties
<1>7. QED
  BY <1>2, <1>6, ListOfItsMembers

\* The names of a line are a list, none of them is empty, and a line that
\* overflowed has none.
LEMMA ParseLineShape ==
    ASSUME NEW C, NEW ln \in Seq(C)
    PROVE  /\ ParseLine(ln) \in Seq(ToSet(ParseLine(ln)))
           /\ Len(ln) > MaxLine => ParseLine(ln) = <<>>
           /\ \A nm \in ToSet(ParseLine(ln)) :
                 nm # <<>> /\ \E token : nm = NormalizeDomain(token)
<1>. DEFINE text == Trim(BeforeComment(ln))
            tokens == IF text = <<>> \/ Len(ln) > MaxLine \/ NeverBlocks(text) THEN <<>>
                      ELSE IF IsPrefix(<<"|", "|">>, text) THEN RuleBody(text)
                      ELSE Names(text)
            domains == [i \in DOMAIN tokens |-> NormalizeDomain(tokens[i])]
<1>1. text \in Seq(C)
  BY BeforeCommentShape, TrimShape
<1>2. ParseLine(ln) = NonEmpty(domains)
  BY DEF ParseLine
<1>. HIDE DEF text
<1>3. Len(text) \in Nat
  BY <1>1
<1>4. Len(tokens) \in Nat /\ DOMAIN tokens = 1..Len(tokens)
  <2>1. CASE tokens = <<>>
    BY <2>1
  <2>2. CASE tokens = RuleBody(text)
    <3>1. RuleBody(text) = <<>> \/ \E x : RuleBody(text) = <<x>>
      BY DEF RuleBody
    <3>. HIDE DEF tokens
    <3>2. QED
      BY <2>2, <3>1
  <2>3. CASE tokens = Names(text)
    <3>1. tokens \in Seq(ToSet(Names(text)))
      BY <1>3, <2>3, NamesShape
    <3>. HIDE DEF tokens
    <3>2. QED
      BY <3>1
  <2>4. QED
    BY <2>1, <2>2, <2>3
<1>5. Len(ln) > MaxLine => tokens = <<>>
  OBVIOUS
<1>6. \A k \in DOMAIN domains : \E token : domains[k] = NormalizeDomain(token)
  OBVIOUS
<1>7. DOMAIN domains = DOMAIN tokens
  OBVIOUS
<1>. HIDE DEF tokens
<1>8. Len(domains) \in Nat /\ DOMAIN domains = 1..Len(domains)
  BY <1>4, <1>7
<1>9. tokens = <<>> => domains = <<>>
  BY <1>4
<1>. HIDE DEF domains
<1>10. /\ NonEmpty(domains) \in Seq(ToSet(NonEmpty(domains)))
       /\ ToSet(NonEmpty(domains)) =
             {domains[k] : k \in {i \in 1..Len(domains) : domains[i] # <<>>}}
  BY <1>8, NonEmptyShape
<1>11. domains = <<>> => NonEmpty(domains) = <<>>
  <2>. SUFFICES ASSUME domains = <<>> PROVE NonEmpty(domains) = <<>>
    OBVIOUS
  <2>1. ToSet(NonEmpty(domains)) = {}
    BY <1>8, <1>10
  <2>2. QED
    BY <1>10, <2>1
<1>12. QED
  BY <1>2, <1>5, <1>6, <1>8, <1>9, <1>10, <1>11

-----------------------------------------------------------------------------
(* The lines of a text *)

LineStart(text, b) == Max({0} \cup {a \in Newlines(text) : a < b})

LEMMA LineShape ==
    ASSUME NEW C, NEW T \in Seq(C), NEW b \in 1..(Len(T) + 1)
    PROVE  /\ LineStart(T, b) \in 0..(b - 1)
           /\ \A a \in 1..(b - 1) : T[a] = "\n" => a <= LineStart(T, b)
           /\ LineStart(T, b) = 0 \/ T[LineStart(T, b)] = "\n"
           /\ Line(T, b) = SubSeq(T, LineStart(T, b) + 1, b - 1)
           /\ Line(T, b) \in Seq(C)
           /\ Len(Line(T, b)) = b - 1 - LineStart(T, b)
<1>. DEFINE st == LineStart(T, b)
            I == {0} \cup {a \in Newlines(T) : a < b}
<1>1. Len(T) \in Nat /\ b \in Nat
  OBVIOUS
<1>2. \A a : a \in I <=> a = 0 \/ (a \in 1..Len(T) /\ T[a] = "\n" /\ a < b)
  BY DEF Newlines
<1>3. st = Max(I) /\ Line(T, b) = SubSeq(T, st + 1, b - 1)
  BY DEF LineStart, Line
<1>. HIDE DEF I, st
<1>4. I \in SUBSET (0..Len(T)) /\ I # {}
  BY <1>1, <1>2
<1>5. st \in I /\ \A a \in I : a <= st
  BY <1>1, <1>3, <1>4, Extremes
<1>6. st \in 0..(b - 1) /\ (st = 0 \/ T[st] = "\n")
  BY <1>1, <1>2, <1>5
<1>7. \A a \in 1..(b - 1) : T[a] = "\n" => a <= st
  BY <1>1, <1>2, <1>5
<1>8. /\ SubSeq(T, st + 1, b - 1) \in Seq(C)
      /\ Len(SubSeq(T, st + 1, b - 1)) = IF st + 1 <= b - 1 THEN b - 1 - (st + 1) + 1 ELSE 0
  BY <1>1, <1>6, SubSeqProperties
<1>9. Len(SubSeq(T, st + 1, b - 1)) = b - 1 - st
  BY <1>1, <1>6, <1>8
<1>10. QED
  BY <1>3, <1>6, <1>7, <1>8, <1>9 DEF st

\* A line goes on as long as no newline comes.
LEMMA LineGrows ==
    ASSUME NEW C, NEW T \in Seq(C), NEW p \in 0..Len(T), NEW q \in p..Len(T),
           \A a \in (p + 1)..q : T[a] # "\n"
    PROVE  Line(T, q + 1) = Line(T, p + 1) \o SubSeq(T, p + 1, q)
<1>. DEFINE st == LineStart(T, p + 1)
<1>1. Len(T) \in Nat /\ p \in Nat /\ q \in Nat /\ p <= q
  OBVIOUS
<1>2. \A a : (a \in Newlines(T) /\ a < q + 1) <=> (a \in Newlines(T) /\ a < p + 1)
  BY <1>1 DEF Newlines
<1>3. {a \in Newlines(T) : a < q + 1} = {a \in Newlines(T) : a < p + 1}
  BY <1>2
<1>4. LineStart(T, q + 1) = st
  BY <1>3 DEF LineStart
<1>. HIDE DEF st
<1>5. st \in 0..p /\ Line(T, p + 1) = SubSeq(T, st + 1, p)
  BY <1>1, LineShape DEF st
<1>6. Line(T, q + 1) = SubSeq(T, st + 1, q)
  BY <1>1, <1>4, LineShape
<1>7. SubSeq(T, st + 1, p) \o SubSeq(T, p + 1, q) = SubSeq(T, st + 1, q)
  <2>1. st + 1 \in 1..(Len(T) + 1) /\ p \in ((st + 1) - 1)..Len(T) /\ q \in p..Len(T)
    BY <1>1, <1>5
  <2>2. QED
    BY <2>1, ConcatAdjacentSubSeq
<1>8. QED
  BY <1>5, <1>6, <1>7

\* After a newline, a line is empty.
LEMMA LineRestarts ==
    ASSUME NEW C, NEW T \in Seq(C), NEW q \in 0..Len(T), q = 0 \/ T[q] = "\n"
    PROVE  Line(T, q + 1) = <<>>
<1>1. q + 1 \in 1..(Len(T) + 1) /\ q \in Nat /\ q + 1 - 1 = q
  OBVIOUS
<1>2. LineStart(T, q + 1) = q
  BY <1>1, LineShape
<1>3. Line(T, q + 1) \in Seq(C) /\ Len(Line(T, q + 1)) = 0
  BY <1>1, <1>2, LineShape
<1>4. QED
  BY <1>3

LEMMA EndedGrows ==
    ASSUME NEW C, NEW T \in Seq(C), NEW p \in 0..Len(T), NEW q \in p..Len(T),
           \A a \in (p + 1)..q : T[a] # "\n"
    PROVE  Ended(T, q) = Ended(T, p)
<1>1. Len(T) \in Nat /\ p \in Nat /\ q \in Nat /\ p <= q
  OBVIOUS
<1>2. \A a : (a \in Newlines(T) /\ a <= q) <=> (a \in Newlines(T) /\ a <= p)
  BY <1>1 DEF Newlines
<1>3. {i \in Newlines(T) : i <= q} = {i \in Newlines(T) : i <= p}
  BY <1>2
<1>4. QED
  BY <1>3 DEF Ended

LEMMA EndedNext ==
    ASSUME NEW C, NEW T \in Seq(C), NEW p \in 0..Len(T), NEW e \in (p + 1)..Len(T),
           T[e] = "\n", \A a \in (p + 1)..(e - 1) : T[a] # "\n"
    PROVE  Ended(T, e) = Ended(T, p) \cup {Line(T, e)}
<1>1. Len(T) \in Nat /\ p \in Nat /\ e \in Nat /\ p < e
  OBVIOUS
<1>2. \A a : (a \in Newlines(T) /\ a <= e) <=> ((a \in Newlines(T) /\ a <= p) \/ a = e)
  BY <1>1 DEF Newlines
<1>3. {i \in Newlines(T) : i <= e} = {i \in Newlines(T) : i <= p} \cup {e}
  BY <1>2
<1>4. QED
  BY <1>3 DEF Ended

LEMMA EndedNothing ==
    ASSUME NEW T, Len(T) \in Nat
    PROVE  Ended(T, 0) = {}
BY DEF Ended, Newlines

\* What fits of a text that grows is what fits of what fitted and what was added.
LEMMA KeptGrows ==
    ASSUME NEW C, NEW x \in Seq(C), NEW y \in Seq(C)
    PROVE  /\ Kept(x) \in Seq(C) /\ Len(Kept(x)) <= MaxLine
           /\ Len(x) <= MaxLine => Kept(x) = x
           /\ Kept(Kept(x) \o y) = Kept(x \o y)
           /\ Len(x) > MaxLine \/ Len(Kept(x) \o y) > MaxLine <=> Len(x \o y) > MaxLine
<1>. DEFINE m(t) == Min({MaxLine, Len(t)})
<1>1. MaxLine \in Nat /\ Len(x) \in Nat /\ Len(y) \in Nat
  BY PipelineAssumption
<1>2. ASSUME NEW t \in Seq(C)
      PROVE  /\ Kept(t) \in Seq(C) /\ Len(t) \in Nat
             /\ Len(t) <= MaxLine => Len(Kept(t)) = Len(t)
             /\ Len(t) >= MaxLine => Len(Kept(t)) = MaxLine
             /\ Len(Kept(t)) <= MaxLine
             /\ \A i \in 1..Len(Kept(t)) : Kept(t)[i] = t[i]
  <2>. DEFINE n == IF MaxLine <= Len(t) THEN MaxLine ELSE Len(t)
  <2>1. Kept(t) = SubSeq(t, 1, n)
    BY <1>1, MinOfTwo DEF Kept
  <2>2. /\ n \in 0..Len(t) /\ Len(t) \in Nat
        /\ Len(t) <= MaxLine => n = Len(t)
        /\ Len(t) >= MaxLine => n = MaxLine
        /\ n <= MaxLine
    BY <1>1
  <2>. HIDE DEF n
  <2>3. SubSeq(t, 1, n) \in Seq(C) /\ Len(SubSeq(t, 1, n)) = n
        /\ \A i \in 1..n : SubSeq(t, 1, n)[i] = t[i]
    <3>1. \A i \in 1..n : t[i] \in C
      BY <2>2
    <3>2. n \in Int /\ n - 1 + 1 = n /\ \A i \in 1..n : 1 + i - 1 = i
      BY <2>2
    <3>3. QED
      BY <2>2, <3>1, <3>2, SubSeqProperties
  <2>4. QED
    BY <2>1, <2>2, <2>3
<1>3. ASSUME Len(x) <= MaxLine PROVE Kept(x) = x
  <2>1. Len(Kept(x)) = Len(x) /\ Kept(x) \in Seq(C) /\ \A i \in 1..Len(x) : Kept(x)[i] = x[i]
    BY <1>1, <1>2, <1>3
  <2>2. QED
    BY <2>1, SeqEqual
<1>4. Kept(x) \o y \in Seq(C) /\ Len(Kept(x) \o y) = Len(Kept(x)) + Len(y)
      /\ x \o y \in Seq(C) /\ Len(x \o y) = Len(x) + Len(y)
  BY <1>2, ConcatProperties
<1>5. ASSUME Len(x) > MaxLine
      PROVE  Kept(Kept(x) \o y) = Kept(x \o y) /\ Len(x \o y) > MaxLine
  <2>. DEFINE u == Kept(x) \o y
              v == x \o y
  <2>1. /\ u \in Seq(C) /\ Len(u) = MaxLine + Len(y)
        /\ v \in Seq(C) /\ Len(v) = Len(x) + Len(y)
        /\ Kept(x) \in Seq(C) /\ Len(Kept(x)) = MaxLine
    <3>1. Len(x) >= MaxLine
      BY <1>1, <1>5
    <3>2. Kept(x) \in Seq(C) /\ Len(Kept(x)) = MaxLine
      BY <1>2, <3>1
    <3>3. QED
      BY <1>4, <3>2
  <2>2. ASSUME NEW i \in 1..MaxLine PROVE u[i] = v[i]
    <3>1. /\ i \in 1..(Len(Kept(x)) + Len(y)) /\ i <= Len(Kept(x))
          /\ i \in 1..(Len(x) + Len(y)) /\ i <= Len(x)
      BY <1>1, <1>5, <2>1
    <3>2. u[i] = Kept(x)[i]
      BY <2>1, <3>1, ConcatProperties
    <3>3. v[i] = x[i]
      BY <3>1, ConcatProperties
    <3>4. Kept(x)[i] = x[i]
      BY <1>2, <2>1
    <3>5. QED
      BY <3>2, <3>3, <3>4
  <2>. HIDE DEF u, v
  <2>3. Len(u) \in Nat /\ Len(v) \in Nat /\ Len(u) >= MaxLine /\ Len(v) > MaxLine
    BY <1>1, <1>5, <2>1
  <2>4. Len(Kept(u)) = MaxLine /\ Kept(u) \in Seq(C)
    BY <1>1, <1>2, <2>1, <2>3
  <2>5. Len(Kept(v)) = MaxLine /\ Kept(v) \in Seq(C)
    BY <1>2, <2>1, <2>3
  <2>6. ASSUME NEW i \in 1..MaxLine PROVE Kept(u)[i] = Kept(v)[i]
    BY <1>2, <2>1, <2>2, <2>4, <2>5
  <2>7. Kept(u) = Kept(v)
    BY <2>4, <2>5, <2>6, SeqEqual
  <2>8. QED
    BY <2>3, <2>7 DEF u, v
<1>6. Kept(x) \in Seq(C) /\ Len(Kept(x)) <= MaxLine
  BY <1>1, <1>2
<1>7. CASE Len(x) <= MaxLine
  BY <1>1, <1>3, <1>6, <1>7
<1>8. CASE Len(x) > MaxLine
  BY <1>1, <1>5, <1>6, <1>8
<1>9. QED
  BY <1>1, <1>7, <1>8

\* The scan stops at the first newline.
LEMMA FirstNewline ==
    ASSUME NEW C, NEW s \in Seq(C)
    PROVE  LET eol == SelectInSeq(s, LAMBDA c : c = "\n")
           IN  \/ eol = 0 /\ \A a \in 1..Len(s) : s[a] # "\n"
               \/ /\ eol \in 1..Len(s) /\ s[eol] = "\n"
                  /\ \A a \in 1..(eol - 1) : s[a] # "\n"
<1>. DEFINE I == {i \in 1..Len(s) : s[i] = "\n"}
            eol == IF I # {} THEN Min(I) ELSE 0
<1>1. SelectInSeq(s, LAMBDA c : c = "\n") = eol
  BY DEF SelectInSeq
<1>2. Len(s) \in Nat /\ I \in SUBSET (0..Len(s)) /\ I \in SUBSET (1..Len(s))
  OBVIOUS
<1>3. \A i \in 1..Len(s) : i \in I <=> s[i] = "\n"
  OBVIOUS
<1>. HIDE DEF I
<1>4. CASE I = {}
  BY <1>1, <1>3, <1>4
<1>5. CASE I # {}
  <2>1. Min(I) \in I /\ \A i \in I : Min(I) <= i
    BY <1>2, <1>5, Extremes
  <2>2. Min(I) \in 1..Len(s) /\ s[Min(I)] = "\n"
    BY <1>2, <1>3, <2>1
  <2>3. ASSUME NEW a \in 1..(Min(I) - 1) PROVE s[a] # "\n"
    <3>1. a \in 1..Len(s) /\ ~(Min(I) <= a)
      BY <1>2, <2>2
    <3>2. QED
      BY <1>3, <2>1, <3>1
  <2>4. QED
    BY <1>1, <1>5, <2>2, <2>3
<1>6. QED
  BY <1>4, <1>5

-----------------------------------------------------------------------------
(* Lists and the set of their members *)

LEMMA PartsOfPart ==
    ASSUME NEW C, NEW T \in Seq(C), NEW q \in 0..Len(T), NEW r \in q..Len(T),
           NEW i \in 0..(r - q)
    PROVE  /\ SubSeq(T, q + 1, r) \in Seq(C) /\ Len(SubSeq(T, q + 1, r)) = r - q
           /\ SubSeq(SubSeq(T, q + 1, r), 1, i) = SubSeq(T, q + 1, q + i)
           /\ SubSeq(SubSeq(T, q + 1, r), i + 1, r - q) = SubSeq(T, q + i + 1, r)
<1>. DEFINE s == SubSeq(T, q + 1, r)
<1>1. Len(T) \in Nat /\ q \in Nat /\ r \in Nat /\ i \in Nat /\ q <= r /\ i <= r - q /\ r <= Len(T)
  OBVIOUS
<1>2. ASSUME NEW a \in 0..Len(T), NEW b \in a..Len(T)
      PROVE  /\ SubSeq(T, a + 1, b) \in Seq(C) /\ Len(SubSeq(T, a + 1, b)) = b - a
             /\ \A k \in 1..(b - a) : SubSeq(T, a + 1, b)[k] = T[a + k]
  <2>1. \A k \in (a + 1)..b : T[k] \in C
    BY <1>1
  <2>2. /\ SubSeq(T, a + 1, b) \in Seq(C)
        /\ Len(SubSeq(T, a + 1, b)) = IF a + 1 <= b THEN b - (a + 1) + 1 ELSE 0
        /\ \A k \in 1..(b - (a + 1) + 1) : SubSeq(T, a + 1, b)[k] = T[a + 1 + k - 1]
    BY <1>1, <2>1, SubSeqProperties
  <2>3. b - (a + 1) + 1 = b - a /\ \A k \in Int : a + 1 + k - 1 = a + k
    BY <1>1
  <2>4. QED
    BY <1>1, <2>2, <2>3
<1>3. s \in Seq(C) /\ Len(s) = r - q /\ \A k \in 1..(r - q) : s[k] = T[q + k]
  BY <1>1, <1>2
<1>. HIDE DEF s
<1>4. SubSeq(s, 1, i) = SubSeq(T, q + 1, q + i)
  <2>1. \A k \in 1..i : s[k] \in C
    BY <1>1, <1>3
  <2>2. SubSeq(s, 1, i) \in Seq(C) /\ Len(SubSeq(s, 1, i)) = i
        /\ \A k \in 1..i : SubSeq(s, 1, i)[k] = s[k]
    <3>1. \A k \in Int : 1 + k - 1 = k
      OBVIOUS
    <3>2. i - 1 + 1 = i
      BY <1>1
    <3>3. QED
      BY <1>1, <2>1, <3>1, <3>2, SubSeqProperties
  <2>3. q + i \in q..Len(T) /\ (q + i) - q = i
    BY <1>1
  <2>4. SubSeq(T, q + 1, q + i) \in Seq(C) /\ Len(SubSeq(T, q + 1, q + i)) = i
        /\ \A k \in 1..i : SubSeq(T, q + 1, q + i)[k] = T[q + k]
    BY <1>2, <2>3
  <2>5. \A k \in 1..i : s[k] = T[q + k]
    BY <1>1, <1>3
  <2>6. QED
    BY <2>2, <2>4, <2>5, SeqEqual
<1>5. SubSeq(s, i + 1, r - q) = SubSeq(T, q + i + 1, r)
  <2>. DEFINE n == r - q - i
  <2>1. \A k \in (i + 1)..(r - q) : s[k] \in C
    BY <1>1, <1>3
  <2>2. SubSeq(s, i + 1, r - q) \in Seq(C) /\ Len(SubSeq(s, i + 1, r - q)) = n
        /\ \A k \in 1..n : SubSeq(s, i + 1, r - q)[k] = s[i + k]
    <3>1. \A k \in Int : i + 1 + k - 1 = i + k
      BY <1>1
    <3>2. r - q - (i + 1) + 1 = n /\ (i + 1 > r - q => n = 0)
      BY <1>1
    <3>3. /\ SubSeq(s, i + 1, r - q) \in Seq(C)
          /\ Len(SubSeq(s, i + 1, r - q)) = IF i + 1 <= r - q THEN r - q - (i + 1) + 1 ELSE 0
          /\ \A k \in 1..(r - q - (i + 1) + 1) :
                SubSeq(s, i + 1, r - q)[k] = s[i + 1 + k - 1]
      BY <1>1, <2>1, SubSeqProperties
    <3>4. QED
      BY <1>1, <3>1, <3>2, <3>3
  <2>3. q + i \in 0..Len(T) /\ r \in (q + i)..Len(T) /\ r - (q + i) = n
    BY <1>1
  <2>4. SubSeq(T, q + i + 1, r) \in Seq(C) /\ Len(SubSeq(T, q + i + 1, r)) = n
        /\ \A k \in 1..n : SubSeq(T, q + i + 1, r)[k] = T[q + i + k]
    BY <1>2, <2>3
  <2>5. ASSUME NEW k \in 1..n PROVE s[i + k] = T[q + i + k]
    <3>1. i + k \in 1..(r - q) /\ q + (i + k) = q + i + k
      BY <1>1
    <3>2. QED
      BY <1>3, <3>1
  <2>. HIDE DEF n
  <2>6. QED
    BY <2>2, <2>4, <2>5, SeqEqual
<1>6. QED
  BY <1>3, <1>4, <1>5 DEF s

LEMMA MembersOfAppend ==
    ASSUME NEW S, NEW s \in Seq(S), NEW x \in S
    PROVE  ToSet(Append(s, x)) = ToSet(s) \cup {x}
<1>. DEFINE t == Append(s, x)
<1>1. /\ t \in Seq(S) /\ Len(t) = Len(s) + 1 /\ t[Len(s) + 1] = x
      /\ \A i \in 1..Len(s) : t[i] = s[i]
  BY AppendProperties
<1>2. ToSet(t) = {t[i] : i \in 1..(Len(s) + 1)} /\ ToSet(s) = {s[i] : i \in 1..Len(s)}
  BY <1>1, ListOfItsMembers
<1>3. Len(s) \in Nat
  OBVIOUS
<1>. HIDE DEF t
<1>4. 1..(Len(s) + 1) = 1..Len(s) \cup {Len(s) + 1}
  BY <1>3
<1>5. QED
  BY <1>1, <1>2, <1>4 DEF t

LEMMA MembersOfTail ==
    ASSUME NEW S, NEW s \in Seq(S), s # <<>>
    PROVE  /\ Head(s) \in S /\ Tail(s) \in Seq(S)
           /\ ToSet(s) = {Head(s)} \cup ToSet(Tail(s))
<1>1. /\ Head(s) \in S /\ Tail(s) \in Seq(S) /\ Len(Tail(s)) = Len(s) - 1
      /\ \A i \in 1..Len(Tail(s)) : Tail(s)[i] = s[i + 1]
  BY HeadTailProperties
<1>2. Len(s) \in Nat \ {0} /\ Head(s) = s[1]
  OBVIOUS
<1>3. /\ ToSet(s) = {s[i] : i \in 1..Len(s)}
      /\ ToSet(Tail(s)) = {Tail(s)[i] : i \in 1..(Len(s) - 1)}
  BY <1>1, ListOfItsMembers
<1>4. ASSUME NEW i \in 1..Len(s), i # 1 PROVE i - 1 \in 1..(Len(s) - 1) /\ Tail(s)[i-1] = s[i]
  <2>1. i - 1 \in 1..(Len(s) - 1) /\ (i - 1) + 1 = i
    BY <1>2, <1>4
  <2>2. QED
    BY <1>1, <2>1
<1>5. ASSUME NEW i \in 1..(Len(s) - 1) PROVE i + 1 \in 1..Len(s) /\ Tail(s)[i] = s[i+1]
  BY <1>1, <1>2
<1>6. 1 \in 1..Len(s)
  BY <1>2
<1>7. ToSet(s) \subseteq {Head(s)} \cup ToSet(Tail(s))
  <2>1. ASSUME NEW i \in 1..Len(s) PROVE s[i] \in {Head(s)} \cup ToSet(Tail(s))
    <3>1. CASE i = 1
      BY <1>2, <3>1
    <3>2. CASE i # 1
      BY <1>3, <1>4, <3>2
    <3>3. QED
      BY <3>1, <3>2
  <2>2. QED
    BY <1>3, <2>1
<1>8. {Head(s)} \cup ToSet(Tail(s)) \subseteq ToSet(s)
  BY <1>2, <1>3, <1>5, <1>6
<1>9. QED
  BY <1>1, <1>7, <1>8

\* A list is at least as long as it has different members.
LEMMA MembersBounded ==
    ASSUME NEW S, NEW s \in Seq(S)
    PROVE  Cardinality(ToSet(s)) \in Nat /\ Cardinality(ToSet(s)) <= Len(s)
<1>1. s \in [1..Len(s) -> ToSet(s)] /\ Len(s) \in Nat
  BY ListOfItsMembers
<1>2. s \in Surjection(1..Len(s), ToSet(s))
  BY <1>1, ListOfItsMembers DEF Surjection
<1>3. IsFiniteSet(1..Len(s))
  BY <1>1, FS_Interval
<1>4. IsFiniteSet(ToSet(s))
  BY <1>2, <1>3, FS_Surjection
<1>5. QED
  BY <1>1, <1>2, <1>4, FS_CardinalityType, FS_SurjCardinalityBound DEF ExistsSurjection

LEMMA NamesOfMore ==
    ASSUME NEW A, NEW x
    PROVE  NamesIn(A \cup {x}) = NamesIn(A) \cup ToSet(ParseLine(x))
BY DEF NamesIn

-----------------------------------------------------------------------------
(* The inductive invariant of a cycle *)

\* Every variable but those of the open source has its type.
Typed ==
    /\ pc \in {"idle", "source", "read"} /\ left \in 0..SourceCount
    /\ Len(chunk) <= ChunkSize /\ Len(line) <= MaxLine
    /\ emit \in Seq(Mentionable) /\ received \in SUBSET Mentionable
    /\ hashes \in Seq(Nat) /\ capacity \in Nat /\ Len(hashes) <= capacity
    /\ status \in {"none", "ok", "alloc", "below", "selftest"}
    /\ pc # "idle" => status = "none"
    /\ pc # "read" => chunk = <<>>
    /\ pc = "idle" => emit = <<>>
Flags == over \in BOOLEAN /\ intact \in BOOLEAN

\* The bytes of the open source that have been scanned.
Scanned == Got - Len(chunk)

\* body, chunk and line are consecutive parts of the text of the open source; of
\* the line that the scan is in the middle of, line has what fits.
InPlace ==
    /\ source \in Sources
    /\ Got \in 0..Len(source.text) /\ Scanned \in 0..Got
    /\ body = SubSeq(source.text, Got + 1, Len(source.text))
    /\ chunk = SubSeq(source.text, Scanned + 1, Got)
    /\ line = Kept(Line(source.text, Scanned + 1))
    /\ over <=> Len(Line(source.text, Scanned + 1)) > MaxLine

\* The names in the lines that the scan has come to the end of, and the hashes
\* that are added, or will be unless they are allowlisted.
Seen ==
    received \cup (IF pc = "read" THEN NamesIn(Ended(source.text, Scanned)) ELSE {})
Pending == ToSet(hashes) \cup {DomainHash(nm) : nm \in ToSet(emit)}

\* What is added is a name that was seen, and not an allowlisted one; as long as
\* nothing fails, every name that was seen is added, or allowlisted.
Content ==
    /\ Pending \subseteq {DomainHash(nm) : nm \in Seen}
    /\ ToSet(hashes) \cap AllowHashes = {}
    /\ intact => {DomainHash(nm) : nm \in Seen} \subseteq AllowHashes \cup Pending

\* The artifact is what the builder holds, sorted and without duplicates.
Outcome ==
    IF status = "ok"
    THEN blob = Deduped(hashes) /\ Len(blob) >= MinDomains
    ELSE blob = <<>>

IInv == Typed /\ Flags /\ (pc = "read" => InPlace) /\ Content /\ Outcome

LEMMA ConstantTypes ==
    /\ SourceCount \in Nat /\ AllowMax \in Nat
    /\ ChunkSize \in Nat /\ ChunkSize > 0 /\ MaxLine \in Nat /\ MaxLine > 0
    /\ MinDomains \in Nat /\ MinDomains > 0 /\ FirstCapacity \in Nat /\ FirstCapacity > 0
    /\ \A S : <<>> \in Seq(S)
    /\ Len(<<>>) = 0
BY PipelineAssumption

LEMMA LineNames ==
    ASSUME NEW s \in Sources
    PROVE  /\ s.text \in Seq(ToSet(s.text)) /\ Len(s.text) \in Nat
           /\ \A b \in 1..(Len(s.text) + 1) :
                 /\ ParseLine(Line(s.text, b)) \in Seq(Mentionable)
                 /\ ToSet(ParseLine(Line(s.text, b))) \subseteq Mentionable
                 /\ Len(Line(s.text, b)) > MaxLine => ParseLine(Line(s.text, b)) = <<>>
<1>1. s.text \in Seq(ToSet(s.text)) /\ Len(s.text) \in Nat
  BY PipelineAssumption
<1>2. ASSUME NEW b \in 1..(Len(s.text) + 1)
      PROVE  /\ ParseLine(Line(s.text, b)) \in Seq(Mentionable)
             /\ ToSet(ParseLine(Line(s.text, b))) \subseteq Mentionable
             /\ Len(Line(s.text, b)) > MaxLine => ParseLine(Line(s.text, b)) = <<>>
  <2>. DEFINE ln == Line(s.text, b)
              all == {Line(s.text, c) : c \in 1..(Len(s.text) + 1)}
  <2>1. ln \in Seq(ToSet(s.text)) /\ ln \in all
    BY <1>1, LineShape
  <2>2. NamesIn(all) \subseteq Mentionable
    BY DEF Mentionable
  <2>. HIDE DEF all, ln
  <2>3. ToSet(ParseLine(ln)) \subseteq Mentionable
    BY <2>1, <2>2 DEF NamesIn
  <2>4. ParseLine(ln) \in Seq(ToSet(ParseLine(ln))) /\ (Len(ln) > MaxLine => ParseLine(ln) = <<>>)
    BY <2>1, ParseLineShape
  <2>5. ParseLine(ln) \in Seq(Mentionable)
    BY <2>3, <2>4, SeqMonotonic
  <2>6. QED
    BY <2>3, <2>4, <2>5 DEF ln
<1>3. QED
  BY <1>1, <1>2

LEMMA EndedNames ==
    ASSUME NEW s \in Sources, NEW n \in 0..Len(s.text)
    PROVE  NamesIn(Ended(s.text, n)) \subseteq Mentionable
<1>1. ASSUME NEW b \in Newlines(s.text)
      PROVE  ToSet(ParseLine(Line(s.text, b))) \subseteq Mentionable
  <2>1. b \in 1..(Len(s.text) + 1)
    BY LineNames DEF Newlines
  <2>2. QED
    BY <2>1, LineNames
<1>2. QED
  BY <1>1 DEF Ended, NamesIn

LEMMA InvInit == Init => IInv
<1>. SUFFICES ASSUME Init PROVE IInv
  OBVIOUS
<1>1. Typed
  BY ConstantTypes DEF Init, Typed
<1>. Flags
  BY DEF Init, Flags
<1>2. Content
  BY DEF Init, Content, Pending, Seen, ToSet
<1>3. QED
  BY <1>1, <1>2 DEF Init, IInv, Outcome

LEMMA InvCreate == IInv /\ Create => IInv'
<1>. SUFFICES ASSUME IInv, Create PROVE IInv'
  OBVIOUS
<1>. USE DEF IInv
<1>. UNCHANGED <<body, chunk, line, over, emit>>
  BY DEF Create, input
<1>1. Typed'
  BY ConstantTypes DEF Create, Typed
<1>. Flags'
  BY Zenon DEF Create, Flags
<1>2. emit' = <<>> /\ hashes' = <<>> /\ received' = {} /\ pc' # "read"
  BY DEF Create, Typed
<1>3. Content'
  BY <1>2 DEF Content, Pending, Seen, ToSet
<1>4. Outcome'
  BY DEF Create, Outcome
<1>5. QED
  BY <1>1, <1>2, <1>3, <1>4

LEMMA InvOpenSource == IInv /\ OpenSource => IInv'
<1>. SUFFICES ASSUME IInv, OpenSource PROVE IInv'
  OBVIOUS
<1>. USE DEF IInv
<1>1. /\ emit' = <<>> /\ emit = <<>> /\ chunk' = <<>> /\ hashes' = hashes
      /\ received' = received /\ pc = "source" /\ UNCHANGED <<status, blob>>
  BY DEF OpenSource, Typed, builder, result
<1>. UNCHANGED <<hashes, capacity, status, blob>>
  BY DEF OpenSource, builder, result
<1>2. Typed'
  BY ConstantTypes DEF OpenSource, Typed
<1>. Flags'
  BY Zenon DEF OpenSource, Flags
<1>3. Outcome'
  BY <1>1 DEF Outcome
<1>4. pc' = "read" => InPlace'
  <2>. SUFFICES ASSUME pc' = "read" PROVE InPlace'
    OBVIOUS
  <2>1. source' \in Sources /\ body' = source'.text /\ line' = <<>> /\ over' = FALSE
    BY <1>1 DEF OpenSource
  <2>. DEFINE T == source'.text
  <2>2. T \in Seq(ToSet(T)) /\ Len(T) \in Nat
    BY <2>1, LineNames
  <2>3. Got' = 0 /\ Scanned' = 0
    <3>1. Got' = Len(T) - Len(T) /\ Scanned' = Got' - Len(<<>>)
      BY <1>1, <2>1 DEF Got, Scanned
    <3>2. Len(T) - Len(T) = 0 /\ Len(<<>>) = 0
      BY <2>2
    <3>3. Got' = 0
      BY <3>1, <3>2
    <3>4. Scanned' = 0 - 0
      BY <3>1, <3>2, <3>3
    <3>5. QED
      BY <3>3, <3>4
  <2>4. Line(T, 1) = <<>>
    BY <2>2, LineRestarts
  <2>5. Kept(<<>>) = <<>>
    <3>1. <<>> \in Seq({}) /\ Len(<<>>) = 0 /\ 0 <= MaxLine
      BY PipelineAssumption
    <3>2. QED
      BY <3>1, KeptGrows
  <2>6. SubSeq(T, 1, Len(T)) = T /\ SubSeq(T, 1, 0) = <<>>
    BY <2>2, SubSeqFull, SubSeqEmpty
  <2>7. MaxLine \in Nat
    BY PipelineAssumption
  <2>. HIDE DEF IInv
  <2>8. /\ Got' \in 0..Len(T) /\ Scanned' \in 0..Got'
        /\ body' = SubSeq(T, Got' + 1, Len(T)) /\ chunk' = SubSeq(T, Scanned' + 1, Got')
        /\ line' = Kept(Line(T, Scanned' + 1))
    BY <1>1, <2>1, <2>2, <2>3, <2>4, <2>5, <2>6
  <2>9. over' <=> Len(Line(T, Scanned' + 1)) > MaxLine
    <3>1. ~(Len(Line(T, Scanned' + 1)) > MaxLine)
      BY <2>3, <2>4, ConstantTypes
    <3>2. QED
      BY <2>1, <3>1, Zenon
  <2>10. QED
    BY <2>1, <2>8, <2>9 DEF InPlace
<1>5. Content'
  <2>1. Pending' = Pending
    BY <1>1 DEF Pending
  <2>2. intact' => intact
    BY DEF OpenSource
  <2>3. Seen' = received
    <3>1. CASE pc' = "read"
      <4>1. Got' = 0 /\ Scanned' = 0
        BY <3>1, <1>1, LineNames DEF OpenSource, Got, Scanned
      <4>2. Ended(source'.text, 0) = {}
        BY <3>1, <1>1, LineNames, EndedNothing DEF OpenSource
      <4>3. NamesIn({}) = {}
        BY DEF NamesIn
      <4>4. QED
        BY <1>1, <4>1, <4>2, <4>3 DEF Seen
    <3>2. CASE pc' # "read"
      BY <1>1, <3>2 DEF Seen
    <3>3. QED
      BY <3>1, <3>2
  <2>4. Seen = received
    BY <1>1 DEF Seen
  <2>5. QED
    BY <1>1, <2>1, <2>2, <2>3, <2>4 DEF Content
<1>6. QED
  BY <1>2, <1>3, <1>4, <1>5

\* What the parts of the text of the open source are.
LEMMA Parts ==
    ASSUME InPlace
    PROVE  LET T == source.text
           IN  /\ T \in Seq(ToSet(T)) /\ Len(T) \in Nat
               /\ Scanned \in 0..Got /\ Got \in 0..Len(T)
               /\ body \in Seq(ToSet(T)) /\ Len(body) = Len(T) - Got
               /\ chunk \in Seq(ToSet(T)) /\ Len(chunk) = Got - Scanned
               /\ \A i \in 0..Len(body) :
                     /\ SubSeq(body, 1, i) = SubSeq(T, Got + 1, Got + i)
                     /\ SubSeq(body, i + 1, Len(body)) = SubSeq(T, Got + i + 1, Len(T))
               /\ \A i \in 0..Len(chunk) :
                     /\ SubSeq(chunk, 1, i) = SubSeq(T, Scanned + 1, Scanned + i)
                     /\ SubSeq(chunk, i + 1, Len(chunk)) = SubSeq(T, Scanned + i + 1, Got)
<1>. DEFINE T == source.text
<1>1. T \in Seq(ToSet(T)) /\ Len(T) \in Nat
  BY LineNames DEF InPlace
<1>2. /\ Got \in 0..Len(T) /\ Scanned \in 0..Got
      /\ body = SubSeq(T, Got + 1, Len(T)) /\ chunk = SubSeq(T, Scanned + 1, Got)
  BY DEF InPlace
<1>3. /\ Got \in 0..Len(T) /\ Len(T) \in Got..Len(T)
      /\ Scanned \in 0..Len(T) /\ Got \in Scanned..Len(T)
  BY <1>1, <1>2
<1>. HIDE DEF T
<1>4. /\ body \in Seq(ToSet(T)) /\ Len(body) = Len(T) - Got
      /\ \A i \in 0..(Len(T) - Got) :
            /\ SubSeq(body, 1, i) = SubSeq(T, Got + 1, Got + i)
            /\ SubSeq(body, i + 1, Len(T) - Got) = SubSeq(T, Got + i + 1, Len(T))
  <2>1. 0 \in 0..(Len(T) - Got)
    BY <1>1, <1>3
  <2>2. QED
    BY <1>1, <1>2, <1>3, <2>1, PartsOfPart
<1>5. /\ chunk \in Seq(ToSet(T)) /\ Len(chunk) = Got - Scanned
      /\ \A i \in 0..(Got - Scanned) :
            /\ SubSeq(chunk, 1, i) = SubSeq(T, Scanned + 1, Scanned + i)
            /\ SubSeq(chunk, i + 1, Got - Scanned) = SubSeq(T, Scanned + i + 1, Got)
  <2>1. 0 \in 0..(Got - Scanned)
    BY <1>1, <1>3
  <2>2. QED
    BY <1>1, <1>2, <1>3, <2>1, PartsOfPart
<1>6. QED
  BY <1>1, <1>2, <1>4, <1>5 DEF T

LEMMA InvReadChunk == IInv /\ ReadChunk => IInv'
<1>. SUFFICES ASSUME IInv, ReadChunk PROVE IInv'
  OBVIOUS
<1>1. /\ pc = "read" /\ chunk = <<>> /\ emit = <<>> /\ body # <<>>
      /\ UNCHANGED <<pc, left, line, over, emit, hashes, capacity, status, blob>>
      /\ UNCHANGED <<source, wanted, received, intact>>
  BY DEF ReadChunk, AtRead, builder, result, history
<1>2. Typed /\ Flags /\ InPlace /\ Content /\ Outcome
  BY <1>1 DEF IInv
<1>3. PICK n \in 1..Min({ChunkSize, Len(body)}) :
         chunk' = SubSeq(body, 1, n) /\ body' = SubSeq(body, n + 1, Len(body))
  BY DEF ReadChunk
<1>. DEFINE T == source.text
            q == Got
<1>4. /\ T \in Seq(ToSet(T)) /\ Len(T) \in Nat /\ q \in 0..Len(T)
      /\ body \in Seq(ToSet(T)) /\ Len(body) = Len(T) - q
      /\ Scanned = q
      /\ \A i \in 0..Len(body) :
            /\ SubSeq(body, 1, i) = SubSeq(T, q + 1, q + i)
            /\ SubSeq(body, i + 1, Len(body)) = SubSeq(T, q + i + 1, Len(T))
  <2>1. Got - Scanned = 0 /\ Scanned \in 0..Got /\ Got \in 0..Len(T) /\ Len(T) \in Nat
    BY <1>1, <1>2, Parts, ConstantTypes
  <2>. HIDE DEF T
  <2>2. Scanned = Got
    BY <2>1
  <2>. QED
    BY <1>2, <2>1, <2>2, Parts DEF T
<1>5. n \in 1..Len(body) /\ n <= ChunkSize
  BY <1>4, MinOfTwo, ConstantTypes
<1>. HIDE DEF T, q
<1>6. /\ q + n \in 0..Len(T) /\ q + n \in q..Len(T)
      /\ chunk' = SubSeq(T, q + 1, q + n)
      /\ body' = SubSeq(T, q + n + 1, Len(T))
  <2>1. n \in 0..Len(body) /\ q + n \in 0..Len(T) /\ q + n \in q..Len(T)
    BY <1>4, <1>5
  <2>2. QED
    BY <1>3, <1>4, <2>1
<1>7. Len(chunk') = n /\ Len(body') = Len(T) - (q + n)
  <2>1. q \in 0..Len(T) /\ q + n \in q..Len(T) /\ 0 \in 0..((q + n) - q) /\ (q + n) - q = n
    BY <1>4, <1>5, <1>6
  <2>2. Len(T) \in (q + n)..Len(T) /\ 0 \in 0..(Len(T) - (q + n))
    BY <1>4, <1>6
  <2>3. Len(SubSeq(T, q + 1, q + n)) = n
    BY <1>4, <2>1, PartsOfPart
  <2>4. ASSUME NEW r \in 0..Len(T) PROVE Len(SubSeq(T, r + 1, Len(T))) = Len(T) - r
    <3>1. Len(T) \in r..Len(T) /\ 0 \in 0..(Len(T) - r)
      BY <1>4
    <3>2. QED
      BY <1>4, <3>1, PartsOfPart
  <2>5. QED
    BY <1>6, <2>3, <2>4
<1>8. Got' = q + n /\ Scanned' = Scanned
  <2>1. Got' = Len(T) - Len(body') /\ Scanned' = Got' - Len(chunk')
    BY <1>1 DEF Got, Scanned, T
  <2>2. Got' = q + n
    BY <1>4, <1>5, <1>7, <2>1
  <2>3. QED
    BY <1>4, <1>5, <1>7, <2>1, <2>2
<1>9. Typed'
  BY <1>1, <1>2, <1>5, <1>7 DEF Typed
<1>10. Flags'
  BY <1>1, <1>2 DEF Flags
<1>11. InPlace'
  <2>1. source' = source /\ source' \in Sources
    BY <1>1, <1>2 DEF InPlace
  <2>2. /\ Got' \in 0..Len(T) /\ Scanned' \in 0..Got'
        /\ body' = SubSeq(T, Got' + 1, Len(T)) /\ chunk' = SubSeq(T, Scanned' + 1, Got')
    BY <1>4, <1>5, <1>6, <1>8
  <2>3. line' = Kept(Line(T, Scanned' + 1)) /\ (over' <=> Len(Line(T, Scanned' + 1)) > MaxLine)
    BY <1>1, <1>2, <1>8 DEF InPlace, T
  <2>4. QED
    BY <2>1, <2>2, <2>3 DEF InPlace, T
<1>12. Content'
  BY <1>1, <1>2, <1>8 DEF Content, Pending, Seen
<1>13. Outcome'
  BY <1>1, <1>2 DEF Outcome
<1>14. QED
  BY <1>9, <1>10, <1>11, <1>12, <1>13 DEF IInv

LEMMA ScannedFlag == ScanLine => over' \in BOOLEAN
<1>1. ASSUME NEW text PROVE TooLong(text) \in BOOLEAN
  BY Zenon DEF TooLong
<1>2. ScanLine => (\E text : over' = TooLong(text)) \/ over' = FALSE
  BY Zenon DEF ScanLine
<1>3. QED
  BY <1>1, <1>2, Zenon

LEMMA InvScanLine == IInv /\ ScanLine => IInv'
<1>. SUFFICES ASSUME IInv, ScanLine PROVE IInv'
  OBVIOUS
<1>1. /\ pc = "read" /\ chunk # <<>> /\ emit = <<>>
      /\ UNCHANGED <<pc, left, body, hashes, capacity, status, blob>>
      /\ UNCHANGED <<source, wanted, received, intact>>
  BY DEF ScanLine, builder, result, history
<1>2. Typed /\ Flags /\ InPlace /\ Content /\ Outcome
  BY <1>1 DEF IInv
<1>. DEFINE T == source.text
            C == ToSet(T)
            p == Scanned
            eol == SelectInSeq(chunk, LAMBDA c : c = "\n")
            n == IF eol = 0 THEN Len(chunk) ELSE eol - 1
            text == line \o SubSeq(chunk, 1, n)
            e == p + n
<1>3. /\ T \in Seq(C) /\ Len(T) \in Nat
      /\ p \in 0..Got /\ Got \in 0..Len(T)
      /\ chunk \in Seq(C) /\ Len(chunk) = Got - p
      /\ \A i \in 0..Len(chunk) :
            /\ SubSeq(chunk, 1, i) = SubSeq(T, p + 1, p + i)
            /\ SubSeq(chunk, i + 1, Len(chunk)) = SubSeq(T, p + i + 1, Got)
  BY <1>2, Parts
<1>4. source \in Sources /\ line = Kept(Line(T, p + 1)) /\ (over <=> Len(Line(T, p + 1)) > MaxLine)
  BY <1>2 DEF InPlace
<1>5. \/ eol = 0 /\ \A a \in 1..Len(chunk) : chunk[a] # "\n"
      \/ /\ eol \in 1..Len(chunk) /\ chunk[eol] = "\n"
         /\ \A a \in 1..(eol - 1) : chunk[a] # "\n"
  BY <1>3, FirstNewline
<1>6. /\ eol = 0 => chunk' = <<>> /\ line' = Kept(text) /\ (over' <=> TooLong(text)) /\ emit' = <<>>
      /\ eol # 0 => /\ chunk' = SubSeq(chunk, eol + 1, Len(chunk))
                    /\ line' = <<>> /\ ~over'
                    /\ emit' = IF TooLong(text) THEN <<>> ELSE ParseLine(text)
  BY DEF ScanLine
<1>. HIDE DEF T, C, p, eol
<1>7. /\ n \in 0..Len(chunk) /\ e \in p..Got /\ e \in 0..Len(T) /\ p \in 0..Len(T) /\ e \in p..Len(T)
      /\ eol = 0 => n = Len(chunk) /\ e = Got
      /\ eol # 0 => eol = n + 1 /\ eol \in 1..Len(chunk) /\ e + 1 \in (p + 1)..Got
  BY <1>3, <1>5
<1>8. ASSUME NEW i \in 1..Len(chunk) PROVE chunk[i] = T[p + i]
  <2>1. chunk = SubSeq(T, p + 1, Got)
    BY <1>2 DEF InPlace, T, p
  <2>2. QED
    BY <1>3, <1>7, <2>1
<1>9. \A a \in (p + 1)..e : T[a] # "\n"
  <2>1. ASSUME NEW a \in (p + 1)..e PROVE T[a] # "\n"
    <3>1. a - p \in 1..n /\ a - p \in 1..Len(chunk) /\ p + (a - p) = a
      BY <1>3, <1>7
    <3>2. chunk[a - p] # "\n"
      BY <1>5, <1>7, <3>1
    <3>3. QED
      BY <1>8, <3>1, <3>2
  <2>2. QED
    BY <2>1
<1>10. Line(T, e + 1) = Line(T, p + 1) \o SubSeq(T, p + 1, e) /\ Ended(T, e) = Ended(T, p)
  BY <1>3, <1>7, <1>9, LineGrows, EndedGrows
<1>11. /\ Line(T, p + 1) \in Seq(C) /\ SubSeq(T, p + 1, e) \in Seq(C)
       /\ SubSeq(chunk, 1, n) = SubSeq(T, p + 1, e)
  <2>1. p + 1 \in 1..(Len(T) + 1)
    BY <1>3, <1>7
  <2>2. 0 \in 0..(e - p)
    BY <1>3, <1>7
  <2>3. Line(T, p + 1) \in Seq(C)
    BY <1>3, <2>1, LineShape
  <2>. HIDE DEF e
  <2>4. SubSeq(T, p + 1, e) \in Seq(C)
    BY <1>3, <1>7, <2>2, PartsOfPart
  <2>5. SubSeq(chunk, 1, n) = SubSeq(T, p + 1, e)
    BY <1>3, <1>7 DEF e
  <2>6. QED
    BY <2>3, <2>4, <2>5
<1>. HIDE DEF n, text, e
<1>12. /\ Kept(text) = Kept(Line(T, e + 1)) /\ Len(Kept(text)) <= MaxLine
       /\ TooLong(text) <=> Len(Line(T, e + 1)) > MaxLine
       /\ ~TooLong(text) => text = Line(T, e + 1)
  <2>. DEFINE x == Line(T, p + 1)
              y == SubSeq(T, p + 1, e)
  <2>1. text = Kept(x) \o y /\ Line(T, e + 1) = x \o y /\ x \in Seq(C) /\ y \in Seq(C)
    BY <1>4, <1>10, <1>11 DEF text
  <2>2. over <=> Len(x) > MaxLine
    BY <1>4
  <2>. HIDE DEF x, y
  <2>3. /\ Kept(Kept(x) \o y) = Kept(x \o y) /\ Len(Kept(x \o y)) <= MaxLine
        /\ Len(x) > MaxLine \/ Len(Kept(x) \o y) > MaxLine <=> Len(x \o y) > MaxLine
        /\ Len(x) <= MaxLine => Kept(x) = x
    <3>1. x \o y \in Seq(C)
      BY <2>1
    <3>2. Len(Kept(x \o y)) <= MaxLine
      BY <3>1, KeptGrows
    <3>3. /\ Kept(Kept(x) \o y) = Kept(x \o y) /\ (Len(x) <= MaxLine => Kept(x) = x)
          /\ Len(x) > MaxLine \/ Len(Kept(x) \o y) > MaxLine <=> Len(x \o y) > MaxLine
      BY <2>1, KeptGrows
    <3>4. QED
      BY <3>2, <3>3
  <2>4. TooLong(text) <=> Len(x \o y) > MaxLine
    BY <2>1, <2>2, <2>3 DEF TooLong
  <2>5. ~(Len(x) > MaxLine) => Len(x) <= MaxLine
    BY <2>1, ConstantTypes
  <2>6. ~TooLong(text) => text = x \o y
    BY <2>1, <2>2, <2>3, <2>5 DEF TooLong
  <2>7. QED
    BY <2>1, <2>3, <2>4, <2>6
<1>13. Got' = Got
  BY <1>1 DEF Got
<1>14. CASE eol = 0
  <2>1. chunk' = <<>> /\ line' = Kept(text) /\ (over' <=> TooLong(text)) /\ emit' = <<>> /\ e = Got
    BY <1>6, <1>7, <1>14
  <2>2. Scanned' = Got
    <3>1. Scanned' = Got' - Len(chunk') /\ Len(chunk') = 0
      BY <2>1, ConstantTypes DEF Scanned
    <3>2. Scanned' = Got - 0
      BY <1>13, <3>1
    <3>3. QED
      BY <1>3, <3>2
  <2>3. Typed'
    BY <1>1, <1>2, <1>12, <2>1, ConstantTypes DEF Typed
  <2>4. Flags'
    <3>1. over' \in BOOLEAN
      BY ScannedFlag
    <3>2. QED
      BY <1>1, <1>2, <3>1 DEF Flags
  <2>5. InPlace'
    <3>1. source' \in Sources /\ source'.text = T
      BY <1>1, <1>4 DEF T
    <3>2. Got' \in 0..Len(T) /\ Scanned' \in 0..Got'
      BY <1>3, <1>13, <2>2
    <3>3. body' = SubSeq(T, Got' + 1, Len(T))
      BY <1>1, <1>2, <1>13 DEF InPlace, T
    <3>4. chunk' = SubSeq(T, Scanned' + 1, Got')
      BY <1>3, <1>13, <2>1, <2>2, SubSeqEmpty
    <3>5. line' = Kept(Line(T, Scanned' + 1)) /\ (over' <=> Len(Line(T, Scanned' + 1)) > MaxLine)
      BY <1>12, <2>1, <2>2
    <3>6. QED
      BY <3>1, <3>2, <3>3, <3>4, <3>5 DEF InPlace
  <2>6. Content'
    <3>1. Ended(T, Scanned') = Ended(T, p)
      BY <1>10, <2>1, <2>2
    <3>2. Seen' = Seen
      BY <1>1, <3>1 DEF Seen, T, p
    <3>3. Pending' = Pending
      BY <1>1, <2>1 DEF Pending
    <3>4. QED
      BY <1>1, <1>2, <3>2, <3>3 DEF Content
  <2>7. Outcome'
    BY <1>1, <1>2 DEF Outcome
  <2>8. QED
    BY <2>3, <2>4, <2>5, <2>6, <2>7 DEF IInv
<1>15. CASE eol # 0
  <2>. DEFINE f == e + 1
  <2>1. /\ chunk' = SubSeq(chunk, eol + 1, Len(chunk)) /\ line' = <<>> /\ ~over'
        /\ emit' = IF TooLong(text) THEN <<>> ELSE ParseLine(text)
    BY <1>6, <1>15
  <2>2. /\ f \in (p + 1)..Got /\ f \in (p + 1)..Len(T) /\ f \in 0..Len(T) /\ Got \in f..Len(T)
        /\ f = p + eol /\ f - p = eol /\ eol \in 0..Len(chunk) /\ eol \in 1..Len(chunk)
        /\ f - 1 = e /\ f \in 1..(Len(T) + 1) /\ 0 \in 0..(Got - f)
        /\ f = e + 1
    BY <1>3, <1>7, <1>15 DEF e
  <2>. HIDE DEF f
  <2>3. T[f] = "\n"
    BY <1>5, <1>8, <1>15, <2>2
  <2>4. chunk' = SubSeq(T, f + 1, Got)
    BY <1>3, <2>1, <2>2
  <2>5. Len(chunk') = Got - f
    BY <1>3, <2>2, <2>4, PartsOfPart
  <2>6. Scanned' = f
    <3>1. Scanned' = Got - (Got - f)
      BY <1>13, <2>5 DEF Scanned
    <3>2. QED
      BY <1>3, <2>2, <3>1
  <2>7. Ended(T, f) = Ended(T, p) \cup {Line(T, f)}
    <3>1. \A a \in (p + 1)..(f - 1) : T[a] # "\n"
      BY <1>9, <2>2
    <3>2. QED
      BY <1>3, <1>7, <2>2, <2>3, <3>1, EndedNext
  <2>8. Line(T, f + 1) = <<>>
    BY <1>3, <2>2, <2>3, LineRestarts
  <2>9. emit' = ParseLine(Line(T, f)) /\ emit' \in Seq(Mentionable)
    <3>1. /\ ParseLine(Line(T, f)) \in Seq(Mentionable)
          /\ Len(Line(T, f)) > MaxLine => ParseLine(Line(T, f)) = <<>>
      BY <1>4, <2>2, LineNames DEF T
    <3>2. QED
      BY <1>12, <2>1, <2>2, <3>1
  <2>10. Typed'
    <3>1. Len(chunk') <= ChunkSize /\ Len(line') <= MaxLine
      <4>1. Len(chunk) <= ChunkSize /\ Len(chunk) \in Nat
        BY <1>2, <1>3 DEF Typed
      <4>2. Len(chunk') <= Len(chunk) /\ Len(chunk') \in Nat
        BY <1>3, <2>2, <2>5
      <4>3. Len(chunk') <= ChunkSize
        BY <4>1, <4>2, ConstantTypes
      <4>4. Len(line') = 0
        BY <2>1, ConstantTypes
      <4>5. QED
        BY <4>3, <4>4, ConstantTypes
    <3>2. QED
      BY <1>1, <1>2, <2>9, <3>1 DEF Typed
  <2>11. Flags'
    <3>1. over' \in BOOLEAN
      BY ScannedFlag
    <3>2. QED
      BY <1>1, <1>2, <3>1 DEF Flags
  <2>12. InPlace'
    <3>1. source' \in Sources /\ source'.text = T
      BY <1>1, <1>4 DEF T
    <3>2. Got' \in 0..Len(T) /\ Scanned' \in 0..Got'
      BY <1>3, <1>13, <2>2, <2>6
    <3>3. body' = SubSeq(T, Got' + 1, Len(T)) /\ chunk' = SubSeq(T, Scanned' + 1, Got')
      BY <1>1, <1>2, <1>13, <2>4, <2>6 DEF InPlace, T
    <3>4. Kept(<<>>) = <<>>
      <4>1. <<>> \in Seq({}) /\ Len(<<>>) = 0 /\ 0 <= MaxLine
        BY ConstantTypes
      <4>2. QED
        BY <4>1, KeptGrows
    <3>5. line' = Kept(Line(T, Scanned' + 1)) /\ ~(Len(Line(T, Scanned' + 1)) > MaxLine)
      BY <2>1, <2>6, <2>8, <3>4, ConstantTypes
    <3>6. QED
      BY <2>1, <3>1, <3>2, <3>3, <3>5 DEF InPlace
  <2>13. Content'
    <3>1. Seen' = Seen \cup ToSet(emit')
      <4>1. NamesIn(Ended(T, f)) = NamesIn(Ended(T, p)) \cup ToSet(emit')
        BY <2>7, <2>9, NamesOfMore
      <4>2. QED
        BY <1>1, <2>6, <4>1 DEF Seen, T, p
    <3>2. Pending = ToSet(hashes) /\ Pending' = ToSet(hashes) \cup {DomainHash(nm) : nm \in ToSet(emit')}
      BY <1>1 DEF Pending, ToSet
    <3>3. QED
      BY <1>1, <1>2, <3>1, <3>2 DEF Content
  <2>14. Outcome'
    BY <1>1, <1>2 DEF Outcome
  <2>15. QED
    BY <1>1, <2>10, <2>11, <2>12, <2>13, <2>14 DEF IInv
<1>16. QED
  BY <1>14, <1>15

\* The step that hands a name to the builder, or drops it.
LEMMA InvSink == IInv /\ Sink => IInv'
<1>. SUFFICES ASSUME IInv, Sink PROVE IInv'
  OBVIOUS
<1>. DEFINE h == DomainHash(Head(emit))
<1>1. /\ emit # <<>> /\ AddSink(h) /\ emit' = Tail(emit)
      /\ UNCHANGED <<pc, left, body, chunk, line, over, status, blob, source, wanted, received>>
  BY DEF Sink, result, history
<1>2. Typed /\ Flags /\ (pc = "read" => InPlace) /\ Content /\ Outcome
  BY DEF IInv
<1>3. /\ emit \in Seq(Mentionable) /\ hashes \in Seq(Nat) /\ Len(hashes) \in Nat
      /\ capacity \in Nat /\ Len(hashes) <= capacity
  BY <1>2 DEF Typed
<1>4. /\ Head(emit) \in Mentionable /\ emit' \in Seq(Mentionable)
      /\ ToSet(emit) = {Head(emit)} \cup ToSet(emit')
  BY <1>1, <1>3, MembersOfTail
<1>5. h \in Nat
  BY <1>4, HashAssumption
<1>6. pc # "idle" /\ status = "none"
  BY <1>1, <1>2 DEF Typed
<1>. HIDE DEF h
<1>7. Pending = ToSet(hashes) \cup {h} \cup {DomainHash(nm) : nm \in ToSet(emit')}
  BY <1>4 DEF Pending, h
<1>8. \/ h \in AllowHashes /\ UNCHANGED <<hashes, capacity, intact>>
      \/ h \notin AllowHashes /\ hashes' = Append(hashes, h) /\ capacity' = Grown(Len(hashes) + 1)
            /\ UNCHANGED intact
      \/ h \notin AllowHashes /\ ~intact' /\ UNCHANGED <<hashes, capacity>>
  BY <1>1 DEF AddSink, Allowed, builder
<1>9. hashes' \in Seq(Nat) /\ capacity' \in Nat /\ Len(hashes') <= capacity'
  <2>1. CASE hashes' = Append(hashes, h) /\ capacity' = Grown(Len(hashes) + 1)
    <3>1. hashes' \in Seq(Nat) /\ Len(hashes') = Len(hashes) + 1
      BY <1>3, <1>5, <2>1
    <3>2. ASSUME NEW n \in Nat, n <= capacity
          PROVE  Grown(n + 1) \in Nat /\ n + 1 <= Grown(n + 1)
      BY <1>3, <3>2, ConstantTypes DEF Grown
    <3>3. QED
      BY <1>3, <2>1, <3>1, <3>2
  <2>2. CASE UNCHANGED <<hashes, capacity>>
    BY <1>3, <2>2
  <2>3. QED
    BY <1>8, <2>1, <2>2
<1>10. Typed'
  BY <1>1, <1>2, <1>4, <1>6, <1>9 DEF Typed
<1>11. Flags'
  <2>1. intact' \in BOOLEAN
    BY <1>1, <1>2, Zenon DEF Flags, AddSink
  <2>2. QED
    BY <1>1, <1>2, <2>1 DEF Flags
<1>12. pc' = "read" => InPlace'
  BY <1>1, <1>2 DEF InPlace, Got, Scanned
<1>13. Seen' = Seen
  BY <1>1 DEF Seen, Scanned, Got
<1>14. Content'
  <2>1. CASE h \in AllowHashes /\ UNCHANGED <<hashes, capacity, intact>>
    <3>1. Pending' \subseteq Pending /\ Pending \subseteq Pending' \cup AllowHashes
      BY <1>7, <2>1 DEF Pending
    <3>2. QED
      BY <1>2, <1>13, <2>1, <3>1 DEF Content
  <2>2. CASE h \notin AllowHashes /\ hashes' = Append(hashes, h) /\ UNCHANGED intact
    <3>1. ToSet(hashes') = ToSet(hashes) \cup {h}
      BY <1>3, <1>5, <2>2, MembersOfAppend
    <3>2. Pending' = Pending
      BY <1>7, <3>1 DEF Pending
    <3>3. QED
      BY <1>2, <1>13, <2>2, <3>1, <3>2 DEF Content
  <2>3. CASE ~intact' /\ UNCHANGED <<hashes, capacity>>
    <3>1. Pending' \subseteq Pending
      BY <1>7, <2>3 DEF Pending
    <3>2. QED
      BY <1>2, <1>13, <2>3, <3>1 DEF Content
  <2>4. QED
    BY <1>8, <2>1, <2>2, <2>3
<1>15. Outcome'
  BY <1>1, <1>2, <1>6 DEF Outcome
<1>16. QED
  BY <1>10, <1>11, <1>12, <1>14, <1>15 DEF IInv

\* A source is over, at its end or before: the line that the scan is in the middle
\* of counts as one of its lines.
LEMMA SourceOver ==
    ASSUME Typed, Content, InPlace, pc = "read", chunk = <<>>, emit = <<>>,
           pc' = "source", emit' = LastLine, received' = received \cup NamesIn(AllLines),
           hashes' = hashes, intact' => intact
    PROVE  emit' \in Seq(Mentionable) /\ received' \in SUBSET Mentionable /\ Content'
<1>. DEFINE T == source.text
            ln == Line(T, Got + 1)
<1>1. /\ T \in Seq(ToSet(T)) /\ Len(T) \in Nat /\ Scanned \in 0..Got /\ Got \in 0..Len(T)
      /\ Got - Scanned = 0 /\ source \in Sources
  BY Parts, ConstantTypes DEF InPlace
<1>2. Scanned = Got /\ Got + 1 \in 1..(Len(T) + 1)
  <2>. HIDE DEF T
  <2>1. QED
    BY <1>1
<1>3. /\ ParseLine(ln) \in Seq(Mentionable) /\ ToSet(ParseLine(ln)) \subseteq Mentionable
      /\ Len(ln) > MaxLine => ParseLine(ln) = <<>>
  BY <1>1, <1>2, LineNames
<1>4. line = Kept(ln) /\ (over <=> Len(ln) > MaxLine)
  BY <1>2 DEF InPlace
<1>5. ln \in Seq(ToSet(T))
  BY <1>1, <1>2, LineShape
<1>. HIDE DEF ln
<1>6. emit' = ParseLine(ln)
  <2>1. ~(Len(ln) > MaxLine) => Len(ln) <= MaxLine
    BY <1>5, ConstantTypes
  <2>2. ~over => line = ln
    BY <1>4, <1>5, <2>1, KeptGrows
  <2>3. QED
    BY <1>3, <1>4, <2>2 DEF LastLine
<1>7. NamesIn(AllLines) = NamesIn(Ended(T, Got)) \cup ToSet(emit')
  BY <1>6, NamesOfMore DEF AllLines, Lines, ln
<1>8. NamesIn(Ended(T, Got)) \subseteq Mentionable
  BY <1>1, EndedNames
<1>9. received' \in SUBSET Mentionable
  BY <1>3, <1>6, <1>7, <1>8 DEF Typed
<1>10. Seen' = Seen \cup ToSet(emit')
  BY <1>2, <1>7 DEF Seen
<1>11. Pending = ToSet(hashes) /\ Pending' = ToSet(hashes) \cup {DomainHash(nm) : nm \in ToSet(emit')}
  BY DEF Pending, ToSet
<1>12. Content'
  BY <1>10, <1>11 DEF Content
<1>13. QED
  BY <1>3, <1>6, <1>9, <1>12

LEMMA InvEndOfSource == IInv /\ EndOfSource => IInv'
<1>. SUFFICES ASSUME IInv, EndOfSource PROVE IInv'
  OBVIOUS
<1>1. /\ pc = "read" /\ chunk = <<>> /\ emit = <<>> /\ pc' = "source" /\ emit' = LastLine
      /\ received' = received \cup NamesIn(AllLines)
      /\ UNCHANGED <<left, body, chunk, line, over, hashes, capacity, status, blob, intact>>
  BY DEF EndOfSource, AtRead, builder, result
<1>2. Typed /\ Flags /\ InPlace /\ Content /\ Outcome
  BY <1>1 DEF IInv
<1>3. emit' \in Seq(Mentionable) /\ received' \in SUBSET Mentionable /\ Content'
  BY <1>1, <1>2, SourceOver
<1>4. Typed'
  BY <1>1, <1>2, <1>3 DEF Typed
<1>5. Flags' /\ Outcome'
  BY <1>1, <1>2 DEF Flags, Outcome
<1>6. QED
  BY <1>1, <1>3, <1>4, <1>5 DEF IInv

LEMMA InvClosedEarly == IInv /\ ClosedEarly => IInv'
<1>. SUFFICES ASSUME IInv, ClosedEarly PROVE IInv'
  OBVIOUS
<1>1. /\ pc = "read" /\ chunk = <<>> /\ emit = <<>> /\ pc' = "source" /\ emit' = LastLine
      /\ received' = received \cup NamesIn(AllLines) /\ intact' = FALSE
      /\ UNCHANGED <<left, body, chunk, line, over, hashes, capacity, status, blob>>
  BY DEF ClosedEarly, AtRead, builder, result
<1>2. Typed /\ Flags /\ InPlace /\ Content /\ Outcome
  BY <1>1 DEF IInv
<1>3. emit' \in Seq(Mentionable) /\ received' \in SUBSET Mentionable /\ Content'
  BY <1>1, <1>2, SourceOver
<1>4. Typed'
  BY <1>1, <1>2, <1>3 DEF Typed
<1>5. Flags' /\ Outcome'
  BY <1>1, <1>2 DEF Flags, Outcome
<1>6. QED
  BY <1>1, <1>3, <1>4, <1>5 DEF IInv

LEMMA InvReadFails == IInv /\ ReadFails => IInv'
<1>. SUFFICES ASSUME IInv, ReadFails PROVE IInv'
  OBVIOUS
<1>1. /\ pc = "read" /\ chunk = <<>> /\ emit = <<>> /\ pc' = "source" /\ intact' = FALSE
      /\ received' = received \cup NamesIn(WholeLines)
      /\ UNCHANGED <<left, body, chunk, line, over, emit, hashes, capacity, status, blob>>
  BY DEF ReadFails, AtRead, input, builder, result
<1>2. Typed /\ Flags /\ InPlace /\ Content /\ Outcome
  BY <1>1 DEF IInv
<1>. DEFINE T == source.text
<1>3. /\ Len(T) \in Nat /\ Scanned \in 0..Got /\ Got \in 0..Len(T)
      /\ Got - Scanned = 0 /\ source \in Sources
  BY <1>1, <1>2, Parts, ConstantTypes DEF InPlace
<1>4. Scanned = Got
  <2>. HIDE DEF T
  <2>1. QED
    BY <1>3
<1>5. NamesIn(Ended(T, Got)) \subseteq Mentionable
  BY <1>3, EndedNames
<1>6. Typed'
  BY <1>1, <1>2, <1>5 DEF Typed, WholeLines
<1>7. Flags' /\ Outcome'
  BY <1>1, <1>2 DEF Flags, Outcome
<1>8. Seen' = Seen /\ Pending' = Pending
  BY <1>1, <1>4 DEF Seen, Pending, WholeLines
<1>9. Content'
  BY <1>1, <1>2, <1>8 DEF Content
<1>10. QED
  BY <1>1, <1>6, <1>7, <1>9 DEF IInv

LEMMA InvFinish == IInv /\ Finish => IInv'
<1>. SUFFICES ASSUME IInv, Finish PROVE IInv'
  OBVIOUS
<1>1. /\ pc = "source" /\ emit = <<>> /\ pc' = "idle"
      /\ UNCHANGED <<left, body, chunk, line, over, emit, hashes, capacity, received>>
      /\ intact' => intact
  BY DEF Finish, Ends, input, builder, history
<1>2. Typed /\ Flags /\ Content
  BY <1>1 DEF IInv
<1>3. \/ status' \in {"below", "alloc", "selftest"} /\ blob' = <<>>
      \/ status' = "ok" /\ blob' = Deduped(hashes) /\ Len(Deduped(hashes)) >= MinDomains
  BY DEF Finish, Ends, MeetsFloor
<1>4. Typed'
  BY <1>1, <1>2, <1>3 DEF Typed
<1>5. Flags'
  <2>1. intact' \in BOOLEAN
    BY <1>2, Zenon DEF Flags, Finish
  <2>2. QED
    BY <1>1, <1>2, <2>1 DEF Flags
<1>6. Seen' = Seen /\ Pending' = Pending
  BY <1>1 DEF Seen, Pending
<1>7. Content'
  BY <1>1, <1>2, <1>6 DEF Content
<1>8. Outcome'
  BY <1>1, <1>3 DEF Outcome
<1>9. QED
  BY <1>1, <1>4, <1>5, <1>7, <1>8 DEF IInv

LEMMA InvStutter == IInv /\ UNCHANGED vars => IInv'
<1>. SUFFICES ASSUME IInv, UNCHANGED vars PROVE IInv'
  OBVIOUS
<1>1. /\ UNCHANGED <<pc, left, body, chunk, line, over, emit, hashes, capacity, status, blob>>
      /\ UNCHANGED <<source, wanted, received, intact>>
  BY DEF vars, input, builder, result, history
<1>2. Typed' /\ Flags' /\ Outcome'
  BY <1>1 DEF IInv, Typed, Flags, Outcome
<1>3. pc' = "read" => InPlace'
  BY <1>1 DEF IInv, InPlace, Got, Scanned
<1>4. Content'
  <2>1. Seen' = Seen /\ Pending' = Pending
    BY <1>1 DEF Seen, Scanned, Got, Pending
  <2>2. QED
    BY <1>1, <2>1 DEF IInv, Content
<1>5. QED
  BY <1>2, <1>3, <1>4 DEF IInv

LEMMA InvNext == IInv /\ [Next]_vars => IInv'
<1>. SUFFICES ASSUME IInv, [Next]_vars PROVE IInv'
  OBVIOUS
<1>1. CASE Create BY <1>1, InvCreate
<1>2. CASE OpenSource BY <1>2, InvOpenSource
<1>3. CASE ReadChunk BY <1>3, InvReadChunk
<1>4. CASE ScanLine BY <1>4, InvScanLine
<1>5. CASE Sink BY <1>5, InvSink
<1>6. CASE EndOfSource BY <1>6, InvEndOfSource
<1>7. CASE ClosedEarly BY <1>7, InvClosedEarly
<1>8. CASE ReadFails BY <1>8, InvReadFails
<1>9. CASE Finish BY <1>9, InvFinish
<1>10. CASE UNCHANGED vars BY <1>10, InvStutter
<1>11. QED
  BY <1>1, <1>2, <1>3, <1>4, <1>5, <1>6, <1>7, <1>8, <1>9, <1>10 DEF Next

\* The parts of the open source stay consecutive, and what is added, or is about
\* to be, stays what was seen less what is allowlisted, whatever fails.
THEOREM InvAlways == Spec => []IInv
BY InvInit, InvNext, PTL DEF Spec

-----------------------------------------------------------------------------
(* What follows from it *)

\* blob is sorted and holds what was added, or is empty.
LEMMA BlobShape ==
    ASSUME IInv
    PROVE  /\ hashes \in Seq(Nat) /\ blob \in Seq(Nat)
           /\ status = "ok" => ToSet(blob) = ToSet(hashes) /\ Ascending(blob)
           /\ status # "ok" => blob = <<>>
<1>1. hashes \in Seq(Nat)
  BY DEF IInv, Typed
<1>2. status = "ok" => blob = Deduped(hashes)
  BY DEF IInv, Outcome
<1>3. status # "ok" => blob = <<>>
  BY DEF IInv, Outcome
<1>4. Ascending(Deduped(hashes))
  BY <1>1, DedupedShape, AscendingPairs
<1>5. Deduped(hashes) \in Seq(Nat) /\ ToSet(Deduped(hashes)) = ToSet(hashes)
  BY <1>1, DedupedShape
<1>6. blob \in Seq(Nat)
  BY <1>2, <1>3, <1>5, ConstantTypes
<1>7. QED
  BY <1>1, <1>2, <1>3, <1>4, <1>5, <1>6

\* Type correctness, the sizes of the two fixed buffers and the builder's
\* capacity (s_chunk, s_line, blocklist_builder_add) included.
THEOREM TypeOKCorrect == Spec => []TypeOK
<1>1. IInv => TypeOK
  <2>. SUFFICES ASSUME IInv PROVE TypeOK
    OBVIOUS
  <2>1. Typed /\ Flags
    BY DEF IInv
  <2>2. QED
    BY <2>1, BlobShape DEF Typed, Flags, TypeOK
<1>2. QED
  BY <1>1, InvAlways, PTL

\* blocklist_builder_finish yields an artifact exactly when it succeeds, strictly
\* ascending, of what was added, and not below the floor.
THEOREM ArtifactCanonicalCorrect == Spec => []ArtifactCanonical
<1>1. IInv => ArtifactCanonical
  BY BlobShape DEF IInv, Outcome, ArtifactCanonical
<1>2. QED
  BY <1>1, InvAlways, PTL

\* Every hash in the builder, between two sources, is one of a name that a line of
\* the text of a source has, however it was cut into chunks and wherever it ended.
THEOREM NothingInventedCorrect == Spec => []NothingInvented
<1>1. IInv => NothingInvented
  <2>. SUFFICES ASSUME IInv, pc # "read", emit = <<>>
                PROVE  ToSet(hashes) \subseteq {DomainHash(nm) : nm \in received}
    BY DEF NothingInvented
  <2>1. Seen = received
    BY DEF Seen
  <2>2. QED
    BY <2>1 DEF IInv, Content, Pending
<1>2. QED
  BY <1>1, InvAlways, PTL

\* What the tokens of the allowlist are kept as are the hashes of the names that
\* it protects.
LEMMA AllowHashesMeant ==
    ASSUME AllowMeans
    PROVE  AllowHashes = {DomainHash(nm) : nm \in Protected}
<1>. DEFINE I == {j \in DOMAIN AllowList : NormalizeDomain(AllowList[j].text) # <<>>}
<1>1. I = {j \in DOMAIN AllowList : AllowList[j].name # <<>>}
  BY DEF AllowMeans
<1>2. FirstOf(I) \subseteq DOMAIN AllowList
  BY DEF FirstOf
<1>3. AllowHashes = {DomainHash(NormalizeDomain(AllowList[i].text)) : i \in FirstOf(I)}
  BY DEF AllowHashes
<1>4. Protected = {AllowList[i].name : i \in FirstOf(I)}
  BY <1>1 DEF Protected
<1>. HIDE DEF I
<1>5. \A i \in FirstOf(I) : NormalizeDomain(AllowList[i].text) = AllowList[i].name
  BY <1>2 DEF AllowMeans
<1>6. AllowHashes = {DomainHash(AllowList[i].name) : i \in FirstOf(I)}
  BY <1>3, <1>5
<1>7. QED
  BY <1>4, <1>6

\* No artifact holds the hash of a name that the allowlist protects, if
\* normalize_domain reads the allowlist's entries as they are meant.
THEOREM AllowlistKeptCorrect ==
    ASSUME AllowMeans
    PROVE  Spec => []AllowlistKept
<1>1. IInv => AllowlistKept
  <2>. SUFFICES ASSUME IInv, NEW nm \in Protected PROVE DomainHash(nm) \notin ToSet(blob)
    BY DEF AllowlistKept
  <2>1. DomainHash(nm) \in AllowHashes
    BY AllowHashesMeant
  <2>2. DomainHash(nm) \notin ToSet(hashes)
    BY <2>1 DEF IInv, Content
  <2>3. CASE status = "ok"
    BY <2>2, <2>3, BlobShape
  <2>4. CASE status # "ok"
    BY <2>4, BlobShape DEF ToSet
  <2>5. QED
    BY <2>3, <2>4
<1>2. QED
  BY <1>1, InvAlways, PTL

-----------------------------------------------------------------------------
(* Nothing is lost *)

\* What the outcome of a cycle says of the names in the builder; and, as long as
\* nothing fails, every name that was received is one that a source means.
Verdict ==
    /\ status = "below" => Cardinality(ToSet(hashes)) < MinDomains
    /\ status = "selftest" => \E nm \in Canaries : DomainHash(nm) \in ToSet(hashes)
    /\ status = "ok" => \A nm \in Canaries : DomainHash(nm) \notin ToSet(hashes)
    /\ status = "alloc" => ~intact
Complete ==
    /\ wanted \subseteq UNION {s.names : s \in Sources}
    /\ intact => wanted = received

\* The self-test passes exactly if no canary is found.
LEMMA SelfTestMeans ==
    ASSUME hashes \in Seq(Nat)
    PROVE  SelfTestPasses(Deduped(hashes), hashes)
               <=> \A nm \in Canaries : DomainHash(nm) \notin ToSet(hashes)
<1>. DEFINE list == Deduped(hashes)
<1>1. /\ list \in Seq(Nat) /\ ToSet(list) = ToSet(hashes)
      /\ \A k, l \in 1..Len(list) : k < l => list[k] < list[l]
  BY DedupedShape
<1>2. Ascending(list)
  BY <1>1, AscendingPairs
<1>. HIDE DEF list
<1>3. ASSUME NEW h \in Nat PROVE BlobContains(list, h) <=> h \in ToSet(hashes)
  BY <1>1, SearchFinds
<1>4. ASSUME NEW i \in 1..Len(hashes) PROVE BlobContains(list, hashes[i])
  <2>1. hashes[i] \in Nat /\ hashes[i] \in ToSet(hashes)
    BY ListOfItsMembers
  <2>2. QED
    BY <1>3, <2>1
<1>5. ASSUME NEW nm \in Canaries
      PROVE  BlobContains(list, DomainHash(nm)) <=> DomainHash(nm) \in ToSet(hashes)
  BY <1>3, HashAssumption
<1>6. QED
  BY <1>2, <1>4, <1>5 DEF SelfTestPasses, list

\* A list below the floor has fewer different members than the floor.
LEMMA BelowFloor ==
    ASSUME hashes \in Seq(Nat), ~MeetsFloor(hashes)
    PROVE  Cardinality(ToSet(hashes)) < MinDomains
<1>1. Deduped(hashes) \in Seq(Nat) /\ ToSet(Deduped(hashes)) = ToSet(hashes)
  BY DedupedShape
<1>2. Cardinality(ToSet(hashes)) <= Len(hashes) /\ Cardinality(ToSet(hashes)) <= Len(Deduped(hashes))
  BY <1>1, MembersBounded
<1>3. Len(hashes) \in Nat /\ Len(Deduped(hashes)) \in Nat
  BY <1>1
<1>4. Cardinality(ToSet(hashes)) \in Nat
  BY MembersBounded
<1>5. Len(hashes) < MinDomains \/ Len(Deduped(hashes)) < MinDomains
  <2>1. ~(Len(hashes) >= MinDomains) \/ ~(Len(Deduped(hashes)) >= MinDomains)
    BY DEF MeetsFloor
  <2>2. QED
    BY <1>3, <2>1, ConstantTypes
<1>6. QED
  BY <1>2, <1>3, <1>4, <1>5, ConstantTypes

LEMMA VerdictNext == IInv /\ Verdict /\ [Next]_vars => Verdict'
<1>. SUFFICES ASSUME IInv, Verdict, [Next]_vars PROVE Verdict'
  OBVIOUS
<1>1. hashes \in Seq(Nat) /\ (pc # "idle" => status = "none")
  BY DEF IInv, Typed
<1>2. CASE status' = "none"
  BY <1>2 DEF Verdict
<1>3. CASE UNCHANGED vars
  BY <1>3 DEF vars, builder, result, Verdict
<1>4. CASE Create
  <2>1. status' = "none" \/ (status' = "alloc" /\ ~intact')
    BY <1>4 DEF Create
  <2>2. QED
    BY <2>1 DEF Verdict
<1>5. CASE Finish
  <2>1. hashes' = hashes
    BY <1>5 DEF Finish, builder
  <2>2. \/ ~MeetsFloor(hashes) /\ status' = "below"
        \/ status' = "alloc" /\ ~intact'
        \/ SelfTestPasses(Deduped(hashes), hashes) /\ status' = "ok"
        \/ ~SelfTestPasses(Deduped(hashes), hashes) /\ status' = "selftest"
    BY <1>5 DEF Finish, Ends
  <2>3. QED
    BY <1>1, <2>1, <2>2, SelfTestMeans, BelowFloor DEF Verdict
<1>6. CASE OpenSource \/ ReadChunk \/ ScanLine \/ Sink \/ EndOfSource \/ ClosedEarly \/ ReadFails
  <2>1. status' = status
    BY <1>6 DEF OpenSource, ReadChunk, ScanLine, Sink, EndOfSource, ClosedEarly, ReadFails, result
  <2>2. pc # "idle"
    <3>1. pc = "idle" => emit = <<>>
      BY DEF IInv, Typed
    <3>2. QED
      BY <1>6, <3>1
         DEF OpenSource, ReadChunk, ScanLine, Sink, EndOfSource, ClosedEarly, ReadFails, AtRead
  <2>3. QED
    BY <1>1, <1>2, <2>1, <2>2
<1>7. QED
  BY <1>3, <1>4, <1>5, <1>6 DEF Next

LEMMA CompleteNext ==
    ASSUME SourcesMean
    PROVE  IInv /\ Complete /\ [Next]_vars => Complete'
<1>. SUFFICES ASSUME IInv, Complete, [Next]_vars PROVE Complete'
  OBVIOUS
<1>1. CASE Create
  BY <1>1 DEF Create, Complete
<1>2. CASE OpenSource
  BY <1>2 DEF OpenSource, Complete
<1>3. CASE ReadChunk \/ ScanLine \/ Finish \/ UNCHANGED vars
  BY <1>3 DEF ReadChunk, ScanLine, Finish, Ends, vars, history, Complete
<1>4. CASE Sink
  BY <1>4 DEF Sink, AddSink, history, Complete
<1>5. CASE EndOfSource
  <2>1. /\ pc = "read" /\ body = <<>> /\ wanted' = wanted \cup source.names
        /\ received' = received \cup NamesIn(AllLines) /\ intact' = intact
    BY <1>5 DEF EndOfSource, AtRead
  <2>2. InPlace /\ source \in Sources
    BY <2>1 DEF IInv, InPlace
  <2>. DEFINE T == source.text
  <2>3. Len(body) = Len(T) - Got /\ Got \in 0..Len(T) /\ Len(T) \in Nat /\ Len(body) = 0
    BY <2>1, <2>2, Parts, ConstantTypes
  <2>4. Got = Len(T)
    <3>. HIDE DEF T
    <3>1. QED
      BY <2>3
  <2>5. source.names = NamesIn(AllLines)
    BY <2>2, <2>4 DEF SourcesMean, AllLines
  <2>6. QED
    BY <2>1, <2>2, <2>5 DEF Complete
<1>6. CASE ClosedEarly \/ ReadFails
  BY <1>6 DEF ClosedEarly, ReadFails, Complete
<1>7. QED
  BY <1>1, <1>2, <1>3, <1>4, <1>5, <1>6 DEF Next

\* The floor, the self-test and the failures of blocklist_builder_finish say of the
\* builder's hashes what their names say.
THEOREM VerdictAlways == Spec => []Verdict
<1>1. Init => Verdict
  BY DEF Init, Verdict
<1>2. QED
  BY <1>1, VerdictNext, InvAlways, PTL DEF Spec

\* What a cycle in which nothing failed has added, at its end: every name that
\* the sources mean, except those that are protected, and no other.
LEMMA AllAdded ==
    ASSUME AllowMeans, HashesDistinct, IInv, Complete, pc = "idle", intact
    PROVE  ToSet(hashes) = {DomainHash(nm) : nm \in wanted \ Protected}
<1>1. emit = <<>> /\ received = wanted /\ wanted \subseteq UNION {s.names : s \in Sources}
  BY DEF IInv, Typed, Complete
<1>2. Pending = ToSet(hashes) /\ Seen = wanted
  BY <1>1 DEF Pending, Seen, ToSet
<1>3. /\ ToSet(hashes) \subseteq {DomainHash(nm) : nm \in wanted}
      /\ {DomainHash(nm) : nm \in wanted} \subseteq AllowHashes \cup ToSet(hashes)
      /\ ToSet(hashes) \cap AllowHashes = {}
  BY <1>2 DEF IInv, Content
<1>4. AllowHashes = {DomainHash(nm) : nm \in Protected}
  BY AllowHashesMeant
<1>5. ASSUME NEW nm \in wanted, nm \notin Protected PROVE DomainHash(nm) \notin AllowHashes
  BY <1>1, <1>4, <1>5 DEF HashesDistinct
<1>6. QED
  BY <1>3, <1>4, <1>5

\* A cycle in which nothing fails lists every name that the sources mean and the
\* allowlist does not protect, and no other, or fails because they are too few or
\* a canary is among them.
THEOREM NothingLostCorrect ==
    ASSUME SourcesMean, AllowMeans, HashesDistinct
    PROVE  Spec => []NothingLost
<1>1. Init => Complete
  BY DEF Init, Complete
<1>2. Spec => []Complete
  BY <1>1, CompleteNext, InvAlways, PTL DEF Spec
<1>3. IInv /\ Verdict /\ Complete => NothingLost
  <2>. SUFFICES ASSUME IInv, Verdict, Complete, pc = "idle", intact
                PROVE  LET hopes == {DomainHash(nm) : nm \in wanted \ Protected}
                           tested == \A nm \in Canaries : DomainHash(nm) \notin hopes
                       IN  /\ status = "ok" => tested /\ ToSet(blob) = hopes
                           /\ status = "below" => Cardinality(hopes) < MinDomains
                           /\ status = "selftest" => ~tested
                           /\ status # "alloc"
    BY DEF NothingLost
  <2>1. ToSet(hashes) = {DomainHash(nm) : nm \in wanted \ Protected}
    BY AllAdded
  <2>2. status = "ok" => ToSet(blob) = ToSet(hashes)
    BY BlobShape
  <2>3. QED
    BY <2>1, <2>2 DEF Verdict
<1>4. QED
  BY <1>2, <1>3, InvAlways, VerdictAlways, PTL

-----------------------------------------------------------------------------
(* What clients are answered *)

\* The name of a question grows with each label, so that it fits after every
\* label if it fits after the last.
LEMMA JoinedShape ==
    ASSUME NEW C, NEW labels \in Seq(Seq(C)), NameSize \in Int
    PROVE  /\ \E X : NameBuffer(labels) \in Seq(X)
           /\ Fits(labels) <=> Len(NameBuffer(labels)) < NameSize
<1>. DEFINE X == C \cup Letters \cup {"."}
            n == Len(labels)
            step(b, lab) == (IF b = <<>> THEN <<>> ELSE Append(b, ".")) \o LowerCase(lab)
            IsRun(f) == f = [k \in 0..n |-> IF k = 0 THEN <<>> ELSE step(f[k-1], labels[k])]
            name == Joined(labels)
<1>1. n \in Nat /\ \A k \in 1..n : labels[k] \in Seq(C)
  OBVIOUS
<1>2. name = CHOOSE f : IsRun(f)
  BY DEF Joined
<1>. HIDE DEF n
<1>3. ASSUME NEW b \in Seq(X), NEW lab \in Seq(C)
      PROVE  step(b, lab) \in Seq(X) /\ Len(b) <= Len(step(b, lab))
  <2>1. ASSUME NEW c \in C PROVE Lower(c) \in X
    BY DEF Lower
  <2>2. LowerCase(lab) \in Seq(X)
    <3>1. LowerCase(lab) = [i \in 1..Len(lab) |-> Lower(lab[i])] /\ Len(lab) \in Nat
      BY DEF LowerCase
    <3>2. \A i \in 1..Len(lab) : Lower(lab[i]) \in X
      BY <2>1
    <3>. HIDE DEF X
    <3>3. QED
      BY <3>1, <3>2
  <2>. DEFINE x == IF b = <<>> THEN <<>> ELSE Append(b, ".")
  <2>3. x \in Seq(X) /\ Len(b) <= Len(x)
    <3>1. CASE b = <<>>
      BY <3>1
    <3>2. CASE b # <<>>
      <4>1. "." \in X
        OBVIOUS
      <4>. HIDE DEF X
      <4>2. Append(b, ".") \in Seq(X) /\ Len(Append(b, ".")) = Len(b) + 1
        BY <4>1
      <4>3. QED
        BY <3>2, <4>2
    <3>3. QED
      BY <3>1, <3>2
  <2>. HIDE DEF x, X
  <2>4. x \o LowerCase(lab) \in Seq(X) /\ Len(x \o LowerCase(lab)) = Len(x) + Len(LowerCase(lab))
    BY <2>2, <2>3, ConcatProperties
  <2>5. Len(LowerCase(lab)) \in Nat /\ Len(x) \in Nat /\ Len(b) \in Nat
    BY <2>2, <2>3
  <2>6. QED
    BY <2>3, <2>4, <2>5 DEF x
<1>. HIDE DEF step, X
<1>4. \E f : IsRun(f)
  <2>. DEFINE G == [p \in (1..n) \X Seq(X) |-> step(p[2], labels[p[1]])]
  <2>1. G \in [(1..n) \X Seq(X) -> Seq(X)]
    BY <1>1, <1>3
  <2>2. \A k \in 1..n, b \in Seq(X) : G[<<k, b>>] = step(b, labels[k])
    OBVIOUS
  <2>. HIDE DEF G
  <2>3. PICK f : Runs(n, Seq(X), <<>>, G, f)
    <3>1. Recursion(n, Seq(X), <<>>, G)
      BY <1>1, <2>1 DEF Recursion
    <3>2. QED
      BY <3>1, RecursionExists
  <2>. f \in [0..n -> Seq(X)] /\ f[0] = <<>> /\ \A k \in 1..n : f[k] = G[<<k, f[k-1]>>]
    BY <2>3 DEF Runs
  <2>4. \A k \in 1..n : f[k] = step(f[k-1], labels[k])
    <3>1. \A k \in 1..n : k - 1 \in 0..n
      BY <1>1
    <3>2. QED
      BY <2>2, <3>1
  <2>5. IsRun(f)
    BY <2>4
  <2>6. QED
    BY <2>5
<1>5. IsRun(name)
  BY <1>2, <1>4
<1>. HIDE DEF name
<1>. DEFINE T == {k \in 0..n : name[k] \in Seq(X) /\ \A j \in 0..k : Len(name[j]) <= Len(name[k])}
<1>6. 0 \in T
  <2>1. name[0] = <<>> /\ 0 \in 0..n
    BY <1>1, <1>5
  <2>2. name[0] \in Seq(X) /\ Len(name[0]) <= Len(name[0])
    BY <2>1
  <2>3. \A j \in 0..0 : j = 0
    OBVIOUS
  <2>4. \A j \in 0..0 : Len(name[j]) <= Len(name[0])
    BY <2>2, <2>3
  <2>5. QED
    BY <2>1, <2>2, <2>4
<1>7. ASSUME NEW k \in 1..n, k - 1 \in T PROVE k \in T
  <2>1. name[k] = step(name[k-1], labels[k]) /\ k \in 0..n
    BY <1>1, <1>5
  <2>2. name[k-1] \in Seq(X) /\ \A j \in 0..(k-1) : Len(name[j]) <= Len(name[k-1])
    BY <1>7
  <2>3. name[k] \in Seq(X) /\ Len(name[k-1]) <= Len(name[k])
    BY <1>1, <1>3, <2>1, <2>2
  <2>4. ASSUME NEW j \in 0..k PROVE Len(name[j]) <= Len(name[k])
    <3>1. CASE j = k
      BY <2>3, <3>1
    <3>2. CASE j # k
      <4>1. j \in 0..(k-1) /\ j \in 0..n
        BY <1>1, <3>2
      <4>2. Len(name[k-1]) \in Nat /\ Len(name[k]) \in Nat
        BY <2>2, <2>3
      <4>3. Len(name[j]) <= Len(name[k-1])
        BY <2>2, <4>1
      <4>4. Len(name[j]) \in Int
        BY <4>3, <4>2, <1>7, <4>1
      <4>5. QED
        BY <2>3, <4>2, <4>3, <4>4
    <3>3. QED
      BY <3>1, <3>2
  <2>5. QED
    BY <2>1, <2>3, <2>4
<1>8. 0..n \subseteq T
  <2>1. T \in SUBSET Nat
    OBVIOUS
  <2>. HIDE DEF T
  <2>2. QED
    BY <1>1, <1>6, <1>7, <2>1, UpTo
<1>9. /\ \A k \in 0..n : name[k] \in Seq(X) /\ Len(name[k]) \in Nat /\ Len(name[k]) <= Len(name[n])
      /\ n \in 0..n
  BY <1>1, <1>8
<1>10. QED
  BY <1>9 DEF Fits, NameBuffer, name, n

\* A C string is text, too.
LEMMA CStringShape ==
    ASSUME NEW C, NEW s \in Seq(C)
    PROVE  CString(s) \in Seq(C)
<1>. DEFINE ends == {i \in 1..Len(s) : s[i] = Nul} \cup {Len(s) + 1}
<1>1. Len(s) + 1 \in Nat /\ ends \in SUBSET (0..Len(s) + 1) /\ ends # {}
  OBVIOUS
<1>2. Min(ends) \in ends
  BY <1>1, Extremes
<1>3. Min(ends) - 1 \in 0..Len(s)
  BY <1>1, <1>2
<1>. HIDE DEF ends
<1>4. SubSeq(s, 1, Min(ends) - 1) \in Seq(C)
  BY <1>3
<1>5. QED
  BY <1>4 DEF CString, ends

\* is_blocked looks up the name itself, and of the names that it is a subdomain of
\* all those that have a dot.
THEOREM LookedUpMeans ==
    ASSUME NEW C, NEW q \in Seq(C), NEW D, NEW nm \in Seq(D),
           NEW i \in 1..Len(nm), nm[i] = "."
    PROVE  nm \in LookedUp(q) <=> nm = q \/ IsSuffix(<<".">> \o nm, q)
<1>. DEFINE s == <<".">> \o nm
            l == Len(nm)
            n == Len(q)
            k == n - l
<1>1. l \in Nat /\ n \in Nat /\ k \in Int /\ i \in 1..l
  OBVIOUS
<1>2. Len(s) = l + 1 /\ s[1] = "." /\ \A j \in 1..l : s[j + 1] = nm[j]
  <2>1. <<".">> \in Seq(D \cup {"."}) /\ nm \in Seq(D \cup {"."}) /\ Len(<<".">>) = 1
    <3>1. nm \in Seq(D \cup {"."})
      BY SeqMonotonic
    <3>2. QED
      BY <3>1
  <2>2. /\ Len(s) = 1 + l
        /\ \A j \in 1..(1 + l) : s[j] = IF j <= 1 THEN <<".">>[j] ELSE nm[j - 1]
    BY <2>1, ConcatProperties
  <2>. HIDE DEF s
  <2>3. ASSUME NEW j \in 1..l PROVE s[j + 1] = nm[j]
    <3>1. j + 1 \in 1..(1 + l) /\ ~(j + 1 <= 1) /\ (j + 1) - 1 = j
      BY <1>1
    <3>2. QED
      BY <2>2, <3>1
  <2>4. s[1] = "." /\ Len(s) = l + 1
    BY <1>1, <2>2
  <2>5. QED
    BY <2>3, <2>4
<1>3. IsSuffix(s, q) <=> k >= 1 /\ q[k] = "." /\ \A j \in 1..l : nm[j] = q[k + j]
  <2>. DEFINE a == Reverse(s)
              b == Reverse(q)
  <2>. HIDE DEF s
  <2>1. /\ a = [j \in 1..(l + 1) |-> s[(l + 1 - j) + 1]] /\ Len(a) = l + 1
        /\ b = [j \in 1..n |-> q[(n - j) + 1]] /\ Len(b) = n
    BY <1>1, <1>2 DEF Reverse
  <2>2. IsSuffix(s, q) <=> l + 1 <= n /\ SubSeq(a, 1, l + 1) = SubSeq(b, 1, l + 1)
    BY <2>1 DEF IsSuffix, IsPrefix
  <2>. HIDE DEF a, b
  <2>3. l + 1 <= n <=> k >= 1
    BY <1>1
  <2>4. ASSUME k >= 1
        PROVE  SubSeq(a, 1, l + 1) = SubSeq(b, 1, l + 1) <=> \A j \in 1..(l + 1) : a[j] = b[j]
    <3>1. /\ SubSeq(a, 1, l + 1) = [j \in 1..(l + 1) |-> a[j]]
          /\ SubSeq(b, 1, l + 1) = [j \in 1..(l + 1) |-> b[j]]
      BY <1>1
    <3>2. QED
      BY <3>1
  <2>5. ASSUME k >= 1
        PROVE  (\A j \in 1..(l + 1) : a[j] = b[j])
                   <=> q[k] = "." /\ \A j \in 1..l : nm[j] = q[k + j]
    <3>1. ASSUME NEW j \in 1..(l + 1) PROVE a[j] = s[l + 2 - j] /\ b[j] = q[n + 1 - j]
      <4>1. j \in 1..n /\ (l + 1 - j) + 1 = l + 2 - j /\ (n - j) + 1 = n + 1 - j
        BY <1>1, <2>5
      <4>2. QED
        BY <2>1, <4>1
    <3>2. a[l + 1] = "." /\ b[l + 1] = q[k]
      <4>1. l + 1 \in 1..(l + 1) /\ l + 2 - (l + 1) = 1 /\ n + 1 - (l + 1) = k
        BY <1>1
      <4>2. QED
        BY <1>2, <3>1, <4>1
    <3>3. ASSUME NEW j \in 1..l
          PROVE  l + 1 - j \in 1..l /\ a[l + 1 - j] = nm[j] /\ b[l + 1 - j] = q[k + j]
      <4>1. /\ l + 1 - j \in 1..l /\ l + 1 - j \in 1..(l + 1)
            /\ l + 2 - (l + 1 - j) = j + 1 /\ n + 1 - (l + 1 - j) = k + j
        BY <1>1
      <4>2. QED
        BY <1>2, <3>1, <4>1
    <3>4. ASSUME NEW j \in 1..(l + 1), j # l + 1
          PROVE  l + 1 - j \in 1..l /\ l + 1 - (l + 1 - j) = j
      BY <1>1, <3>4
    <3>5. ASSUME q[k] = ".", \A j \in 1..l : nm[j] = q[k + j], NEW j \in 1..(l + 1)
          PROVE  a[j] = b[j]
      <4>1. CASE j = l + 1
        BY <3>2, <3>5, <4>1
      <4>2. CASE j # l + 1
        BY <3>3, <3>4, <3>5, <4>2
      <4>3. QED
        BY <4>1, <4>2
    <3>6. ASSUME \A j \in 1..(l + 1) : a[j] = b[j]
          PROVE  q[k] = "." /\ \A j \in 1..l : nm[j] = q[k + j]
      <4>1. l + 1 \in 1..(l + 1) /\ \A j \in 1..l : l + 1 - j \in 1..(l + 1)
        BY <1>1
      <4>2. q[k] = "."
        <5>1. a[l + 1] = b[l + 1]
          BY <3>6, <4>1
        <5>2. QED
          BY <3>2, <5>1
      <4>3. ASSUME NEW j \in 1..l PROVE nm[j] = q[k + j]
        <5>1. a[l + 1 - j] = b[l + 1 - j]
          BY <3>6, <4>1, <4>3
        <5>2. a[l + 1 - j] = nm[j] /\ b[l + 1 - j] = q[k + j]
          BY <3>3, <4>3
        <5>3. QED
          BY <5>1, <5>2
      <4>4. QED
        BY <4>2, <4>3
    <3>7. QED
      BY <3>5, <3>6
  <2>6. QED
    BY <2>2, <2>3, <2>4, <2>5
<1>4. ASSUME NEW m \in 1..n
      PROVE  nm = SubSeq(q, m + 1, n) <=> m = k /\ \A j \in 1..l : nm[j] = q[k + j]
  <2>. DEFINE t == SubSeq(q, m + 1, n)
  <2>1. /\ t \in Seq(C) /\ Len(t) = n - m
        /\ \A j \in 1..(n - m) : t[j] = q[m + j]
    <3>1. m + 1 \in Int /\ \A j \in (m + 1)..n : q[j] \in C
      BY <1>1
    <3>2. /\ t \in Seq(C) /\ Len(t) = (IF m + 1 <= n THEN n - (m + 1) + 1 ELSE 0)
          /\ \A j \in 1..(n - (m + 1) + 1) : t[j] = q[m + 1 + j - 1]
      BY <1>1, <3>1, SubSeqProperties
    <3>. HIDE DEF t
    <3>3. n - (m + 1) + 1 = n - m /\ (~(m + 1 <= n) => n - m = 0)
      BY <1>1
    <3>4. \A j \in 1..(n - m) : m + 1 + j - 1 = m + j
      BY <1>1
    <3>5. QED
      BY <3>2, <3>3, <3>4
  <2>. HIDE DEF t
  <2>2. nm = t => m = k /\ \A j \in 1..l : nm[j] = q[k + j]
    <3>1. SUFFICES ASSUME nm = t PROVE m = k /\ \A j \in 1..l : nm[j] = q[k + j]
      OBVIOUS
    <3>2. l = n - m
      BY <2>1, <3>1
    <3>3. m = k
      BY <1>1, <3>2
    <3>4. QED
      BY <2>1, <3>1, <3>2, <3>3
  <2>3. ASSUME m = k, \A j \in 1..l : nm[j] = q[k + j] PROVE nm = t
    <3>1. n - m = l
      BY <1>1, <2>3
    <3>2. nm = [j \in 1..l |-> nm[j]] /\ t = [j \in 1..l |-> t[j]]
      BY <2>1, <3>1
    <3>3. \A j \in 1..l : nm[j] = t[j]
      BY <2>1, <2>3, <3>1
    <3>4. QED
      BY <3>2, <3>3
  <2>4. QED
    BY <2>2, <2>3 DEF t
<1>5. DOMAIN q = 1..n
  OBVIOUS
<1>6. nm \in LookedUp(q) <=>
         nm = q \/ \E m \in 1..n : /\ nm = SubSeq(q, m + 1, n) /\ q[m] = "."
                                    /\ \E j \in 1..n : j > m /\ q[j] = "."
  BY <1>5 DEF LookedUp
<1>. HIDE DEF s, k, l, n
<1>7. ASSUME k >= 1, \A j \in 1..l : nm[j] = q[k + j]
      PROVE  k \in 1..n /\ \E j \in 1..n : j > k /\ q[j] = "."
  <2>1. k \in 1..n /\ k + i \in 1..n /\ k + i > k
    BY <1>1, <1>7 DEF k
  <2>2. q[k + i] = "."
    BY <1>1, <1>7
  <2>3. QED
    BY <2>1, <2>2
<1>8. ASSUME IsSuffix(s, q) PROVE nm \in LookedUp(q)
  <2>1. k >= 1 /\ q[k] = "." /\ \A j \in 1..l : nm[j] = q[k + j]
    BY <1>3, <1>8
  <2>2. k \in 1..n /\ \E j \in 1..n : j > k /\ q[j] = "."
    BY <1>7, <2>1
  <2>3. nm = SubSeq(q, k + 1, n)
    BY <1>4, <2>1, <2>2
  <2>4. QED
    BY <1>6, <2>1, <2>2, <2>3
<1>9. ASSUME nm \in LookedUp(q), nm # q PROVE IsSuffix(s, q)
  <2>1. PICK m \in 1..n : nm = SubSeq(q, m + 1, n) /\ q[m] = "."
    BY <1>6, <1>9
  <2>2. m = k /\ \A j \in 1..l : nm[j] = q[k + j]
    BY <1>4, <2>1
  <2>3. m >= 1
    BY <2>1
  <2>4. QED
    BY <1>3, <2>1, <2>2, <2>3
<1>10. nm = q => nm \in LookedUp(q)
  BY <1>6
<1>11. QED
  BY <1>8, <1>9, <1>10 DEF s

\* A name that normalize_domain lets pass has a dot.
LEMMA NameHasDot ==
    ASSUME NEW nm, Len(nm) \in Nat, ValidDomainShape(nm)
    PROVE  \E i \in 1..Len(nm) : nm[i] = "."
<1>. DEFINE n == Len(nm)
            cuts == {0, n + 1} \cup {i \in 1..n : nm[i] \in {"."}}
<1>1. Len(Split(nm, {"."})) \in Nat /\ Len(Split(nm, {"."})) = Cardinality(cuts) - 1
  BY SplitShape
<1>2. Len(Split(nm, {"."})) >= 2
  BY DEF ValidDomainShape
<1>3. SUFFICES ASSUME ~\E i \in 1..n : nm[i] = "." PROVE FALSE
  OBVIOUS
<1>4. cuts = {0, n + 1} /\ 0 # n + 1
  BY <1>3
<1>5. Cardinality({0, n + 1}) = 2
  BY <1>4, TwoMembers
<1>6. Cardinality(cuts) = 2
  BY <1>4, <1>5
<1>. DEFINE pieces == Len(Split(nm, {"."}))
<1>. HIDE DEF cuts, pieces
<1>7. pieces = 2 - 1
  BY <1>1, <1>6 DEF pieces
<1>8. pieces >= 2
  BY <1>2 DEF pieces
<1>9. QED
  BY <1>7, <1>8

\* The names that the sources mean are texts with a dot.
LEMMA MeantNames ==
    ASSUME SourcesMean, NEW nm \in UNION {s.names : s \in Sources}
    PROVE  nm \in Seq(ToSet(nm)) /\ \E i \in 1..Len(nm) : nm[i] = "."
<1>1. PICK s \in Sources : nm \in s.names
  OBVIOUS
<1>. DEFINE T == s.text
<1>2. nm \in Seq(ToSet(nm)) /\ T \in Seq(ToSet(T)) /\ Len(T) \in Nat
  BY <1>1, LineNames, PipelineAssumption
<1>3. nm \in NamesIn(Lines(T, Len(T)))
  BY <1>1 DEF SourcesMean
<1>4. PICK b \in 1..(Len(T) + 1) : nm \in ToSet(ParseLine(Line(T, b)))
  BY <1>2, <1>3 DEF NamesIn, Lines, Ended, Newlines
<1>5. Line(T, b) \in Seq(ToSet(T))
  BY <1>2, LineShape
<1>6. nm # <<>> /\ \E token : nm = NormalizeDomain(token)
  BY <1>4, <1>5, ParseLineShape
<1>7. ValidDomainShape(nm)
  BY <1>6 DEF NormalizeDomain
<1>8. QED
  BY <1>2, <1>7, NameHasDot

\* With the artifact of a cycle in which nothing failed, the sinkhole blocks a
\* question exactly if what comes before a NUL in its name, which is the whole of
\* a name without one, is a name that some source means and the allowlist does not
\* protect, or a subdomain of one; and parse_question reads every question whose
\* name is as short as normalize_domain demands, and no other.
THEOREM ListedNamesBlockedCorrect ==
    ASSUME SourcesMean, AllowMeans, HashesDistinct, QuestionsMean, LookupsDistinct,
           NameSize = MaxName + 1
    PROVE  Spec => []ListedNamesBlocked
<1>1. Init => Complete
  BY DEF Init, Complete
<1>2. Spec => []Complete
  BY <1>1, CompleteNext, InvAlways, PTL DEF Spec
<1>3. ASSUME NEW q \in Questions
      PROVE  /\ \E X : q.name \in Seq(X)
             /\ \E X : q.read \in Seq(X)
             /\ QuestionName(q.labels) = q.read
             /\ Fits(q.labels) <=> Len(q.name) <= MaxName
  <2>1. NameBuffer(q.labels) = q.name /\ QuestionName(q.labels) = q.read
    BY DEF QuestionsMean
  <2>2. PICK C : q.labels \in Seq(Seq(C))
    BY PipelineAssumption
  <2>3. MaxName \in Nat /\ NameSize \in Int
    BY PipelineAssumption
  <2>4. /\ \E X : q.name \in Seq(X)
        /\ Fits(q.labels) <=> Len(q.name) < NameSize
    BY <2>1, <2>2, <2>3, JoinedShape
  <2>5. Len(q.name) \in Nat
    BY <2>4
  <2>6. Len(q.name) < NameSize <=> Len(q.name) <= MaxName
    BY <2>3, <2>5
  <2>7. \E X : q.read \in Seq(X)
    BY <2>1, <2>4, CStringShape DEF QuestionName
  <2>8. QED
    BY <2>1, <2>4, <2>6, <2>7
<1>4. ASSUME IInv, Complete, pc = "idle", intact, status = "ok", NEW q \in Questions
      PROVE  Blocks(q.read) <=> \E nm \in wanted \ Protected :
                                   nm = q.read \/ IsSuffix(<<".">> \o nm, q.read)
  <2>1. ToSet(blob) = {DomainHash(nm) : nm \in wanted \ Protected}
    BY <1>4, AllAdded, BlobShape
  <2>2. wanted \subseteq UNION {s.names : s \in Sources}
    BY <1>4 DEF Complete
  <2>3. PICK X : q.read \in Seq(X)
    BY <1>3
  <2>4. ASSUME NEW nm \in wanted
        PROVE  nm \in LookedUp(q.read) <=> nm = q.read \/ IsSuffix(<<".">> \o nm, q.read)
    <3>1. nm \in Seq(ToSet(nm)) /\ \E i \in 1..Len(nm) : nm[i] = "."
      BY <2>2, MeantNames
    <3>2. QED
      BY <2>3, <3>1, LookedUpMeans
  <2>5. ASSUME NEW s \in LookedUp(q.read), NEW nm \in wanted, DomainHash(s) = DomainHash(nm)
        PROVE  s = nm
    BY <1>3, <2>2, <2>5 DEF LookupsDistinct
  <2>6. (\E s \in LookedUp(q.read) : DomainHash(s) \in ToSet(blob))
            <=> \E nm \in wanted \ Protected : nm \in LookedUp(q.read)
    BY <2>1, <2>5
  <2>7. ASSUME NEW nm \in wanted, nm \in LookedUp(q.read) PROVE q.read # <<>>
    <3>1. PICK i \in 1..Len(nm) : nm[i] = "."
      BY <2>2, MeantNames
    <3>2. SUFFICES ASSUME q.read = <<>> PROVE FALSE
      OBVIOUS
    <3>3. nm = <<>>
      BY <2>7, <3>2 DEF LookedUp
    <3>4. QED
      BY <3>1, <3>3
  <2>8. QED
    BY <2>4, <2>6, <2>7 DEF Blocks
<1>5. IInv /\ Complete => ListedNamesBlocked
  BY <1>3, <1>4 DEF ListedNamesBlocked
<1>6. QED
  BY <1>2, <1>5, InvAlways, PTL

===============================================================================
