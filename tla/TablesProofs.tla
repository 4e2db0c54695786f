---------------------------- MODULE TablesProofs ----------------------------
(***************************************************************************)
(* What a retain leaves of a table (Tables.tla), for any table: some of    *)
(* its entries, no two of them the same one, and no more than there were.  *)
(*                                                                         *)
(* That a set of indices can be enumerated in order is proved by a least   *)
(* counterexample, as the induction principle of the numbers itself is     *)
(* (NatLessThanWellFounded, WFMin).                                        *)
(***************************************************************************)
EXTENDS Tables, SequenceTheorems, FiniteSetTheorems, WellFoundedInduction, TLAPS

(* The least number of a set.                                              *)
LEMMA Least ==
    ASSUME NEW S \in SUBSET Nat, S # {}
    PROVE  \E n \in S : \A m \in S : n <= m
<1>1. PICK n \in S : \A m \in S : ~ (<<m, n>> \in OpToRel(<, Nat))
  BY NatLessThanWellFounded, WFMin
<1>2. \A m \in S : ~ (m < n)
  BY <1>1 DEF OpToRel
<1>. QED  BY <1>2

(* The greatest of a bounded set.                                          *)
LEMMA Greatest ==
    ASSUME NEW n \in Nat, NEW S \in SUBSET (0 .. n), S # {}
    PROVE  \E m \in S : \A j \in S : j <= m
<1>. DEFINE R == {n - j : j \in S}
<1>1. R \in SUBSET Nat /\ R # {}
  <2>1. \A j \in S : j \in Nat /\ n - j \in Nat
    OBVIOUS
  <2>2. R \in SUBSET Nat
    BY <2>1
  <2>3. PICK j \in S : TRUE
    OBVIOUS
  <2>4. n - j \in R
    BY <2>3
  <2>. QED  BY <2>2, <2>4
<1>2. PICK r \in R : \A q \in R : r <= q
  BY <1>1, Least
<1>3. PICK m \in S : r = n - m
  BY <1>2
<1>4. \A j \in S : j <= m
  BY <1>2, <1>3
<1>. QED  BY <1>4

Rises(f, n) == \A i, j \in 1 .. n : i < j => f[i] < f[j]

(* Every set of indices can be enumerated from below: a least bound below  *)
(* which some set could not be enumerated would contradict itself.         *)
Enumerable(n) ==
    \A K \in SUBSET (1 .. n) :
       /\ IsFiniteSet(K)
       /\ \E f \in [1 .. Cardinality(K) -> K] : Rises(f, Cardinality(K))

LEMMA AllEnumerable == \A n \in Nat : Enumerable(n)
<1>. DEFINE Bad == {n \in Nat : ~Enumerable(n)}
<1>. SUFFICES ASSUME Bad # {} PROVE FALSE
  OBVIOUS
<1>1. PICK n \in Bad : \A m \in Bad : n <= m
  BY Least
<1>2. n \in Nat /\ ~Enumerable(n) /\ \A m \in Nat : m < n => Enumerable(m)
  BY <1>1
<1>3. CASE n = 0
  <2>1. \A x \in 1 .. 0 : FALSE
    OBVIOUS
  <2>2. IsFiniteSet({}) /\ Cardinality({}) = 0
    BY FS_EmptySet
  <2>3. \E f \in [1 .. 0 -> {}] : Rises(f, 0)
    <3>1. [i \in 1 .. 0 |-> 0] \in [1 .. 0 -> {}]
      BY <2>1
    <3>. QED  BY <2>1, <3>1 DEF Rises
  <2>4. \A K \in SUBSET (1 .. 0) : K = {}
    BY <2>1
  <2>. QED  BY <1>2, <1>3, <2>2, <2>3, <2>4 DEF Enumerable
<1>4. CASE n > 0
  <2>1. n - 1 \in Nat /\ Enumerable(n - 1)
    BY <1>2, <1>4
  <2>2. ASSUME NEW K \in SUBSET (1 .. n)
        PROVE  /\ IsFiniteSet(K)
               /\ \E f \in [1 .. Cardinality(K) -> K] : Rises(f, Cardinality(K))
    <3>. DEFINE L == K \ {n}
                c == Cardinality(L)
    <3>1. L \in SUBSET (1 .. n - 1)
      BY <1>2, <1>4
    <3>2. IsFiniteSet(L) /\ \E f \in [1 .. c -> L] : Rises(f, c)
      BY <2>1, <3>1 DEF Enumerable
    <3>3. CASE n \notin K
      <4>1. L = K
        BY <3>3
      <4>. QED  BY <3>2, <4>1
    <3>4. CASE n \in K
      <4>1. PICK f \in [1 .. c -> L] : Rises(f, c)
        BY <3>2
      <4>2. c \in Nat
        BY <3>2, FS_CardinalityType
      <4>3. K = L \cup {n} /\ n \notin L
        BY <3>4
      <4>. HIDE DEF L, c
      <4>4. IsFiniteSet(K) /\ Cardinality(K) = c + 1
        BY <3>2, <4>3, FS_AddElement DEF c
      <4>. DEFINE g == [i \in 1 .. c + 1 |-> IF i = c + 1 THEN n ELSE f[i]]
      <4>5. g \in [1 .. c + 1 -> K]
        BY <4>1, <4>2, <4>3
      <4>6. ASSUME NEW i \in 1 .. c + 1, NEW j \in 1 .. c + 1, i < j
            PROVE  g[i] < g[j]
        <5>1. i \in 1 .. c /\ g[i] = f[i] /\ f[i] \in L
          BY <4>1, <4>2, <4>6
        <5>2. f[i] < n /\ f[i] \in Nat
          <6>1. f[i] \in 1 .. n - 1
            BY <3>1, <5>1
          <6>. QED  BY <1>2, <6>1
        <5>3. CASE j = c + 1
          <6>1. g[j] = n
            BY <5>3
          <6>. QED  BY <5>1, <5>2, <6>1
        <5>4. CASE j # c + 1
          <6>1. j \in 1 .. c /\ g[j] = f[j]
            BY <4>2, <5>4
          <6>. QED  BY <4>1, <4>6, <5>1, <6>1 DEF Rises
        <5>. QED  BY <5>3, <5>4
      <4>. QED  BY <4>4, <4>5, <4>6 DEF Rises
    <3>. QED  BY <3>3, <3>4
  <2>. QED  BY <1>2, <2>2 DEF Enumerable
<1>. QED  BY <1>2, <1>3, <1>4

LEMMA IndexSet ==
    ASSUME NEW n \in Nat, NEW K \in SUBSET (1 .. n)
    PROVE  /\ IsFiniteSet(1 .. n) /\ Cardinality(1 .. n) = n
           /\ IsFiniteSet(K) /\ Cardinality(K) \in Nat /\ Cardinality(K) <= n
<1>1. IsFiniteSet(1 .. n) /\ Cardinality(1 .. n) = IF 1 > n THEN 0 ELSE n - 1 + 1
  BY FS_Interval
<1>2. Cardinality(1 .. n) = n
  BY <1>1
<1>3. IsFiniteSet(K) /\ Cardinality(K) <= Cardinality(1 .. n)
  BY <1>1, FS_Subset
<1>4. Cardinality(K) \in Nat
  BY <1>3, FS_CardinalityType
<1>. QED  BY <1>1, <1>2, <1>3, <1>4

(* What is retained: entries of the table in their order.                  *)
LEMMA RetainedAre ==
    ASSUME NEW S, NEW t \in Seq(S), NEW keep \in SUBSET (1 .. Len(t))
    PROVE  /\ Cardinality(keep) \in Nat /\ Cardinality(keep) <= Len(t)
           /\ \E at \in [1 .. Cardinality(keep) -> keep] :
                 /\ Rises(at, Cardinality(keep))
                 /\ Retained(t, keep) = [i \in 1 .. Cardinality(keep) |-> t[at[i]]]
<1>. DEFINE n == Cardinality(keep)
            at == CHOOSE f \in [1 .. n -> keep] :
                     \A i, j \in 1 .. n : i < j => f[i] < f[j]
<1>1. Len(t) \in Nat
  BY LenProperties
<1>2. IsFiniteSet(keep) /\ \E f \in [1 .. n -> keep] : Rises(f, n)
  BY <1>1, AllEnumerable DEF Enumerable
<1>3. n \in Nat /\ n <= Len(t)
  BY <1>1, IndexSet
<1>4. at \in [1 .. n -> keep] /\ Rises(at, n)
  BY <1>2 DEF Rises
<1>5. Retained(t, keep) = [i \in 1 .. n |-> t[at[i]]]
  BY DEF Retained
<1>. HIDE DEF n, at
<1>6. \E a \in [1 .. n -> keep] :
         Rises(a, n) /\ Retained(t, keep) = [i \in 1 .. n |-> t[a[i]]]
  BY <1>4, <1>5
<1>. QED  BY <1>3, <1>6 DEF n

(* These entries and no others, no two of them the same one.               *)
Drawn(u, S, t, keep) ==
    /\ u \in Seq(S) /\ Len(u) = Cardinality(keep)
    /\ Len(u) \in Nat /\ Len(u) <= Len(t)
    /\ \A i \in 1 .. Len(u) : \E j \in keep : u[i] = t[j]
    /\ \A j \in keep : \E i \in 1 .. Len(u) : u[i] = t[j]
    /\ \A i, j \in 1 .. Len(u) : i # j =>
          \E k, l \in 1 .. Len(t) : k # l /\ u[i] = t[k] /\ u[j] = t[l]

LEMMA RetainedEntries ==
    ASSUME NEW S, NEW t \in Seq(S), NEW keep \in SUBSET (1 .. Len(t))
    PROVE  Drawn(Retained(t, keep), S, t, keep)
<1>. DEFINE u == Retained(t, keep)
            n == Cardinality(keep)
<1>0. n \in Nat /\ n <= Len(t)
  BY RetainedAre
<1>1. PICK at \in [1 .. n -> keep] :
         Rises(at, n) /\ u = [i \in 1 .. n |-> t[at[i]]]
  BY RetainedAre
<1>. HIDE DEF u, n
<1>2. \A i \in 1 .. n : at[i] \in keep /\ at[i] \in 1 .. Len(t)
  BY <1>1
<1>3. \A i \in 1 .. n : t[at[i]] \in S
  BY <1>2, ElementOfSeq
<1>4. u \in Seq(S) /\ Len(u) = n /\ \A i \in 1 .. n : u[i] = t[at[i]]
  BY <1>0, <1>1, <1>3
<1>5. ASSUME NEW i \in 1 .. n, NEW j \in 1 .. n, i # j
      PROVE  \E k, l \in 1 .. Len(t) : k # l /\ u[i] = t[k] /\ u[j] = t[l]
  <2>1. at[i] # at[j]
    <3>1. at[i] \in Int /\ at[j] \in Int
      BY <1>2
    <3>2. i < j \/ j < i
      BY <1>0, <1>5
    <3>. QED  BY <1>1, <1>5, <3>1, <3>2 DEF Rises
  <2>. QED  BY <1>2, <1>4, <1>5, <2>1
<1>6. \A j \in keep : \E i \in 1 .. n : u[i] = t[j]
  <2>1. IsFiniteSet(keep) /\ IsFiniteSet(1 .. n) /\ Cardinality(1 .. n) = n
    <3>1. Len(t) \in Nat
      BY LenProperties
    <3>. QED  BY <1>0, <3>1, IndexSet
  <2>2. \A i, j \in 1 .. n : at[i] = at[j] => i = j
    <3>1. \A i \in 1 .. n : at[i] \in Int
      BY <1>2
    <3>2. \A i, j \in 1 .. n : i < j => at[i] # at[j]
      BY <1>1, <3>1 DEF Rises
    <3>. QED  BY <1>0, <3>2
  <2>3. at \in Injection(1 .. n, keep)
    BY <1>1, <2>2 DEF Injection, IsInjective
  <2>4. Cardinality(keep) = n
    BY DEF n
  <2>5. at \in Surjection(1 .. n, keep)
    BY <2>1, <2>3, <2>4, FS_Injection
  <2>6. ASSUME NEW j \in keep
        PROVE  \E i \in 1 .. n : u[i] = t[j]
    <3>1. PICK i \in 1 .. n : at[i] = j
      BY <2>5 DEF Surjection
    <3>. QED  BY <1>4, <3>1
  <2>. QED  BY <2>6
<1>7. Len(u) = n /\ n = Cardinality(keep)
  BY <1>4 DEF n
<1>8. \A i \in 1 .. n : \E j \in keep : u[i] = t[j]
  BY <1>2, <1>4
<1>9. Drawn(u, S, t, keep)
  BY <1>0, <1>4, <1>5, <1>6, <1>7, <1>8 DEF Drawn
<1>. QED  BY <1>9 DEF u
=============================================================================
