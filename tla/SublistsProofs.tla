--------------------------- MODULE SublistsProofs ---------------------------
(* What a list comprehension with a condition keeps; counting, and lists   *)
(* joined.                                                                 *)
EXTENDS Sublists, Sequences, FiniteSetTheorems, TLAPS

(* How many of the indices K are at most i.                                *)
Rank(K, i) == Cardinality({j \in K : j <= i})

(* The rank of an index of K is a position in the shorter list, and of two *)
(* indices the larger one has the larger rank.                             *)
LEMMA RankOfIndex ==
  ASSUME NEW K, K \subseteq Nat, IsFiniteSet(K), NEW i \in K
  PROVE  /\ Rank(K, i) \in 1 .. Cardinality(K)
         /\ \A k \in K : i < k => Rank(K, i) < Rank(K, k)
  <1> DEFINE UpTo(k) == {j \in K : j <= k}
  <1>1. \A k : IsFiniteSet(UpTo(k)) /\ Cardinality(UpTo(k)) \in Nat
               /\ Cardinality(UpTo(k)) <= Cardinality(K)
    BY FS_Subset, FS_CardinalityType
  <1>2. Cardinality(K) \in Nat
    BY FS_CardinalityType
  <1>3. Cardinality(UpTo(i)) # 0
    <2>1. i \in UpTo(i)
      OBVIOUS
    <2> QED
      BY <1>1, <2>1, FS_EmptySet
  <1>4. ASSUME NEW k \in K, i < k PROVE Cardinality(UpTo(i)) < Cardinality(UpTo(k))
    <2>1. UpTo(i) \subseteq UpTo(k) /\ k \in UpTo(k) /\ k \notin UpTo(i)
      <3>1. i \in Nat /\ k \in Nat /\ i < k /\ \A j \in K : j \in Nat
        BY <1>4
      <3>2. \A j \in K : j <= i => j <= k
        BY <3>1
      <3>3. UpTo(i) \subseteq UpTo(k)
        BY <3>2
      <3>4. k <= k /\ ~(k <= i)
        BY <3>1
      <3>5. k \in UpTo(k) /\ k \notin UpTo(i)
        BY <3>4
      <3> QED
        BY <3>3, <3>5
    <2>2. Cardinality(UpTo(i)) <= Cardinality(UpTo(k))
          /\ Cardinality(UpTo(i)) # Cardinality(UpTo(k))
      <3>1. IsFiniteSet(UpTo(k)) /\ UpTo(i) \in SUBSET UpTo(k) /\ UpTo(i) # UpTo(k)
        BY <1>1, <2>1
      <3> HIDE DEF UpTo
      <3> QED
        BY <3>1, FS_Subset
    <2> QED
      BY <1>1, <2>2
  <1> QED
    BY <1>1, <1>2, <1>3, <1>4 DEF Rank

(* A sublist has the element of each of the indices, and no others, and at *)
(* different positions elements of different indices.                      *)
LEMMA SublistTakes ==
  ASSUME NEW S, NEW list \in Seq(S), NEW K, K \subseteq DOMAIN list
  PROVE  /\ Sublist(list, K) \in Seq(S)
         /\ \A i \in K : \E n \in DOMAIN Sublist(list, K) : Sublist(list, K)[n] = list[i]
         /\ \A n \in DOMAIN Sublist(list, K) : \E i \in K : Sublist(list, K)[n] = list[i]
         /\ \A m, n \in DOMAIN Sublist(list, K) : m # n =>
               \E i, j \in K : i # j /\ Sublist(list, K)[m] = list[i]
                                    /\ Sublist(list, K)[n] = list[j]
  <1> DEFINE N == Cardinality(K)
             rank == [i \in K |-> Rank(K, i)]
             at == [n \in 1 .. N |-> CHOOSE i \in K : Rank(K, i) = n]
  <1>1. /\ Len(list) \in Nat /\ DOMAIN list = 1 .. Len(list) /\ K \subseteq Nat
        /\ IsFiniteSet(K) /\ N \in Nat
    <2>1. Len(list) \in Nat /\ DOMAIN list = 1 .. Len(list)
      OBVIOUS
    <2>2. IsFiniteSet(1 .. Len(list))
      BY <2>1, FS_Interval
    <2> QED
      BY <2>1, <2>2, FS_Subset, FS_CardinalityType
  <1>2. \A i \in K : Rank(K, i) \in 1 .. N
                     /\ \A k \in K : i < k => Rank(K, i) < Rank(K, k)
    BY <1>1, RankOfIndex
  <1>3. rank \in Injection(K, 1 .. N)
    <2>1. \A i, k \in K : i # k => Rank(K, i) # Rank(K, k)
      BY <1>1, <1>2
    <2> QED
      BY <1>2, <2>1 DEF Injection, IsInjective
  <1>4. rank \in Surjection(K, 1 .. N)
    <2>1. IsFiniteSet(1 .. N) /\ Cardinality(1 .. N) = N
      BY <1>1, FS_Interval
    <2> HIDE DEF rank, N
    <2> QED
      BY <1>3, <2>1, FS_Injection DEF N
  <1>5. \A n \in 1 .. N : \E i \in K : Rank(K, i) = n
    BY <1>4 DEF Surjection
  <1>6. \A n \in 1 .. N : at[n] \in K /\ Rank(K, at[n]) = n
    BY <1>5
  <1>7. at \in [1 .. N -> K]
    BY <1>6
  <1>8. ASSUME NEW m \in 1 .. N, NEW n \in 1 .. N, m < n PROVE at[m] < at[n]
    <2> HIDE DEF at, N
    <2>1. at[m] \in Nat /\ at[n] \in Nat
      BY <1>1, <1>6
    <2> QED
      BY <1>1, <1>2, <1>6, <1>8, <2>1
  <1>9. ASSUME NEW i \in K PROVE \E n \in 1 .. N : at[n] = i
    <2>1. Rank(K, i) \in 1 .. N
      BY <1>2
    <2> HIDE DEF at, N
    <2>2. at[Rank(K, i)] = i
      BY <1>1, <1>2, <1>6, <2>1
    <2> QED
      BY <2>1, <2>2
  <1>10. Sublist(list, K) = [n \in 1 .. N |-> list[at[n]]]
    BY DEF Sublist, Rank
  <1> HIDE DEF at, N
  <1>11. \A n \in 1 .. N : list[at[n]] \in S
    BY <1>1, <1>6
  <1>12. Sublist(list, K) \in Seq(S) /\ Len(Sublist(list, K)) = N
         /\ \A n \in 1 .. N : Sublist(list, K)[n] = list[at[n]]
    BY <1>1, <1>10, <1>11
  <1>13. DOMAIN Sublist(list, K) = 1 .. N
    BY <1>1, <1>12
  <1>14. ASSUME NEW m \in 1 .. N, NEW n \in 1 .. N, m # n PROVE at[m] # at[n]
    <2>1. m \in Nat /\ n \in Nat /\ (m < n \/ n < m)
      BY <1>1, <1>14
    <2>2. at[m] \in Nat /\ at[n] \in Nat
      BY <1>1, <1>7
    <2> QED
      BY <1>8, <2>1, <2>2
  <1>15. /\ \A i \in K : \E n \in DOMAIN Sublist(list, K) : Sublist(list, K)[n] = list[i]
         /\ \A n \in DOMAIN Sublist(list, K) : \E i \in K : Sublist(list, K)[n] = list[i]
    BY <1>7, <1>9, <1>12, <1>13
  <1>16. \A m, n \in DOMAIN Sublist(list, K) : m # n =>
            \E i, j \in K : i # j /\ Sublist(list, K)[m] = list[i]
                                 /\ Sublist(list, K)[n] = list[j]
    BY <1>7, <1>12, <1>13, <1>14
  <1> QED
    BY <1>12, <1>15, <1>16

-----------------------------------------------------------------------------
(* A set of numbers has a least one.                                       *)
LEMMA LeastNumber ==
  ASSUME NEW T, T \subseteq Nat, T # {}
  PROVE  \E n \in T : \A m \in T : n <= m
<1>1. PICK k \in T : TRUE
  OBVIOUS
<1> DEFINE S == 0 .. k
           Below == {0 .. n : n \in {m \in T : m <= k}}
<1>2. IsWellFoundedOn(StrictSubsetOrdering(S), FiniteSubsetsOf(S))
  BY FS_StrictSubsetOrderingWellFounded
<1>3. FiniteSubsetsOf(S) = SUBSET S
  <2>1. IsFiniteSet(S)
    BY FS_Interval
  <2> QED BY <2>1, FS_FiniteSubsetsOfFinite
<1>4. Below \subseteq SUBSET S /\ Below # {}
  BY <1>1
<1>5. PICK x \in Below : \A y \in Below : <<y, x>> \notin StrictSubsetOrdering(S)
  <2> HIDE DEF Below, S
  <2> QED BY <1>2, <1>3, <1>4, WFMin
<1>6. PICK n \in T : n <= k /\ x = 0 .. n
  OBVIOUS
<1>7. ASSUME NEW m \in T, ~(n <= m) PROVE FALSE
  <2>1. m < n /\ m <= k /\ 0 .. m \in Below
    BY <1>6, <1>7, <1>1
  <2>2. 0 .. m \subseteq 0 .. n /\ 0 .. m # 0 .. n /\ 0 .. n \in SUBSET S /\ 0 .. m \in SUBSET S
    BY <2>1, <1>6, <1>1
  <2>3. <<0 .. m, 0 .. n>> \in StrictSubsetOrdering(S)
    BY <2>2 DEF StrictSubsetOrdering
  <2> QED BY <2>1, <2>3, <1>5, <1>6
<1> QED BY <1>7

(* Induction over the numbers up to N, stated of a set of numbers.         *)
LEMMA CountingUp ==
  ASSUME NEW N \in Nat, NEW T, 0 \in T, \A n \in T : n \in Nat /\ n < N => n + 1 \in T
  PROVE  0 .. N \subseteq T
<1> DEFINE D == {n \in 0 .. N : n \notin T}
<1>1. ASSUME D # {} PROVE FALSE
  <2>1. PICK n \in D : \A m \in D : n <= m
    <3>1. D \subseteq Nat
      OBVIOUS
    <3> HIDE DEF D
    <3> QED BY <1>1, <3>1, LeastNumber
  <2>2. n \in 0 .. N /\ n # 0 /\ n - 1 \notin D
    BY <2>1
  <2>3. n - 1 \in T /\ n - 1 \in Nat /\ n - 1 < N
    BY <2>2
  <2>4. (n - 1) + 1 \in T
    BY <2>3
  <2> QED BY <2>1, <2>2, <2>4
<1> QED BY <1>1

(* What is in two lists joined.                                            *)
LEMMA JoinedRange ==
  ASSUME NEW S, NEW s \in Seq(S), NEW t \in Seq(S)
  PROVE  s \o t \in Seq(S) /\ Range(s \o t) = Range(s) \union Range(t)
<1>1. /\ s \o t \in Seq(S) /\ DOMAIN (s \o t) = 1 .. Len(s) + Len(t)
      /\ DOMAIN s = 1 .. Len(s) /\ DOMAIN t = 1 .. Len(t) /\ Len(s) \in Nat /\ Len(t) \in Nat
  OBVIOUS
<1>2. \A i \in 1 .. Len(s) : (s \o t)[i] = s[i]
  OBVIOUS
<1>3. \A i \in 1 .. Len(t) : (s \o t)[Len(s) + i] = t[i] /\ Len(s) + i \in 1 .. Len(s) + Len(t)
  OBVIOUS
<1>4. \A i \in 1 .. Len(s) + Len(t) : i \in 1 .. Len(s) \/ i - Len(s) \in 1 .. Len(t)
  BY <1>1
<1>5. \A i \in 1 .. Len(s) + Len(t) : i \in 1 .. Len(s) \/ (s \o t)[i] = t[i - Len(s)]
  BY <1>1
<1>6. 1 .. Len(s) \subseteq 1 .. Len(s) + Len(t)
  BY <1>1
<1>7. Range(s) \subseteq Range(s \o t)
  BY <1>1, <1>2, <1>6 DEF Range
<1>8. Range(t) \subseteq Range(s \o t)
  BY <1>1, <1>3 DEF Range
<1>9. Range(s \o t) \subseteq Range(s) \union Range(t)
  BY <1>1, <1>2, <1>4, <1>5 DEF Range
<1> QED BY <1>1, <1>7, <1>8, <1>9
=============================================================================
