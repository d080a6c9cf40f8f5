----------------------------- MODULE Som_proofs -----------------------------
(***************************************************************************)
(* Proofs about the stand-off annotation tool, for files of any length, any  *)
(* tag order and any sessions of commands: the types (SomTypes), what verify *)
(* accepts (VerifyIsRight), what merge and merge2 write (MergeIsRight,       *)
(* Merge2IsRight), and that unite undoes clip (UniteIsInverse).  What a      *)
(* command has read is what Kept gives for a prefix of the lines.  What a    *)
(* merge has written is told by the places its tags have in all tags         *)
(* together (Picks): which places have been taken, and that they were taken  *)
(* in the order of the stable sort (Follows), so that at the end the output  *)
(* is that sort.  What clip has written is told by the regions that Mapper   *)
(* will find in it (Layout), tag by tag (Takes).                             *)
(***************************************************************************)
EXTENDS Som, FiniteSetTheorems, SequenceTheorems, WellFoundedInduction, TLAPS

-----------------------------------------------------------------------------
\* A set of natural numbers that is not empty has a least element.
LEMMA LeastNumber ==
    ASSUME NEW S, S \subseteq Nat, S # {}
    PROVE  \E n \in S : \A m \in S : n <= m
<1> DEFINE R == OpToRel(<, Nat)
<1>1. IsWellFoundedOn(R, Nat)
  BY NatLessThanWellFounded
<1>2. R = {ss \in Nat \X Nat : ss[1] < ss[2]}
  BY DEF OpToRel
<1> HIDE DEF R
<1>3. PICK n \in S : \A m \in S : ~ (<<m, n>> \in R)
  BY <1>1, WFMin
<1>4. \A m \in S : ~ (m < n)
  BY <1>2, <1>3
<1>5. QED
  BY <1>4

\* A set of numbers with an upper bound that is not empty has a greatest element.
LEMMA GreatestNumber ==
    ASSUME NEW N \in Nat, NEW S, S \subseteq 0 .. N, S # {}
    PROVE  \E n \in S : \A m \in S : m <= n
<1> DEFINE T == {N - i : i \in S}
<1>1. T \subseteq Nat /\ T # {}
  <2>1. \A i \in S : N - i \in Nat
    OBVIOUS
  <2>2. QED
    BY <2>1
<1> HIDE DEF T
<1>2. PICK x \in T : \A y \in T : x <= y
  BY <1>1, LeastNumber
<1>3. PICK n \in S : x = N - n
  BY DEF T
<1>4. ASSUME NEW m \in S PROVE m <= n
  <2>1. N - m \in T
    BY DEF T
  <2>2. N - n <= N - m
    BY <1>2, <1>3, <2>1
  <2>3. QED
    BY <2>2
<1>5. QED
  BY <1>4

-----------------------------------------------------------------------------
\* The recursive function inside Without.
KeptStep(s, S, g, n) ==
    IF n = 0 THEN << >>
    ELSE IF s[n] \in S THEN g[n - 1] ELSE Append(g[n - 1], s[n])

Kept(s, S) == CHOOSE g : g = [n \in 0 .. Len(s) |-> KeptStep(s, S, g, n)]

\* The function exists.
LEMMA KeptExists ==
    ASSUME NEW T, NEW s \in Seq(T), NEW S
    PROVE  \E g : g = [n \in 0 .. Len(s) |-> KeptStep(s, S, g, n)]
<1> DEFINE Has(N) == \E g : g = [n \in 0 .. N |-> KeptStep(s, S, g, n)]
           Fails == {N \in Nat : ~ Has(N)}
<1>1. SUFFICES ASSUME Fails # {} PROVE FALSE
  <2>1. Len(s) \in Nat
    BY LenProperties
  <2>2. QED
    BY <2>1
<1>2. PICK N \in Fails : \A m \in Fails : N <= m
  <2> HIDE DEF Fails
  <2>1. Fails \subseteq Nat
    BY DEF Fails
  <2>2. QED
    BY <1>1, <2>1, LeastNumber
<1>3. Has(0)
  <2> DEFINE g == [n \in 0 .. 0 |-> << >>]
  <2>1. g = [n \in 0 .. 0 |-> KeptStep(s, S, g, n)]
    BY DEF KeptStep
  <2>2. QED
    BY <2>1
<1>4. N \in Nat /\ N # 0
  BY <1>3
<1>5. N - 1 \in Nat /\ N - 1 \notin Fails
  BY <1>2, <1>4
<1>6. PICK g : g = [n \in 0 .. N - 1 |-> KeptStep(s, S, g, n)]
  BY <1>5
<1> DEFINE h == [n \in 0 .. N |-> IF n = N THEN KeptStep(s, S, g, N) ELSE g[n]]
<1>7. h = [n \in 0 .. N |-> KeptStep(s, S, h, n)]
  <2>1. ASSUME NEW n \in 0 .. N PROVE h[n] = KeptStep(s, S, h, n)
    <3>1. n # 0 => h[n - 1] = g[n - 1]
      BY <1>4
    <3>2. KeptStep(s, S, h, n) = KeptStep(s, S, g, n)
      BY <3>1 DEF KeptStep
    <3>3. n # N => g[n] = KeptStep(s, S, g, n)
      BY <1>4, <1>6
    <3>4. QED
      BY <3>2, <3>3
  <2>2. DOMAIN h = 0 .. N
    OBVIOUS
  <2> HIDE DEF h
  <2>3. h = [n \in DOMAIN h |-> h[n]]
    BY DEF h
  <2>4. QED
    BY <2>1, <2>2, <2>3
<1>8. Has(N)
  BY <1>7
<1>9. QED
  BY <1>2, <1>8

\* Without, entry by entry.
LEMMA KeptProperties ==
    ASSUME NEW T, NEW s \in Seq(T), NEW S
    PROVE  /\ Without(s, S) = Kept(s, S)[Len(s)]
           /\ Kept(s, S) \in [0 .. Len(s) -> Seq(T \ S)]
           /\ Kept(s, S)[0] = << >>
           /\ \A n \in 0 .. Len(s) : Kept(s, S)[n] = KeptStep(s, S, Kept(s, S), n)
<1> DEFINE g == Kept(s, S)
<1>1. g = [n \in 0 .. Len(s) |-> KeptStep(s, S, g, n)]
  BY KeptExists DEF Kept
<1>2. Without(s, S) = g[Len(s)]
  BY DEF Without, Kept, KeptStep
<1> HIDE DEF g
<1>3. Len(s) \in Nat
  BY LenProperties
<1>4. g[0] = << >>
  BY <1>1, <1>3 DEF KeptStep
<1>5. \A n \in 1 .. Len(s) : g[n] = IF s[n] \in S THEN g[n - 1] ELSE Append(g[n - 1], s[n])
  <2>1. ASSUME NEW n \in 1 .. Len(s)
        PROVE  g[n] = IF s[n] \in S THEN g[n - 1] ELSE Append(g[n - 1], s[n])
    <3>1. g[n] = KeptStep(s, S, g, n)
      BY <1>1
    <3>2. QED
      BY <3>1 DEF KeptStep
  <2>2. QED
    BY <2>1
<1>6. \A n \in 0 .. Len(s) : g[n] \in Seq(T \ S)
  <2> DEFINE Fails == {n \in 0 .. Len(s) : g[n] \notin Seq(T \ S)}
  <2>1. SUFFICES ASSUME Fails # {} PROVE FALSE
    OBVIOUS
  <2>2. PICK n \in Fails : \A m \in Fails : n <= m
    <3> HIDE DEF Fails
    <3>1. Fails \subseteq Nat
      BY <1>3 DEF Fails
    <3>2. QED
      BY <2>1, <3>1, LeastNumber
  <2>3. n # 0
    <3>1. g[0] \in Seq(T \ S)
      BY <1>4, EmptySeq
    <3>2. QED
      BY <3>1
  <2>4. n \in 1 .. Len(s) /\ n - 1 \in 0 .. Len(s)
    BY <1>3, <2>3
  <2>5. g[n - 1] \in Seq(T \ S)
    BY <2>2, <2>4
  <2>6. s[n] \in T
    BY <2>4, ElementOfSeq
  <2>7. g[n] \in Seq(T \ S)
    <3>1. CASE s[n] \in S
      BY <1>5, <2>4, <2>5, <3>1
    <3>2. CASE s[n] \notin S
      <4>1. s[n] \in T \ S
        BY <2>6, <3>2
      <4>2. Append(g[n - 1], s[n]) \in Seq(T \ S)
        BY <2>5, <4>1, AppendProperties
      <4>3. QED
        BY <1>5, <2>4, <3>2, <4>2
    <3>3. QED
      BY <3>1, <3>2
  <2>8. QED
    BY <2>2, <2>7
<1>7. g \in [0 .. Len(s) -> Seq(T \ S)]
  <2>1. g = [n \in 0 .. Len(s) |-> g[n]]
    BY <1>1
  <2>2. QED
    BY <1>6, <2>1
<1>8. \A n \in 0 .. Len(s) : g[n] = KeptStep(s, S, g, n)
  BY <1>1
<1>9. QED
  BY <1>2, <1>4, <1>7, <1>8 DEF g

\* Induction over an interval, for the numbers of a set.
LEMMA RangeInduction ==
    ASSUME NEW a \in Nat, NEW N \in Nat, NEW G, a \in G,
           \A n \in a .. N - 1 : n \in G => n + 1 \in G
    PROVE  \A n \in a .. N : n \in G
<1> DEFINE Fails == {n \in a .. N : n \notin G}
<1>1. SUFFICES ASSUME Fails # {} PROVE FALSE
  OBVIOUS
<1>2. PICK n \in Fails : \A m \in Fails : n <= m
  <2> HIDE DEF Fails
  <2>1. Fails \subseteq Nat
    BY DEF Fails
  <2>2. QED
    BY <1>1, <2>1, LeastNumber
<1>3. n # a /\ n - 1 \in a .. N - 1
  OBVIOUS
<1>4. n - 1 \in G
  BY <1>2, <1>3
<1>5. QED
  BY <1>3, <1>4

\* What is kept of a part is where it was in what is kept of the whole.
LEMMA KeptPrefix ==
    ASSUME NEW T, NEW s \in Seq(T), NEW S, NEW m \in 0 .. Len(s), NEW n \in m .. Len(s)
    PROVE  /\ Len(Kept(s, S)[m]) <= Len(Kept(s, S)[n])
           /\ \A i \in 1 .. Len(Kept(s, S)[m]) : Kept(s, S)[n][i] = Kept(s, S)[m][i]
<1> DEFINE K == Kept(s, S)
           Good(l) == /\ Len(K[m]) <= Len(K[l])
                      /\ \A i \in 1 .. Len(K[m]) : K[l][i] = K[m][i]
           G == {l \in m .. Len(s) : Good(l)}
<1>1. Len(s) \in Nat
  BY LenProperties
<1>2a. K \in [0 .. Len(s) -> Seq(T \ S)]
  BY KeptProperties
<1>2. \A l \in 0 .. Len(s) : K[l] = KeptStep(s, S, K, l)
  BY KeptProperties
<1> HIDE DEF K
<1>3. \A l \in 0 .. Len(s) : K[l] \in Seq(T \ S) /\ Len(K[l]) \in Nat
  BY <1>2a, LenProperties
<1>4. m \in G
  <2>1. Len(K[m]) \in Nat
    BY <1>3
  <2>2. QED
    BY <1>1, <2>1
<1>5. ASSUME NEW l \in m .. Len(s) - 1, l \in G PROVE l + 1 \in G
  <2>1. l + 1 \in 1 .. Len(s) /\ l \in 0 .. Len(s) - 1 /\ l + 1 \in m .. Len(s)
    BY <1>1
  <2>2. /\ s[l + 1] \in S => K[l + 1] = K[l]
        /\ s[l + 1] \notin S => K[l + 1] = Append(K[l], s[l + 1])
    <3>1. l + 1 # 0 /\ (l + 1) - 1 = l /\ l + 1 \in 0 .. Len(s)
      BY <1>1
    <3>2. K[l + 1] = KeptStep(s, S, K, l + 1)
      BY <1>2, <3>1
    <3>3. QED
      BY <3>1, <3>2 DEF KeptStep
  <2>3. Good(l)
    BY <1>5
  <2>4. CASE s[l + 1] \in S
    BY <2>1, <2>2, <2>3, <2>4
  <2>5. CASE s[l + 1] \notin S
    <3>1. s[l + 1] \in T \ S
      BY <2>1, <2>5, ElementOfSeq
    <3>2. /\ Len(K[l + 1]) = Len(K[l]) + 1
          /\ \A i \in 1 .. Len(K[l]) : K[l + 1][i] = K[l][i]
      <4>1. K[l] \in Seq(T \ S)
        BY <1>1, <1>3
      <4>2. K[l + 1] = Append(K[l], s[l + 1])
        BY <2>2, <2>5
      <4>3. QED
        BY <3>1, <4>1, <4>2, AppendProperties
    <3>3. Len(K[m]) \in Nat /\ Len(K[l]) \in Nat
      BY <1>1, <1>3, <2>1
    <3>4. Good(l + 1)
      BY <2>3, <3>2, <3>3
    <3>5. QED
      BY <2>1, <3>4
  <2>6. QED
    BY <2>4, <2>5
<1>6. n \in G
  <2> HIDE DEF G
  <2>1. m \in Nat
    BY <1>1
  <2>2. \A l \in m .. Len(s) : l \in G
    BY <1>1, <1>4, <1>5, <2>1, RangeInduction
  <2>3. QED
    BY <2>2
<1>7. QED
  BY <1>6 DEF K

\* Nothing is kept of entries in S.
LEMMA KeptSkip ==
    ASSUME NEW T, NEW s \in Seq(T), NEW S, NEW m \in 0 .. Len(s), NEW n \in m .. Len(s),
           \A i \in m + 1 .. n : s[i] \in S
    PROVE  Kept(s, S)[n] = Kept(s, S)[m]
<1> DEFINE K == Kept(s, S)
           G == {l \in m .. n : K[l] = K[m]}
<1>1. Len(s) \in Nat
  BY LenProperties
<1>2. \A l \in 0 .. Len(s) : K[l] = KeptStep(s, S, K, l)
  BY KeptProperties
<1> HIDE DEF K
<1>3. m \in Nat /\ n \in Nat /\ m \in m .. n
  BY <1>1
<1>4. m \in G
  BY <1>3
<1>5. ASSUME NEW l \in m .. n - 1, l \in G PROVE l + 1 \in G
  <2>1. l + 1 \in 1 .. Len(s) /\ l + 1 \in m + 1 .. n /\ l + 1 \in m .. n /\ l \in 0 .. Len(s) - 1
    BY <1>1
  <2>2. K[l + 1] = K[l]
    <3>1. l + 1 # 0 /\ (l + 1) - 1 = l /\ l + 1 \in 0 .. Len(s)
      BY <1>1
    <3>2. K[l + 1] = KeptStep(s, S, K, l + 1)
      BY <1>2, <3>1
    <3>3. QED
      BY <2>1, <3>1, <3>2 DEF KeptStep
  <2>3. QED
    BY <1>5, <2>1, <2>2
<1>6. \A l \in m .. n : l \in G
  <2> HIDE DEF G
  <2>1. QED
    BY <1>3, <1>4, <1>5, RangeInduction
<1>7. n \in G
  BY <1>3, <1>6
<1>8. QED
  BY <1>7 DEF K

-----------------------------------------------------------------------------
(* Stable sorting, on the places 1 .. n: B holds the pairs of places of which   *)
(* the first must be sorted before the second.                                  *)

IsOrder(B, n) ==
    /\ \A i, j \in 1 .. n : <<i, j>> \in B => <<j, i>> \notin B
    /\ \A i, j, k \in 1 .. n : <<i, k>> \in B => <<i, j>> \in B \/ <<j, k>> \in B

Goes(B, i, j) == <<i, j>> \in B \/ (i < j /\ <<j, i>> \notin B)

PlaceOf(B, n, i) == 1 + Cardinality({j \in 1 .. n : Goes(B, j, i)})

\* Goes is a strict order of all the places.
LEMMA GoesTotal ==
    ASSUME NEW n \in Nat, NEW B, IsOrder(B, n)
    PROVE  /\ \A i \in 1 .. n : ~ Goes(B, i, i)
           /\ \A i, j \in 1 .. n : i # j => Goes(B, i, j) \/ Goes(B, j, i)
           /\ \A i, j, k \in 1 .. n : Goes(B, i, j) /\ Goes(B, j, k) => Goes(B, i, k)
<1>1. \A i \in 1 .. n : ~ Goes(B, i, i)
  BY DEF IsOrder, Goes
<1>2. ASSUME NEW i \in 1 .. n, NEW j \in 1 .. n, i # j
      PROVE  Goes(B, i, j) \/ Goes(B, j, i)
  <2>1. i < j \/ j < i
    BY <1>2
  <2>2. QED
    BY <2>1 DEF Goes
<1>3. ASSUME NEW i \in 1 .. n, NEW j \in 1 .. n, NEW k \in 1 .. n,
             Goes(B, i, j), Goes(B, j, k)
      PROVE  Goes(B, i, k)
  <2>1. <<j, i>> \notin B /\ <<k, j>> \notin B
    BY <1>3 DEF IsOrder, Goes
  <2>2. <<k, i>> \notin B
    BY <2>1 DEF IsOrder
  <2>3. <<i, j>> \in B => <<i, k>> \in B
    BY <2>1 DEF IsOrder
  <2>4. <<j, k>> \in B => <<i, k>> \in B
    BY <2>1 DEF IsOrder
  <2>5. <<i, j>> \notin B /\ <<j, k>> \notin B => i < k
    BY <1>3 DEF Goes
  <2>6. QED
    BY <2>2, <2>3, <2>4, <2>5 DEF Goes
<1>4. QED
  BY <1>1, <1>2, <1>3

\* The place of an entry in the result: one of 1 .. n, and in the order of Goes.
LEMMA PlaceProperties ==
    ASSUME NEW n \in Nat, NEW B, IsOrder(B, n)
    PROVE  /\ \A i \in 1 .. n : PlaceOf(B, n, i) \in 1 .. n
           /\ \A i, j \in 1 .. n : Goes(B, i, j) => PlaceOf(B, n, i) < PlaceOf(B, n, j)
<1> DEFINE Less(i) == {j \in 1 .. n : Goes(B, j, i)}
<1>1. IsFiniteSet(1 .. n) /\ Cardinality(1 .. n) = n
  BY FS_Interval
<1>2. \A i \in 1 .. n : IsFiniteSet(Less(i)) /\ Cardinality(Less(i)) \in Nat
  <2>1. \A i \in 1 .. n : Less(i) \in SUBSET (1 .. n)
    OBVIOUS
  <2> HIDE DEF Less
  <2>2. \A i \in 1 .. n : IsFiniteSet(Less(i))
    BY <1>1, <2>1, FS_Subset
  <2>3. QED
    BY <2>2, FS_CardinalityType
<1>3. ASSUME NEW i \in 1 .. n PROVE PlaceOf(B, n, i) \in 1 .. n
  <2> DEFINE S == Less(i) \cup {i}
  <2>1. i \notin Less(i)
    BY GoesTotal
  <2>2. S \in SUBSET (1 .. n)
    OBVIOUS
  <2>3. PlaceOf(B, n, i) = 1 + Cardinality(Less(i))
    BY DEF PlaceOf
  <2> HIDE DEF Less
  <2>4. Cardinality(S) = Cardinality(Less(i)) + 1
    BY <1>2, <2>1, FS_AddElement
  <2> HIDE DEF S
  <2>5. Cardinality(S) <= n
    BY <1>1, <2>2, FS_Subset
  <2>6. QED
    BY <1>2, <2>3, <2>4, <2>5
<1>4. ASSUME NEW i \in 1 .. n, NEW j \in 1 .. n, Goes(B, i, j)
      PROVE  PlaceOf(B, n, i) < PlaceOf(B, n, j)
  <2> DEFINE S == Less(i) \cup {i}
  <2>1. i \notin Less(i)
    BY GoesTotal
  <2>2. S \in SUBSET Less(j)
    BY <1>4, GoesTotal
  <2>3. /\ PlaceOf(B, n, i) = 1 + Cardinality(Less(i))
        /\ PlaceOf(B, n, j) = 1 + Cardinality(Less(j))
    BY DEF PlaceOf
  <2> HIDE DEF Less
  <2>4. Cardinality(S) = Cardinality(Less(i)) + 1
    BY <1>2, <2>1, FS_AddElement
  <2> HIDE DEF S
  <2>5. Cardinality(S) <= Cardinality(Less(j))
    BY <1>2, <2>2, FS_Subset
  <2>6. QED
    BY <1>2, <2>3, <2>4, <2>5
<1>5. QED
  BY <1>3, <1>4

\* An increasing enumeration of 1 .. n by 1 .. n is the identity.
LEMMA IncreasingIsIdentity ==
    ASSUME NEW n \in Nat, NEW h \in [1 .. n -> 1 .. n],
           \A i, j \in 1 .. n : i < j => h[i] < h[j]
    PROVE  \A k \in 1 .. n : h[k] = k
<1>1. \A k \in 1 .. n : ~ h[k] < k
  <2> DEFINE S == {k \in 1 .. n : h[k] < k}
  <2>1. SUFFICES ASSUME S # {} PROVE FALSE
    OBVIOUS
  <2>2. PICK k \in S : \A l \in S : k <= l
    <3> HIDE DEF S
    <3>1. S \subseteq Nat
      BY DEF S
    <3>2. QED
      BY <2>1, <3>1, LeastNumber
  <2>3. h[k] \in 1 .. n /\ h[k] < k
    OBVIOUS
  <2>4. h[h[k]] < h[k]
    BY <2>3
  <2>5. h[k] \in S
    BY <2>3, <2>4
  <2>6. QED
    BY <2>2, <2>3, <2>5
<1>2. \A k \in 1 .. n : ~ h[k] > k
  <2> DEFINE S == {k \in 1 .. n : h[k] > k}
  <2>1. SUFFICES ASSUME S # {} PROVE FALSE
    OBVIOUS
  <2>2. PICK k \in S : \A l \in S : l <= k
    <3> HIDE DEF S
    <3>1. S \subseteq 0 .. n
      BY DEF S
    <3>2. QED
      BY <2>1, <3>1, GreatestNumber
  <2>3. h[k] \in 1 .. n /\ k < h[k]
    OBVIOUS
  <2>4. h[k] < h[h[k]]
    BY <2>3
  <2>5. h[k] \in S
    BY <2>3, <2>4
  <2>6. QED
    BY <2>2, <2>3, <2>5
<1>3. \A k \in 1 .. n : h[k] \in Int
  OBVIOUS
<1>4. QED
  BY <1>1, <1>2, <1>3

\* The places of an enumeration that follows Goes.
LEMMA PlaceOfSorted ==
    ASSUME NEW n \in Nat, NEW B, IsOrder(B, n), NEW ix \in [1 .. n -> 1 .. n],
           \A i, j \in 1 .. n : i < j => Goes(B, ix[i], ix[j])
    PROVE  \A k \in 1 .. n : PlaceOf(B, n, ix[k]) = k
<1> DEFINE h == [k \in 1 .. n |-> PlaceOf(B, n, ix[k])]
<1>1. h \in [1 .. n -> 1 .. n]
  BY PlaceProperties
<1>2. \A i, j \in 1 .. n : i < j => h[i] < h[j]
  BY PlaceProperties
<1>3. \A k \in 1 .. n : h[k] = PlaceOf(B, n, ix[k])
  OBVIOUS
<1> HIDE DEF h
<1>4. \A k \in 1 .. n : h[k] = k
  BY <1>1, <1>2, IncreasingIsIdentity
<1>5. QED
  BY <1>3, <1>4

\* Two entries have two places.
LEMMA PlaceInjective ==
    ASSUME NEW n \in Nat, NEW B, IsOrder(B, n), NEW i \in 1 .. n, NEW j \in 1 .. n,
           PlaceOf(B, n, i) = PlaceOf(B, n, j)
    PROVE  i = j
<1>1. SUFFICES ASSUME i # j PROVE FALSE
  OBVIOUS
<1>2. Goes(B, i, j) \/ Goes(B, j, i)
  BY <1>1, GoesTotal
<1>3. PlaceOf(B, n, i) \in 1 .. n /\ PlaceOf(B, n, j) \in 1 .. n
  BY PlaceProperties
<1>4. PlaceOf(B, n, i) < PlaceOf(B, n, j) \/ PlaceOf(B, n, j) < PlaceOf(B, n, i)
  BY <1>2, PlaceProperties
<1>5. QED
  BY <1>3, <1>4

\* There is an enumeration that follows Goes.
LEMMA SortedExists ==
    ASSUME NEW n \in Nat, NEW B, IsOrder(B, n)
    PROVE  \E ix \in [1 .. n -> 1 .. n] :
             /\ \A k \in 1 .. n : PlaceOf(B, n, ix[k]) = k
             /\ \A i, j \in 1 .. n : i < j => Goes(B, ix[i], ix[j])
             /\ \A i \in 1 .. n : \E k \in 1 .. n : ix[k] = i
<1> DEFINE place == [i \in 1 .. n |-> PlaceOf(B, n, i)]
           ix == [k \in 1 .. n |-> CHOOSE i \in 1 .. n : place[i] = k]
<1>1. place \in [1 .. n -> 1 .. n]
  BY PlaceProperties
<1>2. \A i \in 1 .. n : place[i] = PlaceOf(B, n, i)
  OBVIOUS
<1> HIDE DEF place
<1>3. \A i, j \in 1 .. n : place[i] = place[j] => i = j
  BY <1>2, PlaceInjective
<1>4. place \in Injection(1 .. n, 1 .. n)
  <2>1. IsInjective(place)
    BY <1>1, <1>3 DEF IsInjective
  <2>2. QED
    BY <1>1, <2>1 DEF Injection
<1>5. place \in Surjection(1 .. n, 1 .. n)
  <2>1. IsFiniteSet(1 .. n)
    BY FS_Interval
  <2>2. QED
    BY <1>4, <2>1, FS_Injection
<1>6. \A k \in 1 .. n : \E i \in 1 .. n : place[i] = k
  BY <1>5 DEF Surjection
<1>7. \A k \in 1 .. n : ix[k] \in 1 .. n /\ place[ix[k]] = k
  BY <1>6
<1>8. ix \in [1 .. n -> 1 .. n]
  BY <1>7
<1> HIDE DEF ix
<1>9. \A k \in 1 .. n : PlaceOf(B, n, ix[k]) = k
  BY <1>2, <1>7
<1>10. ASSUME NEW i \in 1 .. n, NEW j \in 1 .. n, i < j
       PROVE  Goes(B, ix[i], ix[j])
  <2>1. ix[i] \in 1 .. n /\ ix[j] \in 1 .. n /\ ix[i] # ix[j]
    BY <1>7, <1>10
  <2>2. SUFFICES ASSUME Goes(B, ix[j], ix[i]) PROVE FALSE
    BY <2>1, GoesTotal
  <2>3. PlaceOf(B, n, ix[j]) < PlaceOf(B, n, ix[i])
    BY <2>1, <2>2, PlaceProperties
  <2>4. QED
    BY <1>9, <1>10, <2>3
<1>11. ASSUME NEW i \in 1 .. n PROVE \E k \in 1 .. n : ix[k] = i
  <2>1. place[i] \in 1 .. n
    BY <1>1
  <2>2. place[ix[place[i]]] = place[i] /\ ix[place[i]] \in 1 .. n
    BY <1>7, <2>1
  <2>3. QED
    BY <1>3, <2>1, <2>2
<1>12. QED
  BY <1>8, <1>9, <1>10, <1>11

-----------------------------------------------------------------------------
\* The place of a name in the tag-order file is a number.
LEMMA OrderValue ==
    ASSUME NEW order \in Seq(Names), NEW name
    PROVE  getOrderValue(order, name) \in Nat
<1> DEFINE S == {0} \cup {i \in 1 .. Len(order) : order[i] = name}
<1>1. Len(order) \in Nat
  BY LenProperties
<1>2. S \subseteq 0 .. Len(order) /\ S # {}
  BY <1>1
<1>3. getOrderValue(order, name) = Max(S)
  BY DEF getOrderValue
<1> HIDE DEF S
<1>4. \E n \in S : \A m \in S : m <= n
  BY <1>1, <1>2, GreatestNumber
<1>5. \A m \in S : m \in Nat
  BY <1>1, <1>2
<1>6. \E n \in S : \A m \in S : n >= m
  BY <1>4, <1>5
<1>7. Max(S) \in S
  BY <1>6 DEF Max
<1>8. QED
  BY <1>3, <1>5, <1>7

\* The comparison of tags is an order in which tags that neither comes before the
\* other are interchangeable.
LEMMA LessOrder ==
    ASSUME NEW order \in Seq(Names), NEW a \in TagLine, NEW b \in TagLine, NEW c \in TagLine
    PROVE  /\ AIsLessThanB(order, a, b) => ~ AIsLessThanB(order, b, a)
           /\ AIsLessThanB(order, a, c) => AIsLessThanB(order, a, b) \/ AIsLessThanB(order, b, c)
<1>1. /\ getOrderValue(order, a.name) \in Nat
      /\ getOrderValue(order, b.name) \in Nat
      /\ getOrderValue(order, c.name) \in Nat
  BY OrderValue
<1>2. /\ a.first \in Nat /\ b.first \in Nat /\ c.first \in Nat
      /\ a.second \in Nat /\ b.second \in Nat /\ c.second \in Nat
  BY DEF TagLine
<1>3. AIsLessThanB(order, a, b) => ~ AIsLessThanB(order, b, a)
  BY <1>1, <1>2 DEF AIsLessThanB
<1>4. AIsLessThanB(order, a, c) => AIsLessThanB(order, a, b) \/ AIsLessThanB(order, b, c)
  BY <1>1, <1>2 DEF AIsLessThanB
<1>5. QED
  BY <1>3, <1>4

\* The pairs of places of s whose tags are in this order.
LessPairs(order, s) ==
    {p \in (1 .. Len(s)) \X (1 .. Len(s)) : AIsLessThanB(order, s[p[1]], s[p[2]])}

LEMMA LessPairsOrder ==
    ASSUME NEW order \in Seq(Names), NEW s \in Seq(TagLine)
    PROVE  /\ IsOrder(LessPairs(order, s), Len(s))
           /\ \A i, j \in 1 .. Len(s) :
                <<i, j>> \in LessPairs(order, s) <=> AIsLessThanB(order, s[i], s[j])
<1> DEFINE B == LessPairs(order, s)
<1>1. \A i, j \in 1 .. Len(s) : <<i, j>> \in B <=> AIsLessThanB(order, s[i], s[j])
  BY DEF LessPairs
<1> HIDE DEF B
<1>2. \A i \in 1 .. Len(s) : s[i] \in TagLine
  BY ElementOfSeq
<1>3. ASSUME NEW i \in 1 .. Len(s), NEW j \in 1 .. Len(s), <<i, j>> \in B
      PROVE  <<j, i>> \notin B
  BY <1>1, <1>2, <1>3, LessOrder
<1>4. ASSUME NEW i \in 1 .. Len(s), NEW j \in 1 .. Len(s), NEW k \in 1 .. Len(s),
             <<i, k>> \in B
      PROVE  <<i, j>> \in B \/ <<j, k>> \in B
  BY <1>1, <1>2, <1>4, LessOrder
<1>5. IsOrder(B, Len(s))
  BY <1>3, <1>4 DEF IsOrder
<1>6. QED
  BY <1>1, <1>5 DEF B

\* Sorting follows every enumeration that follows the order and, where the order
\* leaves a choice, the places.
LEMMA StableSortFollows ==
    ASSUME NEW order \in Seq(Names), NEW s \in Seq(TagLine),
           NEW ix \in [1 .. Len(s) -> 1 .. Len(s)],
           \A i, j \in 1 .. Len(s) : i < j => Goes(LessPairs(order, s), ix[i], ix[j])
    PROVE  StableSort(order, s) = [k \in 1 .. Len(s) |-> s[ix[k]]]
<1> DEFINE n == Len(s)
           B == LessPairs(order, s)
           Place(i) == 1 + Cardinality({j \in 1 .. Len(s) :
                           \/ AIsLessThanB(order, s[j], s[i])
                           \/ j < i /\ ~ AIsLessThanB(order, s[i], s[j])})
           place == [i \in 1 .. n |-> Place(i)]
<1>1. n \in Nat
  BY LenProperties
<1>2. IsOrder(B, n)
  BY LessPairsOrder
<1>3. \A k \in 1 .. n : PlaceOf(B, n, ix[k]) = k
  BY <1>1, <1>2, PlaceOfSorted
<1>4. \A i \in 1 .. n : place[i] = PlaceOf(B, n, i)
  <2>1. ASSUME NEW i \in 1 .. n PROVE Place(i) = PlaceOf(B, n, i)
    <3>1. ASSUME NEW j \in 1 .. n
          PROVE  (\/ AIsLessThanB(order, s[j], s[i])
                  \/ j < i /\ ~ AIsLessThanB(order, s[i], s[j])) <=> Goes(B, j, i)
      BY LessPairsOrder DEF Goes
    <3>2. {j \in 1 .. Len(s) : \/ AIsLessThanB(order, s[j], s[i])
                               \/ j < i /\ ~ AIsLessThanB(order, s[i], s[j])}
            = {j \in 1 .. n : Goes(B, j, i)}
      BY <3>1
    <3>3. QED
      BY <3>2 DEF PlaceOf
  <2> HIDE DEF Place
  <2>2. QED
    BY <2>1
<1>5. ASSUME NEW k \in 1 .. n
      PROVE  (CHOOSE i \in 1 .. Len(s) : Place(i) = k) = ix[k]
  <2>1. \A i \in 1 .. n : place[i] = Place(i)
    OBVIOUS
  <2>2. ix[k] \in 1 .. n /\ Place(ix[k]) = k
    BY <1>3, <1>4, <2>1
  <2>3. \A i \in 1 .. n : Place(i) = k => i = ix[k]
    <3> HIDE DEF Place, B, n
    <3>1. ASSUME NEW i \in 1 .. n, Place(i) = k PROVE i = ix[k]
      <4>1. PlaceOf(B, n, i) = k /\ PlaceOf(B, n, ix[k]) = k
        BY <1>3, <1>4, <2>1, <3>1
      <4>2. QED
        BY <1>1, <1>2, <2>2, <4>1, PlaceInjective
    <3>2. QED
      BY <3>1
  <2> HIDE DEF Place
  <2>4. QED
    BY <2>2, <2>3
<1>6. StableSort(order, s) = [k \in 1 .. Len(s) |-> s[CHOOSE i \in 1 .. Len(s) : Place(i) = k]]
  BY DEF StableSort, StablySorted
<1> HIDE DEF Place
<1>7. QED
  BY <1>5, <1>6

\* The tags that sort writes are the tags it read, in order.
LEMMA StableSortResult ==
    ASSUME NEW order \in Seq(Names), NEW s \in Seq(TagLine)
    PROVE  \E ix \in [1 .. Len(s) -> 1 .. Len(s)] :
             /\ StableSort(order, s) = [k \in 1 .. Len(s) |-> s[ix[k]]]
             /\ \A i, j \in 1 .. Len(s) : i < j => Goes(LessPairs(order, s), ix[i], ix[j])
             /\ \A i \in 1 .. Len(s) : \E k \in 1 .. Len(s) : ix[k] = i
<1> DEFINE n == Len(s)
           B == LessPairs(order, s)
<1>1. n \in Nat /\ IsOrder(B, n)
  BY LenProperties, LessPairsOrder
<1> HIDE DEF n, B
<1>2. PICK ix \in [1 .. n -> 1 .. n] :
             /\ \A i, j \in 1 .. n : i < j => Goes(B, ix[i], ix[j])
             /\ \A i \in 1 .. n : \E k \in 1 .. n : ix[k] = i
  BY <1>1, SortedExists
<1>3. StableSort(order, s) = [k \in 1 .. n |-> s[ix[k]]]
  BY <1>2, StableSortFollows DEF n, B
<1>4. QED
  BY <1>2, <1>3 DEF n, B

LEMMA StableSortSorted ==
    ASSUME NEW order \in Seq(Names), NEW s \in Seq(TagLine)
    PROVE  /\ StableSort(order, s) \in Seq(TagLine)
           /\ Len(StableSort(order, s)) = Len(s)
           /\ Sorted(order, StableSort(order, s))
<1> DEFINE n == Len(s)
           B == LessPairs(order, s)
           r == StableSort(order, s)
<1>1. n \in Nat
  BY LenProperties
<1>2. PICK ix \in [1 .. n -> 1 .. n] :
             /\ r = [k \in 1 .. n |-> s[ix[k]]]
             /\ \A i, j \in 1 .. n : i < j => Goes(B, ix[i], ix[j])
  BY StableSortResult
<1>3. \A i \in 1 .. n : s[i] \in TagLine
  BY ElementOfSeq
<1> HIDE DEF r
<1>4. r \in Seq(TagLine) /\ Len(r) = n
  BY <1>1, <1>2, <1>3
<1>5. ASSUME NEW i \in 1 .. n, NEW j \in 1 .. n, i < j
      PROVE  ~ AIsLessThanB(order, r[j], r[i])
  <2>1. Goes(B, ix[i], ix[j])
    BY <1>2, <1>5
  <2>2. <<ix[j], ix[i]>> \notin B
    BY <2>1, LessPairsOrder DEF Goes, IsOrder
  <2>3. QED
    BY <1>2, <2>2, LessPairsOrder
<1>6. Sorted(order, r)
  BY <1>4, <1>5 DEF Sorted
<1>7. QED
  BY <1>4, <1>6 DEF r

-----------------------------------------------------------------------------
(* The types of the state, with what they rest on.                              *)

Positions == Nat \ {0}
Running == pc \notin {"shell", "ok", "error"}
OpenTag == [first : Nat, second : Nat \cup {DUMMY_END_POSITION}, name : Names]

Words == STRING \cup {"none"}
Commands == {"sort", "merge", "merge2", "verify", "clip", "unite", "import", "export"}

\* The session: the files have their types, and every command finds the files it reads.
SessionInv ==
    /\ args \in {"ok", "help", "usage", "nofile"}
    /\ command \in Words /\ script \in Seq(STRING) /\ ran \in Seq(Words)
    /\ so \in Seq(Seq(Line)) /\ txt \in Seq(Nat) /\ xml \in Seq(Token)
    /\ tagOrder \in Seq(Names) /\ flags \in SUBSET {"i", "s"}
    /\ Running => args = "ok"
    /\ args = "ok" =>
         /\ pc = "shell" /\ script # << >> => Reads(Head(script)) <= Len(so)
         /\ pc # "shell" => Reads(command) <= Len(so)
         /\ pc # "shell" /\ script # << >> => Reads(Head(script)) <= Leaves(command)
         /\ \A i \in 2 .. Len(script) : Reads(script[i]) <= Leaves(script[i - 1])

\* What each command goes through.
PhaseInv ==
    /\ pc \in {"shell", "read", "merge", "sort", "write", "init", "merge2", "clip", "container",
               "embedded", "import", "export", "exportEnd", "ok", "error"}
    /\ pc = "read" => command \in {"sort", "merge", "verify"}
    /\ pc \in {"sort", "write"} => command \in {"sort", "merge"}
    /\ pc = "merge" => command = "merge"
    /\ pc \in {"init", "merge2"} => command = "merge2"
    /\ pc = "clip" => command = "clip"
    /\ pc \in {"container", "embedded"} => command = "unite"
    /\ pc = "import" => command = "import"
    /\ pc \in {"export", "exportEnd"} => command = "export"
    /\ pc = "ok" /\ args = "ok" => command \in Commands

\* What is being written: during import, the end of a tag is missing exactly as long
\* as the tag is on the stack of its name.
OutInv ==
    /\ out \in Seq(OpenTag)
    /\ \A i \in 1 .. Len(out) : out[i].second = DUMMY_END_POSITION =>
         \E n \in Names : \E j \in 1 .. Len(tagStacks[n]) : tagStacks[n][j] = i
    /\ tagStacks \in [Names -> Seq(Positions)]
    /\ \A n \in Names : \A j \in 1 .. Len(tagStacks[n]) : tagStacks[n][j] <= Len(out)
    /\ command # "import" \/ pc = "ok" => \A n \in Names : tagStacks[n] = << >>
    /\ outTxt \in Seq(Nat \cup {Newline})
    /\ command = "import" => outTxt \in Seq(Nat)
    /\ outXml \in Seq(Token)

\* The state of sort, merge, merge2 and verify.
MergeInv ==
    /\ som \in [1 .. 2 -> Seq(TagLine)]
    /\ iter \in Positions /\ iter2 \in Positions /\ same \in BOOLEAN
    /\ Running => at \in [1 .. Len(so) -> Positions]
    /\ pc \in {"read", "init"} => f \in 1 .. Len(so)
    /\ pc = "read" => f \in 1 .. 2
    /\ \A q \in queue : q.top \in TagLine /\ q.fileNo \in 1 .. Len(so)
    /\ command # "merge2" \/ pc = "ok" => queue = {}

\* The state of clip and unite.
ClipInv ==
    /\ lineNo \in Positions /\ endOfLastRegion \in Nat
    /\ domain \in Seq([first : Int, second : Int]) /\ range \in Seq([first : Nat, second : Nat])
    /\ Len(domain) = Len(range)
    /\ emptyTagRegion \in Positions \X Nat

\* The state of import and export.
XmlInv ==
    /\ token \in Positions /\ charCount \in Nat /\ tag \in Positions
    /\ DOMAIN endTagList \subseteq Nat
    /\ \A p \in DOMAIN endTagList : endTagList[p] \in Seq(Names)

TypeInv == SessionInv /\ PhaseInv /\ OutInv /\ MergeInv /\ ClipInv /\ XmlInv

\* No tag has been read.
LEMMA EmptySom == << << >>, << >> >> \in [1 .. 2 -> Seq(TagLine)]
<1>1. << >> \in Seq(TagLine)
  BY EmptySeq
<1>2. << << >>, << >> >> \in Seq(Seq(TagLine)) /\ Len(<< << >>, << >> >>) = 2
  BY <1>1
<1>3. QED
  BY <1>2, LenProperties

\* The session begins with its files.
LEMMA InitTypes == Init => TypeInv
<1> SUFFICES ASSUME Init PROVE TypeInv
  OBVIOUS
<1>1. PICK s \in Sessions :
        /\ script = s.script /\ args = s.args
        /\ so \in s.so /\ txt = s.txt /\ xml \in s.xml
        /\ tagOrder \in s.tagOrder /\ flags \in s.flags
  BY DEF Init
<1>2. ran = << >> /\ command = "none" /\ pc = "shell"
  BY DEF Init
<1>2a. out = << >> /\ outTxt = << >> /\ outXml = << >> /\ tagStacks = [n \in Names |-> << >>]
  BY DEF Init
<1>2b. iter = 1 /\ iter2 = 1 /\ same = FALSE /\ queue = {}
  BY DEF Init
<1>2c. som = << << >>, << >> >>
  BY DEF Init
<1>2d. /\ lineNo = 1 /\ endOfLastRegion = 0
       /\ domain = << >> /\ range = << >> /\ emptyTagRegion = <<1, 1>>
  BY DEF Init
<1>2e. token = 1 /\ charCount = 0 /\ tag = 1 /\ endTagList = [p \in {} |-> << >>]
  BY DEF Init
<1>3. SessionInv
  <2>1. /\ args \in {"ok", "help", "usage", "nofile"}
        /\ command \in Words /\ script \in Seq(STRING) /\ ran \in Seq(Words)
        /\ so \in Seq(Seq(Line)) /\ txt \in Seq(Nat) /\ xml \in Seq(Token)
        /\ tagOrder \in Seq(Names) /\ flags \in SUBSET {"i", "s"}
    <3>1. s.args \in {"ok", "help", "usage", "nofile"} /\ s.script \in Seq(STRING)
      BY SessionsAssumption
    <3>2. s.so \subseteq Seq(Seq(Line)) /\ s.txt \in Seq(Nat) /\ s.xml \subseteq Seq(Token)
      BY SessionsAssumption
    <3>3. s.tagOrder \subseteq Seq(Names) /\ s.flags \subseteq SUBSET {"i", "s"}
      BY SessionsAssumption
    <3>4. args \in {"ok", "help", "usage", "nofile"} /\ script \in Seq(STRING)
      BY <1>1, <3>1
    <3>5. so \in Seq(Seq(Line)) /\ txt \in Seq(Nat) /\ xml \in Seq(Token)
      BY <1>1, <3>2
    <3>6. tagOrder \in Seq(Names) /\ flags \in SUBSET {"i", "s"}
      BY <1>1, <3>3
    <3>7. command \in Words /\ ran \in Seq(Words)
      <4>1. << >> \in Seq(Words)
        BY EmptySeq
      <4>2. command \in Words
        BY <1>2 DEF Words
      <4>3. ran \in Seq(Words)
        BY <1>2, <4>1
      <4>4. QED
        BY <4>2, <4>3
    <3>8. QED
      BY <3>4, <3>5, <3>6, <3>7
  <2>2. args = "ok" =>
         /\ script # << >> => Reads(Head(script)) <= Len(so)
         /\ \A i \in 2 .. Len(script) : Reads(script[i]) <= Leaves(script[i - 1])
    BY <1>1, SessionsAssumption
  <2>3. QED
    BY <1>2, <2>1, <2>2 DEF SessionInv, Running
<1>4. PhaseInv
  BY <1>2 DEF PhaseInv
<1>5. OutInv
  BY <1>2, <1>2a DEF OutInv, Positions
<1>6. MergeInv
  <2>1. som \in [1 .. 2 -> Seq(TagLine)]
    BY <1>2c, EmptySom
  <2>2. iter \in Positions /\ iter2 \in Positions /\ same \in BOOLEAN /\ queue = {}
    <3>1. same \in BOOLEAN
      BY <1>2b
    <3>2. iter \in Positions /\ iter2 \in Positions /\ queue = {}
      BY <1>2b DEF Positions
    <3>3. QED
      BY <3>1, <3>2
  <2>3. QED
    BY <1>2, <2>1, <2>2 DEF MergeInv, Running
<1>7. ClipInv
  BY <1>2d DEF ClipInv, Positions
<1>8. XmlInv
  BY <1>2e DEF XmlInv, Positions
<1>9. QED
  BY <1>3, <1>4, <1>5, <1>6, <1>7, <1>8 DEF TypeInv

\* A command that works leaves the session alone.
LEMMA SessionKept ==
    SessionInv /\ Running /\ pc' # "shell"
      /\ UNCHANGED <<args, command, script, ran, so, txt, xml, tagOrder, flags>>
      => SessionInv'
  BY DEF SessionInv, Running

-----------------------------------------------------------------------------
\* The next line with something on it: all lines before it are blank.
LEMMA NextLineProperties ==
    ASSUME NEW lines \in Seq(Line), NEW p \in Positions
    PROVE  /\ NextLine(lines, p) \in 1 .. Len(lines) + 1
           /\ NextLine(lines, p) <= Len(lines) =>
                /\ p <= NextLine(lines, p)
                /\ lines[NextLine(lines, p)] \in TagLine \cup {Bad}
           /\ \A i \in p .. Len(lines) : i < NextLine(lines, p) => lines[i] = Blank
<1> DEFINE S == {Len(lines) + 1} \cup {i \in p .. Len(lines) : lines[i] # Blank}
           n == NextLine(lines, p)
<1>1. Len(lines) \in Nat /\ p \in Nat /\ p >= 1
  BY LenProperties DEF Positions
<1>2. S \subseteq 1 .. Len(lines) + 1 /\ S # {}
  BY <1>1
<1>3. n = Min(S)
  BY DEF NextLine
<1>4. /\ \A i \in S : i = Len(lines) + 1 \/ (i \in p .. Len(lines) /\ lines[i] # Blank)
      /\ \A i \in p .. Len(lines) : lines[i] # Blank => i \in S
  OBVIOUS
<1> HIDE DEF S, n
<1>5. S \subseteq Nat
  BY <1>1, <1>2
<1>6. \E x \in S : \A y \in S : x <= y
  BY <1>2, <1>5, LeastNumber
<1>7. n \in S /\ \A y \in S : n <= y
  BY <1>3, <1>6 DEF Min
<1>8. n \in 1 .. Len(lines) + 1
  BY <1>2, <1>7
<1>9. ASSUME n <= Len(lines)
      PROVE  p <= n /\ lines[n] \in TagLine \cup {Bad}
  <2>1. n \in p .. Len(lines) /\ lines[n] # Blank
    BY <1>1, <1>4, <1>7, <1>9
  <2>2. n \in 1 .. Len(lines)
    BY <1>8, <1>9
  <2>3. lines[n] \in Line
    BY <2>2, ElementOfSeq
  <2>4. QED
    BY <1>1, <2>1, <2>3 DEF Line
<1>10. \A i \in p .. Len(lines) : i < n => lines[i] = Blank
  BY <1>1, <1>4, <1>7, <1>8
<1>11. QED
  BY <1>8, <1>9, <1>10 DEF n

LEMMA NextLineTypes ==
    ASSUME NEW lines \in Seq(Line), NEW p \in Positions
    PROVE  /\ NextLine(lines, p) \in Positions
           /\ NextLine(lines, p) + 1 \in Positions
           /\ NextLine(lines, p) <= Len(lines) =>
                /\ NextLine(lines, p) \in 1 .. Len(lines)
                /\ lines[NextLine(lines, p)] \in TagLine \cup {Bad}
<1>1. NextLine(lines, p) \in 1 .. Len(lines) + 1 /\ Len(lines) \in Nat
  BY NextLineProperties, LenProperties
<1>2. NextLine(lines, p) <= Len(lines) => lines[NextLine(lines, p)] \in TagLine \cup {Bad}
  BY NextLineProperties
<1>3. QED
  BY <1>1, <1>2 DEF Positions

LEMMA ClipKept == ClipInv /\ UNCHANGED clipVars => ClipInv'
  BY DEF ClipInv, clipVars

LEMMA XmlKept == XmlInv /\ UNCHANGED xmlVars => XmlInv'
  BY DEF XmlInv, xmlVars

\* What merge2 has not begun, or has ended, is kept by the commands of the other kinds.
LEMMA MergeKept ==
    MergeInv /\ UNCHANGED <<so, command, mergeVars>>
      /\ (pc' = pc \/ pc' \in {"ok", "error", "clip", "container", "embedded", "import", "export",
                               "exportEnd"})
      /\ (command = "merge2" => pc' = pc) /\ (Running' => Running)
      => MergeInv'
  BY DEF MergeInv, mergeVars, Running

\* But for import, what is written so far has all its ends.
LEMMA PlainOut ==
    OutInv /\ (command # "import" \/ pc = "ok") => out \in Seq(TagLine)
<1> SUFFICES ASSUME OutInv, command # "import" \/ pc = "ok" PROVE out \in Seq(TagLine)
  OBVIOUS
<1>1. out \in Seq(OpenTag) /\ \A n \in Names : tagStacks[n] = << >>
  BY DEF OutInv
<1>2. \A i \in 1 .. Len(out) : out[i] \in OpenTag
  BY <1>1, ElementOfSeq
<1>3. \A i \in 1 .. Len(out) : out[i].second # DUMMY_END_POSITION
  <2>1. Len(<< >>) = 0 /\ 1 .. 0 = {}
    OBVIOUS
  <2>2. QED
    BY <1>1, <2>1 DEF OutInv
<1>4. \A i \in 1 .. Len(out) : out[i] \in TagLine
  BY <1>2, <1>3 DEF OpenTag, TagLine
<1>5. QED
  BY <1>1, <1>4

LEMMA PlainOutStep ==
    OutInv /\ command' # "import" /\ command # "import"
      /\ UNCHANGED <<tagStacks, outXml>>
      /\ outTxt' \in Seq(Nat \cup {Newline}) /\ out' \in Seq(TagLine)
      => OutInv'
<1> SUFFICES ASSUME OutInv, command' # "import", command # "import",
                    UNCHANGED <<tagStacks, outXml>>,
                    outTxt' \in Seq(Nat \cup {Newline}), out' \in Seq(TagLine)
             PROVE  OutInv'
  OBVIOUS
<1>1. \A n \in Names : tagStacks[n] = << >>
  BY DEF OutInv
<1>2. \A i \in 1 .. Len(out') : out'[i] \in TagLine
  BY ElementOfSeq
<1>3. \A i \in 1 .. Len(out') : out'[i].second # DUMMY_END_POSITION /\ out'[i] \in OpenTag
  BY <1>2 DEF OpenTag, TagLine, DUMMY_END_POSITION
<1>4. out' \in Seq(OpenTag)
  BY <1>3
<1>5. \A n \in Names : \A j \in 1 .. Len(tagStacks[n]) : FALSE
  <2>1. Len(<< >>) = 0 /\ 1 .. 0 = {}
    OBVIOUS
  <2>2. QED
    BY <1>1, <2>1
<1>6. tagStacks' \in [Names -> Seq(Positions)] /\ outXml' \in Seq(Token)
  BY DEF OutInv
<1>7. QED
  BY <1>1, <1>3, <1>4, <1>5, <1>6 DEF OutInv

-----------------------------------------------------------------------------
(* The steps of sort, merge, merge2 and verify.                                 *)

\* What all of them leave alone.
MergeFrame == UNCHANGED <<mergeRest, clipVars, xmlVars, script, ran, args>>

LEMMA MergeStep ==
    ASSUME TypeInv, MergeFrame, Running, command # "import", pc' # "shell",
           PhaseInv', MergeInv', out' \in Seq(TagLine)
    PROVE  TypeInv'
<1>1. /\ UNCHANGED <<args, command, script, ran, so, txt, xml, tagOrder, flags>>
      /\ UNCHANGED <<outTxt, outXml>> /\ UNCHANGED clipVars /\ UNCHANGED xmlVars
  BY DEF MergeFrame, mergeRest, inputs
<1>2. SessionInv'
  BY <1>1, SessionKept DEF TypeInv
<1>3. OutInv'
  <2>1. UNCHANGED tagStacks
    BY <1>1 DEF xmlVars
  <2>2. outTxt' \in Seq(Nat \cup {Newline})
    BY <1>1 DEF TypeInv, OutInv
  <2>3. QED
    BY <1>1, <2>1, <2>2, PlainOutStep DEF TypeInv
<1>4. ClipInv' /\ XmlInv'
  BY <1>1, ClipKept, XmlKept DEF TypeInv
<1>5. QED
  BY <1>2, <1>3, <1>4 DEF TypeInv

\* A command that reads a stand-off file has it.
LEMMA FileThere ==
    ASSUME TypeInv, Running
    PROVE  /\ command \in {"merge", "unite"} => 2 <= Len(so)
           /\ command \in {"sort", "merge", "merge2", "verify", "clip", "unite", "export"} => 1 <= Len(so)
           /\ Len(so) \in Nat
           /\ \A p \in 1 .. Len(so) : so[p] \in Seq(Line)
<1>1. so \in Seq(Seq(Line)) /\ Reads(command) <= Len(so)
  BY DEF TypeInv, SessionInv, Running
<1>2. Len(so) \in Nat
  BY <1>1, LenProperties
<1>3. command \in {"merge", "unite"} => 2 <= Len(so)
  BY <1>1 DEF Reads
<1>4. command \in {"sort", "merge2", "verify", "clip", "export"} => 1 <= Len(so)
  BY <1>1 DEF Reads
<1>5. \A p \in 1 .. Len(so) : so[p] \in Seq(Line)
  BY <1>1, ElementOfSeq
<1>6. QED
  BY <1>2, <1>3, <1>4, <1>5

LEMMA readDataTypes ==
    ASSUME TypeInv, readData, UNCHANGED <<clipVars, xmlVars, script, ran, args>>
    PROVE  TypeInv'
<1> DEFINE n == NextLine(so[f], at[f])
           line == so[f][n]
<1>1. /\ pc = "read" /\ Running /\ command \in {"sort", "merge", "verify"}
      /\ f \in 1 .. Len(so) /\ f \in 1 .. 2
  BY DEF readData, Running, TypeInv, PhaseInv, MergeInv
<1>2. so[f] \in Seq(Line) /\ at \in [1 .. Len(so) -> Positions] /\ at[f] \in Positions
  BY <1>1, FileThere DEF TypeInv, MergeInv
<1>3. n \in Positions /\ (n <= Len(so[f]) => line \in TagLine \cup {Bad})
  BY <1>2, NextLineTypes
<1>4. /\ MergeFrame /\ UNCHANGED <<out, iter, iter2, same, queue>>
      /\ at' = [at EXCEPT ![f] = n + 1]
      /\ UNCHANGED <<so, command>>
  BY DEF readData, MergeFrame, mergeRest, inputs
<1>5. \/ /\ n > Len(so[f])
         /\ f' = IF command = "merge" /\ f = 1 THEN 2 ELSE f
         /\ pc' = afterRead
         /\ UNCHANGED som
      \/ /\ pc' = "error"
         /\ UNCHANGED <<f, som>>
      \/ /\ n <= Len(so[f]) /\ line # Bad
         /\ som' = [som EXCEPT ![f] = Append(@, line)]
         /\ UNCHANGED <<f, pc>>
  BY DEF readData
<1>6. at' \in [1 .. Len(so) -> Positions]
  <2>1. n + 1 \in Positions
    BY <1>2, NextLineTypes
  <2> HIDE DEF n
  <2>2. QED
    BY <1>2, <1>4, <2>1
<1> HIDE DEF n
<1>7. som \in [1 .. 2 -> Seq(TagLine)] /\ som[f] \in Seq(TagLine)
  BY <1>1 DEF TypeInv, MergeInv
<1>8. som' \in [1 .. 2 -> Seq(TagLine)]
  <2>1. CASE UNCHANGED som
    BY <1>7, <2>1
  <2>2. CASE n <= Len(so[f]) /\ line # Bad /\ som' = [som EXCEPT ![f] = Append(@, line)]
    <3>1. line \in TagLine
      BY <1>3, <2>2
    <3> HIDE DEF line
    <3>2. Append(som[f], line) \in Seq(TagLine)
      BY <1>7, <3>1, AppendProperties
    <3>3. QED
      BY <1>7, <2>2, <3>2
  <2>3. QED
    BY <1>5, <2>1, <2>2
<1>9. /\ pc' \in {"read", "sort", "ok", "merge", "error"}
      /\ pc' = "sort" => command = "sort"
      /\ pc' = "merge" => command = "merge"
      /\ pc' = "read" /\ pc' = afterRead => f' \in {1, 2}
      /\ pc' \in {"read"} => f' \in 1 .. Len(so) /\ f' \in 1 .. 2
  <2>1. command = "merge" => 2 \in 1 .. Len(so)
    BY <1>1, FileThere
  <2>2. QED
    BY <1>1, <1>5, <2>1 DEF afterRead
<1>10. PhaseInv'
  BY <1>1, <1>4, <1>9 DEF PhaseInv, Commands
<1>11. MergeInv'
  <2>1. /\ iter \in Positions /\ iter2 \in Positions /\ same \in BOOLEAN /\ queue = {}
    BY <1>1 DEF TypeInv, MergeInv
  <2>2. QED
    BY <1>4, <1>6, <1>8, <1>9, <2>1 DEF MergeInv
<1>12. out' \in Seq(TagLine)
  BY <1>1, <1>4, PlainOut DEF TypeInv
<1>13. QED
  BY <1>1, <1>4, <1>9, <1>10, <1>11, <1>12, MergeStep

LEMMA mergeTagsTypes ==
    ASSUME TypeInv, mergeTags, UNCHANGED <<clipVars, xmlVars, script, ran, args>>
    PROVE  TypeInv'
<1>1. pc = "merge" /\ Running /\ command = "merge"
  BY DEF mergeTags, Running, TypeInv, PhaseInv
<1>2. /\ som \in [1 .. 2 -> Seq(TagLine)] /\ som[1] \in Seq(TagLine) /\ som[2] \in Seq(TagLine)
      /\ iter \in Positions /\ iter2 \in Positions
      /\ queue = {} /\ at \in [1 .. Len(so) -> Positions]
  BY <1>1 DEF TypeInv, MergeInv
<1>3. out \in Seq(TagLine)
  BY <1>1, PlainOut DEF TypeInv
<1>4. MergeFrame /\ UNCHANGED <<f, at, queue, so, command>>
  BY DEF mergeTags, MergeFrame, mergeRest, inputs
<1>5. CASE iter > Len(som[2])
  <2>1. /\ som' = [som EXCEPT ![1] = out \o SubSeq(@, iter2, Len(@))]
        /\ out' = << >>
        /\ pc' \in {"sort", "write"}
        /\ UNCHANGED <<iter, iter2, same>>
    BY <1>5 DEF mergeTags
  <2>2. SubSeq(som[1], iter2, Len(som[1])) \in Seq(TagLine)
    <3>1. Len(som[1]) \in Nat /\ iter2 \in Nat /\ iter2 >= 1
      BY <1>2, LenProperties DEF Positions
    <3>2. QED
      BY <1>2, <3>1, SubSeqProperties
  <2>3. out \o SubSeq(som[1], iter2, Len(som[1])) \in Seq(TagLine)
    BY <1>3, <2>2, ConcatProperties
  <2>4. som' \in [1 .. 2 -> Seq(TagLine)]
    BY <1>2, <2>1, <2>3
  <2>5. PhaseInv'
    BY <1>1, <1>4, <2>1 DEF PhaseInv
  <2>6. same' \in BOOLEAN
    BY <2>1 DEF TypeInv, MergeInv
  <2>7. MergeInv'
    BY <1>2, <1>4, <2>1, <2>4, <2>6 DEF MergeInv
  <2>8. out' \in Seq(TagLine)
    BY <2>1, EmptySeq
  <2>9. QED
    BY <1>1, <1>4, <2>1, <2>5, <2>7, <2>8, MergeStep
<1>6. CASE ~ (iter > Len(som[2]))
  <2>1. /\ \/ /\ iter2 <= Len(som[1])
              /\ out' = Append(out, som[1][iter2])
              /\ iter2' = iter2 + 1
              /\ same' = (som[1][iter2].first = som[2][iter].first)
              /\ UNCHANGED iter
           \/ /\ out' = Append(out, som[2][iter])
              /\ iter' = iter + 1
              /\ same' = FALSE
              /\ UNCHANGED iter2
        /\ UNCHANGED <<som, pc>>
    BY <1>6 DEF mergeTags
  <2>2. iter' \in Positions /\ iter2' \in Positions
    BY <1>2, <2>1 DEF Positions
  <2>3. same' \in BOOLEAN
    BY <2>1
  <2>4. out' \in Seq(TagLine)
    <3>1. Len(som[1]) \in Nat /\ Len(som[2]) \in Nat
      BY <1>2, LenProperties
    <3>2. iter2 <= Len(som[1]) => iter2 \in 1 .. Len(som[1])
      BY <1>2, <3>1 DEF Positions
    <3>3. iter \in 1 .. Len(som[2])
      BY <1>2, <1>6, <3>1 DEF Positions
    <3>4. iter2 <= Len(som[1]) => som[1][iter2] \in TagLine
      BY <1>2, <3>2, ElementOfSeq
    <3>5. som[2][iter] \in TagLine
      BY <1>2, <3>3, ElementOfSeq
    <3>6. QED
      BY <1>3, <2>1, <3>4, <3>5, AppendProperties
  <2>5. PhaseInv'
    BY <1>1, <1>4, <2>1 DEF PhaseInv
  <2>6. MergeInv'
    BY <1>1, <1>2, <1>4, <2>1, <2>2, <2>3 DEF MergeInv
  <2>7. QED
    BY <1>1, <1>4, <2>1, <2>4, <2>5, <2>6, MergeStep
<1>7. QED
  BY <1>5, <1>6

LEMMA sortTypes ==
    ASSUME TypeInv, sort, UNCHANGED <<clipVars, xmlVars, script, ran, args>>
    PROVE  TypeInv'
<1>1. pc = "sort" /\ Running /\ command \in {"sort", "merge"} /\ tagOrder \in Seq(Names)
  BY DEF sort, Running, TypeInv, PhaseInv, SessionInv
<1>2. MergeFrame /\ UNCHANGED <<out, f, at, iter, iter2, same, queue, so, command>> /\ pc' = "write"
  BY DEF sort, MergeFrame, mergeRest, inputs
<1>3. som \in [1 .. 2 -> Seq(TagLine)] /\ som[1] \in Seq(TagLine)
  BY DEF TypeInv, MergeInv
<1>4. som' = [som EXCEPT ![1] = StableSort(tagOrder, som[1])]
  BY DEF sort
<1>5. som' \in [1 .. 2 -> Seq(TagLine)]
  BY <1>1, <1>3, <1>4, StableSortSorted
<1>6. PhaseInv'
  BY <1>1, <1>2 DEF PhaseInv
<1>7. MergeInv'
  BY <1>1, <1>2, <1>5 DEF MergeInv, TypeInv
<1>8. out' \in Seq(TagLine)
  BY <1>1, <1>2, PlainOut DEF TypeInv
<1>9. QED
  BY <1>1, <1>2, <1>6, <1>7, <1>8, MergeStep

LEMMA writeDataTypes ==
    ASSUME TypeInv, writeData, UNCHANGED <<clipVars, xmlVars, script, ran, args>>
    PROVE  TypeInv'
<1>1. pc = "write" /\ Running /\ command \in {"sort", "merge"}
  BY DEF writeData, Running, TypeInv, PhaseInv
<1>2. /\ MergeFrame /\ UNCHANGED <<f, at, som, iter, iter2, same, queue, so, command>>
      /\ pc' = "ok" /\ out' = som[1]
  BY DEF writeData, MergeFrame, mergeRest, inputs
<1>3. som \in [1 .. 2 -> Seq(TagLine)] /\ som[1] \in Seq(TagLine)
  BY DEF TypeInv, MergeInv
<1>4. PhaseInv'
  BY <1>1, <1>2 DEF PhaseInv, Commands
<1>5. MergeInv'
  BY <1>1, <1>2 DEF MergeInv, TypeInv, Running
<1>6. QED
  BY <1>1, <1>2, <1>3, <1>4, <1>5, MergeStep

LEMMA initSeqTypes ==
    ASSUME TypeInv, initSeq, UNCHANGED <<clipVars, xmlVars, script, ran, args>>
    PROVE  TypeInv'
<1> DEFINE n == NextLine(so[f], 1)
           e == [top |-> so[f][n], fileNo |-> f]
<1>1. pc = "init" /\ Running /\ command = "merge2" /\ f \in 1 .. Len(so) /\ Len(so) \in Nat
  BY FileThere DEF initSeq, Running, TypeInv, PhaseInv, MergeInv
<1>2. so[f] \in Seq(Line) /\ at \in [1 .. Len(so) -> Positions] /\ 1 \in Positions
  BY <1>1, FileThere DEF TypeInv, MergeInv, Positions
<1>3. n + 1 \in Positions /\ (n <= Len(so[f]) => so[f][n] \in TagLine \cup {Bad})
  BY <1>2, NextLineTypes
<1>4. /\ MergeFrame /\ UNCHANGED <<out, som, iter, iter2, same, so, command>>
      /\ at' = [at EXCEPT ![f] = n + 1]
  BY DEF initSeq, MergeFrame, mergeRest, inputs
<1>5. \/ pc' = "error" /\ UNCHANGED <<f, queue>>
      \/ /\ n <= Len(so[f]) => so[f][n] # Bad
         /\ queue' = queue \cup (IF n > Len(so[f]) THEN {} ELSE {e})
         /\ f' = f + 1
         /\ pc' = IF f = Len(so) THEN "merge2" ELSE "init"
  BY DEF initSeq
<1>6. at' \in [1 .. Len(so) -> Positions]
  <2> HIDE DEF n
  <2>1. QED
    BY <1>2, <1>3, <1>4
<1>7. /\ pc' \in {"error", "merge2", "init"}
      /\ pc' = "init" => f' \in 1 .. Len(so)
  BY <1>1, <1>5
<1>8. \A q \in queue' : q.top \in TagLine /\ q.fileNo \in 1 .. Len(so)
  <2>1. \A q \in queue : q.top \in TagLine /\ q.fileNo \in 1 .. Len(so)
    BY DEF TypeInv, MergeInv
  <2>2. n <= Len(so[f]) /\ so[f][n] # Bad => e.top \in TagLine /\ e.fileNo \in 1 .. Len(so)
    BY <1>1, <1>3
  <2>3. \A q \in queue' : q \in queue \/ (~ (n > Len(so[f])) /\ so[f][n] # Bad /\ q = e)
    <3> HIDE DEF e, n
    <3>1. n \in Int /\ Len(so[f]) \in Nat
      BY <1>2, NextLineTypes, LenProperties DEF n, Positions
    <3>2. QED
      BY <1>5, <3>1
  <2>4. n \in Int /\ Len(so[f]) \in Nat
    BY <1>2, NextLineTypes, LenProperties DEF Positions
  <2> HIDE DEF e, n
  <2>5. QED
    BY <2>1, <2>2, <2>3, <2>4
<1> HIDE DEF n, e
<1>9. PhaseInv'
  BY <1>1, <1>4, <1>7 DEF PhaseInv
<1>10. MergeInv'
  <2>1. /\ iter \in Positions /\ iter2 \in Positions /\ same \in BOOLEAN
        /\ som \in [1 .. 2 -> Seq(TagLine)]
    BY DEF TypeInv, MergeInv
  <2>2. QED
    BY <1>1, <1>4, <1>6, <1>7, <1>8, <2>1 DEF MergeInv
<1>11. out' \in Seq(TagLine)
  BY <1>1, <1>4, PlainOut DEF TypeInv
<1>12. QED
  BY <1>1, <1>4, <1>7, <1>9, <1>10, <1>11, MergeStep

LEMMA mergeQueueTypes ==
    ASSUME TypeInv, mergeQueue, UNCHANGED <<clipVars, xmlVars, script, ran, args>>
    PROVE  TypeInv'
<1>1. pc = "merge2" /\ Running /\ command = "merge2"
  BY DEF mergeQueue, Running, TypeInv, PhaseInv
<1>2. MergeFrame /\ UNCHANGED <<f, som, iter, iter2, same, so, command>>
  BY DEF mergeQueue, MergeFrame, mergeRest, inputs
<1>3. /\ iter \in Positions /\ iter2 \in Positions /\ same \in BOOLEAN
      /\ som \in [1 .. 2 -> Seq(TagLine)]
  BY DEF TypeInv, MergeInv
<1>4. at \in [1 .. Len(so) -> Positions]
  BY <1>1 DEF TypeInv, MergeInv
<1>5. \A q \in queue : q.top \in TagLine /\ q.fileNo \in 1 .. Len(so)
  BY DEF TypeInv, MergeInv
<1>6. out \in Seq(TagLine)
  BY <1>1, PlainOut DEF TypeInv
<1>7. CASE queue = {} /\ pc' = "ok" /\ UNCHANGED <<out, at, queue>>
  <2>1. PhaseInv'
    BY <1>1, <1>2, <1>7 DEF PhaseInv, Commands
  <2>2. MergeInv'
    BY <1>1, <1>2, <1>3, <1>4, <1>7 DEF MergeInv
  <2>3. QED
    BY <1>1, <1>2, <1>6, <1>7, <2>1, <2>2, MergeStep
<1>8. ASSUME NEW ts \in queue,
             out' = Append(out, ts.top),
             NEW n, n = NextLine(so[ts.fileNo], at[ts.fileNo]),
             NEW t, t = so[ts.fileNo][n],
             at' = [at EXCEPT ![ts.fileNo] = n + 1],
             \/ queue' = queue \ {ts} /\ pc' \in {"error", "merge2"}
             \/ /\ n <= Len(so[ts.fileNo]) /\ t # Bad
                /\ queue' = (queue \ {ts}) \cup {[ts EXCEPT !.top = t]}
                /\ UNCHANGED pc
      PROVE  TypeInv'
  <2>1. ts.fileNo \in 1 .. Len(so) /\ ts.top \in TagLine
    BY <1>5
  <2>2. so[ts.fileNo] \in Seq(Line) /\ at[ts.fileNo] \in Positions
    BY <1>1, <1>4, <2>1, FileThere
  <2>3. n + 1 \in Positions /\ (n <= Len(so[ts.fileNo]) => t \in TagLine \cup {Bad})
    BY <1>8, <2>2, NextLineTypes
  <2>4. at' \in [1 .. Len(so) -> Positions]
    BY <1>4, <1>8, <2>3
  <2>5. out' \in Seq(TagLine)
    BY <1>6, <1>8, <2>1, AppendProperties
  <2>6. pc' \in {"error", "merge2"}
    BY <1>1, <1>8
  <2>7. \A q \in queue' : q.top \in TagLine /\ q.fileNo \in 1 .. Len(so)
    <3>1. CASE queue' = queue \ {ts}
      BY <1>5, <3>1
    <3>2. CASE /\ n <= Len(so[ts.fileNo]) /\ t # Bad
               /\ queue' = (queue \ {ts}) \cup {[ts EXCEPT !.top = t]}
      <4> DEFINE u == [ts EXCEPT !.top = t]
      <4>1. "top" \in DOMAIN ts => u.top = t
        OBVIOUS
      <4>2. u.fileNo = ts.fileNo
        OBVIOUS
      <4>3. u.top \in TagLine
        BY <2>3, <3>2, <4>1
      <4> HIDE DEF u
      <4>4. QED
        BY <1>5, <2>1, <3>2, <4>2, <4>3 DEF u
    <3>3. QED
      BY <1>8, <3>1, <3>2
  <2>8. PhaseInv'
    BY <1>1, <1>2, <2>6 DEF PhaseInv
  <2>9. MergeInv'
    BY <1>1, <1>2, <1>3, <2>4, <2>6, <2>7 DEF MergeInv
  <2>10. QED
    BY <1>1, <1>2, <2>5, <2>6, <2>8, <2>9, MergeStep
<1>9. QED
  BY <1>1, <1>7, <1>8 DEF mergeQueue

-----------------------------------------------------------------------------
(* The steps of clip and unite.                                                 *)

ClipFrame == UNCHANGED <<clipRest, mergeVars, xmlVars, script, ran, args>>

LEMMA ClipStep ==
    ASSUME TypeInv, ClipFrame, Running, command \in {"clip", "unite"},
           pc' \in {"clip", "container", "embedded", "ok", "error"},
           PhaseInv', ClipInv', out' \in Seq(TagLine), outTxt' \in Seq(Nat \cup {Newline})
    PROVE  TypeInv'
<1>1. /\ UNCHANGED <<args, command, script, ran, so, txt, xml, tagOrder, flags>>
      /\ UNCHANGED outXml /\ UNCHANGED mergeVars /\ UNCHANGED xmlVars
  BY DEF ClipFrame, clipRest, inputs, mergeVars
<1>2. SessionInv'
  BY <1>1, SessionKept DEF TypeInv
<1>3. OutInv'
  <2>1. UNCHANGED tagStacks
    BY <1>1 DEF xmlVars
  <2>2. QED
    BY <1>1, <2>1, PlainOutStep DEF TypeInv
<1>4. XmlInv'
  BY <1>1, XmlKept DEF TypeInv
<1>5. MergeInv'
  BY <1>1, MergeKept DEF TypeInv
<1>6. QED
  BY <1>2, <1>3, <1>4, <1>5 DEF TypeInv

LEMMA CopyType ==
    ASSUME NEW a \in Nat, NEW b \in Nat
    PROVE  Copy(a, b) \in Seq(Nat)
<1>1. CASE b - a \in Nat
  BY <1>1 DEF Copy
<1>2. CASE b - a \notin Nat
  <2>1. 1 .. b - a = 1 .. 0
    BY <1>2
  <2>2. \A i \in 1 .. b - a : FALSE
    BY <1>2
  <2>3. Copy(a, b) = [i \in 1 .. 0 |-> a + i - 1]
    BY <2>1 DEF Copy
  <2>4. QED
    BY <2>3
<1>3. QED
  BY <1>1, <1>2

LEMMA clipDataTypes ==
    ASSUME TypeInv, clipData, UNCHANGED <<mergeVars, xmlVars, script, ran, args>>
    PROVE  TypeInv'
<1>1. pc = "clip" /\ Running /\ command = "clip"
  BY DEF clipData, Running, TypeInv, PhaseInv
<1>2. so[1] \in Seq(Line) /\ lineNo \in Positions /\ endOfLastRegion \in Nat
  BY <1>1, FileThere DEF TypeInv, ClipInv
<1>3. PICK n : n = NextLine(so[1], lineNo)
  OBVIOUS
<1>4. n + 1 \in Positions /\ (n <= Len(so[1]) => so[1][n] \in TagLine \cup {Bad})
  BY <1>2, <1>3, NextLineTypes
<1>5. /\ ClipFrame /\ UNCHANGED <<domain, range, emptyTagRegion, command>>
      /\ lineNo' = n + 1
  BY <1>3 DEF clipData, ClipFrame, clipRest, inputs
<1>6. out \in Seq(TagLine) /\ outTxt \in Seq(Nat \cup {Newline})
  BY <1>1, PlainOut DEF TypeInv, OutInv
<1>7. \/ /\ pc' \in {"ok", "error", "clip"}
         /\ UNCHANGED <<out, outTxt, endOfLastRegion>>
      \/ \E sep \in {<<Newline>>, << >>} :
           /\ outTxt' = outTxt \o sep /\ pc' = "error"
           /\ UNCHANGED <<out, endOfLastRegion>>
      \/ /\ n <= Len(so[1]) /\ so[1][n] # Bad /\ pc' = "clip"
         /\ \E sep \in {<<Newline>>, << >>}, from \in {so[1][n].first, endOfLastRegion} :
              /\ outTxt' = outTxt \o sep \o Copy(from, so[1][n].second)
              /\ endOfLastRegion' = so[1][n].second
              /\ out' = Append(out, so[1][n])
  BY <1>1, <1>3 DEF clipData
<1>8. \A sep \in {<<Newline>>, << >>} : outTxt \o sep \in Seq(Nat \cup {Newline})
  <2>1. \A sep \in {<<Newline>>, << >>} : sep \in Seq(Nat \cup {Newline})
    <3>1. <<Newline>> \in Seq(Nat \cup {Newline})
      OBVIOUS
    <3>2. << >> \in Seq(Nat \cup {Newline})
      OBVIOUS
    <3>3. QED
      BY <3>1, <3>2
  <2>2. QED
    BY <1>6, <2>1, ConcatProperties
<1>9. /\ pc' \in {"ok", "error", "clip"} /\ out' \in Seq(TagLine)
      /\ outTxt' \in Seq(Nat \cup {Newline}) /\ endOfLastRegion' \in Nat
  <2>1. CASE pc' \in {"ok", "error", "clip"} /\ UNCHANGED <<out, outTxt, endOfLastRegion>>
    BY <1>2, <1>6, <2>1
  <2>2. CASE \E sep \in {<<Newline>>, << >>} :
               /\ outTxt' = outTxt \o sep /\ pc' = "error"
               /\ UNCHANGED <<out, endOfLastRegion>>
    BY <1>2, <1>6, <1>8, <2>2
  <2>3. ASSUME n <= Len(so[1]), so[1][n] # Bad, pc' = "clip",
               NEW sep \in {<<Newline>>, << >>},
               NEW from \in {so[1][n].first, endOfLastRegion},
               outTxt' = outTxt \o sep \o Copy(from, so[1][n].second),
               endOfLastRegion' = so[1][n].second,
               out' = Append(out, so[1][n])
        PROVE  /\ out' \in Seq(TagLine) /\ endOfLastRegion' \in Nat
               /\ outTxt' \in Seq(Nat \cup {Newline})
    <3>1. so[1][n] \in TagLine
      BY <1>4, <2>3
    <3>2. so[1][n].first \in Nat /\ so[1][n].second \in Nat
      BY <3>1 DEF TagLine
    <3>3. Copy(from, so[1][n].second) \in Seq(Nat)
      BY <1>2, <3>2, CopyType
    <3>4. Copy(from, so[1][n].second) \in Seq(Nat \cup {Newline})
      BY <3>3
    <3>5. outTxt' \in Seq(Nat \cup {Newline})
      BY <1>8, <2>3, <3>4, ConcatProperties
    <3>6. out' \in Seq(TagLine)
      BY <1>6, <2>3, <3>1, AppendProperties
    <3>7. QED
      BY <2>3, <3>2, <3>5, <3>6
  <2>4. QED
    BY <1>7, <2>1, <2>2, <2>3
<1>10. PhaseInv'
  BY <1>1, <1>5, <1>9 DEF PhaseInv, Commands
<1>11. ClipInv'
  BY <1>4, <1>5, <1>9 DEF ClipInv, TypeInv
<1>12. QED
  BY <1>1, <1>5, <1>9, <1>10, <1>11, ClipStep

LEMMA setClippingSpanTypes ==
    ASSUME TypeInv, setClippingSpan, UNCHANGED <<mergeVars, xmlVars, script, ran, args>>
    PROVE  TypeInv'
<1> DEFINE DomainSpan == [first : Int, second : Int]
           RangeSpan == [first : Nat, second : Nat]
<1>1. pc = "container" /\ Running /\ command = "unite"
  BY DEF setClippingSpan, Running, TypeInv, PhaseInv
<1>2. so[1] \in Seq(Line) /\ lineNo \in Positions
  BY <1>1, FileThere DEF TypeInv, ClipInv
<1>3. PICK n, s, k, from :
        /\ n = NextLine(so[1], lineNo) /\ s = so[1][n] /\ k = Len(range)
        /\ from = IF k = 0 THEN 0 ELSE domain[k].second + 1
  OBVIOUS
<1>4. n + 1 \in Positions /\ (n <= Len(so[1]) => s \in TagLine \cup {Bad})
  BY <1>2, <1>3, NextLineTypes
<1>5. ClipFrame /\ UNCHANGED <<out, outTxt, firstRegion, endOfLastRegion, command>>
  BY DEF setClippingSpan, ClipFrame, clipRest, inputs
<1>6. \/ /\ lineNo' = 1 /\ pc' = "embedded"
         /\ emptyTagRegion' = <<1, k + 1>>
         /\ UNCHANGED <<domain, range>>
      \/ /\ lineNo' = n + 1 /\ UNCHANGED emptyTagRegion
         /\ pc' \in {"error", "container"} /\ UNCHANGED <<domain, range>>
      \/ /\ lineNo' = n + 1 /\ UNCHANGED <<emptyTagRegion, pc>>
         /\ n <= Len(so[1]) /\ s # Bad
         /\ domain' = Append(domain, [first |-> from, second |-> from + s.second - s.first])
         /\ range' = Append(range, [first |-> s.first, second |-> s.second])
      \/ /\ lineNo' = n + 1 /\ UNCHANGED <<emptyTagRegion, pc>>
         /\ n <= Len(so[1]) /\ s # Bad /\ k > 0
         /\ domain' = [domain EXCEPT ![k].second = @ + s.second - range[k].second]
         /\ range' = [range EXCEPT ![k].second = s.second]
  BY <1>1, <1>3 DEF setClippingSpan
<1>7. /\ domain \in Seq(DomainSpan) /\ range \in Seq(RangeSpan)
      /\ Len(domain) = k /\ Len(range) = k /\ k \in Nat
  BY <1>3, LenProperties DEF TypeInv, ClipInv
<1>8. emptyTagRegion \in Positions \X Nat
  BY DEF TypeInv, ClipInv
<1>9. /\ domain' \in Seq(DomainSpan) /\ range' \in Seq(RangeSpan)
      /\ Len(domain') = Len(range')
  <2>1. CASE UNCHANGED <<domain, range>>
    BY <1>7, <2>1
  <2>2. k > 0 => domain[k] \in DomainSpan /\ range[k] \in RangeSpan
    <3>1. k > 0 => k \in 1 .. Len(domain) /\ k \in 1 .. Len(range)
      BY <1>7
    <3> HIDE DEF DomainSpan, RangeSpan
    <3>2. QED
      BY <1>7, <3>1, ElementOfSeq
  <2>3. CASE /\ n <= Len(so[1]) /\ s # Bad
             /\ domain' = Append(domain, [first |-> from, second |-> from + s.second - s.first])
             /\ range' = Append(range, [first |-> s.first, second |-> s.second])
    <3>1. s.first \in Nat /\ s.second \in Nat
      BY <1>4, <2>3 DEF TagLine
    <3>2. from \in Int
      BY <1>3, <1>7, <2>2
    <3>3. [first |-> from, second |-> from + s.second - s.first] \in DomainSpan
      BY <3>1, <3>2
    <3>4. [first |-> s.first, second |-> s.second] \in RangeSpan
      BY <3>1
    <3> HIDE DEF DomainSpan, RangeSpan
    <3>5. QED
      BY <1>7, <2>3, <3>3, <3>4, AppendProperties
  <2>4. CASE /\ n <= Len(so[1]) /\ s # Bad /\ k > 0
             /\ domain' = [domain EXCEPT ![k].second = @ + s.second - range[k].second]
             /\ range' = [range EXCEPT ![k].second = s.second]
    <3>1. s.second \in Nat
      BY <1>4, <2>4 DEF TagLine
    <3>2. [domain[k] EXCEPT !.second = @ + s.second - range[k].second] \in DomainSpan
      BY <2>2, <2>4, <3>1
    <3>3. [range[k] EXCEPT !.second = s.second] \in RangeSpan
      BY <2>2, <2>4, <3>1
    <3>4. PICK d \in DomainSpan, e \in RangeSpan :
            /\ domain' = [domain EXCEPT ![k] = d]
            /\ range' = [range EXCEPT ![k] = e]
      <4>1. domain' = [domain EXCEPT ![k] = [domain[k] EXCEPT !.second = @ + s.second - range[k].second]]
        BY <2>4
      <4>2. range' = [range EXCEPT ![k] = [range[k] EXCEPT !.second = s.second]]
        BY <2>4
      <4>3. QED
        BY <3>2, <3>3, <4>1, <4>2
    <3>5. k \in 1 .. Len(domain) /\ k \in 1 .. Len(range)
      BY <1>7, <2>4
    <3> HIDE DEF DomainSpan, RangeSpan
    <3>6. domain' \in Seq(DomainSpan) /\ Len(domain') = Len(domain)
      BY <1>7, <3>4, <3>5, ExceptSeq
    <3>7. range' \in Seq(RangeSpan) /\ Len(range') = Len(range)
      BY <1>7, <3>4, <3>5, ExceptSeq
    <3>8. QED
      BY <1>7, <3>6, <3>7
  <2>5. QED
    BY <1>6, <2>1, <2>3, <2>4
<1>10. /\ lineNo' \in Positions /\ pc' \in {"embedded", "error", "container"}
       /\ emptyTagRegion' \in Positions \X Nat
  BY <1>1, <1>4, <1>6, <1>7, <1>8 DEF Positions
<1>11. PhaseInv'
  BY <1>1, <1>5, <1>10 DEF PhaseInv
<1>12. ClipInv'
  BY <1>5, <1>9, <1>10 DEF ClipInv, TypeInv
<1>13. out' \in Seq(TagLine) /\ outTxt' \in Seq(Nat \cup {Newline})
  BY <1>1, <1>5, PlainOut DEF TypeInv, OutInv
<1>14. QED
  BY <1>1, <1>5, <1>10, <1>11, <1>12, <1>13, ClipStep

\* The least element of a bound and of numbers below it that are at least b.
LEMMA MinBound ==
    ASSUME NEW b \in Nat, NEW e \in Nat, NEW S, S \subseteq b .. e - 1
    PROVE  /\ Min({e} \cup S) \in {e} \cup S
           /\ \A i \in {e} \cup S : Min({e} \cup S) <= i
<1> DEFINE U == {e} \cup S
<1>1. U \subseteq Nat /\ U # {}
  OBVIOUS
<1> HIDE DEF U
<1>2. \E x \in U : \A y \in U : x <= y
  BY <1>1, LeastNumber
<1>3. Min(U) \in U /\ \A i \in U : Min(U) <= i
  BY <1>2 DEF Min
<1>4. QED
  BY <1>3 DEF U

LEMMA BoundsRange ==
    ASSUME NEW b \in Nat, NEW e \in Nat, NEW n
    PROVE  /\ LowerBoundEnd(b, e, n) = e \/ LowerBoundEnd(b, e, n) \in b .. e - 1
           /\ UpperBoundBegin(b, e, n) = e \/ UpperBoundBegin(b, e, n) \in b .. e - 1
<1>1. LowerBoundEnd(b, e, n) = e \/ LowerBoundEnd(b, e, n) \in b .. e - 1
  <2> DEFINE S == {i \in b .. e - 1 : domain[i].second >= n}
  <2>1. LowerBoundEnd(b, e, n) = Min({e} \cup S) /\ S \subseteq b .. e - 1
    BY DEF LowerBoundEnd
  <2> HIDE DEF S
  <2>2. QED
    BY <2>1, MinBound
<1>2. UpperBoundBegin(b, e, n) = e \/ UpperBoundBegin(b, e, n) \in b .. e - 1
  <2> DEFINE S == {i \in b .. e - 1 : domain[i].first > n}
  <2>1. UpperBoundBegin(b, e, n) = Min({e} \cup S) /\ S \subseteq b .. e - 1
    BY DEF UpperBoundBegin
  <2> HIDE DEF S
  <2>2. QED
    BY <2>1, MinBound
<1>3. QED
  BY <1>1, <1>2

\* Where Mapper looks for the regions of a tag: both ends are in one.
Mapped(m, t) ==
    /\ m.ok => /\ m.dom[1] \in 1 .. Len(domain) /\ m.dom[2] \in 1 .. Len(domain)
               /\ contains(domain[m.dom[1]], t.first)
               /\ contains(domain[m.dom[2]], t.second)
               /\ m.region \in Positions \X Nat

LEMMA mapEmptyRegion ==
    ASSUME ClipInv, NEW t \in TagLine, isEmptyTag(t)
    PROVE  Mapped(mapEmpty(t.first), t)
<1>1. PICK b \in Positions, e \in Nat : emptyTagRegion = <<b, e>>
  BY DEF ClipInv
<1>2. Len(domain) + 1 \in Nat
  BY LenProperties DEF ClipInv
<1>3. PICK i, d :
        /\ i = LowerBoundEnd(emptyTagRegion[1], emptyTagRegion[2], t.first)
        /\ d = IF i # emptyTagRegion[2] THEN i
               ELSE LowerBoundEnd(emptyTagRegion[1], Len(domain) + 1, t.first)
  OBVIOUS
<1>4. i = e \/ i \in b .. e - 1
  BY <1>1, <1>3, BoundsRange DEF Positions
<1>5. i = e => d = Len(domain) + 1 \/ d \in b .. (Len(domain) + 1) - 1
  BY <1>1, <1>2, <1>3, BoundsRange DEF Positions
<1>6. d \in Positions
  BY <1>1, <1>2, <1>3, <1>4, <1>5 DEF Positions
<1>7. mapEmpty(t.first) = [ok |-> d <= Len(domain) /\ (d <= Len(domain) => contains(domain[d], t.first)),
                           dom |-> <<d, d>>, region |-> <<d, d + 1>>]
  BY <1>3 DEF mapEmpty
<1>8. t.first = t.second
  BY DEF isEmptyTag
<1>9. <<d, d + 1>> \in Positions \X Nat
  BY <1>6 DEF Positions
<1>10. PICK m : m = mapEmpty(t.first)
  OBVIOUS
<1>11. /\ m.ok => d <= Len(domain) /\ contains(domain[d], t.first)
       /\ m.dom = <<d, d>> /\ m.region = <<d, d + 1>>
  <2>1. m.dom = <<d, d>> /\ m.region = <<d, d + 1>>
    BY <1>7, <1>10
  <2>2. m.ok = (d <= Len(domain) /\ (d <= Len(domain) => contains(domain[d], t.first)))
    BY <1>7, <1>10
  <2>3. QED
    BY <2>1, <2>2
<1>12. m.ok => d \in 1 .. Len(domain)
  BY <1>2, <1>6, <1>11 DEF Positions
<1>13. Mapped(m, t)
  BY <1>8, <1>9, <1>11, <1>12 DEF Mapped
<1>14. QED
  BY <1>10, <1>13

LEMMA mapNonEmptyRegion ==
    ASSUME ClipInv, NEW t \in TagLine
    PROVE  Mapped(mapNonEmpty(t.first, t.second), t)
<1>1. Len(domain) + 1 \in Nat /\ Len(domain) \in Nat
  BY LenProperties DEF ClipInv
<1>2. PICK i, j :
        /\ i = UpperBoundBegin(1, Len(domain) + 1, t.first) - 1
        /\ j = LowerBoundEnd(1, Len(domain) + 1, t.second)
  OBVIOUS
<1>3. i \in 0 .. Len(domain)
  BY <1>1, <1>2, BoundsRange
<1>4. j \in 1 .. Len(domain) + 1
  BY <1>1, <1>2, BoundsRange
<1>5. mapNonEmpty(t.first, t.second) =
        [ok |-> /\ i > 0 /\ (i > 0 => contains(domain[i], t.first))
                /\ j <= Len(domain) /\ (j <= Len(domain) => contains(domain[j], t.second)),
         dom |-> <<i, j>>, region |-> <<i, j>>]
  BY <1>2 DEF mapNonEmpty
<1>6. PICK m : m = mapNonEmpty(t.first, t.second)
  OBVIOUS
<1>7. /\ m.ok => /\ i > 0 /\ contains(domain[i], t.first)
                 /\ j <= Len(domain) /\ contains(domain[j], t.second)
      /\ m.dom = <<i, j>> /\ m.region = <<i, j>>
  BY <1>5, <1>6
<1>8. m.ok => i \in 1 .. Len(domain) /\ j \in 1 .. Len(domain) /\ <<i, j>> \in Positions \X Nat
  BY <1>1, <1>3, <1>4, <1>7 DEF Positions
<1>9. Mapped(m, t)
  BY <1>7, <1>8 DEF Mapped
<1>10. QED
  BY <1>6, <1>9

LEMMA mapTypes ==
    ASSUME TypeInv, map, UNCHANGED <<mergeVars, xmlVars, script, ran, args>>
    PROVE  TypeInv'
<1>1. pc = "embedded" /\ Running /\ command = "unite"
  BY DEF map, Running, TypeInv, PhaseInv
<1>2. so[2] \in Seq(Line) /\ lineNo \in Positions /\ ClipInv
  BY <1>1, FileThere DEF TypeInv, ClipInv
<1>3. PICK n, t, m :
        /\ n = NextLine(so[2], lineNo) /\ t = so[2][n]
        /\ m = IF isEmptyTag(t) THEN mapEmpty(t.first) ELSE mapNonEmpty(t.first, t.second)
  OBVIOUS
<1>4. n + 1 \in Positions /\ (n <= Len(so[2]) => t \in TagLine \cup {Bad})
  BY <1>2, <1>3, NextLineTypes
<1>5. /\ ClipFrame /\ UNCHANGED <<outTxt, firstRegion, endOfLastRegion, domain, range, command>>
      /\ lineNo' = n + 1
  BY <1>3 DEF map, ClipFrame, clipRest, inputs
<1>6. \/ /\ pc' \in {"ok", "error"} /\ UNCHANGED <<out, emptyTagRegion>>
      \/ /\ n <= Len(so[2]) /\ t # Bad /\ m.ok
         /\ out' = Append(out, Tag(doMapping(m.dom[1], t.first),
                                   doMapping(m.dom[2], t.second), t.name))
         /\ emptyTagRegion' = m.region
         /\ UNCHANGED pc
  BY <1>3 DEF map
<1>7. out \in Seq(TagLine) /\ outTxt \in Seq(Nat \cup {Newline})
  BY <1>1, PlainOut DEF TypeInv, OutInv
<1>8. pc' \in {"ok", "error", "embedded"}
  BY <1>1, <1>6
<1>9. out' \in Seq(TagLine) /\ emptyTagRegion' \in Positions \X Nat
  <2>1. CASE UNCHANGED <<out, emptyTagRegion>>
    BY <1>2, <1>7, <2>1 DEF ClipInv
  <2>2. CASE /\ n <= Len(so[2]) /\ t # Bad /\ m.ok
             /\ out' = Append(out, Tag(doMapping(m.dom[1], t.first),
                                       doMapping(m.dom[2], t.second), t.name))
             /\ emptyTagRegion' = m.region
    <3>1. t \in TagLine
      BY <1>4, <2>2
    <3>2. Mapped(m, t)
      BY <1>2, <1>3, <3>1, mapEmptyRegion, mapNonEmptyRegion
    <3>3. PICK i, j : i = m.dom[1] /\ j = m.dom[2]
      OBVIOUS
    <3>4. /\ i \in 1 .. Len(domain) /\ j \in 1 .. Len(domain)
          /\ contains(domain[i], t.first) /\ contains(domain[j], t.second)
          /\ m.region \in Positions \X Nat
      BY <2>2, <3>2, <3>3 DEF Mapped
    <3>5. /\ domain[i] \in [first : Int, second : Int] /\ domain[j] \in [first : Int, second : Int]
          /\ range[i] \in [first : Nat, second : Nat] /\ range[j] \in [first : Nat, second : Nat]
      BY <1>2, <3>4, ElementOfSeq DEF ClipInv
    <3>6. t.first \in Nat /\ t.second \in Nat /\ t.name \in Names
      BY <3>1 DEF TagLine
    <3>7. doMapping(i, t.first) \in Nat /\ doMapping(j, t.second) \in Nat
      <4>1. domain[i].first \in Int /\ domain[j].first \in Int
        BY <3>5
      <4>2. range[i].first \in Nat /\ range[j].first \in Nat
        BY <3>5
      <4>3. domain[i].first <= t.first /\ domain[j].first <= t.second
        BY <3>4 DEF contains
      <4>4. QED
        BY <3>6, <4>1, <4>2, <4>3 DEF doMapping
    <3>8. Tag(doMapping(i, t.first), doMapping(j, t.second), t.name) \in TagLine
      BY <3>6, <3>7 DEF Tag, TagLine
    <3>9. QED
      BY <1>7, <2>2, <3>3, <3>4, <3>8, AppendProperties
  <2>3. QED
    BY <1>6, <2>1, <2>2
<1>10. PhaseInv'
  BY <1>1, <1>5, <1>8 DEF PhaseInv, Commands
<1>11. ClipInv'
  BY <1>4, <1>5, <1>9 DEF ClipInv, TypeInv
<1>12. QED
  BY <1>1, <1>5, <1>7, <1>8, <1>9, <1>10, <1>11, ClipStep

-----------------------------------------------------------------------------
(* The steps of import and export.                                              *)

XmlFrame == UNCHANGED <<inputs, mergeVars, clipVars, script, ran, args>>

LEMMA XmlStep ==
    ASSUME TypeInv, XmlFrame, Running, command \in {"import", "export"},
           pc' \in {"import", "export", "exportEnd", "ok", "error"},
           PhaseInv', OutInv', XmlInv'
    PROVE  TypeInv'
<1>1. /\ UNCHANGED <<args, command, script, ran, so, txt, xml, tagOrder, flags>>
      /\ UNCHANGED clipVars /\ UNCHANGED mergeVars
  BY DEF XmlFrame, inputs, mergeVars
<1>2. SessionInv'
  BY <1>1, SessionKept DEF TypeInv
<1>3. ClipInv'
  BY <1>1, ClipKept DEF TypeInv
<1>4. MergeInv'
  BY <1>1, MergeKept DEF TypeInv
<1>5. QED
  BY <1>2, <1>3, <1>4 DEF TypeInv

LEMMA OutKept ==
    OutInv /\ UNCHANGED <<out, outTxt, outXml, tagStacks, command>>
      /\ (pc' = "ok" => \A n \in Names : tagStacks[n] = << >>)
      => OutInv'
  BY DEF OutInv

\* The kinds of tokens.
LEMMA TokenKinds ==
    ASSUME NEW t \in Token
    PROVE  /\ t.k \in {"start", "end", "empty", "char", "ref", "bad", "open"}
           /\ t.k \in {"start", "end", "empty"} => t.name \in Names
           /\ t.k = "char" => t.byte \in Nat
           /\ t.k = "ref" /\ "digits" \in DOMAIN t => t.base \in {10, 16} /\ t.digits \in Seq(Nat)
<1>1. CASE t \in [k : {"start", "end", "empty"}, name : Names]
  BY <1>1
<1>2. CASE t \in [k : {"char"}, byte : Nat]
  BY <1>2
<1>3. CASE t \in [k : {"ref"}, entity : DOMAIN Entities \cup STRING]
  <2>1. t.k = "ref" /\ DOMAIN t = {"k", "entity"}
    BY <1>3
  <2>2. QED
    BY <2>1
<1>4. CASE t \in [k : {"ref"}, base : {10, 16}, digits : Seq(Nat)]
  BY <1>4
<1>5. CASE t \in [k : {"bad", "open"}]
  BY <1>5
<1>6. QED
  BY <1>1, <1>2, <1>3, <1>4, <1>5 DEF Token

LEMMA seekRootTypes ==
    ASSUME TypeInv, seekRoot, UNCHANGED <<mergeVars, clipVars, script, ran, args>>
    PROVE  TypeInv'
<1>1. pc = "import" /\ Running /\ command = "import"
  BY DEF seekRoot, Running, TypeInv, PhaseInv
<1>2. /\ XmlFrame /\ UNCHANGED <<out, outTxt, outXml, tagStacks, charCount, tag, endTagList, command>>
      /\ token' \in {token, token + 1} /\ pc' \in {"import", "error"}
  BY <1>1 DEF seekRoot, XmlFrame, inputs, outputs
<1>3. PhaseInv'
  BY <1>1, <1>2 DEF PhaseInv
<1>4. OutInv'
  BY <1>2, OutKept DEF TypeInv
<1>5. XmlInv'
  BY <1>2 DEF TypeInv, XmlInv, Positions
<1>6. QED
  BY <1>1, <1>2, <1>3, <1>4, <1>5, XmlStep

LEMMA readTailTypes ==
    ASSUME TypeInv, readTail, UNCHANGED <<mergeVars, clipVars, script, ran, args>>
    PROVE  TypeInv'
<1>1. pc = "import" /\ Running /\ command = "import"
  BY DEF readTail, Running, TypeInv, PhaseInv
<1>2. /\ XmlFrame /\ UNCHANGED <<out, outTxt, outXml, tagStacks, charCount, tag, endTagList, command>>
      /\ token' \in {token, token + 1} /\ pc' \in {"import", "error", "ok"}
      /\ pc' = "ok" => \A n \in Names : tagStacks[n] = << >>
  BY <1>1 DEF readTail, XmlFrame, inputs, outputs
<1>3. PhaseInv'
  BY <1>1, <1>2 DEF PhaseInv, Commands
<1>4. OutInv'
  BY <1>2, OutKept DEF TypeInv
<1>5. XmlInv'
  BY <1>2 DEF TypeInv, XmlInv, Positions
<1>6. QED
  BY <1>1, <1>2, <1>3, <1>4, <1>5, XmlStep

\* The recursive function inside getUscCode.
CodeStep(base, digits, g, i) ==
    IF i = 0 THEN 0
    ELSE LET c == g[i - 1] * base + digits[i]
         IN  IF g[i - 1] = -1 \/ digits[i] \notin 0 .. base - 1 \/ c > UnicodeMax
             THEN -1 ELSE c

Code(base, digits) == CHOOSE g : g = [i \in 0 .. Len(digits) |-> CodeStep(base, digits, g, i)]

\* The function exists.
LEMMA CodeExists ==
    ASSUME NEW base, NEW digits, Len(digits) \in Nat
    PROVE  \E g : g = [i \in 0 .. Len(digits) |-> CodeStep(base, digits, g, i)]
<1> DEFINE Has(N) == \E g : g = [n \in 0 .. N |-> CodeStep(base, digits, g, n)]
           Fails == {N \in Nat : ~ Has(N)}
<1>1. SUFFICES ASSUME Fails # {} PROVE FALSE
  OBVIOUS
<1>2. PICK N \in Fails : \A m \in Fails : N <= m
  <2> HIDE DEF Fails
  <2>1. Fails \subseteq Nat
    BY DEF Fails
  <2>2. QED
    BY <1>1, <2>1, LeastNumber
<1>3. Has(0)
  <2> DEFINE g == [n \in 0 .. 0 |-> 0]
  <2>1. g = [n \in 0 .. 0 |-> CodeStep(base, digits, g, n)]
    BY DEF CodeStep
  <2>2. QED
    BY <2>1
<1>4. N \in Nat /\ N # 0
  BY <1>3
<1>5. N - 1 \in Nat /\ N - 1 \notin Fails
  BY <1>2, <1>4
<1>6. PICK g : g = [n \in 0 .. N - 1 |-> CodeStep(base, digits, g, n)]
  BY <1>5
<1> DEFINE h == [n \in 0 .. N |-> IF n = N THEN CodeStep(base, digits, g, N) ELSE g[n]]
<1>7. h = [n \in 0 .. N |-> CodeStep(base, digits, h, n)]
  <2>1. ASSUME NEW n \in 0 .. N PROVE h[n] = CodeStep(base, digits, h, n)
    <3>1. n # 0 => h[n - 1] = g[n - 1]
      BY <1>4
    <3>2. CodeStep(base, digits, h, n) = CodeStep(base, digits, g, n)
      BY <3>1 DEF CodeStep
    <3>3. n # N => g[n] = CodeStep(base, digits, g, n)
      BY <1>4, <1>6
    <3>4. QED
      BY <3>2, <3>3
  <2>2. DOMAIN h = 0 .. N
    OBVIOUS
  <2> HIDE DEF h
  <2>3. h = [n \in DOMAIN h |-> h[n]]
    BY DEF h
  <2>4. QED
    BY <2>1, <2>2, <2>3
<1>8. Has(N)
  BY <1>7
<1>9. QED
  BY <1>2, <1>8

\* A reference stands for a character, or for none.
LEMMA CodeType ==
    ASSUME NEW base \in {10, 16}, NEW digits \in Seq(Nat)
    PROVE  getUscCode(base, digits) \in Nat \cup {-1}
<1> DEFINE g == Code(base, digits)
           G == {i \in 0 .. Len(digits) : g[i] \in Nat \cup {-1}}
<1>1. Len(digits) \in Nat
  BY LenProperties
<1>2. g = [i \in 0 .. Len(digits) |-> CodeStep(base, digits, g, i)]
  BY <1>1, CodeExists DEF Code
<1>3. getUscCode(base, digits) = IF digits = << >> THEN -1 ELSE g[Len(digits)]
  BY DEF getUscCode, Code, CodeStep
<1> HIDE DEF g
<1>4. 0 \in G
  BY <1>1, <1>2 DEF CodeStep
<1>5. ASSUME NEW i \in 0 .. Len(digits) - 1, i \in G PROVE i + 1 \in G
  <2>1. i + 1 \in 1 .. Len(digits) /\ i + 1 # 0 /\ (i + 1) - 1 = i /\ i + 1 \in 0 .. Len(digits)
    BY <1>1
  <2>2. digits[i + 1] \in Nat
    BY <2>1, ElementOfSeq
  <2>3. g[i] \in Nat \cup {-1}
    BY <1>5
  <2>4. g[i + 1] = CodeStep(base, digits, g, i + 1)
    BY <1>2, <2>1
  <2>5. PICK c : c = g[i] * base + digits[i + 1]
    OBVIOUS
  <2>6. g[i] # -1 => c \in Nat
    <3>1. CASE base = 10
      BY <2>2, <2>3, <2>5, <3>1
    <3>2. CASE base = 16
      BY <2>2, <2>3, <2>5, <3>2
    <3>3. QED
      BY <3>1, <3>2
  <2>7. CodeStep(base, digits, g, i + 1) \in {-1, c} /\ (g[i] = -1 => CodeStep(base, digits, g, i + 1) = -1)
    BY <2>1, <2>5 DEF CodeStep
  <2>8. g[i + 1] \in Nat \cup {-1}
    BY <2>4, <2>6, <2>7
  <2>9. QED
    BY <2>1, <2>8
<1>6. \A i \in 0 .. Len(digits) : i \in G
  <2> HIDE DEF G
  <2>1. QED
    BY <1>1, <1>4, <1>5, RangeInduction
<1>7. g[Len(digits)] \in Nat \cup {-1}
  BY <1>1, <1>6
<1>8. QED
  BY <1>3, <1>7

LEMMA EncodeType ==
    ASSUME NEW c \in Nat
    PROVE  encodeUtf8(c) \in Seq(Nat)
<1>1. Cont(c, 0) \in Nat /\ Cont(c, 6) \in Nat /\ Cont(c, 12) \in Nat
  BY DEF Cont
<1>2. 192 + c \div 2^6 \in Nat /\ 224 + c \div 2^12 \in Nat /\ 240 + c \div 2^18 \in Nat
  OBVIOUS
<1>3. CASE c < 128
  <2>1. encodeUtf8(c) = <<c>>
    BY <1>3 DEF encodeUtf8
  <2>2. QED
    BY <2>1
<1>4. CASE 128 <= c /\ c < 2048
  <2>1. encodeUtf8(c) = <<192 + c \div 2^6, Cont(c, 0)>>
    BY <1>4 DEF encodeUtf8
  <2>2. QED
    BY <1>1, <1>2, <2>1
<1>5. CASE 2048 <= c /\ c < 65536
  <2>1. encodeUtf8(c) = <<224 + c \div 2^12, Cont(c, 6), Cont(c, 0)>>
    BY <1>5 DEF encodeUtf8
  <2>2. QED
    BY <1>1, <1>2, <2>1
<1>6. CASE 65536 <= c
  <2>1. encodeUtf8(c) = <<240 + c \div 2^18, Cont(c, 12), Cont(c, 6), Cont(c, 0)>>
    BY <1>6 DEF encodeUtf8
  <2>2. QED
    BY <1>1, <1>2, <2>1
<1>7. QED
  BY <1>3, <1>4, <1>5, <1>6

LEMMA readTextTypes ==
    ASSUME TypeInv, readText, UNCHANGED <<mergeVars, clipVars, script, ran, args>>
    PROVE  TypeInv'
<1>1. pc = "import" /\ Running /\ command = "import"
  BY DEF readText, Running, TypeInv, PhaseInv
<1>2. /\ XmlFrame
      /\ UNCHANGED <<out, outXml, tagStacks, charCount, tag, endTagList, command>>
  BY DEF readText, XmlFrame, inputs
<1>3. PICK t, c : /\ t = xml[token]
                  /\ c = IF t.k = "char" THEN t.byte ELSE refCode(t)
  OBVIOUS
<1>4. /\ t.k \in {"char", "ref"} /\ token <= Len(xml)
      /\ \/ pc' = "error" /\ UNCHANGED <<outTxt, token>>
         \/ /\ c # -1
            /\ outTxt' = outTxt \o (IF t.k = "char" THEN <<c>> ELSE encodeUtf8(c))
            /\ token' = token + 1 /\ UNCHANGED pc
  BY <1>3 DEF readText
<1>5. t \in Token
  <2>1. xml \in Seq(Token) /\ token \in Positions
    BY DEF TypeInv, SessionInv, XmlInv
  <2>2. Len(xml) \in Nat
    BY <2>1, LenProperties
  <2>3. token \in 1 .. Len(xml)
    BY <1>4, <2>1, <2>2 DEF Positions
  <2>4. QED
    BY <1>3, <2>1, <2>3, ElementOfSeq
<1>6. c # -1 => c \in Nat
  <2>1. t.k = "char" => t.byte \in Nat
    BY <1>5, TokenKinds
  <2>2. t.k = "ref" => refCode(t) \in Nat \cup {-1}
    <3>1. CASE t.k = "ref" /\ "digits" \in DOMAIN t
      <4>1. t.base \in {10, 16} /\ t.digits \in Seq(Nat)
        BY <1>5, <3>1, TokenKinds
      <4>2. QED
        BY <3>1, <4>1, CodeType DEF refCode
    <3>2. CASE "digits" \notin DOMAIN t
      <4>1. refCode(t) = IF t.entity \in DOMAIN Entities THEN Entities[t.entity] ELSE -1
        BY <3>2 DEF refCode
      <4>2. \A e \in DOMAIN Entities : Entities[e] \in Nat
        BY DEF Entities
      <4>3. QED
        BY <4>1, <4>2
    <3>3. QED
      BY <3>1, <3>2
  <2>3. QED
    BY <1>3, <1>4, <2>1, <2>2
<1>7. outTxt' \in Seq(Nat)
  <2>1. outTxt \in Seq(Nat)
    BY <1>1 DEF TypeInv, OutInv
  <2>2. CASE c # -1
    <3>1. <<c>> \in Seq(Nat) /\ encodeUtf8(c) \in Seq(Nat)
      BY <1>6, <2>2, EncodeType
    <3>2. outTxt \o <<c>> \in Seq(Nat) /\ outTxt \o encodeUtf8(c) \in Seq(Nat)
      BY <2>1, <3>1, ConcatProperties
    <3>3. QED
      BY <1>4, <2>1, <3>2
  <2>3. QED
    BY <1>4, <2>1, <2>2
<1>8. pc' \in {"import", "error"} /\ token' \in Positions
  BY <1>1, <1>4 DEF TypeInv, XmlInv, Positions
<1>9. PhaseInv'
  BY <1>1, <1>2, <1>8 DEF PhaseInv
<1>10. OutInv'
  <2>1. outTxt' \in Seq(Nat \cup {Newline})
    BY <1>7
  <2>2. QED
    BY <1>1, <1>2, <1>7, <1>8, <2>1 DEF OutInv, TypeInv
<1>11. XmlInv'
  BY <1>2, <1>8 DEF XmlInv, TypeInv
<1>12. QED
  BY <1>1, <1>2, <1>8, <1>9, <1>10, <1>11, XmlStep

\* A tag pushed on the stack of its name, with its end missing.
LEMMA OpenStep ==
    ASSUME OutInv, command = "import", pc = "import", NEW name \in Names, NEW off \in Nat,
           out' = Append(out, Tag(off, DUMMY_END_POSITION, name)),
           tagStacks' = [tagStacks EXCEPT ![name] = Append(@, Len(out) + 1)],
           pc' = "import", UNCHANGED <<outTxt, outXml, command>>
    PROVE  OutInv'
<1>1. out \in Seq(OpenTag) /\ tagStacks \in [Names -> Seq(Positions)]
  BY DEF OutInv
<1>2. PICK N : N = Len(out) /\ N \in Nat
  BY <1>1, LenProperties
<1>3. Tag(off, DUMMY_END_POSITION, name) \in OpenTag
  BY DEF Tag, OpenTag
<1>4. /\ out' \in Seq(OpenTag) /\ Len(out') = N + 1
      /\ \A i \in 1 .. N : out'[i] = out[i]
  BY <1>1, <1>2, <1>3, AppendProperties
<1>5. PICK stack : stack = tagStacks[name] /\ stack \in Seq(Positions)
  BY <1>1
<1>6. PICK M : M = Len(stack) /\ M \in Nat
  BY <1>5, LenProperties
<1>7. N + 1 \in Positions
  BY <1>2 DEF Positions
<1>8. PICK new : new = Append(stack, N + 1)
  OBVIOUS
<1>9. /\ new \in Seq(Positions) /\ Len(new) = M + 1
      /\ \A j \in 1 .. M : new[j] = stack[j]
      /\ new[M + 1] = N + 1
  BY <1>5, <1>6, <1>7, <1>8, AppendProperties
<1>10. tagStacks' = [tagStacks EXCEPT ![name] = new]
  BY <1>2, <1>5, <1>8
<1>11. tagStacks' \in [Names -> Seq(Positions)]
  BY <1>1, <1>9, <1>10
<1>12. tagStacks'[name] = new /\ \A n \in Names : n # name => tagStacks'[n] = tagStacks[n]
  BY <1>1, <1>10
<1>13. ASSUME NEW i \in 1 .. Len(out'), out'[i].second = DUMMY_END_POSITION
       PROVE  \E n \in Names : \E j \in 1 .. Len(tagStacks'[n]) : tagStacks'[n][j] = i
  <2>1. CASE i = N + 1
    <3>1. M + 1 \in 1 .. Len(tagStacks'[name]) /\ tagStacks'[name][M + 1] = i
      BY <1>6, <1>9, <1>12, <2>1
    <3>2. QED
      BY <3>1
  <2>2. CASE i # N + 1
    <3>1. i \in 1 .. N
      BY <1>2, <1>4, <2>2
    <3>2. out[i].second = DUMMY_END_POSITION
      BY <1>4, <1>13, <3>1
    <3>3. PICK n \in Names : \E j \in 1 .. Len(tagStacks[n]) : tagStacks[n][j] = i
      BY <1>2, <3>1, <3>2 DEF OutInv
    <3>4. PICK j \in 1 .. Len(tagStacks[n]) : tagStacks[n][j] = i
      BY <3>3
    <3>5. CASE n = name
      <4>1. j \in 1 .. M /\ stack[j] = i
        BY <1>5, <1>6, <3>4, <3>5
      <4>2. j \in 1 .. Len(new) /\ new[j] = i
        BY <1>6, <1>9, <4>1
      <4>3. j \in 1 .. Len(tagStacks'[name]) /\ tagStacks'[name][j] = i
        BY <1>12, <4>2
      <4>4. QED
        BY <4>3
    <3>6. CASE n # name
      BY <1>12, <3>4, <3>6
    <3>7. QED
      BY <3>5, <3>6
  <2>3. QED
    BY <2>1, <2>2
<1>14. ASSUME NEW n \in Names, NEW j \in 1 .. Len(tagStacks'[n])
       PROVE  tagStacks'[n][j] <= Len(out')
  <2>1. ASSUME NEW m \in Names, NEW l \in 1 .. Len(tagStacks[m]) PROVE tagStacks[m][l] <= N
    BY <1>2 DEF OutInv
  <2>2. CASE n = name
    <3>1. CASE j = M + 1
      BY <1>2, <1>4, <1>9, <1>12, <2>2, <3>1
    <3>2. CASE j # M + 1
      <4>1. j \in 1 .. M
        BY <1>6, <1>9, <1>12, <2>2, <3>2
      <4>2. stack[j] <= N /\ stack[j] \in Positions
        BY <1>5, <1>6, <2>1, <4>1, ElementOfSeq
      <4>3. tagStacks'[n][j] = stack[j]
        BY <1>9, <1>12, <2>2, <4>1
      <4>4. stack[j] <= N + 1
        BY <1>2, <4>2 DEF Positions
      <4>5. QED
        BY <1>4, <4>3, <4>4
    <3>3. QED
      BY <3>1, <3>2
  <2>3. CASE n # name
    <3>1. tagStacks'[n] = tagStacks[n] /\ tagStacks[n] \in Seq(Positions)
      BY <1>1, <1>12, <2>3
    <3>2. tagStacks[n][j] <= N /\ tagStacks[n][j] \in Positions
      BY <2>1, <3>1, ElementOfSeq
    <3>3. QED
      BY <1>2, <1>4, <3>1, <3>2 DEF Positions
  <2>4. QED
    BY <2>2, <2>3
<1>15. outTxt' \in Seq(Nat \cup {Newline}) /\ outTxt' \in Seq(Nat) /\ outXml' \in Seq(Token)
  BY DEF OutInv
<1>16. QED
  BY <1>4, <1>11, <1>13, <1>14, <1>15 DEF OutInv

\* A tag taken from the stack of its name, with its end set.
LEMMA CloseStep ==
    ASSUME OutInv, command = "import", pc = "import", NEW name \in Names, NEW off \in Nat,
           tagStacks[name] # << >>, NEW top, top = Last(tagStacks[name]),
           NEW u, u = [out[top] EXCEPT !.second = off], out' = [out EXCEPT ![top] = u],
           tagStacks' = [tagStacks EXCEPT ![name] = Front(@)],
           pc' = "import", UNCHANGED <<outTxt, outXml, command>>
    PROVE  OutInv'
<1>1. out \in Seq(OpenTag) /\ tagStacks \in [Names -> Seq(Positions)]
  BY DEF OutInv
<1>2. PICK N : N = Len(out) /\ N \in Nat
  BY <1>1, LenProperties
<1>3. PICK stack : stack = tagStacks[name] /\ stack \in Seq(Positions) /\ stack # << >>
  BY <1>1
<1>4. PICK M : M = Len(stack) /\ M \in Nat /\ M # 0
  BY <1>3, LenProperties, EmptySeq
<1>5. ASSUME NEW m \in Names, NEW l \in 1 .. Len(tagStacks[m])
      PROVE  tagStacks[m][l] <= N /\ tagStacks[m][l] \in Positions
  <2>1. tagStacks[m] \in Seq(Positions)
    BY <1>1
  <2>2. QED
    BY <1>2, <2>1, ElementOfSeq DEF OutInv
<1>6. top = stack[M]
  BY <1>3, <1>4 DEF Last
<1>7. top \in 1 .. N
  <2>1. M \in 1 .. Len(stack)
    BY <1>4
  <2>2. top <= N /\ top \in Positions
    BY <1>3, <1>5, <1>6, <2>1
  <2>3. QED
    BY <1>2, <2>2 DEF Positions
<1>8. out[top] \in OpenTag
  BY <1>1, <1>2, <1>7, ElementOfSeq
<1>10. u \in OpenTag /\ u.second = off
  BY <1>8 DEF OpenTag
<1>12. /\ out' \in Seq(OpenTag) /\ Len(out') = N
       /\ out'[top] = u /\ \A i \in 1 .. N : i # top => out'[i] = out[i]
  <2>1. out' \in Seq(OpenTag) /\ Len(out') = N
    BY <1>1, <1>2, <1>7, <1>10, ExceptSeq
  <2>2. out'[top] = u /\ \A i \in 1 .. N : i # top => out'[i] = out[i]
    BY <1>1, <1>2, <1>7
  <2>3. QED
    BY <2>1, <2>2
<1>13. PICK new : new = SubSeq(stack, 1, M - 1)
  OBVIOUS
<1>14. /\ new \in Seq(Positions) /\ Len(new) = M - 1
       /\ \A j \in 1 .. M - 1 : new[j] = stack[j]
  BY <1>3, <1>4, <1>13
<1>15. tagStacks' = [tagStacks EXCEPT ![name] = new]
  BY <1>3, <1>4, <1>13 DEF Front
<1>16. tagStacks' \in [Names -> Seq(Positions)]
  BY <1>1, <1>14, <1>15
<1>17. tagStacks'[name] = new /\ \A n \in Names : n # name => tagStacks'[n] = tagStacks[n]
  BY <1>1, <1>15
<1>18. ASSUME NEW i \in 1 .. Len(out'), out'[i].second = DUMMY_END_POSITION
       PROVE  \E n \in Names : \E j \in 1 .. Len(tagStacks'[n]) : tagStacks'[n][j] = i
  <2>1. i \in 1 .. N /\ i # top
    <3>1. off # DUMMY_END_POSITION
      BY DEF DUMMY_END_POSITION
    <3>2. QED
      BY <1>10, <1>12, <1>18, <3>1
  <2>2. out[i].second = DUMMY_END_POSITION
    BY <1>12, <1>18, <2>1
  <2>3. PICK n \in Names : \E j \in 1 .. Len(tagStacks[n]) : tagStacks[n][j] = i
    BY <1>2, <2>1, <2>2 DEF OutInv
  <2>4. PICK j \in 1 .. Len(tagStacks[n]) : tagStacks[n][j] = i
    BY <2>3
  <2>5. CASE n = name
    <3>1. j \in 1 .. M /\ stack[j] = i
      BY <1>3, <1>4, <2>4, <2>5
    <3>2. j # M
      BY <1>6, <2>1, <3>1
    <3>3. j \in 1 .. M - 1
      BY <1>4, <3>1, <3>2
    <3>4. j \in 1 .. Len(tagStacks'[name]) /\ tagStacks'[name][j] = i
      BY <1>14, <1>17, <3>1, <3>3
    <3>5. QED
      BY <3>4
  <2>6. CASE n # name
    BY <1>17, <2>4, <2>6
  <2>7. QED
    BY <2>5, <2>6
<1>19. ASSUME NEW n \in Names, NEW j \in 1 .. Len(tagStacks'[n])
       PROVE  tagStacks'[n][j] <= Len(out')
  <2>1. CASE n = name
    <3>1. j \in 1 .. M - 1 /\ j \in 1 .. M
      BY <1>4, <1>14, <1>17, <2>1
    <3>2. stack[j] <= N
      BY <1>3, <1>4, <1>5, <3>1
    <3>3. QED
      BY <1>12, <1>14, <1>17, <2>1, <3>1, <3>2
  <2>2. CASE n # name
    BY <1>5, <1>12, <1>17, <2>2
  <2>3. QED
    BY <2>1, <2>2
<1>20. outTxt' \in Seq(Nat \cup {Newline}) /\ outTxt' \in Seq(Nat) /\ outXml' \in Seq(Token)
  BY DEF OutInv
<1>21. QED
  BY <1>12, <1>16, <1>18, <1>19, <1>20 DEF OutInv

LEMMA readTagTypes ==
    ASSUME TypeInv, readTag, UNCHANGED <<mergeVars, clipVars, script, ran, args>>
    PROVE  TypeInv'
<1>1. pc = "import" /\ Running /\ command = "import"
  BY DEF readTag, Running, TypeInv, PhaseInv
<1>2. /\ XmlFrame
      /\ UNCHANGED <<outTxt, outXml, charCount, tag, endTagList, command>>
  BY DEF readTag, XmlFrame, inputs
<1>3. PICK t, off : t = xml[token] /\ off = Len(outTxt)
  OBVIOUS
<1>4. token <= Len(xml)
  BY DEF readTag
<1>5. \/ /\ t.k = "empty"
         /\ out' = Append(out, Tag(off, off, t.name))
         /\ token' = token + 1
         /\ UNCHANGED <<pc, tagStacks>>
      \/ /\ t.k = "start"
         /\ out' = Append(out, Tag(off, DUMMY_END_POSITION, t.name))
         /\ tagStacks' = [tagStacks EXCEPT ![t.name] = Append(@, Len(out) + 1)]
         /\ token' = token + 1
         /\ UNCHANGED pc
      \/ /\ t.k = "end" /\ tagStacks[t.name] # << >>
         /\ out' = [out EXCEPT ![Last(tagStacks[t.name])].second = off]
         /\ tagStacks' = [tagStacks EXCEPT ![t.name] = Front(@)]
         /\ token' = token + 1
         /\ UNCHANGED pc
      \/ /\ pc' = "error"
         /\ UNCHANGED <<out, tagStacks, token>>
  BY <1>3 DEF readTag
<1>6. t \in Token
  <2>1. xml \in Seq(Token) /\ token \in Positions
    BY DEF TypeInv, SessionInv, XmlInv
  <2>2. Len(xml) \in Nat
    BY <2>1, LenProperties
  <2>3. token \in 1 .. Len(xml)
    BY <1>4, <2>1, <2>2 DEF Positions
  <2>4. QED
    BY <1>3, <2>1, <2>3, ElementOfSeq
<1>7. off \in Nat
  BY <1>1, <1>3, LenProperties DEF TypeInv, OutInv
<1>8. t.k \in {"start", "end", "empty"} => t.name \in Names
  BY <1>6, TokenKinds
<1>9. pc' \in {"import", "error"} /\ token' \in Positions
  BY <1>1, <1>5 DEF TypeInv, XmlInv, Positions
<1>10. PhaseInv'
  BY <1>1, <1>2, <1>9 DEF PhaseInv
<1>11. XmlInv'
  BY <1>2, <1>9 DEF XmlInv, TypeInv
<1>12. OutInv'
  <2>1. CASE /\ t.k = "empty"
             /\ out' = Append(out, Tag(off, off, t.name))
             /\ UNCHANGED <<pc, tagStacks>>
    <3>1. out \in Seq(OpenTag) /\ tagStacks \in [Names -> Seq(Positions)]
      BY DEF TypeInv, OutInv
    <3>2. PICK N : N = Len(out) /\ N \in Nat
      BY <3>1, LenProperties
    <3>3. PICK u : u = Tag(off, off, t.name)
      OBVIOUS
    <3>4. u \in OpenTag /\ u.second # DUMMY_END_POSITION
      BY <1>7, <1>8, <2>1, <3>3 DEF Tag, OpenTag, DUMMY_END_POSITION
    <3>5. /\ out' \in Seq(OpenTag) /\ Len(out') = N + 1
          /\ \A i \in 1 .. N : out'[i] = out[i]
          /\ out'[N + 1] = u
      BY <2>1, <3>1, <3>2, <3>3, <3>4, AppendProperties
    <3>6. ASSUME NEW i \in 1 .. Len(out'), out'[i].second = DUMMY_END_POSITION
          PROVE  \E n \in Names : \E j \in 1 .. Len(tagStacks[n]) : tagStacks[n][j] = i
      <4>1. i # N + 1
        BY <3>4, <3>5, <3>6
      <4>2. i \in 1 .. N
        BY <3>2, <3>5, <4>1
      <4>3. out[i].second = DUMMY_END_POSITION
        BY <3>5, <3>6, <4>2
      <4>4. QED
        BY <3>2, <4>2, <4>3 DEF TypeInv, OutInv
    <3>7. ASSUME NEW n \in Names, NEW j \in 1 .. Len(tagStacks[n])
          PROVE  tagStacks[n][j] <= Len(out')
      <4>1. tagStacks[n][j] <= N
        BY <3>2 DEF TypeInv, OutInv
      <4>2. tagStacks[n] \in Seq(Positions)
        BY <3>1
      <4>3. tagStacks[n][j] \in Nat
        BY <4>2, ElementOfSeq DEF Positions
      <4>4. QED
        BY <3>2, <3>5, <4>1, <4>3
    <3>8. outTxt' \in Seq(Nat \cup {Newline}) /\ outTxt' \in Seq(Nat) /\ outXml' \in Seq(Token)
      BY <1>1, <1>2 DEF OutInv, TypeInv
    <3>9. QED
      BY <1>1, <1>2, <2>1, <3>1, <3>5, <3>6, <3>7, <3>8 DEF OutInv
  <2>2. CASE /\ t.k = "start"
             /\ out' = Append(out, Tag(off, DUMMY_END_POSITION, t.name))
             /\ tagStacks' = [tagStacks EXCEPT ![t.name] = Append(@, Len(out) + 1)]
             /\ UNCHANGED pc
    <3>1. PICK name \in Names : name = t.name
      BY <1>8, <2>2
    <3>2. QED
      BY <1>1, <1>2, <1>7, <2>2, <3>1, OpenStep DEF TypeInv
  <2>3. CASE /\ t.k = "end" /\ tagStacks[t.name] # << >>
             /\ out' = [out EXCEPT ![Last(tagStacks[t.name])].second = off]
             /\ tagStacks' = [tagStacks EXCEPT ![t.name] = Front(@)]
             /\ UNCHANGED pc
    <3>1. PICK name \in Names : name = t.name
      BY <1>8, <2>3
    <3>2. PICK top, u : top = Last(tagStacks[name]) /\ u = [out[top] EXCEPT !.second = off]
      OBVIOUS
    <3>3. out' = [out EXCEPT ![top] = u]
      BY <2>3, <3>1, <3>2
    <3>4. /\ tagStacks[name] # << >> /\ pc' = "import"
          /\ tagStacks' = [tagStacks EXCEPT ![name] = Front(@)]
      BY <1>1, <2>3, <3>1
    <3>5. OutInv
      BY DEF TypeInv
    <3>6. QED
      BY <1>1, <1>2, <1>7, <3>2, <3>3, <3>4, <3>5, CloseStep
  <2>4. CASE pc' = "error" /\ UNCHANGED <<out, tagStacks, token>>
    BY <1>2, <2>4, OutKept DEF TypeInv
  <2>5. QED
    BY <1>5, <2>1, <2>2, <2>3, <2>4
<1>13. QED
  BY <1>1, <1>2, <1>9, <1>10, <1>11, <1>12, XmlStep

\* Without keeps no entry of S and no others.
LEMMA WithoutType ==
    ASSUME NEW T, NEW s \in Seq(T), NEW S
    PROVE  Without(s, S) \in Seq(T \ S)
<1>1. Len(s) \in Nat
  BY LenProperties
<1>2. Kept(s, S)[Len(s)] \in Seq(T \ S)
  BY <1>1, KeptProperties
<1>3. QED
  BY <1>2, KeptProperties

LEMMA MinOrNext ==
    ASSUME NEW N \in Nat, NEW S, S \subseteq 1 .. N
    PROVE  /\ Min({N + 1} \cup S) \in 1 .. N + 1
           /\ Min({N + 1} \cup S) = N + 1 \/ Min({N + 1} \cup S) \in S
           /\ \A i \in S : Min({N + 1} \cup S) <= i
<1>1. PICK e \in Nat : e = N + 1
  OBVIOUS
<1>2. S \subseteq 1 .. e - 1
  BY <1>1
<1>3. PICK m : m = Min({e} \cup S)
  OBVIOUS
<1>4. m \in {e} \cup S /\ \A i \in {e} \cup S : m <= i
  BY <1>2, <1>3, MinBound
<1>5. m \in 1 .. N + 1
  BY <1>1, <1>2, <1>4
<1>6. QED
  BY <1>1, <1>3, <1>4, <1>5

\* The tags of export that begin at one position.
LEMMA HereType ==
    ASSUME so[1] \in Seq(Line), NEW i \in Positions
    PROVE  Here(i) \in Seq(TagLine) /\ Empties(Here(i)) \in Seq(TagLine)
<1> DEFINE stops == {j \in i .. Len(tags) : tags[j] = Bad \/ tags[j].first # charCount}
<1>1. tags \in Seq(Line \ {Blank})
  BY WithoutType DEF tags
<1>2. PICK N : N = Len(tags) /\ N \in Nat
  BY <1>1, LenProperties
<1>3. i \in Nat /\ i >= 1
  BY DEF Positions
<1>4. PICK m : m = Min({N + 1} \cup stops)
  OBVIOUS
<1>5. stops \subseteq 1 .. N
  BY <1>2, <1>3
<1>6. m \in 1 .. N + 1 /\ \A j \in stops : m <= j
  <2> HIDE DEF stops
  <2>1. QED
    BY <1>2, <1>4, <1>5, MinOrNext
<1>7. ASSUME NEW j \in i .. m - 1 PROVE tags[j] \in TagLine
  <2>1. j \in 1 .. N /\ j \in i .. N /\ ~ (m <= j)
    BY <1>2, <1>3, <1>6
  <2>2. tags[j] # Bad
    BY <1>2, <1>6, <2>1
  <2>3. tags[j] \in Line \ {Blank}
    BY <1>1, <1>2, <2>1, ElementOfSeq
  <2>4. QED
    BY <2>2, <2>3 DEF Line
<1>8. Here(i) = SubSeq(tags, i, m - 1)
  BY <1>2, <1>4 DEF Here
<1> HIDE DEF stops
<1>9. PICK here : here = Here(i)
  OBVIOUS
<1>10. here \in Seq(TagLine)
  <2>1. PICK e : e = m - 1 /\ e \in Nat
    BY <1>6
  <2>2. \A j \in i .. e : tags[j] \in TagLine
    BY <1>7, <2>1
  <2>3. here = SubSeq(tags, i, e)
    BY <1>8, <1>9, <2>1
  <2>4. \A j \in i .. e : j \in 1 .. N
    BY <1>2, <1>3, <1>6, <2>1
  <2>5. QED
    BY <1>1, <1>2, <1>3, <2>1, <2>2, <2>3, <2>4
<1>11. Empties(here) \in Seq(TagLine)
  <2> DEFINE full == {j \in 1 .. Len(here) : ~ isEmptyTag(here[j])}
  <2>1. PICK L : L = Len(here) /\ L \in Nat
    BY <1>10, LenProperties
  <2>2. full \subseteq 1 .. L
    BY <2>1
  <2>3. Empties(here) = SubSeq(here, 1, Min({L + 1} \cup full) - 1)
    BY <2>1 DEF Empties
  <2> HIDE DEF full
  <2>4. PICK m1 : m1 = Min({L + 1} \cup full) /\ m1 \in 1 .. L + 1
    BY <2>1, <2>2, MinOrNext
  <2>5. PICK e \in 0 .. L : e = m1 - 1
    BY <2>1, <2>4
  <2>6. Empties(here) = SubSeq(here, 1, e)
    BY <2>3, <2>4, <2>5
  <2>7. SubSeq(here, 1, e) \in Seq(TagLine)
    BY <1>10, <2>1, SubSeqProperties
  <2>8. QED
    BY <2>6, <2>7
<1>12. QED
  BY <1>9, <1>10, <1>11

LEMMA EndsType ==
    ASSUME NEW names \in Seq(Names)
    PROVE  Ends(names) \in Seq(Token)
<1>1. \A i \in 1 .. Len(names) : names[i] \in Names
  BY ElementOfSeq
<1>2. \A i \in 1 .. Len(names) : End(names[i]) \in Token
  BY <1>1 DEF End, Token
<1>3. Len(names) \in Nat
  BY LenProperties
<1>4. QED
  BY <1>2, <1>3 DEF Ends

LEMMA EscapeType ==
    ASSUME NEW b \in Nat
    PROVE  writeCharWithEscaping(b) \in Token
<1>1. [k |-> "char", byte |-> b] \in [k : {"char"}, byte : Nat]
  OBVIOUS
<1>2. DOMAIN Entities = {"lt", "gt", "amp", "quot", "apos"}
  BY DEF Entities
<1>3. /\ [k |-> "ref", entity |-> "lt"] \in [k : {"ref"}, entity : DOMAIN Entities \cup STRING]
      /\ [k |-> "ref", entity |-> "amp"] \in [k : {"ref"}, entity : DOMAIN Entities \cup STRING]
  BY <1>2
<1>4. \/ writeCharWithEscaping(b) = [k |-> "char", byte |-> b]
      \/ writeCharWithEscaping(b) = [k |-> "ref", entity |-> "lt"]
      \/ writeCharWithEscaping(b) = [k |-> "ref", entity |-> "amp"]
  BY DEF writeCharWithEscaping
<1>5. QED
  BY <1>1, <1>3, <1>4 DEF Token

\* The tokens export writes in one pass, and the names it has yet to close.
EmptyTokens(empty) == [i \in 1 .. Len(empty) |-> Empty(empty[i].name)]
RestTokens(rest) ==
    [i \in 1 .. Len(rest) |->
       IF isEmptyTag(rest[i]) THEN Empty(rest[i].name) ELSE Start(rest[i].name)]
RestOf(here, empty) == SubSeq(here, Len(empty) + 1, Len(here))
OpenOf(rest) == Without(rest, {t \in Range(rest) : isEmptyTag(t)})
EndingAt(open, p) == Without(open, {t \in Range(open) : t.second # p})
NamesAt(open, p) == [i \in 1 .. Len(EndingAt(open, p)) |-> Reverse(EndingAt(open, p))[i].name]

LEMMA PassTypes ==
    ASSUME NEW here \in Seq(TagLine), NEW empty \in Seq(TagLine),
           NEW rest, rest = RestOf(here, empty), NEW open, open = OpenOf(rest)
    PROVE  /\ EmptyTokens(empty) \in Seq(Token)
           /\ RestTokens(rest) \in Seq(Token)
           /\ open \in Seq(TagLine)
           /\ \A p : NamesAt(open, p) \in Seq(Names)
<1>1. rest \in Seq(TagLine)
  <2>1. Len(empty) \in Nat /\ Len(here) \in Nat
    BY LenProperties
  <2>2. QED
    BY <2>1, SubSeqProperties DEF RestOf
<1>2. ASSUME NEW t \in TagLine PROVE Empty(t.name) \in Token /\ Start(t.name) \in Token
  <2>1. t.name \in Names
    BY DEF TagLine
  <2>2. QED
    BY <2>1 DEF Empty, Start, Token
<1>3. EmptyTokens(empty) \in Seq(Token)
  <2>1. \A i \in 1 .. Len(empty) : Empty(empty[i].name) \in Token
    BY <1>2, ElementOfSeq
  <2>2. Len(empty) \in Nat
    BY LenProperties
  <2>3. QED
    BY <2>1, <2>2 DEF EmptyTokens
<1>4. RestTokens(rest) \in Seq(Token)
  <2>1. \A i \in 1 .. Len(rest) : Empty(rest[i].name) \in Token /\ Start(rest[i].name) \in Token
    BY <1>1, <1>2, ElementOfSeq
  <2>2. Len(rest) \in Nat
    BY <1>1, LenProperties
  <2> DEFINE g(i) == IF isEmptyTag(rest[i]) THEN Empty(rest[i].name) ELSE Start(rest[i].name)
  <2>3. \A i \in 1 .. Len(rest) : g(i) \in Token
    BY <2>1
  <2> HIDE DEF g
  <2>4. [i \in 1 .. Len(rest) |-> g(i)] \in Seq(Token)
    BY <2>2, <2>3
  <2>5. QED
    BY <2>4 DEF g, RestTokens
<1>5. open \in Seq(TagLine)
  <2>1. PICK S : S = {t \in Range(rest) : isEmptyTag(t)}
    OBVIOUS
  <2>2. open \in Seq(TagLine \ S)
    BY <1>1, <2>1, WithoutType DEF OpenOf
  <2>3. QED
    BY <2>2
<1>6. ASSUME NEW p PROVE NamesAt(open, p) \in Seq(Names)
  <2>0. PICK e : e = EndingAt(open, p)
    OBVIOUS
  <2>1. PICK S : S = {t \in Range(open) : t.second # p}
    OBVIOUS
  <2>2. e \in Seq(TagLine \ S)
    BY <1>5, <2>0, <2>1, WithoutType DEF EndingAt
  <2>3. e \in Seq(TagLine)
    BY <2>2
  <2>4. PICK N : N = Len(e) /\ N \in Nat
    BY <2>3, LenProperties
  <2>5. ASSUME NEW i \in 1 .. N PROVE Reverse(e)[i].name \in Names
    <3>1. (N - i) + 1 \in 1 .. N
      BY <2>4
    <3>2. Reverse(e)[i] = e[(N - i) + 1]
      BY <2>4 DEF Reverse
    <3>3. e[(N - i) + 1] \in TagLine
      BY <2>3, <2>4, <3>1, ElementOfSeq
    <3>4. QED
      BY <3>2, <3>3 DEF TagLine
  <2>6. NamesAt(open, p) = [i \in 1 .. N |-> Reverse(e)[i].name]
    BY <2>0, <2>4 DEF NamesAt
  <2>7. QED
    BY <2>4, <2>5, <2>6
<1>7. QED
  BY <1>3, <1>4, <1>5, <1>6

\* The output of one pass of export.
LEMMA PassTokens ==
    ASSUME NEW e1 \in Seq(Token), NEW e2 \in Seq(Token), NEW e3 \in Seq(Token),
           NEW e4 \in Seq(Token), NEW e5 \in Seq(Token)
    PROVE  e1 \o e2 \o e3 \o e4 \o e5 \in Seq(Token)
<1>1. e1 \o e2 \in Seq(Token)
  BY ConcatProperties
<1>2. e1 \o e2 \o e3 \in Seq(Token)
  BY <1>1, ConcatProperties
<1>3. e1 \o e2 \o e3 \o e4 \in Seq(Token)
  BY <1>2, ConcatProperties
<1>4. QED
  BY <1>3, ConcatProperties

LEMMA writeSemiXMLTypes ==
    ASSUME TypeInv, writeSemiXML, UNCHANGED <<mergeVars, clipVars, script, ran, args>>
    PROVE  TypeInv'
<1>1. pc = "export" /\ Running /\ command = "export"
  BY DEF writeSemiXML, Running, TypeInv, PhaseInv
<1>2. XmlFrame /\ UNCHANGED <<out, outTxt, token, phase, tagStacks, command>>
  BY DEF writeSemiXML, XmlFrame, inputs
<1>3. /\ so[1] \in Seq(Line) /\ txt \in Seq(Nat) /\ outXml \in Seq(Token)
      /\ tag \in Positions /\ charCount \in Nat /\ DOMAIN endTagList \subseteq Nat
      /\ \A p \in DOMAIN endTagList : endTagList[p] \in Seq(Names)
  BY <1>1, FileThere DEF TypeInv, SessionInv, OutInv, XmlInv
<1> DEFINE here == Here(tag)
           empty == Empties(here)
           rest == RestOf(here, empty)
           open == OpenOf(rest)
           ends == IF charCount \in DOMAIN endTagList THEN Ends(endTagList[charCount]) ELSE << >>
           e3 == IF charCount < Len(txt) THEN <<writeCharWithEscaping(txt[charCount + 1])>> ELSE << >>
           left == [p \in DOMAIN endTagList \ {charCount} |-> endTagList[p]]
           Old(p) == IF p \in DOMAIN left THEN left[p] ELSE << >>
           D == DOMAIN left \cup {open[i].second : i \in 1 .. Len(open)}
<1>12. \/ pc' = "error" /\ UNCHANGED <<outXml, charCount, tag, endTagList>>
       \/ /\ outXml' = outXml \o EmptyTokens(empty) \o ends \o RestTokens(rest) \o e3
          /\ tag' = tag + Len(here)
          /\ endTagList' = [p \in D |-> NamesAt(open, p) \o Old(p)]
          /\ \/ charCount' = charCount + 1 /\ UNCHANGED pc
             \/ pc' = "exportEnd" /\ UNCHANGED charCount
  BY Zenon DEF writeSemiXML, EmptyTokens, RestTokens, RestOf, OpenOf, EndingAt, NamesAt
<1>5. here \in Seq(TagLine) /\ empty \in Seq(TagLine)
  BY <1>3, HereType
<1> HIDE DEF here, empty
<1>6. /\ EmptyTokens(empty) \in Seq(Token) /\ RestTokens(rest) \in Seq(Token)
      /\ open \in Seq(TagLine) /\ \A p : NamesAt(open, p) \in Seq(Names)
  BY <1>5, PassTypes
<1> HIDE DEF rest, open, ends, e3, left, Old, D
<1>13. outXml' \in Seq(Token)
  <2>2. ends \in Seq(Token)
    <3>1. << >> \in Seq(Token)
      BY EmptySeq
    <3>2. QED
      BY <1>3, <3>1, EndsType DEF ends
  <2>3. e3 \in Seq(Token)
    <3>1. CASE charCount < Len(txt)
      <4>1. Len(txt) \in Nat
        BY <1>3, LenProperties
      <4>2. charCount + 1 \in 1 .. Len(txt)
        BY <1>3, <3>1, <4>1
      <4>3. txt[charCount + 1] \in Nat
        BY <1>3, <4>2, ElementOfSeq
      <4>4. PICK w \in Token : w = writeCharWithEscaping(txt[charCount + 1])
        BY <4>3, EscapeType
      <4>5. <<w>> \in Seq(Token)
        OBVIOUS
      <4>6. QED
        BY <3>1, <4>4, <4>5 DEF e3
    <3>2. CASE ~ (charCount < Len(txt))
      <4>1. << >> \in Seq(Token)
        BY EmptySeq
      <4>2. QED
        BY <3>2, <4>1 DEF e3
    <3>3. QED
      BY <3>1, <3>2
  <2>4. outXml \o EmptyTokens(empty) \o ends \o RestTokens(rest) \o e3 \in Seq(Token)
    BY <1>3, <1>6, <2>2, <2>3, PassTokens
  <2>5. QED
    BY <1>3, <1>12, <2>4
<1>15. \A p : Old(p) \in Seq(Names)
  <2>1. << >> \in Seq(Names)
    BY EmptySeq
  <2>2. \A p \in DOMAIN left : left[p] \in Seq(Names)
    BY <1>3 DEF left
  <2>3. QED
    BY <2>1, <2>2 DEF Old
<1>16. D \subseteq Nat
  <2>1. ASSUME NEW i \in 1 .. Len(open) PROVE open[i].second \in Nat
    <3>1. open[i] \in TagLine
      BY <1>6, ElementOfSeq
    <3>2. QED
      BY <3>1 DEF TagLine
  <2>2. DOMAIN left \subseteq Nat
    BY <1>3 DEF left
  <2>3. QED
    BY <2>1, <2>2 DEF D
<1>17. /\ DOMAIN endTagList' \subseteq Nat
       /\ \A p \in DOMAIN endTagList' : endTagList'[p] \in Seq(Names)
  <2>1. CASE UNCHANGED endTagList
    BY <1>3, <2>1
  <2>2. CASE endTagList' = [p \in D |-> NamesAt(open, p) \o Old(p)]
    <3>1. \A p \in D : NamesAt(open, p) \o Old(p) \in Seq(Names)
      BY <1>6, <1>15, ConcatProperties
    <3>2. DOMAIN endTagList' = D /\ \A p \in D : endTagList'[p] = NamesAt(open, p) \o Old(p)
      BY <2>2
    <3>3. QED
      BY <1>16, <3>1, <3>2
  <2>3. QED
    BY <1>12, <2>1, <2>2
<1>18. tag' \in Positions /\ charCount' \in Nat /\ pc' \in {"error", "export", "exportEnd"}
  <2>1. Len(here) \in Nat
    BY <1>5, LenProperties
  <2>2. tag' \in {tag, tag + Len(here)} /\ charCount' \in {charCount, charCount + 1}
    BY <1>12
  <2>3. tag' \in Positions /\ charCount' \in Nat
    BY <1>3, <2>1, <2>2 DEF Positions
  <2>4. QED
    BY <1>1, <1>12, <2>3
<1>19. PhaseInv'
  BY <1>1, <1>2, <1>18 DEF PhaseInv
<1>20. OutInv'
  <2>1. OutInv
    BY DEF TypeInv
  <2>2. QED
    BY <1>1, <1>2, <1>13, <2>1 DEF OutInv
<1>21. XmlInv'
  BY <1>2, <1>17, <1>18 DEF XmlInv, TypeInv
<1>22. QED
  BY <1>1, <1>2, <1>18, <1>19, <1>20, <1>21, XmlStep

LEMMA writeRestTypes ==
    ASSUME TypeInv, writeRest, UNCHANGED <<mergeVars, clipVars, script, ran, args>>
    PROVE  TypeInv'
<1>1. pc = "exportEnd" /\ Running /\ command = "export"
  BY DEF writeRest, Running, TypeInv, PhaseInv
<1>2. XmlFrame /\ UNCHANGED <<out, outTxt, token, phase, tagStacks, charCount, tag, endTagList, command>>
  BY DEF writeRest, XmlFrame, inputs
<1>3. PICK ends : ends = IF charCount \in DOMAIN endTagList THEN Ends(endTagList[charCount]) ELSE << >>
  OBVIOUS
<1>4. \/ pc' = "error" /\ UNCHANGED outXml
      \/ pc' = "ok" /\ outXml' = outXml \o ends
  BY <1>3 DEF writeRest
<1>5. outXml' \in Seq(Token)
  <2>1. << >> \in Seq(Token)
    BY EmptySeq
  <2>2. ends \in Seq(Token)
    BY <1>3, <2>1, EndsType DEF TypeInv, XmlInv
  <2>3. outXml \in Seq(Token)
    BY DEF TypeInv, OutInv
  <2>4. outXml \o ends \in Seq(Token)
    BY <2>2, <2>3, ConcatProperties
  <2>5. QED
    BY <1>4, <2>3, <2>4
<1>6. PhaseInv'
  BY <1>1, <1>2, <1>4 DEF PhaseInv, Commands
<1>7. OutInv'
  <2>1. OutInv
    BY DEF TypeInv
  <2>2. QED
    BY <1>1, <1>2, <1>5, <2>1 DEF OutInv
<1>8. XmlInv'
  BY <1>2, XmlKept DEF TypeInv, xmlVars
<1>9. QED
  BY <1>1, <1>2, <1>4, <1>6, <1>7, <1>8, XmlStep

-----------------------------------------------------------------------------
(* The steps of the session, and the theorem.                                   *)

\* Where exec sends a command.
LEMMA ExecEntry ==
    ASSUME NEW c, args \in {"ok", "help", "usage", "nofile"}
    PROVE  /\ args # "ok" => exec(c) \in {"ok", "error"}
           /\ exec(c) \in {"read", "init", "clip", "container", "import", "export", "ok", "error"}
           /\ exec(c) = "read" => c \in {"sort", "merge", "verify"}
           /\ exec(c) = "init" => c = "merge2"
           /\ exec(c) = "clip" => c = "clip"
           /\ exec(c) = "container" => c = "unite"
           /\ exec(c) = "import" => c = "import"
           /\ exec(c) = "export" => c = "export"
           /\ args = "ok" => exec(c) # "ok"
<1>1. CASE args = "ok"
  <2>1. exec(c) = Entry(c)
    BY <1>1 DEF exec
  <2>2. QED
    BY <1>1, <2>1 DEF Entry, MergeEntry, ClipEntry, MergeCommands, ClipCommands, XmlCommands
<1>2. CASE args = "help"
  BY <1>2 DEF exec
<1>3. CASE args \in {"usage", "nofile"}
  BY <1>3 DEF exec
<1>4. QED
  BY <1>1, <1>2, <1>3

LEMMA mainTypes ==
    ASSUME TypeInv, main
    PROVE  TypeInv'
<1>1. /\ pc = "shell" /\ script # << >> /\ command' = Head(script) /\ script' = Tail(script)
      /\ pc' = exec(Head(script))
  BY DEF main
<1>2. UNCHANGED <<so, txt, xml, ran, args, tagOrder, flags>>
  BY DEF main
<1>3. /\ args \in {"ok", "help", "usage", "nofile"} /\ script \in Seq(STRING)
      /\ so \in Seq(Seq(Line)) /\ Len(so) \in Nat /\ DOMAIN so = 1 .. Len(so)
  BY LenProperties DEF TypeInv, SessionInv
<1>4. /\ args # "ok" => pc' \in {"ok", "error"}
      /\ pc' \in {"read", "init", "clip", "container", "import", "export", "ok", "error"}
      /\ pc' = "read" => command' \in {"sort", "merge", "verify"}
      /\ pc' = "init" => command' = "merge2"
      /\ pc' = "clip" => command' = "clip"
      /\ pc' = "container" => command' = "unite"
      /\ pc' = "import" => command' = "import"
      /\ pc' = "export" => command' = "export"
      /\ args = "ok" => pc' # "ok"
  BY <1>1, <1>3, ExecEntry
<1>5. /\ Len(script) \in Nat /\ Len(script) >= 1 /\ Head(script) = script[1] /\ script[1] \in STRING
      /\ Tail(script) \in Seq(STRING) /\ Len(Tail(script)) = Len(script) - 1
      /\ \A i \in 1 .. Len(script) - 1 : Tail(script)[i] = script[i + 1]
  BY <1>1, <1>3
<1>6. SessionInv'
  <2>1. /\ command' \in Words /\ script' \in Seq(STRING) /\ ran' \in Seq(Words)
        /\ so' \in Seq(Seq(Line)) /\ txt' \in Seq(Nat) /\ xml' \in Seq(Token)
        /\ tagOrder' \in Seq(Names) /\ flags' \in SUBSET {"i", "s"}
        /\ args' \in {"ok", "help", "usage", "nofile"}
    <3>1. command' \in Words /\ script' \in Seq(STRING)
      BY <1>1, <1>5 DEF Words
    <3>2. QED
      BY <1>2, <3>1 DEF TypeInv, SessionInv
  <2>2. Running' => args' = "ok"
    BY <1>2, <1>4 DEF Running
  <2>3. ASSUME args = "ok"
        PROVE  /\ Reads(command') <= Len(so')
               /\ script' # << >> => Reads(Head(script')) <= Leaves(command')
               /\ \A i \in 2 .. Len(script') : Reads(script'[i]) <= Leaves(script'[i - 1])
    <3>1. /\ Reads(Head(script)) <= Len(so)
          /\ \A i \in 2 .. Len(script) : Reads(script[i]) <= Leaves(script[i - 1])
      BY <1>1, <2>3 DEF TypeInv, SessionInv
    <3>2. script' # << >> => Reads(Head(script')) <= Leaves(command')
      <4>1. SUFFICES ASSUME script' # << >> PROVE Reads(Head(script')) <= Leaves(command')
        OBVIOUS
      <4>2. Len(script') \in Nat /\ Len(script') # 0 /\ Head(script') = script'[1]
        BY <1>1, <1>5, <4>1, EmptySeq, LenProperties
      <4>3. 1 \in 1 .. Len(script) - 1 /\ 2 \in 2 .. Len(script)
        BY <1>1, <1>5, <4>2
      <4>4. script'[1] = script[2]
        BY <1>1, <1>5, <4>3
      <4>5. Reads(script[2]) <= Leaves(script[1])
        BY <3>1, <4>3
      <4>6. QED
        BY <1>1, <1>5, <4>2, <4>4, <4>5
    <3>3. ASSUME NEW i \in 2 .. Len(script')
          PROVE  Reads(script'[i]) <= Leaves(script'[i - 1])
      <4>1. i \in 1 .. Len(script) - 1 /\ i - 1 \in 1 .. Len(script) - 1 /\ i + 1 \in 2 .. Len(script)
        BY <1>1, <1>5
      <4>2. script'[i] = script[i + 1] /\ script'[i - 1] = script[i]
        BY <1>1, <1>5, <4>1
      <4>3. Reads(script[i + 1]) <= Leaves(script[i])
        BY <3>1, <4>1
      <4>4. QED
        BY <4>2, <4>3
    <3>4. QED
      BY <1>1, <1>2, <3>1, <3>2, <3>3
  <2>4. pc' # "shell"
    BY <1>4
  <2>5. QED
    BY <1>2, <2>1, <2>2, <2>3, <2>4 DEF SessionInv
<1>7. PhaseInv'
  BY <1>2, <1>4 DEF PhaseInv
<1>8. OutInv'
  <2>1. /\ out' = << >> /\ outXml' = << >> /\ tagStacks' = [n \in Names |-> << >>]
        /\ outTxt' = IF Head(script) = "unite" THEN outTxt ELSE << >>
    BY DEF main, XmlReset
  <2>2. outTxt \in Seq(Nat \cup {Newline})
    BY DEF TypeInv, OutInv
  <2>3. /\ outTxt' \in Seq(Nat \cup {Newline})
        /\ command' = "import" => outTxt' \in Seq(Nat)
    BY <1>1, <2>1, <2>2
  <2>4. QED
    BY <2>1, <2>3 DEF OutInv, Positions
<1>9. MergeInv'
  <2>1. f' = 1 /\ iter' = 1 /\ iter2' = 1 /\ same' = FALSE /\ queue' = {}
    BY DEF main, MergeReset
  <2>2. at' = [i \in DOMAIN so |-> 1] /\ som' = << << >>, << >> >>
    BY <1>2 DEF main, MergeReset
  <2>3. som' \in [1 .. 2 -> Seq(TagLine)]
    BY <2>2, EmptySom
  <2>4. at' \in [1 .. Len(so') -> Positions]
    BY <1>2, <1>3, <2>2 DEF Positions
  <2>5. pc' \in {"read", "init"} => 1 \in 1 .. Len(so')
    <3>1. SUFFICES ASSUME pc' \in {"read", "init"} PROVE 1 \in 1 .. Len(so)
      BY <1>2
    <3>2. args = "ok" /\ command' \in {"sort", "merge", "verify", "merge2"}
      BY <1>3, <1>4, <3>1
    <3>3. Reads(command') <= Len(so)
      BY <1>1, <3>2 DEF TypeInv, SessionInv
    <3>4. Reads(command') \in {1, 2}
      BY <3>2 DEF Reads
    <3>5. QED
      BY <1>3, <3>3, <3>4
  <2>6. same' \in BOOLEAN
    BY <2>1
  <2>7. iter' \in Positions /\ iter2' \in Positions /\ f' \in 1 .. 2
    BY <2>1 DEF Positions
  <2>8. QED
    BY <2>1, <2>3, <2>4, <2>5, <2>6, <2>7 DEF MergeInv
<1>10. ClipInv'
  <2>1. /\ lineNo' = 1 /\ endOfLastRegion' = 0
        /\ domain' = << >> /\ range' = << >> /\ emptyTagRegion' = <<1, 1>>
    BY DEF main, ClipReset
  <2>2. QED
    BY <2>1 DEF ClipInv, Positions
<1>11. XmlInv'
  <2>1. token' = 1 /\ charCount' = 0 /\ tag' = 1 /\ endTagList' = [p \in {} |-> << >>]
    BY DEF main, XmlReset
  <2>2. QED
    BY <2>1 DEF XmlInv, Positions
<1>12. QED
  BY <1>6, <1>7, <1>8, <1>9, <1>10, <1>11 DEF TypeInv

LEMMA andThenTypes ==
    ASSUME TypeInv, andThen
    PROVE  TypeInv'
<1>1. /\ pc = "ok" /\ script # << >> /\ args = "ok" /\ pc' = "shell"
      /\ ran' = Append(ran, command)
  BY DEF andThen
<1>2. /\ UNCHANGED <<command, script, args>> /\ UNCHANGED outputs
      /\ UNCHANGED mergeVars /\ UNCHANGED clipVars /\ UNCHANGED xmlVars
  BY DEF andThen
<1>3. command \in Commands
  BY <1>1 DEF TypeInv, PhaseInv
<1>4. out \in Seq(TagLine) /\ out \in Seq(Line)
  <2>1. out \in Seq(TagLine)
    BY <1>1, PlainOut DEF TypeInv
  <2>2. TagLine \subseteq Line
    BY DEF Line
  <2>3. QED
    BY <2>1, <2>2
<1>5. /\ so' \in Seq(Seq(Line)) /\ txt' \in Seq(Nat) /\ xml' \in Seq(Token)
      /\ Leaves(command) <= Len(so')
  <2>1. so \in Seq(Seq(Line)) /\ txt \in Seq(Nat) /\ xml \in Seq(Token) /\ Reads(command) <= Len(so)
    BY <1>1 DEF TypeInv, SessionInv
  <2>2. <<out>> \in Seq(Seq(Line)) /\ Len(<<out>>) = 1
    BY <1>4
  <2>3. CASE command = "import"
    <3>1. so' = <<out>> /\ txt' = outTxt /\ UNCHANGED xml
      BY <2>3 DEF andThen
    <3>2. outTxt \in Seq(Nat)
      BY <2>3 DEF TypeInv, OutInv
    <3>3. QED
      BY <2>1, <2>2, <2>3, <3>1, <3>2 DEF Leaves
  <2>4. CASE command = "export"
    <3>1. xml' = outXml /\ UNCHANGED <<so, txt>>
      BY <2>4 DEF andThen
    <3>2. outXml \in Seq(Token)
      BY DEF TypeInv, OutInv
    <3>3. QED
      BY <2>1, <2>4, <3>1, <3>2 DEF Leaves, Reads
  <2>5. CASE command = "clip"
    <3>1. UNCHANGED <<txt, xml>>
      BY <2>5 DEF andThen
    <3>2. PICK a \in Annotations(outTxt) \cap Seq(Line) : so' = <<out, a>>
      BY <2>5 DEF andThen
    <3>3. <<out, a>> \in Seq(Seq(Line)) /\ Len(<<out, a>>) = 2
      BY <1>4
    <3>4. QED
      BY <2>1, <2>5, <3>1, <3>2, <3>3 DEF Leaves
  <2>6. CASE command \in {"sort", "merge", "merge2", "unite", "verify"}
    <3>1. so' = <<out>> /\ UNCHANGED <<txt, xml>>
      BY <2>6 DEF andThen
    <3>2. QED
      BY <2>1, <2>2, <2>6, <3>1 DEF Leaves
  <2>7. QED
    BY <1>3, <2>3, <2>4, <2>5, <2>6 DEF Commands
<1>6. SessionInv'
  <2>1. /\ args' = "ok" /\ command' \in Words /\ script' \in Seq(STRING)
        /\ tagOrder' \in Seq(Names) /\ flags' \in SUBSET {"i", "s"}
    BY <1>1, <1>2 DEF TypeInv, SessionInv, mergeVars
  <2>2. ran' \in Seq(Words)
    <3>1. ran \in Seq(Words) /\ command \in Words
      BY DEF TypeInv, SessionInv
    <3>2. QED
      BY <1>1, <3>1, AppendProperties
  <2>3. /\ Reads(Head(script')) <= Len(so')
        /\ \A i \in 2 .. Len(script') : Reads(script'[i]) <= Leaves(script'[i - 1])
    <3>1. /\ Reads(Head(script)) <= Leaves(command)
          /\ \A i \in 2 .. Len(script) : Reads(script[i]) <= Leaves(script[i - 1])
      BY <1>1 DEF TypeInv, SessionInv
    <3>2. Reads(Head(script)) \in Nat /\ Leaves(command) \in Nat /\ Len(so') \in Nat
      <4>1. Reads(Head(script)) \in Nat
        BY DEF Reads
      <4>2. Leaves(command) \in Nat
        BY DEF Leaves
      <4>3. QED
        BY <1>5, <4>1, <4>2, LenProperties
    <3>3. QED
      BY <1>2, <1>5, <3>1, <3>2
  <2>4. ~ Running' /\ pc' = "shell"
    BY <1>1 DEF Running
  <2>5. QED
    BY <1>5, <2>1, <2>2, <2>3, <2>4 DEF SessionInv
<1>7. PhaseInv'
  BY <1>1 DEF PhaseInv
<1>8. OutInv'
  BY <1>1, <1>2 DEF TypeInv, OutInv, outputs, xmlVars
<1>9. MergeInv'
  BY <1>1, <1>2 DEF TypeInv, MergeInv, mergeVars, Running
<1>10. ClipInv' /\ XmlInv'
  BY <1>2, ClipKept, XmlKept DEF TypeInv
<1>11. QED
  BY <1>6, <1>7, <1>8, <1>9, <1>10 DEF TypeInv

LEMMA StutterTypes ==
    ASSUME TypeInv, UNCHANGED somVars
    PROVE  TypeInv'
<1>1. /\ UNCHANGED <<command, pc, so, txt, xml, out, outTxt, outXml, script, ran, args>>
      /\ UNCHANGED mergeVars /\ UNCHANGED clipVars /\ UNCHANGED xmlVars
  BY DEF somVars
<1>2. SessionInv'
  BY <1>1 DEF TypeInv, SessionInv, Running, mergeVars
<1>3. PhaseInv'
  BY <1>1 DEF TypeInv, PhaseInv
<1>4. OutInv'
  BY <1>1 DEF TypeInv, OutInv, xmlVars
<1>5. MergeInv'
  BY <1>1 DEF TypeInv, MergeInv, mergeVars, Running
<1>6. ClipInv' /\ XmlInv'
  BY <1>1, ClipKept, XmlKept DEF TypeInv
<1>7. QED
  BY <1>2, <1>3, <1>4, <1>5, <1>6 DEF TypeInv

LEMMA StepTypes == TypeInv /\ [Next]_somVars => TypeInv'
<1> SUFFICES ASSUME TypeInv, [Next]_somVars PROVE TypeInv'
  OBVIOUS
<1>1. CASE main
  BY <1>1, mainTypes
<1>2. CASE andThen
  BY <1>2, andThenTypes
<1>3. CASE ended \/ UNCHANGED somVars
  BY <1>3, StutterTypes DEF ended
<1>4. CASE MergeNext /\ UNCHANGED <<clipVars, xmlVars, script, ran, args>>
  BY <1>4, readDataTypes, mergeTagsTypes, sortTypes, writeDataTypes, initSeqTypes,
     mergeQueueTypes DEF MergeNext
<1>5. CASE ClipNext /\ UNCHANGED <<mergeVars, xmlVars, script, ran, args>>
  BY <1>5, clipDataTypes, setClippingSpanTypes, mapTypes DEF ClipNext
<1>6. CASE XmlNext /\ UNCHANGED <<mergeVars, clipVars, script, ran, args>>
  BY <1>6, seekRootTypes, readTextTypes, readTagTypes, readTailTypes, writeSemiXMLTypes,
     writeRestTypes DEF XmlNext
<1>7. QED
  BY <1>1, <1>2, <1>3, <1>4, <1>5, <1>6 DEF Next

LEMMA TypesInvariant == Spec => []TypeInv
  BY InitTypes, StepTypes, PTL DEF Spec

\* The invariant says what TypeOK says.
LEMMA TypesSuffice == TypeInv => TypeOK
<1> SUFFICES ASSUME TypeInv PROVE TypeOK
  OBVIOUS
<1>1. PhaseInv /\ OutInv /\ MergeInv /\ ClipInv /\ XmlInv
  BY DEF TypeInv
<1>2. ASSUME NEW i \in DOMAIN out
      PROVE  /\ out[i].first \in Nat /\ out[i].name \in Names
             /\ out[i].second \in Nat \cup {DUMMY_END_POSITION}
  <2>1. out[i] \in OpenTag
    BY <1>1, ElementOfSeq, LenProperties DEF OutInv
  <2>2. QED
    BY <2>1 DEF OpenTag
<1>3. ASSUME NEW n \in Names, NEW i \in DOMAIN tagStacks[n]
      PROVE  tagStacks[n][i] \in DOMAIN out
  <2>1. tagStacks[n] \in Seq(Positions) /\ out \in Seq(OpenTag)
    BY <1>1 DEF OutInv
  <2>2. i \in 1 .. Len(tagStacks[n]) /\ DOMAIN out = 1 .. Len(out) /\ Len(out) \in Nat
    BY <2>1, LenProperties
  <2>3. tagStacks[n][i] \in Positions /\ tagStacks[n][i] <= Len(out)
    BY <1>1, <2>1, <2>2, ElementOfSeq DEF OutInv
  <2>4. QED
    BY <2>2, <2>3 DEF Positions
<1>4. \A q \in queue : q.fileNo \in DOMAIN so
  <2>1. DOMAIN so = 1 .. Len(so)
    BY LenProperties DEF TypeInv, SessionInv
  <2>2. QED
    BY <1>1, <2>1 DEF MergeInv
<1>5. QED
  BY <1>1, <1>2, <1>3, <1>4 DEF TypeOK, PhaseInv, ClipInv, XmlInv

\* Every command of som keeps the types of the tags it reads and writes: whatever
\* files a session begins with, a tag that import has left open is on a stack, and
\* what one command wrote the next one can read.
THEOREM SomTypes == Spec => []TypeOK
  BY TypesInvariant, TypesSuffice, PTL

-----------------------------------------------------------------------------
(* Reading a stand-off file line by line.                                       *)

\* The tags on the first n lines.
TagsUpTo(lines, n) == Kept(lines, {Blank, Bad})[n]

\* Where the reader of a file is: before line p, without having met a bad line.
ReadUpTo(lines, p) == p \in 1 .. Len(lines) + 1 /\ \A i \in 1 .. p - 1 : lines[i] # Bad

LEMMA TagsUpToTypes ==
    ASSUME NEW lines \in Seq(Line), NEW n \in 0 .. Len(lines)
    PROVE  /\ TagsUpTo(lines, n) \in Seq(TagLine)
           /\ TagsUpTo(lines, 0) = << >>
           /\ Tags(lines) = TagsUpTo(lines, Len(lines))
           /\ Tags(lines) \in Seq(TagLine)
<1>1. Kept(lines, {Blank, Bad}) \in [0 .. Len(lines) -> Seq(Line \ {Blank, Bad})]
  BY KeptProperties
<1>2. Line \ {Blank, Bad} = TagLine
  BY StandOffAssumption DEF Line, TagLine
<1>3. Len(lines) \in Nat
  BY LenProperties
<1>4. \A m \in 0 .. Len(lines) : TagsUpTo(lines, m) \in Seq(TagLine)
  BY <1>1, <1>2 DEF TagsUpTo
<1>5. TagsUpTo(lines, 0) = << >>
  BY KeptProperties DEF TagsUpTo
<1>6. Tags(lines) = TagsUpTo(lines, Len(lines))
  BY KeptProperties DEF TagsUpTo, Tags
<1>7. QED
  BY <1>3, <1>4, <1>5, <1>6

\* A tag is no bad line.
LEMMA TagNotBad ==
    ASSUME NEW t \in TagLine
    PROVE  t # Bad /\ t # Blank /\ t \notin {Blank, Bad}
  BY StandOffAssumption DEF TagLine

\* The next line with something on it.
LEMMA ReadLine ==
    ASSUME NEW lines \in Seq(Line), NEW p, ReadUpTo(lines, p),
           NEW n, n = NextLine(lines, p)
    PROVE  /\ n \in p .. Len(lines) + 1
           /\ n <= Len(lines) /\ lines[n] # Bad =>
                /\ lines[n] \in TagLine
                /\ ReadUpTo(lines, n + 1)
                /\ TagsUpTo(lines, n) = Append(TagsUpTo(lines, p - 1), lines[n])
           /\ n <= Len(lines) /\ lines[n] = Bad => ~ Clean(lines)
           /\ n > Len(lines) => TagsUpTo(lines, p - 1) = Tags(lines) /\ Clean(lines)
<1> DEFINE S == {Blank, Bad}
           K == Kept(lines, S)
<1>1. Len(lines) \in Nat /\ p \in 1 .. Len(lines) + 1 /\ \A i \in 1 .. p - 1 : lines[i] # Bad
  BY LenProperties DEF ReadUpTo
<1>2. p \in Positions
  BY <1>1 DEF Positions
<1>3. /\ n \in 1 .. Len(lines) + 1
      /\ n <= Len(lines) => p <= n /\ lines[n] \in TagLine \cup {Bad}
      /\ \A i \in p .. Len(lines) : i < n => lines[i] = Blank
  BY <1>2, NextLineProperties
<1>4. n \in p .. Len(lines) + 1
  BY <1>1, <1>3
<1>5. \A i \in p .. n - 1 : lines[i] = Blank
  BY <1>1, <1>3, <1>4
<1>6. \A i \in 1 .. n - 1 : lines[i] # Bad
  BY <1>1, <1>4, <1>5, StandOffAssumption
<1>7. K[n - 1] = K[p - 1]
  <2>1. PICK m, l : m = p - 1 /\ l = n - 1
    OBVIOUS
  <2>2. m \in 0 .. Len(lines) /\ l \in m .. Len(lines)
    BY <1>1, <1>4, <2>1
  <2>3. \A i \in m + 1 .. l : lines[i] \in S
    BY <1>1, <1>5, <2>1
  <2> HIDE DEF S
  <2>4. K[l] = K[m]
    BY <2>2, <2>3, KeptSkip
  <2>5. QED
    BY <2>1, <2>4
<1>8. ASSUME n <= Len(lines), lines[n] # Bad
      PROVE  /\ lines[n] \in TagLine
             /\ ReadUpTo(lines, n + 1)
             /\ TagsUpTo(lines, n) = Append(TagsUpTo(lines, p - 1), lines[n])
  <2>1. lines[n] \in TagLine
    BY <1>3, <1>8
  <2>2. ReadUpTo(lines, n + 1)
    <3>1. n + 1 \in 1 .. Len(lines) + 1
      BY <1>1, <1>3, <1>8
    <3>2. \A i \in 1 .. (n + 1) - 1 : lines[i] # Bad
      BY <1>1, <1>3, <1>6, <1>8
    <3>3. QED
      BY <3>1, <3>2 DEF ReadUpTo
  <2>3. n \in 0 .. Len(lines) /\ n # 0
    BY <1>1, <1>3, <1>8
  <2>4. lines[n] \notin S
    BY <2>1, TagNotBad
  <2> HIDE DEF S, K
  <2>5. K[n] = KeptStep(lines, S, K, n)
    BY <2>3, KeptProperties DEF K
  <2>6. K[n] = Append(K[n - 1], lines[n])
    BY <2>3, <2>4, <2>5 DEF KeptStep
  <2>7. K[n] = Append(K[p - 1], lines[n])
    BY <1>7, <2>6
  <2>8. QED
    BY <2>1, <2>2, <2>7 DEF TagsUpTo, K, S
<1>9. ASSUME n <= Len(lines), lines[n] = Bad PROVE ~ Clean(lines)
  <2>1. n \in 1 .. Len(lines)
    BY <1>1, <1>3, <1>9
  <2>2. QED
    BY <1>9, <2>1 DEF Clean
<1>10. ASSUME n > Len(lines) PROVE TagsUpTo(lines, p - 1) = Tags(lines) /\ Clean(lines)
  <2>1. n = Len(lines) + 1 /\ n - 1 = Len(lines)
    BY <1>1, <1>3, <1>10
  <2>2. Clean(lines)
    BY <1>6, <2>1 DEF Clean
  <2>3. 0 \in 0 .. Len(lines)
    BY <1>1
  <2>4. Tags(lines) = TagsUpTo(lines, Len(lines))
    BY <2>3, TagsUpToTypes
  <2>5. TagsUpTo(lines, p - 1) = TagsUpTo(lines, Len(lines))
    BY <1>7, <2>1 DEF TagsUpTo
  <2>6. QED
    BY <2>2, <2>4, <2>5
<1>11. QED
  BY <1>4, <1>8, <1>9, <1>10

\* A tag that may follow the last one keeps the tags sorted, and one that may not
\* makes them unsorted.
LEMMA SortedAppend ==
    ASSUME NEW order \in Seq(Names), NEW s \in Seq(TagLine), NEW t \in TagLine,
           Sorted(order, s)
    PROVE  Sorted(order, Append(s, t)) <=> (s = << >> \/ ~ AIsLessThanB(order, t, Last(s)))
<1>1. PICK N : N = Len(s) /\ N \in Nat
  BY LenProperties
<1>2. PICK u : u = Append(s, t)
  OBVIOUS
<1>3. /\ u \in Seq(TagLine) /\ Len(u) = N + 1 /\ u[N + 1] = t
      /\ \A i \in 1 .. N : u[i] = s[i] /\ s[i] \in TagLine
  BY <1>1, <1>2, AppendProperties, ElementOfSeq
<1>4. s = << >> <=> N = 0
  BY <1>1, EmptySeq
<1>5. N # 0 => Last(s) = s[N] /\ N \in 1 .. N
  BY <1>1 DEF Last
<1>6. \A i, j \in 1 .. N : i < j => ~ AIsLessThanB(order, s[j], s[i])
  BY <1>1 DEF Sorted
<1>7. ASSUME N = 0 \/ ~ AIsLessThanB(order, t, s[N])
      PROVE  \A i, j \in 1 .. N + 1 : i < j => ~ AIsLessThanB(order, u[j], u[i])
  <2>1. SUFFICES ASSUME NEW i \in 1 .. N + 1, NEW j \in 1 .. N + 1, i < j
                 PROVE  ~ AIsLessThanB(order, u[j], u[i])
    OBVIOUS
  <2>2. i \in 1 .. N /\ N # 0
    BY <1>1, <2>1
  <2>3. CASE j # N + 1
    <3>1. j \in 1 .. N
      BY <1>1, <2>3
    <3>2. QED
      BY <1>3, <1>6, <2>1, <2>2, <3>1
  <2>4. CASE j = N + 1
    <3>1. u[j] = t /\ u[i] = s[i] /\ s[i] \in TagLine /\ s[N] \in TagLine
      BY <1>3, <1>5, <2>2, <2>4
    <3>2. ~ AIsLessThanB(order, t, s[N])
      BY <1>7, <2>2
    <3>3. CASE i = N
      BY <3>1, <3>2, <3>3
    <3>4. CASE i # N
      <4>1. i < N /\ N \in 1 .. N
        BY <1>1, <2>2, <3>4
      <4>2. ~ AIsLessThanB(order, s[N], s[i])
        BY <1>6, <2>2, <4>1
      <4>3. QED
        BY <3>1, <3>2, <4>2, LessOrder
    <3>5. QED
      BY <3>3, <3>4
  <2>5. QED
    BY <2>3, <2>4
<1>8. ASSUME N # 0, AIsLessThanB(order, t, s[N])
      PROVE  ~ \A i, j \in 1 .. N + 1 : i < j => ~ AIsLessThanB(order, u[j], u[i])
  <2>1. N \in 1 .. N + 1 /\ N + 1 \in 1 .. N + 1 /\ N < N + 1 /\ N \in 1 .. N
    BY <1>1, <1>8
  <2>2. u[N] = s[N] /\ u[N + 1] = t
    BY <1>3, <2>1
  <2>3. QED
    BY <1>8, <2>1, <2>2
<1>9. Sorted(order, u) <=> \A i, j \in 1 .. N + 1 : i < j => ~ AIsLessThanB(order, u[j], u[i])
  BY <1>3 DEF Sorted
<1>10. QED
  BY <1>2, <1>4, <1>5, <1>7, <1>8, <1>9

\* The tags read so far are the first ones of the file.
LEMMA TagsPrefix ==
    ASSUME NEW lines \in Seq(Line), NEW n \in 0 .. Len(lines)
    PROVE  /\ Len(TagsUpTo(lines, n)) <= Len(Tags(lines))
           /\ \A i \in 1 .. Len(TagsUpTo(lines, n)) : Tags(lines)[i] = TagsUpTo(lines, n)[i]
<1>0. Len(lines) \in Nat /\ Len(lines) \in n .. Len(lines)
  BY LenProperties
<1>1. PICK S, N : S = {Blank, Bad} /\ N = Len(lines)
  OBVIOUS
<1>1a. N \in n .. Len(lines)
  BY <1>0, <1>1
<1>2. /\ Len(Kept(lines, S)[n]) <= Len(Kept(lines, S)[N])
      /\ \A i \in 1 .. Len(Kept(lines, S)[n]) : Kept(lines, S)[N][i] = Kept(lines, S)[n][i]
  BY <1>1a, KeptPrefix
<1>3. Tags(lines) = Kept(lines, S)[N] /\ TagsUpTo(lines, n) = Kept(lines, S)[n]
  BY <1>1, TagsUpToTypes DEF TagsUpTo
<1>4. QED
  BY <1>2, <1>3

\* Tags that are not sorted make the tags of the whole file unsorted.
LEMMA SortedPrefix ==
    ASSUME NEW order, NEW lines \in Seq(Line), NEW n \in 0 .. Len(lines),
           Sorted(order, Tags(lines))
    PROVE  Sorted(order, TagsUpTo(lines, n))
<1>1. PICK s, t : s = TagsUpTo(lines, n) /\ t = Tags(lines)
  OBVIOUS
<1>2. Len(s) <= Len(t) /\ \A i \in 1 .. Len(s) : t[i] = s[i]
  BY <1>1, TagsPrefix
<1>3. s \in Seq(TagLine) /\ t \in Seq(TagLine)
  BY <1>1, TagsUpToTypes
<1>4. Len(s) \in Nat /\ Len(t) \in Nat
  BY <1>3, LenProperties
<1>5. \A i \in 1 .. Len(s) : i \in 1 .. Len(t)
  BY <1>2, <1>4
<1>6. \A i, j \in 1 .. Len(t) : i < j => ~ AIsLessThanB(order, t[j], t[i])
  BY <1>1 DEF Sorted
<1>7. Sorted(order, s)
  BY <1>2, <1>5, <1>6 DEF Sorted
<1>8. QED
  BY <1>1, <1>7

\* A file of tags only is its tags.
LEMMA TagsOfTags ==
    ASSUME NEW s \in Seq(TagLine)
    PROVE  s \in Seq(Line) /\ Tags(s) = s /\ Clean(s)
<1> DEFINE S == {Blank, Bad}
           K == Kept(s, S)
           Good(n) == Len(K[n]) = n /\ \A i \in 1 .. n : K[n][i] = s[i]
           G == {n \in 0 .. Len(s) : Good(n)}
<1>1. s \in Seq(Line) /\ Len(s) \in Nat
  BY LenProperties DEF Line
<1>2. \A i \in 1 .. Len(s) : s[i] \in TagLine /\ s[i] # Bad /\ s[i] \notin {Blank, Bad}
  BY ElementOfSeq, TagNotBad
<1>3. \A n \in 0 .. Len(s) : K[n] \in Seq(TagLine)
  BY <1>1, TagsUpToTypes DEF TagsUpTo
<1>4. K[0] = << >>
  BY <1>1, KeptProperties
<1>5. \A n \in 0 .. Len(s) : K[n] = KeptStep(s, S, K, n)
  <2> HIDE DEF S
  <2>1. QED
    BY <1>1, KeptProperties
<1> HIDE DEF K
<1>6. 0 \in G
  BY <1>1, <1>4
<1>7. ASSUME NEW n \in 0 .. Len(s) - 1, n \in G PROVE n + 1 \in G
  <2>1. /\ n + 1 \in 0 .. Len(s) /\ n + 1 \in 1 .. Len(s) /\ n + 1 # 0 /\ (n + 1) - 1 = n
        /\ n \in 0 .. Len(s)
    BY <1>1
  <2>2. K[n + 1] = KeptStep(s, S, K, n + 1) /\ s[n + 1] \notin S
    BY <1>2, <1>5, <2>1
  <2>3. K[n + 1] = Append(K[n], s[n + 1])
    BY <2>1, <2>2 DEF KeptStep
  <2>4. K[n] \in Seq(TagLine) /\ s[n + 1] \in TagLine /\ Good(n)
    BY <1>2, <1>3, <1>7, <2>1
  <2>5. /\ Len(K[n + 1]) = n + 1 /\ \A i \in 1 .. n : K[n + 1][i] = s[i]
        /\ K[n + 1][n + 1] = s[n + 1]
    BY <2>3, <2>4, AppendProperties
  <2>6. Good(n + 1)
    BY <1>1, <2>1, <2>5
  <2>7. QED
    BY <2>1, <2>6
<1>8. \A n \in 0 .. Len(s) : n \in G
  <2> HIDE DEF G
  <2>1. QED
    BY <1>1, <1>6, <1>7, RangeInduction
<1>9. Good(Len(s)) /\ Len(s) \in 0 .. Len(s)
  BY <1>1, <1>8
<1>10. K[Len(s)] = s
  BY <1>3, <1>9, SeqEqual
<1>11. Tags(s) = K[Len(s)]
  BY <1>1, <1>9, TagsUpToTypes DEF TagsUpTo, K
<1>12. Clean(s)
  BY <1>2 DEF Clean
<1>13. QED
  BY <1>1, <1>10, <1>11, <1>12

-----------------------------------------------------------------------------
(* What sort, merge and verify know of the files they read.                     *)

ReadInv ==
    pc = "read" =>
      /\ ReadUpTo(so[f], at[f])
      /\ som[f] = TagsUpTo(so[f], at[f] - 1)
      /\ strict => Sorted(readOrder, som[f])
      /\ f = 1 /\ command = "merge" => at[2] = 1 /\ som[2] = << >>
      /\ f = 2 => /\ command = "merge"
                  /\ som[1] = Tags(so[1]) /\ Clean(so[1])
                  /\ strict => Sorted(tagOrder, som[1])

\* What one line does: it is one more tag, or refused for a reason, or the file ends.
ReadMore ==
    /\ pc' = "read" /\ f' = f
    /\ ReadUpTo(so[f], at'[f]) /\ som'[f] = TagsUpTo(so[f], at'[f] - 1)
    /\ strict => Sorted(readOrder, som'[f])
    /\ \A p \in 1 .. 2 : p # f => som'[p] = som[p] /\ (p <= Len(so) => at'[p] = at[p])
ReadRefused ==
    /\ pc' = "error"
    /\ ~ Clean(so[f]) \/ (strict /\ ~ Sorted(readOrder, Tags(so[f])))
ReadEnd ==
    /\ pc' = afterRead /\ f' = (IF command = "merge" /\ f = 1 THEN 2 ELSE f) /\ som' = som
    /\ som[f] = Tags(so[f]) /\ Clean(so[f])
    /\ \A p \in 1 .. Len(so) : p # f => at'[p] = at[p]

LEMMA readDataOutcome ==
    ASSUME TypeInv, ReadInv, readData
    PROVE  ReadMore \/ ReadRefused \/ ReadEnd
<1>1. /\ pc = "read" /\ Running /\ command \in {"sort", "merge", "verify"}
      /\ f \in 1 .. Len(so) /\ f \in 1 .. 2 /\ tagOrder \in Seq(Names)
  BY DEF readData, Running, TypeInv, PhaseInv, MergeInv, SessionInv
<1>2. so[f] \in Seq(Line) /\ at \in [1 .. Len(so) -> Positions] /\ Len(so) \in Nat
  BY <1>1, FileThere DEF TypeInv, MergeInv
<1>3. PICK p, n, line : p = at[f] /\ n = NextLine(so[f], p) /\ line = so[f][n]
  OBVIOUS
<1>4. ReadUpTo(so[f], p) /\ som[f] = TagsUpTo(so[f], p - 1) /\ (strict => Sorted(readOrder, som[f]))
  BY <1>1, <1>3 DEF ReadInv
<1>5. /\ n \in p .. Len(so[f]) + 1
      /\ n <= Len(so[f]) /\ line # Bad =>
           /\ line \in TagLine
           /\ ReadUpTo(so[f], n + 1)
           /\ TagsUpTo(so[f], n) = Append(TagsUpTo(so[f], p - 1), line)
      /\ n <= Len(so[f]) /\ line = Bad => ~ Clean(so[f])
      /\ n > Len(so[f]) => TagsUpTo(so[f], p - 1) = Tags(so[f]) /\ Clean(so[f])
  BY <1>2, <1>3, <1>4, ReadLine
<1>6. /\ p \in Nat /\ p >= 1 /\ n \in Nat /\ Len(so[f]) \in Nat /\ n >= 1
      /\ p - 1 \in 0 .. Len(so[f])
  <2>1. p \in 1 .. Len(so[f]) + 1 /\ Len(so[f]) \in Nat
    BY <1>2, <1>4, LenProperties DEF ReadUpTo
  <2>2. QED
    BY <1>5, <2>1
<1>7. readOrder \in Seq(Names) /\ som[f] \in Seq(TagLine) /\ som \in [1 .. 2 -> Seq(TagLine)]
  BY <1>1 DEF readOrder, TypeInv, MergeInv
<1>8. at' = [at EXCEPT ![f] = n + 1]
  BY <1>3 DEF readData
<1>9. at'[f] = n + 1 /\ \A q \in 1 .. Len(so) : q # f => at'[q] = at[q]
  BY <1>1, <1>2, <1>8
<1>10. CASE /\ n > Len(so[f])
            /\ f' = (IF command = "merge" /\ f = 1 THEN 2 ELSE f)
            /\ pc' = afterRead
            /\ UNCHANGED som
  BY <1>4, <1>5, <1>9, <1>10 DEF ReadEnd
<1>11. CASE n <= Len(so[f]) /\ ~ (line # Bad /\ ~ outOfOrder(line)) /\ pc' = "error"
  <2>1. CASE line = Bad
    BY <1>5, <1>11, <2>1 DEF ReadRefused
  <2>2. CASE line # Bad
    <3>1. strict /\ som[f] # << >> /\ AIsLessThanB(readOrder, line, Last(som[f]))
      BY <1>11, <2>2 DEF outOfOrder
    <3>2. line \in TagLine /\ TagsUpTo(so[f], n) = Append(som[f], line)
      BY <1>4, <1>5, <1>11, <2>2
    <3>3. ~ Sorted(readOrder, TagsUpTo(so[f], n))
      BY <1>4, <1>7, <3>1, <3>2, SortedAppend
    <3>4. n \in 0 .. Len(so[f])
      BY <1>6, <1>11
    <3>5. ~ Sorted(readOrder, Tags(so[f]))
      BY <1>2, <3>3, <3>4, SortedPrefix
    <3>6. QED
      BY <1>11, <3>1, <3>5 DEF ReadRefused
  <2>3. QED
    BY <2>1, <2>2
<1>12. CASE /\ n <= Len(so[f]) /\ line # Bad /\ ~ outOfOrder(line)
            /\ som' = [som EXCEPT ![f] = Append(som[f], line)]
            /\ f' = f /\ pc' = pc
  <2>1. line \in TagLine /\ ReadUpTo(so[f], n + 1) /\ TagsUpTo(so[f], n) = Append(som[f], line)
    BY <1>4, <1>5, <1>12
  <2>2. som'[f] = Append(som[f], line) /\ \A q \in 1 .. 2 : q # f => som'[q] = som[q]
    BY <1>1, <1>7, <1>12
  <2>3. strict => Sorted(readOrder, Append(som[f], line))
    BY <1>4, <1>7, <1>12, <2>1, SortedAppend DEF outOfOrder
  <2>4. at'[f] = n + 1 /\ at'[f] - 1 = n
    BY <1>6, <1>9
  <2>5. \A q \in 1 .. 2 : q # f => som'[q] = som[q] /\ (q <= Len(so) => at'[q] = at[q])
    BY <1>2, <1>9, <2>2
  <2>6. ReadUpTo(so[f], at'[f]) /\ som'[f] = TagsUpTo(so[f], at'[f] - 1)
    BY <2>1, <2>2, <2>4
  <2>7. QED
    BY <1>1, <1>12, <2>2, <2>3, <2>5, <2>6 DEF ReadMore
<1>13. QED
  BY <1>3, <1>10, <1>11, <1>12 DEF readData

\* sort has sorted what it writes, and what the next command finds.
SortInv ==
    /\ pc = "write" /\ command = "sort" => Sorted(tagOrder, som[1])
    /\ pc = "ok" /\ command = "sort" /\ args = "ok" => Sorted(tagOrder, out)
    /\ ran = <<"sort">> => so # << >> /\ so[1] \in Seq(TagLine) /\ Sorted(tagOrder, so[1])

VerifyInv ==
    command = "verify" /\ args = "ok" =>
        /\ pc = "ok" => Clean(so[1]) /\ Sorted(tagOrder, Tags(so[1]))
        /\ pc = "error" => ~ (Clean(so[1]) /\ Sorted(tagOrder, Tags(so[1])))

RefusedInv ==
    command = "merge" /\ args = "ok" /\ pc = "error" =>
        \E p \in {1, 2} : ~ Clean(so[p]) \/ (~ ignoreCheck /\ ~ Sorted(tagOrder, Tags(so[p])))

FilesInv == ReadInv /\ SortInv /\ VerifyInv /\ RefusedInv

\* The commands that have nothing to do with sort, merge and verify.
Elsewhere ==
    /\ UNCHANGED <<command, so, args, ran, tagOrder, flags>>
    /\ command \in {"merge2", "clip", "unite", "import", "export"}

MergeCommon == readData \/ mergeTags \/ sort \/ writeData

LEMMA StepKinds ==
    ASSUME TypeInv, [Next]_somVars
    PROVE  \/ main \/ andThen \/ UNCHANGED somVars
           \/ MergeCommon /\ UNCHANGED <<clipVars, xmlVars, script, ran, args>>
           \/ Elsewhere
<1>1. CASE main \/ andThen \/ UNCHANGED somVars
  BY <1>1
<1>2. CASE ended
  BY <1>2 DEF ended
<1>3. CASE MergeNext /\ UNCHANGED <<clipVars, xmlVars, script, ran, args>>
  <2>1. CASE initSeq \/ mergeQueue
    <3>1. pc \in {"init", "merge2"} /\ UNCHANGED <<command, so, tagOrder, flags>>
      BY <2>1 DEF initSeq, mergeQueue, mergeRest, inputs
    <3>2. command = "merge2"
      BY <3>1 DEF TypeInv, PhaseInv
    <3>3. QED
      BY <1>3, <3>1, <3>2 DEF Elsewhere
  <2>2. QED
    BY <1>3, <2>1 DEF MergeNext, MergeCommon
<1>4. CASE ClipNext /\ UNCHANGED <<mergeVars, xmlVars, script, ran, args>>
  <2>1. pc \in {"clip", "container", "embedded"} /\ UNCHANGED <<command, so>>
    BY <1>4 DEF ClipNext, clipData, setClippingSpan, map, clipRest, inputs
  <2>2. command \in {"clip", "unite"}
    BY <2>1 DEF TypeInv, PhaseInv
  <2>3. UNCHANGED <<tagOrder, flags>>
    BY <1>4 DEF mergeVars
  <2>4. QED
    BY <1>4, <2>1, <2>2, <2>3 DEF Elsewhere
<1>5. CASE XmlNext /\ UNCHANGED <<mergeVars, clipVars, script, ran, args>>
  <2>1. pc \in {"import", "export", "exportEnd"} /\ UNCHANGED <<command, so>>
    BY <1>5 DEF XmlNext, seekRoot, readText, readTag, readTail, writeSemiXML, writeRest, inputs
  <2>2. command \in {"import", "export"}
    BY <2>1 DEF TypeInv, PhaseInv
  <2>3. UNCHANGED <<tagOrder, flags>>
    BY <1>5 DEF mergeVars
  <2>4. QED
    BY <1>5, <2>1, <2>2, <2>3 DEF Elsewhere
<1>6. QED
  BY <1>1, <1>2, <1>3, <1>4, <1>5 DEF Next

LEMMA InitFiles == Init => FilesInv
  BY DEF Init, FilesInv, ReadInv, SortInv, VerifyInv, RefusedInv

LEMMA mainFiles ==
    ASSUME TypeInv, FilesInv, main
    PROVE  FilesInv'
<1>1. /\ pc = "shell" /\ script # << >> /\ command' = Head(script) /\ pc' = exec(Head(script))
      /\ UNCHANGED <<so, ran, args, tagOrder>>
  BY DEF main
<1>2. f' = 1 /\ at' = [i \in DOMAIN so |-> 1] /\ som' = << << >>, << >> >>
  BY <1>1 DEF main, MergeReset
<1>3. /\ args \in {"ok", "help", "usage", "nofile"}
      /\ so \in Seq(Seq(Line)) /\ Len(so) \in Nat /\ DOMAIN so = 1 .. Len(so)
  BY LenProperties DEF TypeInv, SessionInv
<1>4. /\ args # "ok" => pc' \in {"ok", "error"}
      /\ pc' \in {"read", "init", "clip", "container", "import", "export", "ok", "error"}
      /\ pc' = "read" => command' \in {"sort", "merge", "verify"}
      /\ args = "ok" => pc' # "ok"
  BY <1>1, <1>3, ExecEntry
<1>5. args = "ok" /\ command' \in {"sort", "merge", "verify"} => pc' = "read"
  BY <1>1 DEF exec, Entry, MergeEntry, MergeCommands
<1>6. ReadInv'
  <2>1. SUFFICES ASSUME pc' = "read" PROVE ReadInv'
    BY DEF ReadInv
  <2>2. args = "ok" /\ command' \in {"sort", "merge", "verify"}
    BY <1>3, <1>4, <2>1
  <2>3. Reads(command') <= Len(so) /\ Reads(command') \in {1, 2}
        /\ (command' = "merge" => Reads(command') = 2)
    BY <1>1, <2>2 DEF TypeInv, SessionInv, Reads
  <2>4. 1 \in 1 .. Len(so) /\ (command' = "merge" => 2 \in 1 .. Len(so))
    BY <1>3, <2>3
  <2>5. so[1] \in Seq(Line) /\ 0 \in 0 .. Len(so[1])
    BY <1>3, <2>4, ElementOfSeq, LenProperties
  <2>6. at'[1] = 1 /\ (command' = "merge" => at'[2] = 1)
    BY <1>2, <1>3, <2>4
  <2>7. som'[1] = << >> /\ som'[2] = << >>
    BY <1>2
  <2>8. ReadUpTo(so[1], 1)
    BY <2>5, LenProperties DEF ReadUpTo
  <2>9. TagsUpTo(so[1], 0) = << >>
    BY <2>5, TagsUpToTypes
  <2>10. Sorted(readOrder', << >>)
    BY DEF Sorted
  <2>11. ReadUpTo(so'[f'], at'[f']) /\ som'[f'] = TagsUpTo(so'[f'], at'[f'] - 1)
    BY <1>1, <1>2, <2>6, <2>7, <2>8, <2>9
  <2>12. QED
    BY <1>2, <2>6, <2>7, <2>10, <2>11 DEF ReadInv
<1>7. SortInv'
  <2>1. pc' # "write"
    BY <1>4
  <2>2. QED
    BY <1>1, <1>4, <2>1 DEF SortInv, FilesInv
<1>8. VerifyInv'
  BY <1>1, <1>5 DEF VerifyInv
<1>9. RefusedInv'
  BY <1>1, <1>5 DEF RefusedInv
<1>10. QED
  BY <1>6, <1>7, <1>8, <1>9 DEF FilesInv

LEMMA andThenFiles ==
    ASSUME TypeInv, FilesInv, andThen
    PROVE  FilesInv'
<1>1. pc = "ok" /\ args = "ok" /\ pc' = "shell" /\ ran' = Append(ran, command)
  BY DEF andThen
<1>2. UNCHANGED tagOrder
  BY DEF andThen, mergeVars
<1>3. ReadInv' /\ VerifyInv' /\ RefusedInv'
  BY <1>1 DEF ReadInv, VerifyInv, RefusedInv
<1>4. ASSUME ran' = <<"sort">>
      PROVE  so' # << >> /\ so'[1] \in Seq(TagLine) /\ Sorted(tagOrder', so'[1])
  <2>1. ran \in Seq(Words) /\ command \in Words
    BY DEF TypeInv, SessionInv
  <2>2. command = "sort"
    <3>1. /\ Len(ran) \in Nat /\ Len(Append(ran, command)) = Len(ran) + 1
          /\ Append(ran, command)[Len(ran) + 1] = command
      BY <2>1, AppendProperties, LenProperties
    <3>2. Len(ran) = 0
      BY <1>1, <1>4, <3>1
    <3>3. QED
      BY <1>1, <1>4, <3>1, <3>2
  <2>3. so' = <<out>>
    BY <2>2 DEF andThen
  <2>4. out \in Seq(TagLine)
    BY <2>2, PlainOut DEF TypeInv
  <2>5. Sorted(tagOrder, out)
    BY <1>1, <2>2 DEF FilesInv, SortInv
  <2>6. so'[1] = out /\ so' # << >>
    BY <2>3
  <2>7. QED
    BY <1>2, <2>4, <2>5, <2>6
<1>5. SortInv'
  BY <1>1, <1>4 DEF SortInv
<1>6. QED
  BY <1>3, <1>5 DEF FilesInv

\* Without a tag-order file every name has the place 0.
LEMMA NoOrderValue ==
    ASSUME NEW name
    PROVE  getOrderValue(<< >>, name) = 0
<1>1. {0} \cup {i \in 1 .. Len(<< >>) : << >>[i] = name} = {0}
  OBVIOUS
<1>2. getOrderValue(<< >>, name) = Max({0})
  BY <1>1 DEF getOrderValue
<1>3. Max({0}) = 0
  BY DEF Max
<1>4. QED
  BY <1>2, <1>3

\* What is sorted with a tag-order file is sorted without one.
LEMMA SortedWithout ==
    ASSUME NEW order \in Seq(Names), NEW s \in Seq(TagLine), Sorted(order, s)
    PROVE  Sorted(<< >>, s)
<1>1. << >> \in Seq(Names)
  OBVIOUS
<1>2. ASSUME NEW a \in TagLine, NEW b \in TagLine, AIsLessThanB(<< >>, a, b)
      PROVE  AIsLessThanB(order, a, b)
  <2>1. getOrderValue(<< >>, a.name) = 0 /\ getOrderValue(<< >>, b.name) = 0
    BY NoOrderValue
  <2>2. QED
    BY <1>2, <2>1 DEF AIsLessThanB
<1>3. \A i \in 1 .. Len(s) : s[i] \in TagLine
  BY ElementOfSeq
<1>4. QED
  BY <1>2, <1>3 DEF Sorted

LEMMA readDataFiles ==
    ASSUME TypeInv, FilesInv, readData, UNCHANGED <<script, ran, args>>
    PROVE  FilesInv'
<1>1. /\ pc = "read" /\ Running /\ command \in {"sort", "merge", "verify"}
      /\ f \in 1 .. Len(so) /\ f \in 1 .. 2 /\ tagOrder \in Seq(Names)
  BY DEF readData, Running, TypeInv, PhaseInv, MergeInv, SessionInv
<1>2. UNCHANGED <<command, so, tagOrder, flags, args, ran, iter, iter2, same, out>>
  BY DEF readData, mergeRest, inputs
<1>3. ReadMore \/ ReadRefused \/ ReadEnd
  BY readDataOutcome DEF FilesInv
<1>4. /\ strict => Sorted(readOrder, som[f])
      /\ f = 1 /\ command = "merge" => at[2] = 1 /\ som[2] = << >>
      /\ f = 2 => /\ command = "merge"
                  /\ som[1] = Tags(so[1]) /\ Clean(so[1])
                  /\ strict => Sorted(tagOrder, som[1])
  BY <1>1 DEF FilesInv, ReadInv
<1>5. strict' = strict /\ ignoreCheck' = ignoreCheck
  BY <1>2 DEF strict, ignoreCheck
<1>6. Len(so) \in Nat /\ (command = "merge" => 2 \in 1 .. Len(so) /\ so[2] \in Seq(Line))
  BY <1>1, FileThere
<1>7. CASE ReadMore
  <2>1. /\ pc' = "read" /\ f' = f
        /\ ReadUpTo(so[f], at'[f]) /\ som'[f] = TagsUpTo(so[f], at'[f] - 1)
        /\ strict => Sorted(readOrder, som'[f])
        /\ \A p \in 1 .. 2 : p # f => som'[p] = som[p] /\ (p <= Len(so) => at'[p] = at[p])
    BY <1>7 DEF ReadMore
  <2>2. readOrder' = readOrder
    BY <1>2, <2>1 DEF readOrder
  <2>3. f = 1 /\ command = "merge" => at'[2] = 1 /\ som'[2] = << >>
    BY <1>4, <1>6, <2>1
  <2>4. f = 2 => som'[1] = som[1]
    BY <2>1
  <2>5. f = 2 => /\ command = "merge"
                 /\ som'[1] = Tags(so[1]) /\ Clean(so[1])
                 /\ strict => Sorted(tagOrder, som'[1])
    BY <1>4, <2>4
  <2>6. ReadInv'
    BY <1>2, <1>5, <2>1, <2>2, <2>3, <2>5 DEF ReadInv
  <2>7. SortInv' /\ VerifyInv' /\ RefusedInv'
    BY <1>2, <2>1 DEF SortInv, VerifyInv, RefusedInv, FilesInv
  <2>8. QED
    BY <2>6, <2>7 DEF FilesInv
<1>8. CASE ReadRefused
  <2>1. pc' = "error" /\ (~ Clean(so[f]) \/ (strict /\ ~ Sorted(readOrder, Tags(so[f]))))
    BY <1>8 DEF ReadRefused
  <2>2. ReadInv' /\ SortInv'
    BY <1>2, <2>1 DEF ReadInv, SortInv, FilesInv
  <2>3. VerifyInv'
    <3>1. command = "verify" => f = 1 /\ readOrder = tagOrder
      BY <1>1, <1>4 DEF readOrder
    <3>2. command = "verify" => ~ (Clean(so[1]) /\ Sorted(tagOrder, Tags(so[1])))
      BY <2>1, <3>1
    <3>3. QED
      BY <1>2, <2>1, <3>2 DEF VerifyInv
  <2>4. RefusedInv'
    <3>1. SUFFICES ASSUME command = "merge"
                   PROVE  ~ Clean(so[f]) \/ (~ ignoreCheck /\ ~ Sorted(tagOrder, Tags(so[f])))
      BY <1>1, <1>2, <1>5 DEF RefusedInv
    <3>2. strict => ~ ignoreCheck
      BY <3>1 DEF strict
    <3>3. ~ Sorted(readOrder, Tags(so[f])) => ~ Sorted(tagOrder, Tags(so[f]))
      <4>1. CASE f = 1
        BY <4>1 DEF readOrder
      <4>2. CASE f = 2
        <5>1. readOrder = << >> /\ so[f] \in Seq(Line) /\ 0 \in 0 .. Len(so[f])
          BY <1>6, <3>1, <4>2, LenProperties DEF readOrder
        <5>2. Tags(so[f]) \in Seq(TagLine)
          BY <5>1, TagsUpToTypes
        <5>3. QED
          BY <1>1, <5>1, <5>2, SortedWithout
      <4>3. QED
        BY <1>1, <4>1, <4>2
    <3>4. QED
      BY <2>1, <3>2, <3>3
  <2>5. QED
    BY <2>2, <2>3, <2>4 DEF FilesInv
<1>9. CASE ReadEnd
  <2>1. /\ pc' = afterRead /\ f' = (IF command = "merge" /\ f = 1 THEN 2 ELSE f) /\ som' = som
        /\ som[f] = Tags(so[f]) /\ Clean(so[f])
        /\ \A p \in 1 .. Len(so) : p # f => at'[p] = at[p]
    BY <1>9 DEF ReadEnd
  <2>2. pc' = afterRead /\ pc' \in {"read", "sort", "ok", "merge"}
        /\ (pc' = "read" => command = "merge" /\ f = 1 /\ f' = 2)
        /\ (pc' = "ok" => command = "verify")
    BY <1>1, <2>1 DEF afterRead
  <2>3. ReadInv'
    <3>1. SUFFICES ASSUME pc' = "read" PROVE ReadInv'
      BY DEF ReadInv
    <3>2. command = "merge" /\ f = 1 /\ f' = 2 /\ at'[2] = 1 /\ som'[2] = << >> /\ som'[1] = Tags(so[1])
          /\ Clean(so[1]) /\ readOrder = tagOrder /\ so[2] \in Seq(Line)
      BY <1>4, <1>6, <2>1, <2>2, <3>1 DEF readOrder
    <3>3. ReadUpTo(so[2], 1) /\ 0 \in 0 .. Len(so[2])
      BY <3>2, LenProperties DEF ReadUpTo
    <3>4. TagsUpTo(so[2], 0) = << >>
      BY <3>2, <3>3, TagsUpToTypes
    <3>5. Sorted(readOrder', << >>)
      BY DEF Sorted
    <3>6. ReadUpTo(so'[f'], at'[f']) /\ som'[f'] = TagsUpTo(so'[f'], at'[f'] - 1)
      BY <1>2, <3>2, <3>3, <3>4
    <3>7. strict => Sorted(tagOrder, som'[1])
      BY <1>4, <2>1, <3>2
    <3>8. QED
      BY <1>2, <1>5, <3>2, <3>5, <3>6, <3>7 DEF ReadInv
  <2>4. SortInv'
    BY <1>2, <2>2 DEF SortInv, FilesInv
  <2>5. VerifyInv'
    <3>1. command = "verify" => f = 1 /\ readOrder = tagOrder /\ strict
      BY <1>1, <1>4 DEF readOrder, strict
    <3>2. command = "verify" => Clean(so[1]) /\ Sorted(tagOrder, Tags(so[1]))
      BY <1>4, <2>1, <3>1
    <3>3. QED
      BY <1>2, <2>2, <3>2 DEF VerifyInv
  <2>6. RefusedInv'
    BY <2>2 DEF RefusedInv
  <2>7. QED
    BY <2>3, <2>4, <2>5, <2>6 DEF FilesInv
<1>10. QED
  BY <1>3, <1>7, <1>8, <1>9

LEMMA FilesStep == TypeInv /\ FilesInv /\ [Next]_somVars => FilesInv'
<1> SUFFICES ASSUME TypeInv, FilesInv, [Next]_somVars PROVE FilesInv'
  OBVIOUS
<1>1. TypeInv'
  BY StepTypes
<1>2. CASE UNCHANGED somVars
  <2>1. UNCHANGED <<command, pc, so, args, ran, out, tagOrder, flags, f, at, som>>
    BY <1>2 DEF somVars, mergeVars
  <2>2. strict' = strict /\ ignoreCheck' = ignoreCheck /\ readOrder' = readOrder
    BY <2>1 DEF strict, ignoreCheck, readOrder
  <2>3. QED
    BY <2>1, <2>2 DEF FilesInv, ReadInv, SortInv, VerifyInv, RefusedInv
<1>3. CASE Elsewhere
  <2>1. UNCHANGED <<so, ran, tagOrder>> /\ command' \in {"merge2", "clip", "unite", "import", "export"}
    BY <1>3 DEF Elsewhere
  <2>2. pc' # "read"
    BY <1>1, <2>1 DEF TypeInv, PhaseInv
  <2>3. QED
    BY <2>1, <2>2 DEF FilesInv, ReadInv, SortInv, VerifyInv, RefusedInv
<1>4. CASE MergeCommon /\ UNCHANGED <<clipVars, xmlVars, script, ran, args>>
  <2>1. CASE readData
    BY <1>4, <2>1, readDataFiles
  <2>2. CASE mergeTags
    <3>1. command' = "merge" /\ pc' \in {"merge", "sort", "write"} /\ UNCHANGED <<so, tagOrder>>
      BY <2>2 DEF mergeTags, TypeInv, PhaseInv, mergeRest, inputs
    <3>2. QED
      BY <1>4, <3>1 DEF FilesInv, ReadInv, SortInv, VerifyInv, RefusedInv
  <2>3. CASE sort
    <3>1. pc' = "write" /\ UNCHANGED <<so, tagOrder>> /\ som' = [som EXCEPT ![1] = StableSort(tagOrder, @)]
      BY <2>3 DEF sort, mergeRest, inputs
    <3>2. som \in [1 .. 2 -> Seq(TagLine)] /\ som[1] \in Seq(TagLine) /\ tagOrder \in Seq(Names)
      BY DEF TypeInv, MergeInv, SessionInv
    <3>3. Sorted(tagOrder, som'[1])
      BY <3>1, <3>2, StableSortSorted
    <3>4. QED
      BY <1>4, <3>1, <3>3 DEF FilesInv, ReadInv, SortInv, VerifyInv, RefusedInv
  <2>4. CASE writeData
    <3>1. /\ pc = "write" /\ pc' = "ok" /\ out' = som[1] /\ UNCHANGED <<so, tagOrder, command>>
          /\ command \in {"sort", "merge"}
      BY <2>4 DEF writeData, TypeInv, PhaseInv, mergeRest, inputs
    <3>2. QED
      BY <1>4, <3>1 DEF FilesInv, ReadInv, SortInv, VerifyInv, RefusedInv
  <2>5. QED
    BY <1>4, <2>1, <2>2, <2>3, <2>4 DEF MergeCommon
<1>5. QED
  BY <1>2, <1>3, <1>4, mainFiles, andThenFiles, StepKinds

LEMMA FilesInvariant == Spec => []FilesInv
  BY InitFiles, FilesStep, TypesInvariant, PTL DEF Spec

LEMMA VerifySuffices == TypeInv /\ FilesInv => VerifyRight
<1> SUFFICES ASSUME TypeInv, FilesInv, command = "verify", args = "ok"
             PROVE  /\ pc \in {"ok", "error"} =>
                         (pc = "ok" <=> Clean(so[1]) /\ Sorted(tagOrder, Tags(so[1])))
                    /\ ran = <<"sort">> => pc # "error"
  BY DEF VerifyRight
<1>1. /\ pc = "ok" => Clean(so[1]) /\ Sorted(tagOrder, Tags(so[1]))
      /\ pc = "error" => ~ (Clean(so[1]) /\ Sorted(tagOrder, Tags(so[1])))
  BY DEF FilesInv, VerifyInv
<1>2. ASSUME ran = <<"sort">> PROVE pc # "error"
  <2>1. so[1] \in Seq(TagLine) /\ Sorted(tagOrder, so[1])
    BY <1>2 DEF FilesInv, SortInv
  <2>2. QED
    BY <1>1, <2>1, TagsOfTags
<1>3. QED
  BY <1>1, <1>2

\* Whatever the file, verify accepts it exactly if every line is a tag or blank and
\* the tags are sorted; what sort wrote it never refuses.
THEOREM VerifyIsRight == Spec => []VerifyRight
  BY TypesInvariant, FilesInvariant, VerifySuffices, PTL

-----------------------------------------------------------------------------
(* Merging two lists of tags.  What has been merged picks places of the two     *)
(* lists, one behind the other.                                                 *)

\* ix says from which place of all the tags of s were taken: every place of P once.
Picks(all, s, P, ix) ==
    /\ ix \in [1 .. Len(s) -> P]
    /\ \A k \in 1 .. Len(s) : s[k] = all[ix[k]]
    /\ \A p \in P : \E k \in 1 .. Len(s) : ix[k] = p
    /\ \A k, l \in 1 .. Len(s) : ix[k] = ix[l] => k = l

Follows(B, n, ix) == \A i, j \in 1 .. n : i < j => Goes(B, ix[i], ix[j])

\* jx takes the places behind q too, in their order.
PickedMore(all, s, u, Q, q, ix, jx) ==
    /\ Picks(all, s \o u, Q, jx)
    /\ \A k \in 1 .. Len(s) : jx[k] = ix[k]
    /\ \A k \in 1 .. Len(u) : jx[Len(s) + k] = q + k

LEMMA PicksMore ==
    ASSUME NEW all, NEW s \in Seq(TagLine), NEW u \in Seq(TagLine), NEW P, NEW ix,
           Picks(all, s, P, ix), NEW q \in Nat,
           \A k \in 1 .. Len(u) : u[k] = all[q + k] /\ q + k \notin P,
           NEW Q, Q = P \cup (q + 1 .. q + Len(u))
    PROVE  \E jx : PickedMore(all, s, u, Q, q, ix, jx)
<1>1. PICK N, M : N = Len(s) /\ M = Len(u) /\ N \in Nat /\ M \in Nat
  BY LenProperties
<1>2. PICK w : w = s \o u
  OBVIOUS
<1>3. /\ Len(w) = N + M
      /\ \A k \in 1 .. N : w[k] = s[k]
      /\ \A k \in 1 .. M : w[N + k] = u[k]
  <2>1. w \in Seq(TagLine) /\ Len(w) = N + M
    BY <1>1, <1>2, ConcatProperties
  <2>2. \A k \in 1 .. Len(s) + Len(u) : (s \o u)[k] = IF k <= Len(s) THEN s[k] ELSE u[k - Len(s)]
    BY ConcatProperties
  <2>3. \A k \in 1 .. N : w[k] = s[k]
    BY <1>1, <1>2, <2>2
  <2>4. ASSUME NEW k \in 1 .. M PROVE w[N + k] = u[k]
    <3>1. N + k \in 1 .. N + M /\ ~ (N + k <= N) /\ (N + k) - N = k
      BY <1>1
    <3>2. QED
      BY <1>1, <1>2, <2>2, <3>1
  <2>5. QED
    BY <2>1, <2>3, <2>4
<1>4. PICK jx : jx = [k \in 1 .. N + M |-> IF k <= N THEN ix[k] ELSE q + (k - N)]
  OBVIOUS
<1>5. /\ ix \in [1 .. N -> P]
      /\ \A k \in 1 .. N : s[k] = all[ix[k]]
      /\ \A p \in P : \E k \in 1 .. N : ix[k] = p
      /\ \A k, l \in 1 .. N : ix[k] = ix[l] => k = l
  BY <1>1 DEF Picks
<1>6. \A k \in 1 .. N : jx[k] = ix[k] /\ jx[k] \in P
  BY <1>1, <1>4, <1>5
<1>7. \A k \in 1 .. M : jx[N + k] = q + k
  BY <1>1, <1>4
<1>8. \A k \in 1 .. M : u[k] = all[q + k] /\ q + k \notin P
  BY <1>1
<1>9. \A k \in 1 .. N + M : k \in 1 .. N \/ (k - N \in 1 .. M /\ k = N + (k - N))
  BY <1>1
<1>10. \A k \in 1 .. N + M : (k \in 1 .. N /\ jx[k] \in P)
                             \/ (k - N \in 1 .. M /\ jx[k] = q + (k - N) /\ jx[k] \notin P)
  BY <1>6, <1>7, <1>8, <1>9
<1>11. jx \in [1 .. N + M -> Q]
  <2>1. \A k \in 1 .. M : q + k \in q + 1 .. q + M
    BY <1>1
  <2>2. \A k \in 1 .. N + M : jx[k] \in Q
    BY <1>1, <1>10, <2>1
  <2>3. QED
    BY <1>4, <2>2
<1>12. \A k \in 1 .. N + M : w[k] = all[jx[k]]
  BY <1>3, <1>5, <1>6, <1>7, <1>8, <1>9
<1>13. ASSUME NEW p \in Q PROVE \E k \in 1 .. N + M : jx[k] = p
  <2>1. CASE p \in P
    <3>1. PICK k \in 1 .. N : ix[k] = p
      BY <1>5, <2>1
    <3>2. k \in 1 .. N + M
      BY <1>1
    <3>3. QED
      BY <1>6, <3>1, <3>2
  <2>2. CASE p \in q + 1 .. q + M
    <3>1. PICK k \in 1 .. M : p = q + k
      <4>1. p - q \in 1 .. M /\ p = q + (p - q)
        BY <1>1, <2>2
      <4>2. QED
        BY <4>1
    <3>2. N + k \in 1 .. N + M
      BY <1>1
    <3>3. QED
      BY <1>7, <3>1, <3>2
  <2>3. QED
    BY <1>1, <2>1, <2>2
<1>14. ASSUME NEW k \in 1 .. N + M, NEW l \in 1 .. N + M, jx[k] = jx[l] PROVE k = l
  <2>1. CASE jx[k] \in P
    <3>1. k \in 1 .. N /\ l \in 1 .. N
      BY <1>10, <1>14, <2>1
    <3>2. QED
      BY <1>5, <1>6, <1>14, <3>1
  <2>2. CASE jx[k] \notin P
    <3>1. q + (k - N) = q + (l - N)
      BY <1>10, <1>14, <2>2
    <3>2. QED
      BY <1>1, <3>1
  <2>3. QED
    BY <2>1, <2>2
<1>15. Picks(all, w, Q, jx)
  BY <1>3, <1>11, <1>12, <1>13, <1>14 DEF Picks
<1>16. QED
  BY <1>1, <1>2, <1>6, <1>7, <1>15 DEF PickedMore

LEMMA FollowsMore ==
    ASSUME NEW B, NEW N \in Nat, NEW M \in Nat, NEW ix, NEW jx, NEW q \in Nat,
           Follows(B, N, ix),
           \A k \in 1 .. N : jx[k] = ix[k],
           \A k \in 1 .. M : jx[N + k] = q + k,
           \A k \in 1 .. N : \A l \in 1 .. M : Goes(B, ix[k], q + l),
           \A k, l \in 1 .. M : k < l => Goes(B, q + k, q + l)
    PROVE  Follows(B, N + M, jx)
<1>1. SUFFICES ASSUME NEW i \in 1 .. N + M, NEW j \in 1 .. N + M, i < j
               PROVE  Goes(B, jx[i], jx[j])
  BY DEF Follows
<1>2. CASE j \in 1 .. N
  <2>1. i \in 1 .. N
    BY <1>1, <1>2
  <2>2. QED
    BY <1>1, <1>2, <2>1 DEF Follows
<1>3. CASE j \notin 1 .. N
  <2>1. PICK l \in 1 .. M : j = N + l
    <3>1. j - N \in 1 .. M /\ j = N + (j - N)
      BY <1>3
    <3>2. QED
      BY <3>1
  <2>2. jx[j] = q + l
    BY <2>1
  <2>3. CASE i \in 1 .. N
    <3>1. jx[i] = ix[i]
      BY <2>3
    <3>2. Goes(B, ix[i], q + l)
      BY <2>3
    <3>3. QED
      BY <2>2, <3>1, <3>2
  <2>4. CASE i \notin 1 .. N
    <3>1. PICK k \in 1 .. M : i = N + k
      <4>1. i - N \in 1 .. M /\ i = N + (i - N)
        BY <2>4
      <4>2. QED
        BY <4>1
    <3>2. k < l
      BY <1>1, <2>1, <3>1
    <3>3. jx[i] = q + k /\ Goes(B, q + k, q + l)
      BY <3>1, <3>2
    <3>4. QED
      BY <2>2, <3>3
  <2>5. QED
    BY <2>3, <2>4
<1>4. QED
  BY <1>2, <1>3

BothSorted(order, t1, t2) == Sorted(order, t1) /\ Sorted(order, t2)

\* The places of t2 \o t1 before entry i of t2 and before entry j of t1.
Taken(n2, i, j) == (1 .. i - 1) \cup (n2 + 1 .. n2 + (j - 1))

\* s are the tags at the places P of t2 \o t1, in the order of the stable sort if
\* both lists are sorted.
Union(order, t1, t2, s, P) ==
    \E ix : /\ Picks(t2 \o t1, s, P, ix)
            /\ BothSorted(order, t1, t2) => Follows(LessPairs(order, t2 \o t1), Len(s), ix)

\* Nothing left in a list belongs before what was taken from the other.
Apart(order, t1, t2, i, j) ==
    /\ \A q \in 1 .. i - 1 : \A r \in j .. Len(t1) : ~ AIsLessThanB(order, t1[r], t2[q])
    /\ \A r \in 1 .. j - 1 : \A q \in i .. Len(t2) : AIsLessThanB(order, t1[r], t2[q])

\* operator+= between two tags.
Merging(order, t1, t2, s, i, j) ==
    /\ s \in Seq(TagLine) /\ i \in 1 .. Len(t2) + 1 /\ j \in 1 .. Len(t1) + 1
    /\ Len(s) = (i - 1) + (j - 1)
    /\ Union(order, t1, t2, s, Taken(Len(t2), i, j))
    /\ BothSorted(order, t1, t2) => Apart(order, t1, t2, i, j)

\* The places of the two lists.
LEMMA Places ==
    ASSUME NEW t1 \in Seq(TagLine), NEW t2 \in Seq(TagLine), NEW all, all = t2 \o t1
    PROVE  /\ all \in Seq(TagLine) /\ Len(all) = Len(t2) + Len(t1)
           /\ Len(t1) \in Nat /\ Len(t2) \in Nat
           /\ \A q \in 1 .. Len(t2) : q \in 1 .. Len(all) /\ all[q] = t2[q]
           /\ \A r \in 1 .. Len(t1) : Len(t2) + r \in 1 .. Len(all) /\ all[Len(t2) + r] = t1[r]
<1>1. PICK N, M : N = Len(t2) /\ M = Len(t1) /\ N \in Nat /\ M \in Nat
  BY LenProperties
<1>2. all \in Seq(TagLine) /\ Len(all) = N + M
  BY <1>1, ConcatProperties
<1>3. \A k \in 1 .. N + M : all[k] = IF k <= N THEN t2[k] ELSE t1[k - N]
  BY <1>1, ConcatProperties
<1>4. \A q \in 1 .. N : q \in 1 .. N + M /\ all[q] = t2[q]
  BY <1>1, <1>3
<1>5. ASSUME NEW r \in 1 .. M PROVE N + r \in 1 .. N + M /\ all[N + r] = t1[r]
  <2>1. N + r \in 1 .. N + M /\ ~ (N + r <= N) /\ (N + r) - N = r
    BY <1>1
  <2>2. QED
    BY <1>3, <2>1
<1>6. QED
  BY <1>1, <1>2, <1>4, <1>5

LEMMA GoesPlaces ==
    ASSUME NEW order \in Seq(Names), NEW t1 \in Seq(TagLine), NEW t2 \in Seq(TagLine),
           NEW n2, n2 = Len(t2), NEW n1, n1 = Len(t1),
           NEW B, B = LessPairs(order, t2 \o t1), BothSorted(order, t1, t2)
    PROVE  /\ \A p, q \in 1 .. n2 : p < q => Goes(B, p, q)
           /\ \A k, l \in 1 .. n1 : k < l => Goes(B, n2 + k, n2 + l)
           /\ \A q \in 1 .. n2 : \A r \in 1 .. n1 :
                /\ ~ AIsLessThanB(order, t1[r], t2[q]) => Goes(B, q, n2 + r)
                /\ AIsLessThanB(order, t1[r], t2[q]) => Goes(B, n2 + r, q)
<1>1. PICK all : all = t2 \o t1
  OBVIOUS
<1>2. /\ all \in Seq(TagLine) /\ n1 \in Nat /\ n2 \in Nat
      /\ \A q \in 1 .. n2 : q \in 1 .. Len(all) /\ all[q] = t2[q]
      /\ \A r \in 1 .. n1 : n2 + r \in 1 .. Len(all) /\ all[n2 + r] = t1[r]
  BY <1>1, Places
<1>3. \A i, j \in 1 .. Len(all) : <<i, j>> \in B <=> AIsLessThanB(order, all[i], all[j])
  BY <1>1, <1>2, LessPairsOrder
<1>4. /\ \A k, l \in 1 .. n1 : k < l => ~ AIsLessThanB(order, t1[l], t1[k])
      /\ \A p, q \in 1 .. n2 : p < q => ~ AIsLessThanB(order, t2[q], t2[p])
  BY DEF BothSorted, Sorted
<1>5. ASSUME NEW p \in 1 .. n2, NEW q \in 1 .. n2, p < q PROVE Goes(B, p, q)
  BY <1>2, <1>3, <1>4, <1>5 DEF Goes
<1>6. ASSUME NEW k \in 1 .. n1, NEW l \in 1 .. n1, k < l PROVE Goes(B, n2 + k, n2 + l)
  <2>1. n2 + k < n2 + l
    BY <1>2, <1>6
  <2>2. <<n2 + l, n2 + k>> \notin B
    BY <1>2, <1>3, <1>4, <1>6
  <2>3. QED
    BY <2>1, <2>2 DEF Goes
<1>7. ASSUME NEW q \in 1 .. n2, NEW r \in 1 .. n1
      PROVE  /\ ~ AIsLessThanB(order, t1[r], t2[q]) => Goes(B, q, n2 + r)
             /\ AIsLessThanB(order, t1[r], t2[q]) => Goes(B, n2 + r, q)
  <2>1. q < n2 + r
    BY <1>2
  <2>2. <<n2 + r, q>> \in B <=> AIsLessThanB(order, t1[r], t2[q])
    BY <1>2, <1>3
  <2>3. QED
    BY <2>1, <2>2 DEF Goes
<1>8. QED
  BY <1>5, <1>6, <1>7

LEMMA MergeStart ==
    ASSUME NEW order \in Seq(Names), NEW t1 \in Seq(TagLine), NEW t2 \in Seq(TagLine)
    PROVE  Merging(order, t1, t2, << >>, 1, 1)
<1>1. Len(t1) \in Nat /\ Len(t2) \in Nat
  BY LenProperties
<1>2. Taken(Len(t2), 1, 1) = {}
  BY <1>1 DEF Taken
<1>3. Picks(t2 \o t1, << >>, {}, << >>)
  BY DEF Picks
<1>4. Follows(LessPairs(order, t2 \o t1), Len(<< >>), << >>)
  BY DEF Follows
<1>5. Union(order, t1, t2, << >>, {})
  BY <1>3, <1>4 DEF Union
<1>6. Apart(order, t1, t2, 1, 1)
  BY DEF Apart
<1>7. PICK e : e = << >>
  OBVIOUS
<1>8. e \in Seq(TagLine) /\ Len(e) = (1 - 1) + (1 - 1)
  BY <1>7
<1>9. 1 \in 1 .. Len(t2) + 1 /\ 1 \in 1 .. Len(t1) + 1
  BY <1>1
<1>10. Union(order, t1, t2, e, Taken(Len(t2), 1, 1))
  BY <1>2, <1>5, <1>7
<1>11. Merging(order, t1, t2, e, 1, 1)
  BY <1>6, <1>8, <1>9, <1>10 DEF Merging
<1>12. QED
  BY <1>7, <1>11

\* Appending the tags u behind place q to what has been merged.
LEMMA UnionMore ==
    ASSUME NEW order \in Seq(Names), NEW t1 \in Seq(TagLine), NEW t2 \in Seq(TagLine),
           NEW all, all = t2 \o t1, NEW B, B = LessPairs(order, all),
           NEW s \in Seq(TagLine), NEW P, Union(order, t1, t2, s, P),
           NEW u \in Seq(TagLine), NEW q \in Nat,
           \A k \in 1 .. Len(u) : u[k] = all[q + k] /\ q + k \notin P,
           BothSorted(order, t1, t2) =>
             /\ \A p \in P : \A l \in 1 .. Len(u) : Goes(B, p, q + l)
             /\ \A k, l \in 1 .. Len(u) : k < l => Goes(B, q + k, q + l),
           NEW Q, Q = P \cup (q + 1 .. q + Len(u))
    PROVE  Union(order, t1, t2, s \o u, Q)
<1>1. PICK ix : Picks(all, s, P, ix) /\ (BothSorted(order, t1, t2) => Follows(B, Len(s), ix))
  BY DEF Union
<1>2. PICK jx : PickedMore(all, s, u, Q, q, ix, jx)
  BY <1>1, PicksMore
<1>2a. /\ Picks(all, s \o u, Q, jx)
       /\ \A k \in 1 .. Len(s) : jx[k] = ix[k]
       /\ \A k \in 1 .. Len(u) : jx[Len(s) + k] = q + k
  BY <1>2 DEF PickedMore
<1>3. PICK N, M : N = Len(s) /\ M = Len(u) /\ N \in Nat /\ M \in Nat /\ Len(s \o u) = N + M
  BY LenProperties, ConcatProperties
<1>4. ASSUME BothSorted(order, t1, t2) PROVE Follows(B, Len(s \o u), jx)
  <2>1. \A k \in 1 .. N : ix[k] \in P
    BY <1>1, <1>3 DEF Picks
  <2>2. \A k \in 1 .. N : \A l \in 1 .. M : Goes(B, ix[k], q + l)
    BY <1>3, <1>4, <2>1
  <2>3. \A k, l \in 1 .. M : k < l => Goes(B, q + k, q + l)
    BY <1>3, <1>4
  <2>4. Follows(B, N, ix)
    BY <1>1, <1>3, <1>4
  <2>5. Follows(B, N + M, jx)
    BY <1>2a, <1>3, <2>2, <2>3, <2>4, FollowsMore
  <2>6. QED
    BY <1>3, <2>5
<1>5. QED
  BY <1>2a, <1>4 DEF Union

LEMMA MergeFirst ==
    ASSUME NEW order \in Seq(Names), NEW t1 \in Seq(TagLine), NEW t2 \in Seq(TagLine),
           NEW s, NEW i, NEW j, Merging(order, t1, t2, s, i, j), i <= Len(t2), j <= Len(t1),
           BothSorted(order, t1, t2) => AIsLessThanB(order, t1[j], t2[i])
    PROVE  Merging(order, t1, t2, Append(s, t1[j]), i, j + 1)
<1>1. PICK n1, n2, all, B : /\ n1 = Len(t1) /\ n2 = Len(t2) /\ all = t2 \o t1
                            /\ B = LessPairs(order, all)
  OBVIOUS
<1>2. /\ n1 \in Nat /\ n2 \in Nat /\ i \in 1 .. n2 /\ j \in 1 .. n1
      /\ s \in Seq(TagLine) /\ Len(s) = (i - 1) + (j - 1)
  <2>1. n1 \in Nat /\ n2 \in Nat
    BY <1>1, LenProperties
  <2>2. QED
    BY <1>1, <2>1 DEF Merging
<1>3. PICK u, q : u = <<t1[j]>> /\ q = n2 + (j - 1)
  OBVIOUS
<1>4. t1[j] \in TagLine /\ u \in Seq(TagLine) /\ Len(u) = 1 /\ u[1] = t1[j] /\ q \in Nat /\ q + 1 = n2 + j
  BY <1>1, <1>2, <1>3, ElementOfSeq
<1>5. all[n2 + j] = t1[j]
  BY <1>1, <1>2, Places
<1>6. PICK P : P = Taken(n2, i, j)
  OBVIOUS
<1>7. \A k \in 1 .. Len(u) : u[k] = all[q + k] /\ q + k \notin P
  <2>1. q + 1 \notin P
    BY <1>2, <1>4, <1>6 DEF Taken
  <2>2. QED
    BY <1>4, <1>5, <2>1
<1>8. ASSUME BothSorted(order, t1, t2)
      PROVE  /\ \A p \in P : \A l \in 1 .. Len(u) : Goes(B, p, q + l)
             /\ \A k, l \in 1 .. Len(u) : k < l => Goes(B, q + k, q + l)
             /\ Apart(order, t1, t2, i, j + 1)
  <2>1. /\ \A k, l \in 1 .. n1 : k < l => Goes(B, n2 + k, n2 + l)
        /\ \A p \in 1 .. n2 : \A r \in 1 .. n1 :
             ~ AIsLessThanB(order, t1[r], t2[p]) => Goes(B, p, n2 + r)
    BY <1>1, <1>8, GoesPlaces
  <2>2. /\ \A p \in 1 .. i - 1 : \A r \in j .. n1 : ~ AIsLessThanB(order, t1[r], t2[p])
        /\ \A r \in 1 .. j - 1 : \A p \in i .. n2 : AIsLessThanB(order, t1[r], t2[p])
    BY <1>1, <1>8 DEF Merging, Apart
  <2>3. ASSUME NEW p \in P PROVE Goes(B, p, n2 + j)
    <3>1. CASE p \in 1 .. i - 1
      <4>1. p \in 1 .. n2 /\ j \in j .. n1
        BY <1>2, <3>1
      <4>2. QED
        BY <1>2, <2>1, <2>2, <3>1, <4>1
    <3>2. CASE p \in n2 + 1 .. n2 + (j - 1)
      <4>1. PICK k \in 1 .. n1 : k < j /\ p = n2 + k
        <5>1. p - n2 \in 1 .. n1 /\ p - n2 < j /\ p = n2 + (p - n2)
          BY <1>2, <3>2
        <5>2. QED
          BY <5>1
      <4>2. QED
        BY <1>2, <2>1, <4>1
    <3>3. QED
      BY <1>6, <3>1, <3>2 DEF Taken
  <2>4. \A p \in P : \A l \in 1 .. Len(u) : Goes(B, p, q + l)
    BY <1>4, <2>3
  <2>5. \A p \in i .. n2 : AIsLessThanB(order, t1[j], t2[p])
    <3>1. SUFFICES ASSUME NEW p \in i .. n2 PROVE AIsLessThanB(order, t1[j], t2[p])
      OBVIOUS
    <3>2. AIsLessThanB(order, t1[j], t2[i])
      BY <1>8
    <3>3. CASE p = i
      BY <3>2, <3>3
    <3>4. CASE p # i
      <4>1. i < p /\ p \in 1 .. n2
        BY <1>2, <3>4
      <4>2. ~ AIsLessThanB(order, t2[p], t2[i])
        BY <1>1, <1>2, <1>8, <4>1 DEF BothSorted, Sorted
      <4>3. t2[p] \in TagLine /\ t2[i] \in TagLine
        BY <1>1, <1>2, <4>1, ElementOfSeq
      <4>4. QED
        BY <1>4, <3>2, <4>2, <4>3, LessOrder
    <3>5. QED
      BY <3>3, <3>4
  <2>6. \A r \in 1 .. (j + 1) - 1 : r = j \/ r \in 1 .. j - 1
    BY <1>2
  <2>7. \A r \in j + 1 .. n1 : r \in j .. n1
    BY <1>2
  <2>8. Apart(order, t1, t2, i, j + 1)
    BY <1>1, <2>2, <2>5, <2>6, <2>7 DEF Apart
  <2>9. QED
    BY <1>4, <2>4, <2>8
<1>9. PICK Q : Q = P \cup (q + 1 .. q + Len(u))
  OBVIOUS
<1>10. Q = Taken(n2, i, j + 1)
  BY <1>2, <1>4, <1>6, <1>9 DEF Taken
<1>11. Union(order, t1, t2, s, P)
  BY <1>1, <1>6 DEF Merging
<1>12. Union(order, t1, t2, s \o u, Q)
  <2>1. BothSorted(order, t1, t2) =>
          /\ \A p \in P : \A l \in 1 .. Len(u) : Goes(B, p, q + l)
          /\ \A k, l \in 1 .. Len(u) : k < l => Goes(B, q + k, q + l)
    BY <1>8
  <2>2. s \in Seq(TagLine) /\ u \in Seq(TagLine) /\ q \in Nat
    BY <1>2, <1>4
  <2>3. QED
    BY <1>1, <1>7, <1>9, <1>11, <2>1, <2>2, UnionMore
<1>13. PICK w : w = Append(s, t1[j])
  OBVIOUS
<1>14. w = s \o u /\ w \in Seq(TagLine) /\ Len(w) = Len(s) + 1
  BY <1>2, <1>3, <1>4, <1>13, AppendProperties, AppendIsConcat
<1>15. j + 1 \in 1 .. n1 + 1 /\ Len(w) = (i - 1) + ((j + 1) - 1) /\ i \in 1 .. n2 + 1
  BY <1>2, <1>14
<1>16. Merging(order, t1, t2, w, i, j + 1)
  BY <1>1, <1>8, <1>10, <1>12, <1>14, <1>15 DEF Merging
<1>17. QED
  BY <1>13, <1>16

LEMMA MergeSecond ==
    ASSUME NEW order \in Seq(Names), NEW t1 \in Seq(TagLine), NEW t2 \in Seq(TagLine),
           NEW s, NEW i, NEW j, Merging(order, t1, t2, s, i, j), i <= Len(t2),
           BothSorted(order, t1, t2) /\ j <= Len(t1) => ~ AIsLessThanB(order, t1[j], t2[i])
    PROVE  Merging(order, t1, t2, Append(s, t2[i]), i + 1, j)
<1>1. PICK n1, n2, all, B : /\ n1 = Len(t1) /\ n2 = Len(t2) /\ all = t2 \o t1
                            /\ B = LessPairs(order, all)
  OBVIOUS
<1>2. /\ n1 \in Nat /\ n2 \in Nat /\ i \in 1 .. n2 /\ j \in 1 .. n1 + 1
      /\ s \in Seq(TagLine) /\ Len(s) = (i - 1) + (j - 1)
  <2>1. n1 \in Nat /\ n2 \in Nat
    BY <1>1, LenProperties
  <2>2. QED
    BY <1>1, <2>1 DEF Merging
<1>3. PICK u, q : u = <<t2[i]>> /\ q = i - 1
  OBVIOUS
<1>4. t2[i] \in TagLine /\ u \in Seq(TagLine) /\ Len(u) = 1 /\ u[1] = t2[i] /\ q \in Nat /\ q + 1 = i
  BY <1>1, <1>2, <1>3, ElementOfSeq
<1>5. all[i] = t2[i]
  BY <1>1, <1>2, Places
<1>6. PICK P : P = Taken(n2, i, j)
  OBVIOUS
<1>7. \A k \in 1 .. Len(u) : u[k] = all[q + k] /\ q + k \notin P
  <2>1. i \notin P
    BY <1>2, <1>6 DEF Taken
  <2>2. QED
    BY <1>4, <1>5, <2>1
<1>8. ASSUME BothSorted(order, t1, t2)
      PROVE  /\ \A p \in P : \A l \in 1 .. Len(u) : Goes(B, p, q + l)
             /\ \A k, l \in 1 .. Len(u) : k < l => Goes(B, q + k, q + l)
             /\ Apart(order, t1, t2, i + 1, j)
  <2>1. /\ \A k, l \in 1 .. n2 : k < l => Goes(B, k, l)
        /\ \A p \in 1 .. n2 : \A r \in 1 .. n1 :
             AIsLessThanB(order, t1[r], t2[p]) => Goes(B, n2 + r, p)
    BY <1>1, <1>8, GoesPlaces
  <2>2. /\ \A p \in 1 .. i - 1 : \A r \in j .. n1 : ~ AIsLessThanB(order, t1[r], t2[p])
        /\ \A r \in 1 .. j - 1 : \A p \in i .. n2 : AIsLessThanB(order, t1[r], t2[p])
    BY <1>1, <1>8 DEF Merging, Apart
  <2>3. ASSUME NEW p \in P PROVE Goes(B, p, i)
    <3>1. CASE p \in 1 .. i - 1
      <4>1. p \in 1 .. n2 /\ p < i
        BY <1>2, <3>1
      <4>2. QED
        BY <1>2, <2>1, <4>1
    <3>2. CASE p \in n2 + 1 .. n2 + (j - 1)
      <4>1. PICK k \in 1 .. n1 : k \in 1 .. j - 1 /\ p = n2 + k
        <5>1. p - n2 \in 1 .. n1 /\ p - n2 \in 1 .. j - 1 /\ p = n2 + (p - n2)
          BY <1>2, <3>2
        <5>2. QED
          BY <5>1
      <4>2. AIsLessThanB(order, t1[k], t2[i])
        BY <1>2, <2>2, <4>1
      <4>3. QED
        BY <1>2, <2>1, <4>1, <4>2
    <3>3. QED
      BY <1>6, <3>1, <3>2 DEF Taken
  <2>4. \A p \in P : \A l \in 1 .. Len(u) : Goes(B, p, q + l)
    BY <1>4, <2>3
  <2>5. \A r \in j .. n1 : ~ AIsLessThanB(order, t1[r], t2[i])
    <3>1. SUFFICES ASSUME NEW r \in j .. n1 PROVE ~ AIsLessThanB(order, t1[r], t2[i])
      OBVIOUS
    <3>2. j \in 1 .. n1 /\ r \in 1 .. n1
      BY <1>2
    <3>3. ~ AIsLessThanB(order, t1[j], t2[i])
      BY <1>1, <1>2, <1>8, <3>2
    <3>4. CASE r = j
      BY <3>3, <3>4
    <3>5. CASE r # j
      <4>1. j < r
        BY <1>2, <3>5
      <4>2. ~ AIsLessThanB(order, t1[r], t1[j])
        BY <1>1, <1>8, <3>2, <4>1 DEF BothSorted, Sorted
      <4>3. t1[r] \in TagLine /\ t1[j] \in TagLine
        BY <1>1, <3>2, ElementOfSeq
      <4>4. QED
        BY <1>4, <3>3, <4>2, <4>3, LessOrder
    <3>6. QED
      BY <3>4, <3>5
  <2>6. \A p \in 1 .. (i + 1) - 1 : p = i \/ p \in 1 .. i - 1
    BY <1>2
  <2>7. \A p \in i + 1 .. n2 : p \in i .. n2
    BY <1>2
  <2>8. Apart(order, t1, t2, i + 1, j)
    BY <1>1, <2>2, <2>5, <2>6, <2>7 DEF Apart
  <2>9. QED
    BY <1>4, <2>4, <2>8
<1>9. PICK Q : Q = P \cup (q + 1 .. q + Len(u))
  OBVIOUS
<1>10. Q = Taken(n2, i + 1, j)
  BY <1>2, <1>4, <1>6, <1>9 DEF Taken
<1>11. Union(order, t1, t2, s, P)
  BY <1>1, <1>6 DEF Merging
<1>12. Union(order, t1, t2, s \o u, Q)
  <2>1. BothSorted(order, t1, t2) =>
          /\ \A p \in P : \A l \in 1 .. Len(u) : Goes(B, p, q + l)
          /\ \A k, l \in 1 .. Len(u) : k < l => Goes(B, q + k, q + l)
    BY <1>8
  <2>2. s \in Seq(TagLine) /\ u \in Seq(TagLine) /\ q \in Nat
    BY <1>2, <1>4
  <2>3. QED
    BY <1>1, <1>7, <1>9, <1>11, <2>1, <2>2, UnionMore
<1>13. PICK w : w = Append(s, t2[i])
  OBVIOUS
<1>14. w = s \o u /\ w \in Seq(TagLine) /\ Len(w) = Len(s) + 1
  BY <1>2, <1>3, <1>4, <1>13, AppendProperties, AppendIsConcat
<1>15. i + 1 \in 1 .. n2 + 1 /\ Len(w) = ((i + 1) - 1) + (j - 1) /\ j \in 1 .. n1 + 1
  BY <1>2, <1>14
<1>16. Merging(order, t1, t2, w, i + 1, j)
  BY <1>1, <1>8, <1>10, <1>12, <1>14, <1>15 DEF Merging
<1>17. QED
  BY <1>13, <1>16

\* The result: all the tags of both lists.
Merged(order, t1, t2, s) ==
    /\ s \in Seq(TagLine) /\ Len(s) = Len(t2) + Len(t1)
    /\ Union(order, t1, t2, s, 1 .. Len(t2) + Len(t1))

\* The rest of the first list is appended as it is.
LEMMA MergeRest ==
    ASSUME NEW order \in Seq(Names), NEW t1 \in Seq(TagLine), NEW t2 \in Seq(TagLine),
           NEW s, NEW i, NEW j, Merging(order, t1, t2, s, i, j), i > Len(t2),
           NEW w, w = s \o SubSeq(t1, j, Len(t1))
    PROVE  Merged(order, t1, t2, w)
<1>1. PICK n1, n2, all, B : /\ n1 = Len(t1) /\ n2 = Len(t2) /\ all = t2 \o t1
                            /\ B = LessPairs(order, all)
  OBVIOUS
<1>2. /\ n1 \in Nat /\ n2 \in Nat /\ i = n2 + 1 /\ j \in 1 .. n1 + 1
      /\ s \in Seq(TagLine) /\ Len(s) = n2 + (j - 1)
  <2>1. n1 \in Nat /\ n2 \in Nat
    BY <1>1, LenProperties
  <2>2. i \in 1 .. n2 + 1 /\ j \in 1 .. n1 + 1 /\ s \in Seq(TagLine) /\ Len(s) = (i - 1) + (j - 1)
    BY <1>1 DEF Merging
  <2>3. i = n2 + 1
    <3>1. i > n2
      BY <1>1
    <3>2. i \in Nat /\ i <= n2 + 1
      BY <2>1, <2>2
    <3>3. QED
      BY <2>1, <3>1, <3>2
  <2>4. QED
    BY <2>1, <2>2, <2>3
<1>3. PICK u, q, m : u = SubSeq(t1, j, n1) /\ q = n2 + (j - 1) /\ m = n1 - (j - 1)
  OBVIOUS
<1>4. q \in Nat /\ m \in Nat
  BY <1>2, <1>3
<1>5. u \in Seq(TagLine) /\ Len(u) = m /\ \A k \in 1 .. m : u[k] = t1[(j - 1) + k]
  <2>1. u \in Seq(TagLine)
    <3>1. \A k \in j .. n1 : k \in 1 .. n1 /\ t1[k] \in TagLine
      BY <1>1, <1>2, ElementOfSeq
    <3>2. QED
      BY <1>1, <1>2, <1>3, <3>1, SubSeqProperties
  <2>2. Len(u) = m
    BY <1>1, <1>2, <1>3, SubSeqProperties
  <2>3. ASSUME NEW k \in 1 .. m PROVE u[k] = t1[(j - 1) + k]
    <3>1. k \in 1 .. n1 - j + 1 /\ j + k - 1 = (j - 1) + k
      BY <1>2, <1>3
    <3>2. QED
      BY <1>1, <1>2, <1>3, <3>1, SubSeqProperties
  <2>4. QED
    BY <2>1, <2>2, <2>3
<1>6. PICK P : P = Taken(n2, i, j)
  OBVIOUS
<1>7. \A k \in 1 .. m : (j - 1) + k \in j .. n1 /\ (j - 1) + k \in 1 .. n1 /\ q + k = n2 + ((j - 1) + k)
  BY <1>2, <1>3
<1>8. \A r \in 1 .. n1 : all[n2 + r] = t1[r]
  BY <1>1, Places
<1>9. ASSUME NEW k \in 1 .. Len(u) PROVE u[k] = all[q + k] /\ q + k \notin P
  <2>1. k \in 1 .. m
    BY <1>5
  <2>2. u[k] = all[q + k]
    BY <1>5, <1>7, <1>8, <2>1
  <2>3. q + k \notin P
    BY <1>2, <1>3, <1>6, <2>1 DEF Taken
  <2>4. QED
    BY <2>2, <2>3
<1>10. ASSUME BothSorted(order, t1, t2)
       PROVE  /\ \A p \in P : \A l \in 1 .. Len(u) : Goes(B, p, q + l)
              /\ \A k, l \in 1 .. Len(u) : k < l => Goes(B, q + k, q + l)
  <2>1. /\ \A k, l \in 1 .. n1 : k < l => Goes(B, n2 + k, n2 + l)
        /\ \A p \in 1 .. n2 : \A r \in 1 .. n1 :
             ~ AIsLessThanB(order, t1[r], t2[p]) => Goes(B, p, n2 + r)
    BY <1>1, <1>10, GoesPlaces
  <2>2. \A p \in 1 .. i - 1 : \A r \in j .. n1 : ~ AIsLessThanB(order, t1[r], t2[p])
    BY <1>1, <1>10 DEF Merging, Apart
  <2>3. ASSUME NEW p \in P, NEW l \in 1 .. m PROVE Goes(B, p, q + l)
    <3>1. CASE p \in 1 .. i - 1
      <4>1. p \in 1 .. n2
        BY <1>2, <3>1
      <4>2. ~ AIsLessThanB(order, t1[(j - 1) + l], t2[p])
        BY <1>7, <2>2, <3>1
      <4>3. QED
        BY <1>7, <2>1, <4>1, <4>2
    <3>2. CASE p \in n2 + 1 .. n2 + (j - 1)
      <4>1. PICK k \in 1 .. n1 : k <= j - 1 /\ p = n2 + k
        <5>1. p - n2 \in 1 .. n1 /\ p - n2 <= j - 1 /\ p = n2 + (p - n2)
          BY <1>2, <3>2
        <5>2. QED
          BY <5>1
      <4>2. k < (j - 1) + l
        BY <1>2, <4>1
      <4>3. QED
        BY <1>7, <2>1, <4>1, <4>2
    <3>3. QED
      BY <1>6, <3>1, <3>2 DEF Taken
  <2>4. ASSUME NEW k \in 1 .. m, NEW l \in 1 .. m, k < l PROVE Goes(B, q + k, q + l)
    <3>1. (j - 1) + k < (j - 1) + l
      BY <1>2, <1>4, <2>4
    <3>2. QED
      BY <1>7, <2>1, <3>1
  <2>5. QED
    BY <1>5, <2>3, <2>4
<1>11. PICK Q : Q = P \cup (q + 1 .. q + Len(u))
  OBVIOUS
<1>12. Q = 1 .. n2 + n1
  <2>1. P = 1 .. q
    BY <1>2, <1>3, <1>6 DEF Taken
  <2>2. q + m = n2 + n1
    BY <1>2, <1>3
  <2>3. Q = (1 .. q) \cup (q + 1 .. n2 + n1)
    BY <1>5, <1>11, <2>1, <2>2
  <2>4. q <= n2 + n1
    BY <1>2, <1>3
  <2>5. QED
    BY <1>2, <1>4, <2>3, <2>4
<1>13. Union(order, t1, t2, s, P)
  BY <1>1, <1>6 DEF Merging
<1>14. Union(order, t1, t2, s \o u, Q)
  <2>1. BothSorted(order, t1, t2) =>
          /\ \A p \in P : \A l \in 1 .. Len(u) : Goes(B, p, q + l)
          /\ \A k, l \in 1 .. Len(u) : k < l => Goes(B, q + k, q + l)
    BY <1>10
  <2>2. s \in Seq(TagLine) /\ u \in Seq(TagLine) /\ q \in Nat
    BY <1>2, <1>4, <1>5
  <2>3. \A k \in 1 .. Len(u) : u[k] = all[q + k] /\ q + k \notin P
    BY <1>9
  <2>4. QED
    BY <1>1, <1>11, <1>13, <2>1, <2>2, <2>3, UnionMore
<1>15. w = s \o u
  BY <1>1, <1>3
<1>16. w \in Seq(TagLine) /\ Len(w) = Len(s) + m
  BY <1>2, <1>5, <1>15, ConcatProperties
<1>17. Len(w) = n2 + n1
  BY <1>2, <1>3, <1>16
<1>18. QED
  BY <1>1, <1>12, <1>14, <1>15, <1>16, <1>17 DEF Merged

LEMMA MergedIsSort ==
    ASSUME NEW order \in Seq(Names), NEW t1 \in Seq(TagLine), NEW t2 \in Seq(TagLine), NEW s,
           Merged(order, t1, t2, s), BothSorted(order, t1, t2)
    PROVE  s = StableSort(order, t2 \o t1)
<1>1. PICK all, n : all = t2 \o t1 /\ n = Len(t2) + Len(t1)
  OBVIOUS
<1>2. all \in Seq(TagLine) /\ Len(all) = n
  BY <1>1, Places
<1>3. s \in Seq(TagLine) /\ Len(s) = n /\ Union(order, t1, t2, s, 1 .. n)
  BY <1>1 DEF Merged
<1>4. PICK ix : Picks(all, s, 1 .. n, ix) /\ Follows(LessPairs(order, all), n, ix)
  BY <1>1, <1>3 DEF Union
<1>5. ix \in [1 .. n -> 1 .. n] /\ \A k \in 1 .. n : s[k] = all[ix[k]]
  BY <1>3, <1>4 DEF Picks
<1>6. \A i, j \in 1 .. n : i < j => Goes(LessPairs(order, all), ix[i], ix[j])
  BY <1>4 DEF Follows
<1>7. StableSort(order, all) = [k \in 1 .. n |-> all[ix[k]]]
  BY <1>2, <1>5, <1>6, StableSortFollows
<1>8. s = [k \in 1 .. n |-> s[k]]
  BY <1>3
<1>9. QED
  BY <1>1, <1>5, <1>7, <1>8

\* Sorting changes nothing where the tags are in order.
LEMMA SortOfSorted ==
    ASSUME NEW order \in Seq(Names), NEW s \in Seq(TagLine), Sorted(order, s)
    PROVE  StableSort(order, s) = s
<1>1. PICK n, ix, B : n = Len(s) /\ ix = [k \in 1 .. n |-> k] /\ B = LessPairs(order, s)
  OBVIOUS
<1>2. n \in Nat /\ ix \in [1 .. n -> 1 .. n] /\ \A k \in 1 .. n : ix[k] = k
  BY <1>1, LenProperties
<1>3. \A i, j \in 1 .. n : <<i, j>> \in B <=> AIsLessThanB(order, s[i], s[j])
  BY <1>1, LessPairsOrder
<1>4. \A i, j \in 1 .. n : i < j => Goes(B, ix[i], ix[j])
  BY <1>1, <1>2, <1>3 DEF Goes, Sorted
<1>5. StableSort(order, s) = [k \in 1 .. n |-> s[ix[k]]]
  BY <1>1, <1>2, <1>4, StableSortFollows
<1>6. s = [k \in 1 .. n |-> s[k]]
  BY <1>1
<1>7. QED
  BY <1>2, <1>5, <1>6

\* Sorting the result keeps its tags.
LEMMA MergedSort ==
    ASSUME NEW order \in Seq(Names), NEW t1 \in Seq(TagLine), NEW t2 \in Seq(TagLine), NEW s,
           Merged(order, t1, t2, s)
    PROVE  Merged(order, t1, t2, StableSort(order, s))
<1>1. PICK all, n, w : all = t2 \o t1 /\ n = Len(t2) + Len(t1) /\ w = StableSort(order, s)
  OBVIOUS
<1>2. all \in Seq(TagLine) /\ Len(all) = n /\ n \in Nat
  BY <1>1, Places
<1>3. s \in Seq(TagLine) /\ Len(s) = n /\ Union(order, t1, t2, s, 1 .. n)
  BY <1>1 DEF Merged
<1>4. CASE BothSorted(order, t1, t2)
  <2>1. s = StableSort(order, all)
    BY <1>1, <1>4, MergedIsSort
  <2>2. Sorted(order, s)
    BY <1>2, <2>1, StableSortSorted
  <2>3. StableSort(order, s) = s
    BY <1>3, <2>2, SortOfSorted
  <2>4. QED
    BY <2>3
<1>5. CASE ~ BothSorted(order, t1, t2)
  <2>1. PICK ix : Picks(all, s, 1 .. n, ix)
    BY <1>1, <1>3 DEF Union
  <2>2. /\ ix \in [1 .. n -> 1 .. n]
        /\ \A k \in 1 .. n : s[k] = all[ix[k]]
        /\ \A p \in 1 .. n : \E k \in 1 .. n : ix[k] = p
        /\ \A k, l \in 1 .. n : ix[k] = ix[l] => k = l
    BY <1>3, <2>1 DEF Picks
  <2>3. PICK B : B = LessPairs(order, s)
    OBVIOUS
  <2>3a. PICK hx \in [1 .. Len(s) -> 1 .. Len(s)] :
           /\ StableSort(order, s) = [k \in 1 .. Len(s) |-> s[hx[k]]]
           /\ \A i, j \in 1 .. Len(s) : i < j => Goes(LessPairs(order, s), hx[i], hx[j])
           /\ \A i \in 1 .. Len(s) : \E k \in 1 .. Len(s) : hx[k] = i
    BY <1>3, StableSortResult
  <2>4. /\ hx \in [1 .. n -> 1 .. n] /\ w = [k \in 1 .. n |-> s[hx[k]]]
        /\ \A i, j \in 1 .. n : i < j => Goes(B, hx[i], hx[j])
        /\ \A i \in 1 .. n : \E k \in 1 .. n : hx[k] = i
    BY <1>1, <1>3, <2>3, <2>3a
  <2>5. IsOrder(B, n)
    BY <1>3, <2>3, LessPairsOrder
  <2>6. \A i \in 1 .. n : ~ Goes(B, i, i)
    BY <1>2, <2>5, GoesTotal
  <2>7. ASSUME NEW k \in 1 .. n, NEW l \in 1 .. n, hx[k] = hx[l] PROVE k = l
    <3>1. ~ (k < l) /\ ~ (l < k)
      BY <2>4, <2>6, <2>7
    <3>2. QED
      BY <1>2, <3>1
  <2>8. PICK jx : jx = [k \in 1 .. n |-> ix[hx[k]]]
    OBVIOUS
  <2>9. jx \in [1 .. n -> 1 .. n] /\ \A k \in 1 .. n : jx[k] = ix[hx[k]] /\ hx[k] \in 1 .. n
    BY <2>2, <2>4, <2>8
  <2>10. w \in Seq(TagLine) /\ Len(w) = n
    BY <1>1, <1>3, StableSortSorted
  <2>11. ASSUME NEW k \in 1 .. n PROVE w[k] = all[jx[k]]
    <3>1. w[k] = s[hx[k]] /\ hx[k] \in 1 .. n
      BY <2>4
    <3>2. s[hx[k]] = all[ix[hx[k]]]
      BY <2>2, <3>1
    <3>3. QED
      BY <2>9, <3>1, <3>2
  <2>12. ASSUME NEW p \in 1 .. n PROVE \E k \in 1 .. n : jx[k] = p
    <3>1. PICK i \in 1 .. n : ix[i] = p
      BY <2>2
    <3>2. PICK k \in 1 .. n : hx[k] = i
      BY <2>4
    <3>3. QED
      BY <2>9, <3>1, <3>2
  <2>13. ASSUME NEW k \in 1 .. n, NEW l \in 1 .. n, jx[k] = jx[l] PROVE k = l
    <3>1. ix[hx[k]] = ix[hx[l]] /\ hx[k] \in 1 .. n /\ hx[l] \in 1 .. n
      BY <2>9, <2>13
    <3>2. hx[k] = hx[l]
      BY <2>2, <3>1
    <3>3. QED
      BY <2>7, <3>2
  <2>14. Picks(all, w, 1 .. n, jx)
    BY <2>9, <2>10, <2>11, <2>12, <2>13 DEF Picks
  <2>15. Union(order, t1, t2, w, 1 .. n)
    BY <1>1, <1>5, <2>14 DEF Union
  <2>16. QED
    BY <1>1, <2>10, <2>15 DEF Merged
<1>6. QED
  BY <1>4, <1>5

\* What picks every place once has every tag as often.
LEMMA PicksCount ==
    ASSUME NEW all \in Seq(TagLine), NEW s \in Seq(TagLine), NEW n, n = Len(all), NEW ix,
           Picks(all, s, 1 .. n, ix), NEW t
    PROVE  Count(s, t) = Count(all, t)
<1>1. PICK m, S, T : /\ m = Len(s) /\ S = {i \in 1 .. m : s[i] = t}
                     /\ T = {i \in 1 .. n : all[i] = t}
  OBVIOUS
<1>2. m \in Nat /\ n \in Nat
  BY <1>1, LenProperties
<1>3. /\ ix \in [1 .. m -> 1 .. n]
      /\ \A k \in 1 .. m : s[k] = all[ix[k]]
      /\ \A p \in 1 .. n : \E k \in 1 .. m : ix[k] = p
      /\ \A k, l \in 1 .. m : ix[k] = ix[l] => k = l
  BY <1>1 DEF Picks
<1>4. PICK hx : hx = [k \in S |-> ix[k]]
  OBVIOUS
<1>5. hx \in [S -> T] /\ \A k \in S : hx[k] = ix[k]
  BY <1>1, <1>3, <1>4
<1>6. \A k, l \in S : hx[k] = hx[l] => k = l
  BY <1>1, <1>3, <1>5
<1>7. \A p \in T : \E k \in S : hx[k] = p
  BY <1>1, <1>3, <1>5
<1>8. hx \in Bijection(S, T)
  BY <1>5, <1>6, <1>7 DEF Bijection, Injection, Surjection, IsInjective
<1>9. IsFiniteSet(S)
  <2>1. IsFiniteSet(1 .. m) /\ S \subseteq 1 .. m
    BY <1>1, <1>2, FS_Interval
  <2>2. QED
    BY <2>1, FS_Subset
<1>10. Cardinality(T) = Cardinality(S)
  BY <1>8, <1>9, FS_Bijection DEF ExistsBijection
<1>11. QED
  BY <1>1, <1>10 DEF Count

LEMMA MergedCount ==
    ASSUME NEW order \in Seq(Names), NEW t1 \in Seq(TagLine), NEW t2 \in Seq(TagLine), NEW s,
           Merged(order, t1, t2, s), NEW t
    PROVE  Count(s, t) = Count(t1 \o t2, t)
<1>1. PICK all, n, w, n1, n2 : /\ all = t2 \o t1 /\ n = Len(t2) + Len(t1) /\ w = t1 \o t2
                               /\ n1 = Len(t1) /\ n2 = Len(t2)
  OBVIOUS
<1>2. /\ all \in Seq(TagLine) /\ Len(all) = n /\ n1 \in Nat /\ n2 \in Nat /\ n = n2 + n1 /\ n \in Nat
      /\ \A q \in 1 .. n2 : all[q] = t2[q]
      /\ \A r \in 1 .. n1 : all[n2 + r] = t1[r]
  BY <1>1, Places
<1>3. /\ w \in Seq(TagLine) /\ Len(w) = n
      /\ \A q \in 1 .. n1 : w[q] = t1[q]
      /\ \A r \in 1 .. n2 : w[n1 + r] = t2[r]
  BY <1>1, <1>2, Places
<1>4. s \in Seq(TagLine) /\ Union(order, t1, t2, s, 1 .. n)
  BY <1>1 DEF Merged
<1>5. PICK ix : Picks(all, s, 1 .. n, ix)
  BY <1>1, <1>4 DEF Union
<1>6. Count(s, t) = Count(all, t)
  BY <1>2, <1>4, <1>5, PicksCount
<1>7. PICK hx : hx = [k \in 1 .. n |-> IF k <= n1 THEN n2 + k ELSE k - n1]
  OBVIOUS
<1>8. /\ \A k \in 1 .. n1 : k \in 1 .. n /\ hx[k] = n2 + k
      /\ \A r \in 1 .. n2 : n1 + r \in 1 .. n /\ hx[n1 + r] = r
  BY <1>2, <1>7
<1>9. hx \in [1 .. n -> 1 .. n]
  BY <1>2, <1>7
<1>10. \A k \in 1 .. n : k \in 1 .. n1 \/ (k - n1 \in 1 .. n2 /\ k = n1 + (k - n1))
  BY <1>2
<1>11. ASSUME NEW k \in 1 .. n PROVE w[k] = all[hx[k]]
  <2>1. CASE k \in 1 .. n1
    <3>1. w[k] = t1[k] /\ hx[k] = n2 + k /\ all[n2 + k] = t1[k]
      BY <1>2, <1>3, <1>8, <2>1
    <3>2. QED
      BY <3>1
  <2>2. CASE k \notin 1 .. n1
    <3>1. PICK r \in 1 .. n2 : k = n1 + r
      BY <1>10, <2>2
    <3>2. w[n1 + r] = t2[r] /\ hx[n1 + r] = r /\ all[r] = t2[r]
      BY <1>2, <1>3, <1>8
    <3>3. QED
      BY <3>1, <3>2
  <2>3. QED
    BY <2>1, <2>2
<1>12. ASSUME NEW p \in 1 .. n PROVE \E k \in 1 .. n : hx[k] = p
  <2>1. CASE p \in 1 .. n2
    BY <1>8, <2>1
  <2>2. CASE p \notin 1 .. n2
    <3>1. p - n2 \in 1 .. n1 /\ n2 + (p - n2) = p
      BY <1>2, <2>2
    <3>2. QED
      BY <1>8, <3>1
  <2>3. QED
    BY <2>1, <2>2
<1>13. \A k, l \in 1 .. n : hx[k] = hx[l] => k = l
  BY <1>2, <1>7
<1>14. Picks(all, w, 1 .. n, hx)
  BY <1>3, <1>9, <1>11, <1>12, <1>13 DEF Picks
<1>15. Count(w, t) = Count(all, t)
  <2>1. all \in Seq(TagLine) /\ n = Len(all)
    BY <1>2
  <2>2. w \in Seq(TagLine)
    BY <1>3
  <2>3. QED
    BY <1>14, <2>1, <2>2, PicksCount
<1>16. QED
  BY <1>1, <1>6, <1>15

-----------------------------------------------------------------------------
(* merge.                                                                       *)

MergingInv ==
    /\ pc = "read" => iter = 1 /\ iter2 = 1 /\ same = FALSE /\ out = << >>
    /\ pc = "merge" =>
         /\ som[1] = Tags(so[1]) /\ som[2] = Tags(so[2])
         /\ Merging(tagOrder, som[1], som[2], out, iter, iter2)
         /\ same => iter <= Len(som[2]) /\ iter2 > 1 /\ som[1][iter2 - 1].first = som[2][iter].first
    /\ command = "merge" /\ pc \in {"sort", "write"} =>
         Merged(tagOrder, Tags(so[1]), Tags(so[2]), som[1])
    /\ command = "merge" /\ pc = "write" /\ sortFlag => Sorted(tagOrder, som[1])
    /\ command = "merge" /\ args = "ok" /\ pc = "ok" =>
         /\ Merged(tagOrder, Tags(so[1]), Tags(so[2]), out)
         /\ sortFlag => Sorted(tagOrder, out)

\* The tests of the inner loops are the comparison: once the second loop has begun
\* no tag of a sorted file 1 begins before the tag of file 2.
LEMMA goesBeforeIsLess ==
    ASSUME TypeInv, MergingInv, pc = "merge", iter <= Len(som[2]), iter2 <= Len(som[1])
    PROVE  /\ goesBefore(som[1][iter2], som[2][iter]) =>
                AIsLessThanB(tagOrder, som[1][iter2], som[2][iter])
           /\ Sorted(tagOrder, som[1]) /\ AIsLessThanB(tagOrder, som[1][iter2], som[2][iter]) =>
                goesBefore(som[1][iter2], som[2][iter])
<1>1. som \in [1 .. 2 -> Seq(TagLine)] /\ iter \in Positions /\ iter2 \in Positions
  BY DEF TypeInv, MergeInv
<1>2. PICK t1, t2, i, j : t1 = som[1] /\ t2 = som[2] /\ i = iter /\ j = iter2
  OBVIOUS
<1>3. /\ t1 \in Seq(TagLine) /\ t2 \in Seq(TagLine) /\ Len(t1) \in Nat /\ Len(t2) \in Nat
      /\ i \in 1 .. Len(t2) /\ j \in 1 .. Len(t1)
  <2>1. t1 \in Seq(TagLine) /\ t2 \in Seq(TagLine)
    BY <1>1, <1>2
  <2>2. QED
    BY <1>1, <1>2, <2>1, LenProperties DEF Positions
<1>4. PICK a, b : a = t1[j] /\ b = t2[i] /\ a \in TagLine /\ b \in TagLine
  BY <1>3, ElementOfSeq
<1>5. a.first \in Nat /\ b.first \in Nat /\ a.second \in Nat /\ b.second \in Nat
  BY <1>4 DEF TagLine
<1>6. goesBefore(a, b) => AIsLessThanB(tagOrder, a, b)
  BY <1>5 DEF goesBefore, AIsLessThanB
<1>7. ASSUME Sorted(tagOrder, t1), AIsLessThanB(tagOrder, a, b) PROVE goesBefore(a, b)
  <2>1. CASE ~ same
    BY <1>5, <1>7, <2>1 DEF goesBefore, AIsLessThanB
  <2>2. CASE same
    <3>1. j > 1 /\ t1[j - 1].first = b.first
      BY <1>2, <1>4, <2>2 DEF MergingInv
    <3>2. j - 1 \in 1 .. Len(t1) /\ j - 1 < j
      BY <1>3, <3>1
    <3>3. ~ AIsLessThanB(tagOrder, a, t1[j - 1])
      BY <1>3, <1>4, <1>7, <3>2 DEF Sorted
    <3>4. t1[j - 1] \in TagLine
      BY <1>3, <3>2, ElementOfSeq
    <3>5. ~ (a.first < b.first)
      BY <3>1, <3>3 DEF AIsLessThanB
    <3>6. QED
      BY <1>5, <1>7, <3>5 DEF goesBefore, AIsLessThanB
  <2>3. QED
    BY <2>1, <2>2
<1>8. QED
  BY <1>2, <1>4, <1>6, <1>7

LEMMA mergeTagsMerges ==
    ASSUME TypeInv, MergingInv, mergeTags, UNCHANGED <<script, ran, args>>
    PROVE  MergingInv'
<1>1. pc = "merge" /\ command = "merge" /\ tagOrder \in Seq(Names)
  BY DEF mergeTags, TypeInv, PhaseInv, SessionInv
<1>2. UNCHANGED <<command, so, tagOrder, flags>>
  BY DEF mergeTags, mergeRest, inputs
<1>3. som[1] \in Seq(TagLine) /\ som[2] \in Seq(TagLine) /\ som \in [1 .. 2 -> Seq(TagLine)]
  BY DEF TypeInv, MergeInv
<1>4. /\ som[1] = Tags(so[1]) /\ som[2] = Tags(so[2])
      /\ Merging(tagOrder, som[1], som[2], out, iter, iter2)
  BY <1>1 DEF MergingInv
<1>5. /\ iter \in 1 .. Len(som[2]) + 1 /\ iter2 \in 1 .. Len(som[1]) + 1
      /\ Len(som[1]) \in Nat /\ Len(som[2]) \in Nat
  BY <1>3, <1>4, LenProperties DEF Merging
<1>6. CASE iter > Len(som[2])
  <2>1. PICK w : w = out \o SubSeq(som[1], iter2, Len(som[1]))
    OBVIOUS
  <2>2. som' = [som EXCEPT ![1] = w] /\ pc' = (IF sortFlag THEN "sort" ELSE "write")
    BY <1>6, <2>1 DEF mergeTags
  <2>3. Merged(tagOrder, som[1], som[2], w)
    BY <1>1, <1>3, <1>4, <1>6, <2>1, MergeRest
  <2>4. som'[1] = w
    BY <1>3, <2>2
  <2>5. pc' \in {"sort", "write"} /\ (pc' = "write" => ~ sortFlag) /\ sortFlag' = sortFlag
    BY <1>2, <2>2 DEF sortFlag
  <2>6. Merged(tagOrder', Tags(so'[1]), Tags(so'[2]), som'[1])
    BY <1>2, <1>4, <2>3, <2>4
  <2>7. QED
    BY <2>5, <2>6 DEF MergingInv
<1>7. CASE /\ iter <= Len(som[2])
           /\ iter2 <= Len(som[1]) /\ goesBefore(som[1][iter2], som[2][iter])
           /\ out' = Append(out, som[1][iter2])
           /\ iter2' = iter2 + 1
           /\ same' = (som[1][iter2].first = som[2][iter].first)
           /\ UNCHANGED <<iter, som, pc>>
  <2>1. AIsLessThanB(tagOrder, som[1][iter2], som[2][iter])
    BY <1>1, <1>7, goesBeforeIsLess
  <2>2. Merging(tagOrder, som[1], som[2], Append(out, som[1][iter2]), iter, iter2 + 1)
    BY <1>1, <1>3, <1>4, <1>7, <2>1, MergeFirst
  <2>3. Merging(tagOrder', som'[1], som'[2], out', iter', iter2')
    BY <1>2, <1>7, <2>2
  <2>4. iter2' > 1 /\ iter2' - 1 = iter2
    BY <1>5, <1>7
  <2>5. same' => iter' <= Len(som'[2]) /\ iter2' > 1 /\ som'[1][iter2' - 1].first = som'[2][iter'].first
    BY <1>7, <2>4
  <2>6. som'[1] = Tags(so'[1]) /\ som'[2] = Tags(so'[2]) /\ pc' = "merge"
    BY <1>1, <1>2, <1>4, <1>7
  <2>7. QED
    BY <2>3, <2>5, <2>6 DEF MergingInv
<1>8. CASE /\ iter <= Len(som[2])
           /\ iter2 <= Len(som[1]) => ~ goesBefore(som[1][iter2], som[2][iter])
           /\ out' = Append(out, som[2][iter])
           /\ iter' = iter + 1
           /\ same' = FALSE
           /\ UNCHANGED <<iter2, som, pc>>
  <2>1. BothSorted(tagOrder, som[1], som[2]) /\ iter2 <= Len(som[1]) =>
          ~ AIsLessThanB(tagOrder, som[1][iter2], som[2][iter])
    BY <1>1, <1>8, goesBeforeIsLess DEF BothSorted
  <2>2. Merging(tagOrder, som[1], som[2], Append(out, som[2][iter]), iter + 1, iter2)
    BY <1>1, <1>3, <1>4, <1>8, <2>1, MergeSecond
  <2>3. Merging(tagOrder', som'[1], som'[2], out', iter', iter2')
    BY <1>2, <1>8, <2>2
  <2>4. som'[1] = Tags(so'[1]) /\ som'[2] = Tags(so'[2]) /\ pc' = "merge"
    BY <1>1, <1>2, <1>4, <1>8
  <2>5. ~ same'
    BY <1>8
  <2>6. QED
    BY <2>3, <2>4, <2>5 DEF MergingInv
<1>9. QED
  <2>1. CASE ~ (iter > Len(som[2]))
    <3>1. iter <= Len(som[2])
      BY <1>5, <2>1
    <3>2. QED
      BY <1>7, <1>8, <2>1, <3>1 DEF mergeTags
  <2>2. QED
    BY <1>6, <2>1

LEMMA readDataMerges ==
    ASSUME TypeInv, FilesInv, MergingInv, readData, UNCHANGED <<script, ran, args>>
    PROVE  MergingInv'
<1>1. /\ pc = "read" /\ Running /\ command \in {"sort", "merge", "verify"}
      /\ f \in 1 .. Len(so) /\ f \in 1 .. 2 /\ tagOrder \in Seq(Names)
  BY DEF readData, Running, TypeInv, PhaseInv, MergeInv, SessionInv
<1>2. UNCHANGED <<command, so, tagOrder, flags, args, iter, iter2, same, out>>
  BY DEF readData, mergeRest, inputs
<1>3. iter = 1 /\ iter2 = 1 /\ same = FALSE /\ out = << >>
  BY <1>1 DEF MergingInv
<1>4. ReadMore \/ ReadRefused \/ ReadEnd
  BY readDataOutcome DEF FilesInv
<1>5. CASE ReadMore \/ ReadRefused
  <2>1. pc' \in {"read", "error"}
    BY <1>5 DEF ReadMore, ReadRefused
  <2>2. QED
    BY <1>2, <1>3, <2>1 DEF MergingInv
<1>6. CASE ReadEnd
  <2>1. pc' = afterRead /\ som' = som /\ som[f] = Tags(so[f])
    BY <1>6 DEF ReadEnd
  <2>2. /\ pc' \in {"read", "sort", "ok", "merge"}
        /\ pc' = "merge" => command = "merge" /\ f = 2
        /\ pc' = "ok" => command = "verify"
        /\ pc' = "sort" => command = "sort"
    BY <1>1, <2>1 DEF afterRead
  <2>3. CASE pc' = "merge"
    <3>1. som[1] = Tags(so[1]) /\ som[2] = Tags(so[2])
      BY <1>1, <2>1, <2>2, <2>3 DEF FilesInv, ReadInv
    <3>2. som[1] \in Seq(TagLine) /\ som[2] \in Seq(TagLine)
      BY DEF TypeInv, MergeInv
    <3>3. Merging(tagOrder, som[1], som[2], << >>, 1, 1)
      BY <1>1, <3>2, MergeStart
    <3>4. Merging(tagOrder', som'[1], som'[2], out', iter', iter2')
      BY <1>2, <1>3, <2>1, <3>3
    <3>5. som'[1] = Tags(so'[1]) /\ som'[2] = Tags(so'[2]) /\ ~ same'
      BY <1>2, <1>3, <2>1, <3>1
    <3>6. QED
      BY <2>3, <3>4, <3>5 DEF MergingInv
  <2>4. CASE pc' # "merge"
    BY <1>2, <1>3, <2>2, <2>4 DEF MergingInv
  <2>5. QED
    BY <2>3, <2>4
<1>7. QED
  BY <1>4, <1>5, <1>6

\* merge has both its files.
LEMMA MergeTagsTypes ==
    ASSUME TypeInv, command = "merge", args = "ok", pc # "shell"
    PROVE  Tags(so[1]) \in Seq(TagLine) /\ Tags(so[2]) \in Seq(TagLine)
<1>1. so \in Seq(Seq(Line)) /\ Reads(command) <= Len(so)
  BY DEF TypeInv, SessionInv
<1>2. Len(so) \in Nat /\ 2 <= Len(so)
  BY <1>1, LenProperties DEF Reads
<1>3. \A p \in 1 .. 2 : so[p] \in Seq(Line) /\ 0 \in 0 .. Len(so[p])
  <2>1. \A p \in 1 .. 2 : so[p] \in Seq(Line)
    BY <1>1, <1>2, ElementOfSeq
  <2>2. QED
    BY <2>1, LenProperties
<1>4. QED
  BY <1>3, TagsUpToTypes

LEMMA MergingStep == TypeInv /\ FilesInv /\ MergingInv /\ [Next]_somVars => MergingInv'
<1> SUFFICES ASSUME TypeInv, FilesInv, MergingInv, [Next]_somVars PROVE MergingInv'
  OBVIOUS
<1>1. TypeInv'
  BY StepTypes
<1>2. CASE UNCHANGED somVars
  <2>1. UNCHANGED <<command, pc, so, args, out, tagOrder, flags, som, iter, iter2, same>>
    BY <1>2 DEF somVars, mergeVars
  <2>2. QED
    BY <2>1 DEF MergingInv, sortFlag
<1>3. CASE Elsewhere
  <2>1. command' \in {"merge2", "clip", "unite", "import", "export"}
    BY <1>3 DEF Elsewhere
  <2>2. pc' # "read" /\ pc' # "merge"
    BY <1>1, <2>1 DEF TypeInv, PhaseInv
  <2>3. QED
    BY <2>1, <2>2 DEF MergingInv
<1>4. CASE andThen
  <2>1. pc' = "shell"
    BY <1>4 DEF andThen
  <2>2. QED
    BY <2>1 DEF MergingInv
<1>5. CASE main
  <2>1. iter' = 1 /\ iter2' = 1 /\ same' = FALSE /\ out' = << >> /\ args' = args
    BY <1>5 DEF main, MergeReset
  <2>2. pc' = exec(Head(script)) /\ args \in {"ok", "help", "usage", "nofile"}
    BY <1>5 DEF main, TypeInv, SessionInv
  <2>3. /\ pc' \in {"read", "init", "clip", "container", "import", "export", "ok", "error"}
        /\ args = "ok" => pc' # "ok"
    BY <2>2, ExecEntry
  <2>4. QED
    BY <2>1, <2>3 DEF MergingInv
<1>6. CASE MergeCommon /\ UNCHANGED <<clipVars, xmlVars, script, ran, args>>
  <2>1. CASE readData
    BY <1>6, <2>1, readDataMerges
  <2>2. CASE mergeTags
    BY <1>6, <2>2, mergeTagsMerges
  <2>3. CASE sort
    <3>1. pc = "sort" /\ pc' = "write" /\ UNCHANGED <<command, so, tagOrder, flags>>
      BY <2>3 DEF sort, mergeRest, inputs
    <3>2. som' = [som EXCEPT ![1] = StableSort(tagOrder, som[1])]
      BY <2>3 DEF sort
    <3>3. som \in [1 .. 2 -> Seq(TagLine)] /\ som[1] \in Seq(TagLine) /\ tagOrder \in Seq(Names)
      BY DEF TypeInv, MergeInv, SessionInv
    <3>4. som'[1] = StableSort(tagOrder, som[1])
      BY <3>2, <3>3
    <3>5. Sorted(tagOrder', som'[1])
      BY <3>1, <3>3, <3>4, StableSortSorted
    <3>6. ASSUME command = "merge" PROVE Merged(tagOrder', Tags(so'[1]), Tags(so'[2]), som'[1])
      <4>1. Merged(tagOrder, Tags(so[1]), Tags(so[2]), som[1])
        BY <3>1, <3>6 DEF MergingInv
      <4>2. Tags(so[1]) \in Seq(TagLine) /\ Tags(so[2]) \in Seq(TagLine)
        BY <3>1, <3>6, MergeTagsTypes DEF TypeInv, SessionInv, Running
      <4>3. Merged(tagOrder, Tags(so[1]), Tags(so[2]), StableSort(tagOrder, som[1]))
        BY <3>3, <4>1, <4>2, MergedSort
      <4>4. QED
        BY <3>1, <3>4, <4>3
    <3>7. QED
      BY <3>1, <3>5, <3>6 DEF MergingInv
  <2>4. CASE writeData
    <3>1. /\ pc = "write" /\ pc' = "ok" /\ out' = som[1]
          /\ UNCHANGED <<so, tagOrder, command, flags>>
      BY <2>4 DEF writeData, mergeRest, inputs
    <3>2. sortFlag' = sortFlag
      BY <3>1 DEF sortFlag
    <3>3. QED
      BY <3>1, <3>2 DEF MergingInv
  <2>5. QED
    BY <1>6, <2>1, <2>2, <2>3, <2>4 DEF MergeCommon
<1>7. QED
  BY <1>2, <1>3, <1>4, <1>5, <1>6, StepKinds

LEMMA InitMerging == Init => MergingInv
  BY DEF Init, MergingInv

LEMMA MergingInvariant == Spec => []MergingInv
  BY InitMerging, MergingStep, FilesInvariant, TypesInvariant, PTL DEF Spec

LEMMA MergeSuffices == TypeInv /\ FilesInv /\ MergingInv => MergeRight
<1> SUFFICES ASSUME TypeInv, FilesInv, MergingInv PROVE MergeRight
  OBVIOUS
<1>1. ASSUME command = "merge", args = "ok", pc = "ok"
      PROVE  LET t1 == Tags(so[1])
                 t2 == Tags(so[2])
             IN  /\ (\A p \in {1, 2} : Sorted(tagOrder, Tags(so[p])))
                    => out = StableSort(tagOrder, t2 \o t1)
                 /\ sortFlag => Sorted(tagOrder, out)
                 /\ \A t \in Range(t1 \o t2 \o out) : Count(out, t) = Count(t1 \o t2, t)
  <2>1. PICK t1, t2 : t1 = Tags(so[1]) /\ t2 = Tags(so[2])
    OBVIOUS
  <2>2. t1 \in Seq(TagLine) /\ t2 \in Seq(TagLine) /\ tagOrder \in Seq(Names)
    BY <1>1, <2>1, MergeTagsTypes DEF TypeInv, SessionInv
  <2>3. Merged(tagOrder, t1, t2, out) /\ (sortFlag => Sorted(tagOrder, out))
    BY <1>1, <2>1 DEF MergingInv
  <2>4. (\A p \in {1, 2} : Sorted(tagOrder, Tags(so[p]))) => out = StableSort(tagOrder, t2 \o t1)
    BY <2>1, <2>2, <2>3, MergedIsSort DEF BothSorted
  <2>5. \A t : Count(out, t) = Count(t1 \o t2, t)
    BY <2>2, <2>3, MergedCount
  <2>6. QED
    BY <2>1, <2>3, <2>4, <2>5
<1>2. QED
  BY <1>1 DEF MergeRight, FilesInv, RefusedInv

\* For every pair of files and every tag order: merge writes the tags of both, each
\* as often as it is there; from sorted files the stable union with those of the
\* second file first, and with -s sorted tags from any files.  It refuses only a
\* file with a bad line or, without -i, with a tag out of order.
THEOREM MergeIsRight == Spec => []MergeRight
  BY TypesInvariant, FilesInvariant, MergingInvariant, MergeSuffices, PTL

-----------------------------------------------------------------------------
(* The tags of all files, one file behind the other.                            *)

FlatStep(T, g, i) == IF i = 1 THEN T[i] ELSE g[i - 1] \o T[i]

Flat(T) == CHOOSE g : g = [i \in 1 .. Len(T) |-> FlatStep(T, g, i)]

LEMMA FlatExists ==
    ASSUME NEW T \in Seq(Seq(TagLine))
    PROVE  \E g : g = [i \in 1 .. Len(T) |-> FlatStep(T, g, i)]
<1> DEFINE Has(N) == \E g : g = [i \in 1 .. N |-> FlatStep(T, g, i)]
           Fails == {N \in Nat : ~ Has(N)}
<1>1. SUFFICES ASSUME Fails # {} PROVE FALSE
  <2>1. Len(T) \in Nat
    BY LenProperties
  <2>2. QED
    BY <2>1
<1>2. PICK N \in Fails : \A m \in Fails : N <= m
  <2> HIDE DEF Fails
  <2>1. Fails \subseteq Nat
    BY DEF Fails
  <2>2. QED
    BY <1>1, <2>1, LeastNumber
<1>3. Has(0)
  <2> DEFINE g == [i \in 1 .. 0 |-> << >>]
  <2>1. g = [i \in 1 .. 0 |-> FlatStep(T, g, i)]
    BY DEF FlatStep
  <2>2. QED
    BY <2>1
<1>4. N \in Nat /\ N # 0
  BY <1>3
<1>5. N - 1 \in Nat /\ N - 1 \notin Fails
  BY <1>2, <1>4
<1>6. PICK g : g = [i \in 1 .. N - 1 |-> FlatStep(T, g, i)]
  BY <1>5
<1> DEFINE h == [i \in 1 .. N |-> IF i = N THEN FlatStep(T, g, N) ELSE g[i]]
<1>7. h = [i \in 1 .. N |-> FlatStep(T, h, i)]
  <2>1. ASSUME NEW i \in 1 .. N PROVE h[i] = FlatStep(T, h, i)
    <3>1. i # 1 => h[i - 1] = g[i - 1]
      BY <1>4
    <3>2. FlatStep(T, h, i) = FlatStep(T, g, i)
      BY <3>1 DEF FlatStep
    <3>3. i # N => g[i] = FlatStep(T, g, i)
      <4>1. i # N => i \in 1 .. N - 1
        BY <1>4
      <4>2. \A j \in 1 .. N - 1 : g[j] = FlatStep(T, g, j)
        BY <1>6
      <4>3. QED
        BY <4>1, <4>2
    <3>4. QED
      BY <3>2, <3>3
  <2>2. DOMAIN h = 1 .. N
    OBVIOUS
  <2> HIDE DEF h
  <2>3. h = [i \in DOMAIN h |-> h[i]]
    BY DEF h
  <2>4. QED
    BY <2>1, <2>2, <2>3
<1>8. Has(N)
  BY <1>7
<1>9. QED
  BY <1>2, <1>8

\* off[p] tags come before those of file p.
Offsets(T, off, all) ==
    /\ off \in [1 .. Len(T) -> Nat] /\ all \in Seq(TagLine)
    /\ \A p \in 1 .. Len(T) : \A k \in 1 .. Len(T[p]) :
         off[p] + k \in 1 .. Len(all) /\ all[off[p] + k] = T[p][k]
    /\ \A x \in 1 .. Len(all) : \E p \in 1 .. Len(T) : \E k \in 1 .. Len(T[p]) : x = off[p] + k
    /\ \A p, q \in 1 .. Len(T) : p < q =>
         \A k \in 1 .. Len(T[p]) : \A l \in 1 .. Len(T[q]) : off[p] + k < off[q] + l

LEMMA FlattenOffsets ==
    ASSUME NEW T \in Seq(Seq(TagLine)), Len(T) # 0
    PROVE  \E off : Offsets(T, off, FlattenSeq(T))
<1>1. PICK N, F : N = Len(T) /\ F = Flat(T) /\ N \in Nat
  BY LenProperties
<1>2. F = [i \in 1 .. N |-> FlatStep(T, F, i)]
  BY <1>1, FlatExists DEF Flat
<1>3. FlattenSeq(T) = F[N]
  BY <1>1 DEF FlattenSeq, Flat, FlatStep
<1>4. \A i \in 1 .. N : T[i] \in Seq(TagLine) /\ Len(T[i]) \in Nat
  <2>1. \A i \in 1 .. N : T[i] \in Seq(TagLine)
    BY <1>1, ElementOfSeq
  <2>2. QED
    BY <2>1, LenProperties
<1>5. F[1] = T[1] /\ 1 \in 1 .. N
  <2>1. 1 \in 1 .. N
    BY <1>1
  <2>2. QED
    BY <1>2, <2>1 DEF FlatStep
<1>6. ASSUME NEW i \in 1 .. N - 1 PROVE F[i + 1] = F[i] \o T[i + 1] /\ i + 1 \in 1 .. N
  <2>1. i + 1 \in 1 .. N /\ i + 1 # 1 /\ (i + 1) - 1 = i
    BY <1>1
  <2>2. F[i + 1] = FlatStep(T, F, i + 1)
    BY <1>2, <2>1
  <2>3. QED
    BY <2>1, <2>2 DEF FlatStep
<1>7. PICK off : off = [p \in 1 .. N |-> IF p = 1 THEN 0 ELSE Len(F[p - 1])]
  OBVIOUS
<1> DEFINE Good(i) == /\ i \in 1 .. N /\ F[i] \in Seq(TagLine)
                      /\ \A p \in 1 .. i : \A k \in 1 .. Len(T[p]) :
                           off[p] + k \in 1 .. Len(F[i]) /\ F[i][off[p] + k] = T[p][k]
                      /\ \A x \in 1 .. Len(F[i]) :
                           \E p \in 1 .. i : \E k \in 1 .. Len(T[p]) : x = off[p] + k
           G == {i \in 1 .. N : Good(i)}
<1>8. 1 \in G
  <2>1. off[1] = 0
    BY <1>5, <1>7
  <2>2. F[1] \in Seq(TagLine) /\ Len(F[1]) \in Nat
    BY <1>4, <1>5
  <2>3. \A p \in 1 .. 1 : p = 1
    OBVIOUS
  <2>4. ASSUME NEW p \in 1 .. 1, NEW k \in 1 .. Len(T[p])
        PROVE  off[p] + k \in 1 .. Len(F[1]) /\ F[1][off[p] + k] = T[p][k]
    <3>1. p = 1 /\ k \in Nat /\ off[p] + k = k
      BY <1>4, <1>5, <2>1
    <3>2. QED
      BY <1>5, <3>1
  <2>5. ASSUME NEW x \in 1 .. Len(F[1])
        PROVE  \E p \in 1 .. 1 : \E k \in 1 .. Len(T[p]) : x = off[p] + k
    <3>1. x \in 1 .. Len(T[1]) /\ x = off[1] + x /\ 1 \in 1 .. 1
      BY <1>5, <2>1, <2>2
    <3>2. QED
      BY <3>1
  <2>6. QED
    BY <1>5, <2>2, <2>4, <2>5
<1>9. ASSUME NEW i \in 1 .. N - 1, i \in G PROVE i + 1 \in G
  <2>1. F[i + 1] = F[i] \o T[i + 1] /\ i + 1 \in 1 .. N /\ i \in Nat
    <3>1. i \in Nat
      BY <1>1
    <3>2. F[i + 1] = F[i] \o T[i + 1] /\ i + 1 \in 1 .. N
      BY <1>6
    <3>3. QED
      BY <3>1, <3>2
  <2>2. PICK a, b, w : a = F[i] /\ b = T[i + 1] /\ w = F[i + 1]
    OBVIOUS
  <2>3. /\ a \in Seq(TagLine)
        /\ \A p \in 1 .. i : \A k \in 1 .. Len(T[p]) :
             off[p] + k \in 1 .. Len(a) /\ a[off[p] + k] = T[p][k]
        /\ \A x \in 1 .. Len(a) : \E p \in 1 .. i : \E k \in 1 .. Len(T[p]) : x = off[p] + k
    BY <1>9, <2>2
  <2>4. b \in Seq(TagLine) /\ w = a \o b
    BY <1>4, <2>1, <2>2
  <2>5. off[i + 1] = Len(a)
    <3>1. i + 1 # 1 /\ (i + 1) - 1 = i
      BY <2>1
    <3>2. QED
      BY <1>7, <2>1, <2>2, <3>1
  <2>6. /\ w \in Seq(TagLine) /\ Len(w) = Len(a) + Len(b) /\ Len(a) \in Nat /\ Len(b) \in Nat
        /\ \A x \in 1 .. Len(a) : x \in 1 .. Len(w) /\ w[x] = a[x]
        /\ \A x \in 1 .. Len(b) : Len(a) + x \in 1 .. Len(w) /\ w[Len(a) + x] = b[x]
    BY <2>3, <2>4, Places
  <2>7. ASSUME NEW p \in 1 .. i + 1, NEW k \in 1 .. Len(T[p])
        PROVE  off[p] + k \in 1 .. Len(w) /\ w[off[p] + k] = T[p][k]
    <3>1. CASE p \in 1 .. i
      BY <2>3, <2>6, <3>1
    <3>2. CASE p \notin 1 .. i
      <4>1. p = i + 1
        BY <2>1, <3>2
      <4>2. k \in 1 .. Len(b)
        BY <2>2, <4>1
      <4>3. QED
        BY <2>2, <2>5, <2>6, <4>1, <4>2
    <3>3. QED
      BY <3>1, <3>2
  <2>8. ASSUME NEW x \in 1 .. Len(w)
        PROVE  \E p \in 1 .. i + 1 : \E k \in 1 .. Len(T[p]) : x = off[p] + k
    <3>1. CASE x \in 1 .. Len(a)
      <4>1. PICK p \in 1 .. i : \E k \in 1 .. Len(T[p]) : x = off[p] + k
        BY <2>3, <3>1
      <4>2. p \in 1 .. i + 1
        BY <2>1
      <4>3. QED
        BY <4>1, <4>2
    <3>2. CASE x \notin 1 .. Len(a)
      <4>1. x - Len(a) \in 1 .. Len(b) /\ x = Len(a) + (x - Len(a))
        BY <2>6, <3>2
      <4>2. i + 1 \in 1 .. i + 1
        BY <2>1
      <4>3. x - Len(a) \in 1 .. Len(T[i + 1]) /\ x = off[i + 1] + (x - Len(a))
        BY <2>2, <2>5, <4>1
      <4>4. QED
        BY <4>2, <4>3
    <3>3. QED
      BY <3>1, <3>2
  <2>9. QED
    BY <2>1, <2>2, <2>6, <2>7, <2>8
<1>10. \A i \in 1 .. N : i \in G
  <2> HIDE DEF G
  <2>1. QED
    BY <1>1, <1>8, <1>9, RangeInduction
<1>11. N \in 1 .. N /\ \A i \in 1 .. N : Good(i)
  BY <1>1, <1>10
<1>12. \A i \in 1 .. N : F[i] \in Seq(TagLine) /\ Len(F[i]) \in Nat
  <2>1. \A i \in 1 .. N : F[i] \in Seq(TagLine)
    BY <1>11
  <2>2. QED
    BY <2>1, LenProperties
<1>13. off \in [1 .. N -> Nat]
  <2>1. ASSUME NEW p \in 1 .. N PROVE off[p] \in Nat
    <3>1. p # 1 => p - 1 \in 1 .. N
      BY <1>1
    <3>2. QED
      BY <1>7, <1>12, <3>1
  <2>2. QED
    BY <1>7, <2>1
<1>14. ASSUME NEW p \in 1 .. N, NEW q \in 1 .. N, p < q,
              NEW k \in 1 .. Len(T[p]), NEW l \in 1 .. Len(T[q])
       PROVE  off[p] + k < off[q] + l
  <2>1. q # 1 /\ q - 1 \in 1 .. N /\ p \in 1 .. q - 1
    BY <1>1, <1>14
  <2>2. off[q] = Len(F[q - 1]) /\ Len(F[q - 1]) \in Nat
    BY <1>7, <1>12, <2>1
  <2>3. off[p] + k \in 1 .. Len(F[q - 1])
    BY <1>11, <2>1
  <2>4. l \in Nat /\ l >= 1
    BY <1>4
  <2>5. QED
    BY <2>2, <2>3, <2>4
<1>15. Good(N)
  BY <1>11
<1>16. Offsets(T, off, F[N])
  BY <1>1, <1>13, <1>14, <1>15 DEF Offsets
<1>17. QED
  BY <1>3, <1>16

-----------------------------------------------------------------------------
(* The order of merge2.                                                         *)

EarlierBy(order, t, u) == AIsLessThanB(IF isEmptyTag(t) THEN << >> ELSE order, t, u)

OrderlyBy(order, s) == \A i, j \in 1 .. Len(s) : i < j => ~ EarlierBy(order, s[j], s[i])

EarlierPairs(order, s) ==
    {p \in (1 .. Len(s)) \X (1 .. Len(s)) : EarlierBy(order, s[p[1]], s[p[2]])}

LEMMA EarlierIs ==
    ASSUME NEW order \in Seq(Names), NEW a \in TagLine, NEW b \in TagLine
    PROVE  EarlierBy(order, a, b) <=>
             \/ a.first < b.first
             \/ a.first = b.first /\ a.second > b.second
             \/ /\ a.first = b.first /\ a.second = b.second /\ a.first # a.second
                /\ getOrderValue(order, a.name) < getOrderValue(order, b.name)
<1>1. getOrderValue(<< >>, a.name) = 0 /\ getOrderValue(<< >>, b.name) = 0
  BY NoOrderValue
<1>2. CASE isEmptyTag(a)
  <2>1. EarlierBy(order, a, b) <=> AIsLessThanB(<< >>, a, b)
    BY <1>2 DEF EarlierBy
  <2>2. QED
    BY <1>1, <1>2, <2>1 DEF AIsLessThanB, isEmptyTag
<1>3. CASE ~ isEmptyTag(a)
  <2>1. EarlierBy(order, a, b) <=> AIsLessThanB(order, a, b)
    BY <1>3 DEF EarlierBy
  <2>2. QED
    BY <1>3, <2>1 DEF AIsLessThanB, isEmptyTag
<1>4. QED
  BY <1>2, <1>3

LEMMA EarlierOrder ==
    ASSUME NEW order \in Seq(Names), NEW a \in TagLine, NEW b \in TagLine, NEW c \in TagLine
    PROVE  /\ EarlierBy(order, a, b) => ~ EarlierBy(order, b, a)
           /\ EarlierBy(order, a, c) => EarlierBy(order, a, b) \/ EarlierBy(order, b, c)
<1>1. PICK x, y, z : /\ x = getOrderValue(order, a.name) /\ y = getOrderValue(order, b.name)
                     /\ z = getOrderValue(order, c.name)
  OBVIOUS
<1>2. x \in Nat /\ y \in Nat /\ z \in Nat
  BY <1>1, OrderValue
<1>3. /\ a.first \in Nat /\ b.first \in Nat /\ c.first \in Nat
      /\ a.second \in Nat /\ b.second \in Nat /\ c.second \in Nat
  BY DEF TagLine
<1>4. EarlierBy(order, a, b) <=>
             \/ a.first < b.first
             \/ a.first = b.first /\ a.second > b.second
             \/ a.first = b.first /\ a.second = b.second /\ a.first # a.second /\ x < y
  BY <1>1, EarlierIs
<1>5. EarlierBy(order, b, a) <=>
             \/ b.first < a.first
             \/ b.first = a.first /\ b.second > a.second
             \/ b.first = a.first /\ b.second = a.second /\ b.first # b.second /\ y < x
  BY <1>1, EarlierIs
<1>6. EarlierBy(order, a, c) <=>
             \/ a.first < c.first
             \/ a.first = c.first /\ a.second > c.second
             \/ a.first = c.first /\ a.second = c.second /\ a.first # a.second /\ x < z
  BY <1>1, EarlierIs
<1>7. EarlierBy(order, b, c) <=>
             \/ b.first < c.first
             \/ b.first = c.first /\ b.second > c.second
             \/ b.first = c.first /\ b.second = c.second /\ b.first # b.second /\ y < z
  BY <1>1, EarlierIs
<1>8. EarlierBy(order, a, b) => ~ EarlierBy(order, b, a)
  BY <1>2, <1>3, <1>4, <1>5
<1>9. EarlierBy(order, a, c) => EarlierBy(order, a, b) \/ EarlierBy(order, b, c)
  BY <1>2, <1>3, <1>4, <1>6, <1>7
<1>10. QED
  BY <1>8, <1>9

LEMMA EarlierPairsOrder ==
    ASSUME NEW order \in Seq(Names), NEW s \in Seq(TagLine)
    PROVE  /\ IsOrder(EarlierPairs(order, s), Len(s))
           /\ \A i, j \in 1 .. Len(s) :
                <<i, j>> \in EarlierPairs(order, s) <=> EarlierBy(order, s[i], s[j])
<1>1. \A i \in 1 .. Len(s) : s[i] \in TagLine
  BY ElementOfSeq
<1>2. \A i, j \in 1 .. Len(s) :
        <<i, j>> \in EarlierPairs(order, s) <=> EarlierBy(order, s[i], s[j])
  BY DEF EarlierPairs
<1>3. ASSUME NEW i \in 1 .. Len(s), NEW j \in 1 .. Len(s), NEW k \in 1 .. Len(s)
      PROVE  /\ <<i, j>> \in EarlierPairs(order, s) => <<j, i>> \notin EarlierPairs(order, s)
             /\ <<i, k>> \in EarlierPairs(order, s) =>
                  <<i, j>> \in EarlierPairs(order, s) \/ <<j, k>> \in EarlierPairs(order, s)
  <2>1. s[i] \in TagLine /\ s[j] \in TagLine /\ s[k] \in TagLine
    BY <1>1
  <2>2. /\ EarlierBy(order, s[i], s[j]) => ~ EarlierBy(order, s[j], s[i])
        /\ EarlierBy(order, s[i], s[k]) => EarlierBy(order, s[i], s[j]) \/ EarlierBy(order, s[j], s[k])
    BY <2>1, EarlierOrder
  <2>3. QED
    BY <1>2, <2>2
<1>4. QED
  BY <1>2, <1>3 DEF IsOrder

InOrderUnion(s) == StablySorted(s, Earlier)
TakenBy(s, ix, n) == [k \in 1 .. n |-> s[ix[k]]]

\* The sequence that follows the order is the sorted one.
LEMMA EarlierSortFollows ==
    ASSUME tagOrder \in Seq(Names), NEW s \in Seq(TagLine), NEW n, n = Len(s),
           NEW ix \in [1 .. n -> 1 .. n], Follows(EarlierPairs(tagOrder, s), n, ix)
    PROVE  InOrderUnion(s) = TakenBy(s, ix, n)
<1> DEFINE B == EarlierPairs(tagOrder, s)
           Place(i) == 1 + Cardinality({j \in 1 .. Len(s) :
                           Earlier(s[j], s[i]) \/ (j < i /\ ~ Earlier(s[i], s[j]))})
           place == [i \in 1 .. n |-> Place(i)]
<1>1. n \in Nat
  BY LenProperties
<1>2. IsOrder(B, n)
  BY EarlierPairsOrder
<1>3. \A k \in 1 .. n : PlaceOf(B, n, ix[k]) = k
  <2>1. \A i, j \in 1 .. n : i < j => Goes(B, ix[i], ix[j])
    BY DEF Follows
  <2> HIDE DEF B
  <2>2. QED
    BY <1>1, <1>2, <2>1, PlaceOfSorted
<1>4. \A i \in 1 .. n : place[i] = PlaceOf(B, n, i)
  <2>1. ASSUME NEW i \in 1 .. n PROVE Place(i) = PlaceOf(B, n, i)
    <3>1. ASSUME NEW j \in 1 .. n
          PROVE  (Earlier(s[j], s[i]) \/ (j < i /\ ~ Earlier(s[i], s[j]))) <=> Goes(B, j, i)
      <4>1. /\ <<i, j>> \in B <=> EarlierBy(tagOrder, s[i], s[j])
            /\ <<j, i>> \in B <=> EarlierBy(tagOrder, s[j], s[i])
        BY EarlierPairsOrder
      <4>2. /\ Earlier(s[i], s[j]) <=> EarlierBy(tagOrder, s[i], s[j])
            /\ Earlier(s[j], s[i]) <=> EarlierBy(tagOrder, s[j], s[i])
        BY DEF Earlier, EarlierBy
      <4>3. QED
        BY <4>1, <4>2 DEF Goes
    <3>2. {j \in 1 .. Len(s) : Earlier(s[j], s[i]) \/ (j < i /\ ~ Earlier(s[i], s[j]))}
            = {j \in 1 .. n : Goes(B, j, i)}
      BY <3>1
    <3>3. QED
      BY <3>2 DEF PlaceOf
  <2> HIDE DEF Place
  <2>2. QED
    BY <2>1
<1>5. ASSUME NEW k \in 1 .. n
      PROVE  (CHOOSE i \in 1 .. Len(s) : Place(i) = k) = ix[k]
  <2>1. \A i \in 1 .. n : place[i] = Place(i)
    OBVIOUS
  <2>2. ix[k] \in 1 .. n /\ Place(ix[k]) = k
    BY <1>3, <1>4, <2>1
  <2>3. \A i \in 1 .. n : Place(i) = k => i = ix[k]
    <3> HIDE DEF Place, B
    <3>1. ASSUME NEW i \in 1 .. n, Place(i) = k PROVE i = ix[k]
      <4>1. PlaceOf(B, n, i) = k /\ PlaceOf(B, n, ix[k]) = k
        BY <1>3, <1>4, <2>1, <3>1
      <4>2. QED
        BY <1>1, <1>2, <2>2, <4>1, PlaceInjective
    <3>2. QED
      BY <3>1
  <2> HIDE DEF Place
  <2>4. QED
    BY <2>2, <2>3
<1>6. InOrderUnion(s) = [k \in 1 .. Len(s) |-> s[CHOOSE i \in 1 .. Len(s) : Place(i) = k]]
  BY DEF InOrderUnion, StablySorted
<1> HIDE DEF Place
<1>7. QED
  BY <1>5, <1>6 DEF TakenBy

-----------------------------------------------------------------------------
(* Drawing tags from the files.  cur[p] is the tag of file p to be drawn next.   *)

LEMMA OnePlace ==
    ASSUME NEW T \in Seq(Seq(TagLine)), NEW off, NEW all, Offsets(T, off, all),
           NEW p \in 1 .. Len(T), NEW q \in 1 .. Len(T),
           NEW k \in 1 .. Len(T[p]), NEW l \in 1 .. Len(T[q]), off[p] + k = off[q] + l
    PROVE  p = q /\ k = l
<1>1. Len(T) \in Nat /\ off[p] \in Nat /\ off[q] \in Nat
  BY LenProperties DEF Offsets
<1>2. Len(T[p]) \in Nat /\ Len(T[q]) \in Nat
  <2>1. T[p] \in Seq(TagLine) /\ T[q] \in Seq(TagLine)
    BY ElementOfSeq
  <2>2. QED
    BY <2>1, LenProperties
<1>3. p < q => off[p] + k < off[q] + l
  BY DEF Offsets
<1>4. q < p => off[q] + l < off[p] + k
  BY DEF Offsets
<1>5. p = q
  BY <1>1, <1>2, <1>3, <1>4
<1>6. QED
  BY <1>1, <1>2, <1>5

Written(T, off, cur) ==
    {x \in Nat : \E p \in 1 .. Len(T) : \E k \in 1 .. Len(T[p]) : x = off[p] + k /\ k < cur[p]}

\* s are the tags drawn so far, in order.
Drawn(order, T, off, all, s, cur) ==
    \E ix : /\ Picks(all, s, Written(T, off, cur), ix)
            /\ Follows(EarlierPairs(order, all), Len(s), ix)

\* What has been drawn goes before what any file has next.
Ahead(order, T, off, all, cur) ==
    \A x \in Written(T, off, cur) : \A p \in 1 .. Len(T) :
        cur[p] <= Len(T[p]) => Goes(EarlierPairs(order, all), x, off[p] + cur[p])

Draws(T, cur, p, nc) ==
    /\ cur \in [1 .. Len(T) -> Positions] /\ nc \in [1 .. Len(T) -> Positions]
    /\ p \in 1 .. Len(T) /\ cur[p] <= Len(T[p]) /\ nc[p] = cur[p] + 1
    /\ \A q \in 1 .. Len(T) : q # p => nc[q] = cur[q]

LEMMA WrittenMore ==
    ASSUME NEW T \in Seq(Seq(TagLine)), NEW off, NEW all, Offsets(T, off, all),
           NEW cur, NEW nc, NEW p, Draws(T, cur, p, nc), NEW x, x = off[p] + cur[p]
    PROVE  /\ Written(T, off, nc) = Written(T, off, cur) \cup {x}
           /\ x \notin Written(T, off, cur)
           /\ x \in 1 .. Len(all) /\ all[x] = T[p][cur[p]]
           /\ T[p][cur[p]] \in TagLine
<1>1. /\ p \in 1 .. Len(T) /\ cur[p] \in Nat /\ cur[p] >= 1 /\ nc[p] = cur[p] + 1
      /\ off[p] \in Nat /\ Len(T) \in Nat
      /\ \A q \in 1 .. Len(T) : q # p => nc[q] = cur[q]
  <2>1. p \in 1 .. Len(T) /\ nc[p] = cur[p] + 1 /\ \A q \in 1 .. Len(T) : q # p => nc[q] = cur[q]
    BY DEF Draws
  <2>2. cur[p] \in Positions
    BY <2>1 DEF Draws
  <2>3. cur[p] \in Nat /\ cur[p] >= 1
    BY <2>2 DEF Positions
  <2>4. off[p] \in Nat
    BY <2>1 DEF Offsets
  <2>5. Len(T) \in Nat
    BY LenProperties
  <2>6. QED
    BY <2>1, <2>3, <2>4, <2>5
<1>2. T[p] \in Seq(TagLine) /\ Len(T[p]) \in Nat
  BY <1>1, ElementOfSeq, LenProperties
<1>3. cur[p] \in 1 .. Len(T[p])
  BY <1>1, <1>2 DEF Draws
<1>4. x \in 1 .. Len(all) /\ all[x] = T[p][cur[p]]
  BY <1>1, <1>3 DEF Offsets
<1>5. T[p][cur[p]] \in TagLine
  BY <1>2, <1>3, ElementOfSeq
<1>6. x \notin Written(T, off, cur)
  <2>1. SUFFICES ASSUME x \in Written(T, off, cur) PROVE FALSE
    OBVIOUS
  <2>2a. PICK q \in 1 .. Len(T) : \E k \in 1 .. Len(T[q]) : x = off[q] + k /\ k < cur[q]
    BY <2>1 DEF Written
  <2>2. PICK k \in 1 .. Len(T[q]) : x = off[q] + k /\ k < cur[q]
    BY <2>2a
  <2>3. PICK c : c = cur[p]
    OBVIOUS
  <2>4. c \in 1 .. Len(T[p]) /\ p \in 1 .. Len(T)
    BY <1>1, <1>3, <2>3
  <2>5. off[p] + c = off[q] + k
    BY <2>2, <2>3
  <2>6. p = q /\ c = k
    BY <2>4, <2>5, OnePlace
  <2>7. QED
    BY <1>1, <2>2, <2>3, <2>6
<1>7. ASSUME NEW y \in Written(T, off, nc) PROVE y \in Written(T, off, cur) \cup {x}
  <2>1a. PICK q \in 1 .. Len(T) : \E k \in 1 .. Len(T[q]) : y = off[q] + k /\ k < nc[q]
    BY <1>7 DEF Written
  <2>1. PICK k \in 1 .. Len(T[q]) : y = off[q] + k /\ k < nc[q]
    BY <2>1a
  <2>2. y \in Nat
    BY <1>7 DEF Written
  <2>3. CASE q = p /\ k = cur[p]
    BY <2>1, <2>3
  <2>4. CASE ~ (q = p /\ k = cur[p])
    <3>1. k < cur[q]
      <4>1. CASE q = p
        <5>1. k \in Nat /\ k < cur[p] + 1 /\ k # cur[p]
          BY <1>1, <1>2, <2>1, <2>4, <4>1
        <5>2. QED
          BY <1>1, <4>1, <5>1
      <4>2. CASE q # p
        BY <1>1, <2>1, <4>2
      <4>3. QED
        BY <4>1, <4>2
    <3>2. QED
      BY <2>1, <2>2, <3>1 DEF Written
  <2>5. QED
    BY <2>3, <2>4
<1>8. ASSUME NEW y \in Written(T, off, cur) PROVE y \in Written(T, off, nc)
  <2>1a. PICK q \in 1 .. Len(T) : \E k \in 1 .. Len(T[q]) : y = off[q] + k /\ k < cur[q]
    BY <1>8 DEF Written
  <2>1. PICK k \in 1 .. Len(T[q]) : y = off[q] + k /\ k < cur[q]
    BY <2>1a
  <2>2. k < nc[q]
    <3>1. CASE q = p
      <4>1. k \in Nat
        BY <1>2, <3>1
      <4>2. QED
        BY <1>1, <2>1, <3>1, <4>1
    <3>2. CASE q # p
      BY <1>1, <2>1, <3>2
    <3>3. QED
      BY <3>1, <3>2
  <2>3. QED
    BY <1>8, <2>1, <2>2 DEF Written
<1>9. x \in Written(T, off, nc)
  <2>1. cur[p] < nc[p] /\ x \in Nat
    BY <1>1
  <2>2. QED
    BY <1>1, <1>3, <2>1 DEF Written
<1>10. QED
  BY <1>4, <1>5, <1>6, <1>7, <1>8, <1>9

LEMMA DrawOne ==
    ASSUME NEW order \in Seq(Names), NEW T \in Seq(Seq(TagLine)), NEW off, NEW all,
           Offsets(T, off, all), NEW s \in Seq(TagLine), NEW cur, NEW nc, NEW p, Draws(T, cur, p, nc),
           Drawn(order, T, off, all, s, cur), Ahead(order, T, off, all, cur)
    PROVE  Drawn(order, T, off, all, Append(s, T[p][cur[p]]), nc)
<1>1. PICK x, t, q, P, Q, B : /\ x = off[p] + cur[p] /\ t = T[p][cur[p]] /\ q = x - 1
                              /\ P = Written(T, off, cur) /\ Q = Written(T, off, nc)
                              /\ B = EarlierPairs(order, all)
  OBVIOUS
<1>2. Q = P \cup {x} /\ x \notin P /\ x \in 1 .. Len(all) /\ all[x] = t /\ t \in TagLine
  BY <1>1, WrittenMore
<1>3. PICK ix : Picks(all, s, P, ix) /\ Follows(B, Len(s), ix)
  BY <1>1 DEF Drawn
<1>4. q \in Nat /\ q + 1 = x /\ Len(all) \in Nat
  <2>1. all \in Seq(TagLine)
    BY DEF Offsets
  <2>2. Len(all) \in Nat
    BY <2>1, LenProperties
  <2>3. q = x - 1 /\ x \in Nat /\ x >= 1
    BY <1>1, <1>2, <2>2
  <2>4. QED
    BY <2>2, <2>3
<1>5. PICK u : u = <<t>>
  OBVIOUS
<1>6. u \in Seq(TagLine) /\ Len(u) = 1 /\ u[1] = t
  BY <1>2, <1>5
<1>7. \A k \in 1 .. Len(u) : u[k] = all[q + k] /\ q + k \notin P
  BY <1>2, <1>4, <1>6
<1>8. Q = P \cup (q + 1 .. q + Len(u))
  BY <1>2, <1>4, <1>6
<1>9. PICK jx : PickedMore(all, s, u, Q, q, ix, jx)
  BY <1>3, <1>4, <1>6, <1>7, <1>8, PicksMore
<1>10. /\ Picks(all, s \o u, Q, jx)
       /\ \A k \in 1 .. Len(s) : jx[k] = ix[k]
       /\ \A k \in 1 .. Len(u) : jx[Len(s) + k] = q + k
  BY <1>9 DEF PickedMore
<1>11. PICK N : N = Len(s) /\ N \in Nat
  BY LenProperties
<1>12. \A k \in 1 .. N : ix[k] \in P
  BY <1>3, <1>11 DEF Picks
<1>13. \A y \in P : Goes(B, y, x)
  BY <1>1 DEF Ahead, Draws
<1>14. \A k \in 1 .. N : \A l \in 1 .. 1 : Goes(B, ix[k], q + l)
  BY <1>4, <1>12, <1>13
<1>15. \A k, l \in 1 .. 1 : k < l => Goes(B, q + k, q + l)
  OBVIOUS
<1>16. Follows(B, N + 1, jx)
  <2>1. /\ Follows(B, N, ix) /\ \A k \in 1 .. N : jx[k] = ix[k]
        /\ \A k \in 1 .. 1 : jx[N + k] = q + k
    BY <1>3, <1>6, <1>10, <1>11
  <2>2. QED
    BY <1>4, <1>11, <1>14, <1>15, <2>1, FollowsMore
<1>17. PICK w : w = Append(s, t)
  OBVIOUS
<1>18. w = s \o u /\ Len(w) = N + 1
  BY <1>2, <1>5, <1>11, <1>17, AppendProperties, AppendIsConcat
<1>19. Picks(all, w, Q, jx) /\ Follows(B, Len(w), jx)
  BY <1>10, <1>16, <1>18
<1>20. QED
  BY <1>1, <1>17, <1>19 DEF Drawn

LEMMA AheadOne ==
    ASSUME NEW order \in Seq(Names), NEW T \in Seq(Seq(TagLine)), NEW off, NEW all,
           Offsets(T, off, all), NEW cur, NEW nc, NEW p, Draws(T, cur, p, nc),
           Ahead(order, T, off, all, cur),
           \A q \in 1 .. Len(T) : q # p /\ cur[q] <= Len(T[q]) =>
               \/ EarlierBy(order, T[p][cur[p]], T[q][cur[q]])
               \/ p < q /\ ~ EarlierBy(order, T[q][cur[q]], T[p][cur[p]]),
           nc[p] <= Len(T[p]) => ~ EarlierBy(order, T[p][nc[p]], T[p][cur[p]])
    PROVE  Ahead(order, T, off, all, nc)
<1>1. PICK x, B, n : x = off[p] + cur[p] /\ B = EarlierPairs(order, all) /\ n = Len(all)
  OBVIOUS
<1>2. /\ Written(T, off, nc) = Written(T, off, cur) \cup {x}
      /\ x \in 1 .. n /\ all[x] = T[p][cur[p]]
  BY <1>1, WrittenMore
<1>3. /\ n \in Nat /\ all \in Seq(TagLine) /\ Len(T) \in Nat
      /\ \A q \in 1 .. Len(T) : off[q] \in Nat /\ cur[q] \in Nat /\ cur[q] >= 1
                                /\ nc[q] \in Nat /\ nc[q] >= 1
      /\ p \in 1 .. Len(T) /\ cur[p] <= Len(T[p]) /\ nc[p] = cur[p] + 1
      /\ \A q \in 1 .. Len(T) : q # p => nc[q] = cur[q]
  <2>1. all \in Seq(TagLine)
    BY DEF Offsets
  <2>2. n \in Nat /\ Len(T) \in Nat
    BY <1>1, <2>1, LenProperties
  <2>3. /\ p \in 1 .. Len(T) /\ cur[p] <= Len(T[p]) /\ nc[p] = cur[p] + 1
        /\ \A q \in 1 .. Len(T) : q # p => nc[q] = cur[q]
    BY DEF Draws
  <2>4. ASSUME NEW q \in 1 .. Len(T)
        PROVE  /\ off[q] \in Nat /\ cur[q] \in Nat /\ cur[q] >= 1
               /\ nc[q] \in Nat /\ nc[q] >= 1
    <3>1. off[q] \in Nat
      BY DEF Offsets
    <3>2. cur[q] \in Positions /\ nc[q] \in Positions
      BY DEF Draws
    <3>3. QED
      BY <3>1, <3>2 DEF Positions
  <2>5. QED
    BY <2>1, <2>2, <2>3, <2>4
<1>4. IsOrder(B, n) /\ \A i, j \in 1 .. n : <<i, j>> \in B <=> EarlierBy(order, all[i], all[j])
  BY <1>1, <1>3, EarlierPairsOrder
<1>5. \A i, j, k \in 1 .. n : Goes(B, i, j) /\ Goes(B, j, k) => Goes(B, i, k)
  BY <1>3, <1>4, GoesTotal
<1>6. \A q \in 1 .. Len(T) : Len(T[q]) \in Nat
  <2>1. \A q \in 1 .. Len(T) : T[q] \in Seq(TagLine)
    BY ElementOfSeq
  <2>2. QED
    BY <2>1, LenProperties
<1>7. ASSUME NEW q \in 1 .. Len(T), nc[q] <= Len(T[q])
      PROVE  Goes(B, x, off[q] + nc[q]) /\ off[q] + nc[q] \in 1 .. n
  <2>1. nc[q] \in 1 .. Len(T[q])
    BY <1>3, <1>6, <1>7
  <2>2. off[q] + nc[q] \in 1 .. n /\ all[off[q] + nc[q]] = T[q][nc[q]]
    BY <1>1, <2>1 DEF Offsets
  <2>3. /\ <<x, off[q] + nc[q]>> \in B <=> EarlierBy(order, T[p][cur[p]], T[q][nc[q]])
        /\ <<off[q] + nc[q], x>> \in B <=> EarlierBy(order, T[q][nc[q]], T[p][cur[p]])
    BY <1>2, <1>4, <2>2
  <2>4. CASE q = p
    <3>1. x < off[q] + nc[q]
      BY <1>1, <1>3, <2>4
    <3>2. QED
      BY <1>7, <2>2, <2>3, <2>4, <3>1 DEF Goes
  <2>5. CASE q # p
    <3>1. nc[q] = cur[q] /\ cur[q] <= Len(T[q])
      BY <1>3, <1>7, <2>5
    <3>2. p < q => x < off[q] + nc[q]
      <4>1. cur[p] \in 1 .. Len(T[p])
        BY <1>3, <1>6
      <4>2. QED
        BY <1>1, <1>3, <2>1, <4>1 DEF Offsets
    <3>3. \/ EarlierBy(order, T[p][cur[p]], T[q][nc[q]])
          \/ p < q /\ ~ EarlierBy(order, T[q][nc[q]], T[p][cur[p]])
      BY <2>5, <3>1
    <3>4. QED
      BY <2>2, <2>3, <3>2, <3>3 DEF Goes
  <2>6. QED
    BY <2>4, <2>5
<1>8. ASSUME NEW y \in Written(T, off, cur), NEW q \in 1 .. Len(T), nc[q] <= Len(T[q])
      PROVE  Goes(B, y, off[q] + nc[q])
  <2>1. Goes(B, y, x)
    BY <1>1, <1>3 DEF Ahead
  <2>2. y \in 1 .. n
    <3>1a. PICK r \in 1 .. Len(T) : \E k \in 1 .. Len(T[r]) : y = off[r] + k
      BY DEF Written
    <3>1. PICK k \in 1 .. Len(T[r]) : y = off[r] + k
      BY <3>1a
    <3>2. QED
      BY <1>1, <3>1 DEF Offsets
  <2>3. Goes(B, x, off[q] + nc[q]) /\ off[q] + nc[q] \in 1 .. n
    BY <1>7, <1>8
  <2>4. QED
    BY <1>2, <1>5, <2>1, <2>2, <2>3
<1>9. QED
  BY <1>1, <1>2, <1>7, <1>8 DEF Ahead

\* Tags drawn in order are in order.
LEMMA DrawnOrderly ==
    ASSUME NEW order \in Seq(Names), NEW T \in Seq(Seq(TagLine)), NEW off, NEW all,
           Offsets(T, off, all), NEW s \in Seq(TagLine), NEW cur, Drawn(order, T, off, all, s, cur)
    PROVE  OrderlyBy(order, s)
<1>1. PICK B, N, n : B = EarlierPairs(order, all) /\ N = Len(s) /\ n = Len(all)
  OBVIOUS
<1>2. PICK ix : Picks(all, s, Written(T, off, cur), ix) /\ Follows(B, N, ix)
  BY <1>1 DEF Drawn
<1>3. all \in Seq(TagLine) /\ n \in Nat
  BY <1>1, LenProperties DEF Offsets
<1>4. IsOrder(B, n) /\ \A i, j \in 1 .. n : <<i, j>> \in B <=> EarlierBy(order, all[i], all[j])
  BY <1>1, <1>3, EarlierPairsOrder
<1>5. ASSUME NEW k \in 1 .. N PROVE ix[k] \in 1 .. n /\ s[k] = all[ix[k]]
  <2>1. ix[k] \in Written(T, off, cur) /\ s[k] = all[ix[k]]
    BY <1>1, <1>2 DEF Picks
  <2>2a. PICK r \in 1 .. Len(T) : \E l \in 1 .. Len(T[r]) : ix[k] = off[r] + l
    BY <2>1 DEF Written
  <2>2. PICK l \in 1 .. Len(T[r]) : ix[k] = off[r] + l
    BY <2>2a
  <2>3. QED
    BY <1>1, <2>1, <2>2 DEF Offsets
<1>6. ASSUME NEW i \in 1 .. N, NEW j \in 1 .. N, i < j PROVE ~ EarlierBy(order, s[j], s[i])
  <2>1. Goes(B, ix[i], ix[j])
    BY <1>2, <1>6 DEF Follows
  <2>2. ix[i] \in 1 .. n /\ ix[j] \in 1 .. n
    BY <1>5
  <2>3. <<ix[j], ix[i]>> \notin B
    BY <1>4, <2>1, <2>2 DEF Goes, IsOrder
  <2>4. QED
    BY <1>4, <1>5, <2>2, <2>3
<1>7. QED
  BY <1>1, <1>6 DEF OrderlyBy

\* When every file is drawn to its end the tags are the sorted ones.
LEMMA DrawnAll ==
    ASSUME tagOrder \in Seq(Names), NEW T \in Seq(Seq(TagLine)), NEW off, NEW all,
           Offsets(T, off, all), NEW s \in Seq(TagLine), NEW cur,
           Drawn(tagOrder, T, off, all, s, cur),
           \A p \in 1 .. Len(T) : \A k \in 1 .. Len(T[p]) : k < cur[p]
    PROVE  s = InOrderUnion(all)
<1>1. PICK B, N, n, P : /\ B = EarlierPairs(tagOrder, all) /\ N = Len(s) /\ n = Len(all)
                        /\ P = Written(T, off, cur)
  OBVIOUS
<1>2. PICK ix : Picks(all, s, P, ix) /\ Follows(B, N, ix)
  BY <1>1 DEF Drawn
<1>3. all \in Seq(TagLine) /\ n \in Nat /\ N \in Nat
  BY <1>1, LenProperties DEF Offsets
<1>4. P = 1 .. n
  <2>1. ASSUME NEW x \in P PROVE x \in 1 .. n
    <3>1a. PICK r \in 1 .. Len(T) : \E l \in 1 .. Len(T[r]) : x = off[r] + l
      BY <1>1, <2>1 DEF Written
    <3>1. PICK l \in 1 .. Len(T[r]) : x = off[r] + l
      BY <3>1a
    <3>2. QED
      BY <1>1, <3>1 DEF Offsets
  <2>2. ASSUME NEW x \in 1 .. n PROVE x \in P
    <3>1a. PICK r \in 1 .. Len(T) : \E l \in 1 .. Len(T[r]) : x = off[r] + l
      BY <1>1 DEF Offsets
    <3>1. PICK l \in 1 .. Len(T[r]) : x = off[r] + l
      BY <3>1a
    <3>2. l < cur[r] /\ x \in Nat
      BY <1>3
    <3>3. QED
      BY <1>1, <3>1, <3>2 DEF Written
  <2>3. QED
    BY <2>1, <2>2
<1>5. /\ ix \in [1 .. N -> 1 .. n] /\ \A k \in 1 .. N : s[k] = all[ix[k]]
      /\ \A p \in 1 .. n : \E k \in 1 .. N : ix[k] = p
      /\ \A k, l \in 1 .. N : ix[k] = ix[l] => k = l
  BY <1>1, <1>2, <1>4 DEF Picks
<1>6. N = n
  <2>1. ix \in Bijection(1 .. N, 1 .. n)
    BY <1>5 DEF Bijection, Injection, Surjection, IsInjective
  <2>2. IsFiniteSet(1 .. N) /\ Cardinality(1 .. N) = N /\ Cardinality(1 .. n) = n
    BY <1>3, FS_Interval
  <2>3. Cardinality(1 .. n) = Cardinality(1 .. N)
    BY <2>1, <2>2, FS_Bijection DEF ExistsBijection
  <2>4. QED
    BY <2>2, <2>3
<1>7. InOrderUnion(all) = TakenBy(all, ix, n)
  <2>1. ix \in [1 .. n -> 1 .. n]
    BY <1>5, <1>6
  <2>2. Follows(EarlierPairs(tagOrder, all), n, ix)
    BY <1>1, <1>2, <1>6
  <2>3. n = Len(all) /\ all \in Seq(TagLine)
    BY <1>1, <1>3
  <2>4. QED
    BY <2>1, <2>2, <2>3, EarlierSortFollows
<1>8. s = [k \in 1 .. n |-> s[k]]
  <2>1. s = [k \in 1 .. Len(s) |-> s[k]]
    BY LenProperties
  <2>2. QED
    BY <1>1, <1>6, <2>1
<1>9. QED
  BY <1>5, <1>6, <1>7, <1>8 DEF TakenBy

-----------------------------------------------------------------------------
(* The files that merge2 reads.                                                 *)

\* A tag that may follow the last one keeps the tags in order.
LEMMA OrderlyAppend ==
    ASSUME NEW order \in Seq(Names), NEW s \in Seq(TagLine), NEW t \in TagLine, OrderlyBy(order, s)
    PROVE  OrderlyBy(order, Append(s, t)) <=> (s = << >> \/ ~ EarlierBy(order, t, Last(s)))
<1>1. PICK N : N = Len(s) /\ N \in Nat
  BY LenProperties
<1>2. PICK u : u = Append(s, t)
  OBVIOUS
<1>3. /\ u \in Seq(TagLine) /\ Len(u) = N + 1 /\ u[N + 1] = t
      /\ \A i \in 1 .. N : u[i] = s[i] /\ s[i] \in TagLine
  BY <1>1, <1>2, AppendProperties, ElementOfSeq
<1>4. s = << >> <=> N = 0
  BY <1>1, EmptySeq
<1>5. N # 0 => Last(s) = s[N] /\ N \in 1 .. N
  BY <1>1 DEF Last
<1>6. \A i, j \in 1 .. N : i < j => ~ EarlierBy(order, s[j], s[i])
  BY <1>1 DEF OrderlyBy
<1>7. ASSUME N = 0 \/ ~ EarlierBy(order, t, s[N])
      PROVE  \A i, j \in 1 .. N + 1 : i < j => ~ EarlierBy(order, u[j], u[i])
  <2>1. SUFFICES ASSUME NEW i \in 1 .. N + 1, NEW j \in 1 .. N + 1, i < j
                 PROVE  ~ EarlierBy(order, u[j], u[i])
    OBVIOUS
  <2>2. i \in 1 .. N /\ N # 0
    BY <1>1, <2>1
  <2>3. CASE j # N + 1
    <3>1. j \in 1 .. N
      BY <1>1, <2>3
    <3>2. QED
      BY <1>3, <1>6, <2>1, <2>2, <3>1
  <2>4. CASE j = N + 1
    <3>1. u[j] = t /\ u[i] = s[i] /\ s[i] \in TagLine /\ s[N] \in TagLine
      BY <1>3, <1>5, <2>2, <2>4
    <3>2. ~ EarlierBy(order, t, s[N])
      BY <1>7, <2>2
    <3>3. CASE i = N
      BY <3>1, <3>2, <3>3
    <3>4. CASE i # N
      <4>1. i < N /\ N \in 1 .. N
        BY <1>1, <2>2, <3>4
      <4>2. ~ EarlierBy(order, s[N], s[i])
        BY <1>6, <2>2, <4>1
      <4>3. QED
        BY <3>1, <3>2, <4>2, EarlierOrder
    <3>5. QED
      BY <3>3, <3>4
  <2>5. QED
    BY <2>3, <2>4
<1>8. ASSUME N # 0, EarlierBy(order, t, s[N])
      PROVE  ~ \A i, j \in 1 .. N + 1 : i < j => ~ EarlierBy(order, u[j], u[i])
  <2>1. N \in 1 .. N + 1 /\ N + 1 \in 1 .. N + 1 /\ N < N + 1 /\ N \in 1 .. N
    BY <1>1, <1>8
  <2>2. u[N] = s[N] /\ u[N + 1] = t
    BY <1>3, <2>1
  <2>3. QED
    BY <1>8, <2>1, <2>2
<1>9. OrderlyBy(order, u) <=> \A i, j \in 1 .. N + 1 : i < j => ~ EarlierBy(order, u[j], u[i])
  BY <1>3 DEF OrderlyBy
<1>10. QED
  BY <1>2, <1>4, <1>5, <1>7, <1>8, <1>9

LEMMA OrderlyPrefix ==
    ASSUME NEW order, NEW lines \in Seq(Line), NEW n \in 0 .. Len(lines),
           OrderlyBy(order, Tags(lines))
    PROVE  OrderlyBy(order, TagsUpTo(lines, n))
<1>1. PICK s, t : s = TagsUpTo(lines, n) /\ t = Tags(lines)
  OBVIOUS
<1>2. Len(s) <= Len(t) /\ \A i \in 1 .. Len(s) : t[i] = s[i]
  BY <1>1, TagsPrefix
<1>3. s \in Seq(TagLine) /\ t \in Seq(TagLine)
  BY <1>1, TagsUpToTypes
<1>4. Len(s) \in Nat /\ Len(t) \in Nat
  BY <1>3, LenProperties
<1>5. \A i \in 1 .. Len(s) : i \in 1 .. Len(t)
  BY <1>2, <1>4
<1>6. \A i, j \in 1 .. Len(t) : i < j => ~ EarlierBy(order, t[j], t[i])
  BY <1>1 DEF OrderlyBy
<1>7. OrderlyBy(order, s)
  BY <1>2, <1>5, <1>6 DEF OrderlyBy
<1>8. QED
  BY <1>1, <1>7

\* File lines has been read up to line p; its tag number c, t, is in the queue.
Waits(order, lines, p, t, c) ==
    /\ ReadUpTo(lines, p)
    /\ TagsUpTo(lines, p - 1) # << >>
    /\ c = Len(TagsUpTo(lines, p - 1)) /\ t = Last(TagsUpTo(lines, p - 1))
    /\ OrderlyBy(order, TagsUpTo(lines, p - 1))

\* The file has been read to its end, and all its tags have been written.
Finished(order, lines, c) ==
    Clean(lines) /\ OrderlyBy(order, Tags(lines)) /\ c = Len(Tags(lines)) + 1

LEMMA WaitingTag ==
    ASSUME NEW order \in Seq(Names), NEW lines \in Seq(Line), NEW p, NEW t, NEW c,
           Waits(order, lines, p, t, c)
    PROVE  c \in 1 .. Len(Tags(lines)) /\ Tags(lines)[c] = t
<1>1. PICK n, s : n = p - 1 /\ s = TagsUpTo(lines, n)
  OBVIOUS
<1>2. p \in 1 .. Len(lines) + 1 /\ Len(lines) \in Nat
  BY LenProperties DEF Waits, ReadUpTo
<1>3. n \in 0 .. Len(lines)
  BY <1>1, <1>2
<1>4. s \in Seq(TagLine) /\ Tags(lines) \in Seq(TagLine)
  BY <1>1, <1>3, TagsUpToTypes
<1>5. Len(s) \in Nat /\ Len(Tags(lines)) \in Nat /\ (s # << >> => Len(s) # 0)
  BY <1>4, LenProperties, EmptySeq
<1>6. Len(s) <= Len(Tags(lines)) /\ \A i \in 1 .. Len(s) : Tags(lines)[i] = s[i]
  BY <1>1, <1>3, TagsPrefix
<1>7. s # << >> /\ c = Len(s) /\ t = Last(s)
  BY <1>1 DEF Waits
<1>8. c \in 1 .. Len(s) /\ t = s[c]
  BY <1>5, <1>7 DEF Last
<1>9. QED
  BY <1>5, <1>6, <1>8

\* goNext and the first read: what the next line of a file makes of it.
LEMMA QueueLine ==
    ASSUME NEW order \in Seq(Names), NEW lines \in Seq(Line), NEW p, ReadUpTo(lines, p),
           NEW s, s = TagsUpTo(lines, p - 1), OrderlyBy(order, s), NEW n, n = NextLine(lines, p)
    PROVE  /\ n > Len(lines) => Finished(order, lines, Len(s) + 1)
           /\ n <= Len(lines) /\ lines[n] = Bad => ~ Clean(lines)
           /\ n <= Len(lines) /\ lines[n] # Bad =>
                /\ lines[n] \in TagLine
                /\ s = << >> \/ ~ EarlierBy(order, lines[n], Last(s)) =>
                     Waits(order, lines, n + 1, lines[n], Len(s) + 1)
                /\ s # << >> /\ EarlierBy(order, lines[n], Last(s)) => ~ OrderlyBy(order, Tags(lines))
           /\ n \in Nat /\ Len(lines) \in Nat /\ s \in Seq(TagLine)
<1>1. /\ n \in p .. Len(lines) + 1
      /\ n <= Len(lines) /\ lines[n] # Bad =>
           /\ lines[n] \in TagLine
           /\ ReadUpTo(lines, n + 1)
           /\ TagsUpTo(lines, n) = Append(s, lines[n])
      /\ n <= Len(lines) /\ lines[n] = Bad => ~ Clean(lines)
      /\ n > Len(lines) => s = Tags(lines) /\ Clean(lines)
  BY ReadLine
<1>2. p \in 1 .. Len(lines) + 1 /\ Len(lines) \in Nat
  BY LenProperties DEF ReadUpTo
<1>3. n \in Nat /\ p - 1 \in 0 .. Len(lines) /\ (n + 1) - 1 = n
  BY <1>1, <1>2
<1>4. s \in Seq(TagLine) /\ Len(s) \in Nat
  BY <1>3, TagsUpToTypes, LenProperties
<1>5. n > Len(lines) => Finished(order, lines, Len(s) + 1)
  BY <1>1 DEF Finished
<1>6. ASSUME n <= Len(lines), lines[n] # Bad
      PROVE  /\ s = << >> \/ ~ EarlierBy(order, lines[n], Last(s)) =>
                     Waits(order, lines, n + 1, lines[n], Len(s) + 1)
             /\ s # << >> /\ EarlierBy(order, lines[n], Last(s)) => ~ OrderlyBy(order, Tags(lines))
  <2>1. PICK t, u : t = lines[n] /\ u = TagsUpTo(lines, n)
    OBVIOUS
  <2>2. t \in TagLine /\ u = Append(s, t) /\ ReadUpTo(lines, n + 1)
    BY <1>1, <1>6, <2>1
  <2>3. OrderlyBy(order, u) <=> (s = << >> \/ ~ EarlierBy(order, t, Last(s)))
    BY <1>4, <2>2, OrderlyAppend
  <2>4. u \in Seq(TagLine) /\ Len(u) = Len(s) + 1 /\ u[Len(s) + 1] = t
    BY <1>4, <2>2, AppendProperties
  <2>5. u # << >> /\ Last(u) = t
    BY <1>4, <2>4 DEF Last
  <2>6. s = << >> \/ ~ EarlierBy(order, t, Last(s)) => Waits(order, lines, n + 1, t, Len(s) + 1)
    BY <1>3, <2>1, <2>2, <2>3, <2>4, <2>5 DEF Waits
  <2>7. n \in 0 .. Len(lines)
    BY <1>2, <1>3, <1>6
  <2>8. ~ OrderlyBy(order, u) => ~ OrderlyBy(order, Tags(lines))
    BY <2>1, <2>7, OrderlyPrefix
  <2>9. QED
    BY <2>1, <2>3, <2>6, <2>8
<1>7. QED
  BY <1>1, <1>3, <1>2, <1>4, <1>5, <1>6

LEMMA InvertedIs ==
    ASSUME tagOrder \in Seq(Names), NEW a \in TagLine, NEW b \in TagLine
    PROVE  Inverted(a, b) <=> EarlierBy(tagOrder, b, a)
<1>1. EarlierBy(tagOrder, b, a) <=>
             \/ b.first < a.first
             \/ b.first = a.first /\ b.second > a.second
             \/ /\ b.first = a.first /\ b.second = a.second /\ b.first # b.second
                /\ getOrderValue(tagOrder, b.name) < getOrderValue(tagOrder, a.name)
  BY EarlierIs
<1>2. a.first \in Nat /\ b.first \in Nat /\ a.second \in Nat /\ b.second \in Nat
  BY DEF TagLine
<1>3. getOrderValue(tagOrder, a.name) \in Nat /\ getOrderValue(tagOrder, b.name) \in Nat
  BY OrderValue
<1>4. QED
  BY <1>1, <1>2, <1>3 DEF Inverted, isEmptyTag

LEMMA CompIs ==
    ASSUME tagOrder \in Seq(Names), NEW q, NEW r, q.top \in TagLine, r.top \in TagLine,
           q.fileNo \in Nat, r.fileNo \in Nat, Comp(q, r)
    PROVE  \/ EarlierBy(tagOrder, r.top, q.top)
           \/ r.fileNo < q.fileNo /\ ~ EarlierBy(tagOrder, q.top, r.top)
<1>1. PICK a, b : a = q.top /\ b = r.top
  OBVIOUS
<1>2. a \in TagLine /\ b \in TagLine
  BY <1>1
<1>3. PICK x, y : x = getOrderValue(tagOrder, a.name) /\ y = getOrderValue(tagOrder, b.name)
  OBVIOUS
<1>4. x \in Nat /\ y \in Nat
  BY <1>2, <1>3, OrderValue
<1>5. a.first \in Nat /\ b.first \in Nat /\ a.second \in Nat /\ b.second \in Nat
  BY <1>2 DEF TagLine
<1>6. EarlierBy(tagOrder, b, a) <=>
             \/ b.first < a.first
             \/ b.first = a.first /\ b.second > a.second
             \/ b.first = a.first /\ b.second = a.second /\ b.first # b.second /\ y < x
  BY <1>2, <1>3, EarlierIs
<1>7. EarlierBy(tagOrder, a, b) <=>
             \/ a.first < b.first
             \/ a.first = b.first /\ a.second > b.second
             \/ a.first = b.first /\ a.second = b.second /\ a.first # a.second /\ x < y
  BY <1>2, <1>3, EarlierIs
<1>8. \/ a.first > b.first
      \/ a.first = b.first /\ a.second < b.second
      \/ /\ a.first = b.first /\ a.second = b.second
         /\ IF a.first = a.second \/ x = y THEN q.fileNo > r.fileNo ELSE x > y
  BY <1>1, <1>3 DEF Comp, isEmptyTag
<1>9. \/ EarlierBy(tagOrder, b, a)
      \/ r.fileNo < q.fileNo /\ ~ EarlierBy(tagOrder, a, b)
  BY <1>4, <1>5, <1>6, <1>7, <1>8
<1>10. QED
  BY <1>1, <1>9

-----------------------------------------------------------------------------
(* What merge2 keeps.                                                           *)

Files == [p \in 1 .. Len(so) |-> Tags(so[p])]

\* The queue has the next tag of every file below g that has one left.
QueueUpTo(g, cur) ==
    /\ cur \in [1 .. Len(so) -> Positions]
    /\ queue \subseteq [top : TagLine, fileNo : 1 .. g - 1]
    /\ \A q, r \in queue : q.fileNo = r.fileNo => q = r
    /\ \A q \in queue : Waits(tagOrder, so[q.fileNo], at[q.fileNo], q.top, cur[q.fileNo])
    /\ \A p \in 1 .. g - 1 : (\A q \in queue : q.fileNo # p) => Finished(tagOrder, so[p], cur[p])

SoFar(off, all, cur) ==
    /\ Offsets(Files, off, all)
    /\ Drawn(tagOrder, Files, off, all, out, cur) /\ Ahead(tagOrder, Files, off, all, cur)

Refused2 == \E p \in 1 .. Len(so) : ~ (Clean(so[p]) /\ OrderlyBy(tagOrder, Tags(so[p])))

QueueInv ==
    /\ pc = "init" => /\ out = << >>
                      /\ \E cur, g : g = f /\ cur = [p \in 1 .. Len(so) |-> 1] /\ QueueUpTo(g, cur)
    /\ pc = "merge2" => \E cur, off, g : /\ g = Len(so) + 1 /\ QueueUpTo(g, cur)
                                         /\ SoFar(off, FlattenSeq(Files), cur)
    /\ command = "merge2" /\ args = "ok" =>
         /\ OrderlyBy(tagOrder, out)
         /\ pc = "ok" => ~ Refused2 /\ out = InOrderUnion(FlattenSeq(Files))
         /\ pc = "error" => Refused2

LEMMA FilesTypes ==
    ASSUME TypeInv
    PROVE  /\ Files \in Seq(Seq(TagLine)) /\ Len(Files) = Len(so) /\ Len(so) \in Nat
           /\ \A p \in 1 .. Len(so) : /\ so[p] \in Seq(Line) /\ Files[p] = Tags(so[p])
                                      /\ Tags(so[p]) \in Seq(TagLine) /\ Len(Tags(so[p])) \in Nat
<1>1. so \in Seq(Seq(Line)) /\ Len(so) \in Nat
  BY LenProperties DEF TypeInv, SessionInv
<1>2. \A p \in 1 .. Len(so) : so[p] \in Seq(Line)
  BY <1>1, ElementOfSeq
<1>3. ASSUME NEW p \in 1 .. Len(so) PROVE Tags(so[p]) \in Seq(TagLine) /\ Len(Tags(so[p])) \in Nat
  <2>1. so[p] \in Seq(Line)
    BY <1>2
  <2>2. 0 \in 0 .. Len(so[p])
    BY <2>1, LenProperties
  <2>3. Tags(so[p]) \in Seq(TagLine)
    BY <2>1, <2>2, TagsUpToTypes
  <2>4. QED
    BY <2>3, LenProperties
<1>4. PICK N : N = Len(so)
  OBVIOUS
<1>5. Files \in [1 .. N -> Seq(TagLine)]
  BY <1>3, <1>4 DEF Files
<1>6. Files \in Seq(Seq(TagLine)) /\ Len(Files) = N
  <2>1. PICK F, S : F = Files /\ S = Seq(TagLine)
    OBVIOUS
  <2>2. N \in Nat /\ F \in [1 .. N -> S]
    BY <1>1, <1>4, <1>5, <2>1
  <2>3. F \in Seq(S)
    BY <2>2
  <2>4. Len(F) = N
    BY <2>2, <2>3, LenProperties
  <2>5. QED
    BY <2>1, <2>3, <2>4
<1>7. \A p \in 1 .. Len(so) : Files[p] = Tags(so[p])
  BY DEF Files
<1>8. QED
  BY <1>1, <1>2, <1>3, <1>4, <1>6, <1>7

LEMMA NothingDrawn ==
    ASSUME NEW order, NEW T \in Seq(Seq(TagLine)), NEW off, NEW all, Offsets(T, off, all),
           NEW cur, cur = [p \in 1 .. Len(T) |-> 1]
    PROVE  Drawn(order, T, off, all, << >>, cur) /\ Ahead(order, T, off, all, cur)
<1>1. Len(T) \in Nat /\ \A p \in 1 .. Len(T) : Len(T[p]) \in Nat
  <2>1. \A p \in 1 .. Len(T) : T[p] \in Seq(TagLine)
    BY ElementOfSeq
  <2>2. QED
    BY <2>1, LenProperties
<1>2. Written(T, off, cur) = {}
  <2>1. SUFFICES ASSUME NEW x \in Written(T, off, cur) PROVE FALSE
    OBVIOUS
  <2>2. PICK p \in 1 .. Len(T) : \E k \in 1 .. Len(T[p]) : k < cur[p]
    BY DEF Written
  <2>3. cur[p] = 1
    OBVIOUS
  <2>4. QED
    BY <1>1, <2>2, <2>3
<1>3. Ahead(order, T, off, all, cur)
  BY <1>2 DEF Ahead
<1>4. PICK ix, e : ix = [k \in 1 .. 0 |-> 0] /\ e = << >>
  OBVIOUS
<1>5. Len(e) = 0 /\ \A k \in 1 .. Len(e) : FALSE
  BY <1>4
<1>6. ix \in [1 .. Len(e) -> {}]
  BY <1>4, <1>5
<1>7. Picks(all, e, Written(T, off, cur), ix)
  BY <1>2, <1>5, <1>6 DEF Picks
<1>8. Follows(EarlierPairs(order, all), Len(e), ix)
  BY <1>5 DEF Follows
<1>9. QED
  BY <1>3, <1>4, <1>7, <1>8 DEF Drawn

LEMMA EmptyOrderly ==
    ASSUME NEW order
    PROVE  OrderlyBy(order, << >>)
  BY DEF OrderlyBy

\* What the steps of merge2 leave alone.
LEMMA QueueFrame ==
    ASSUME UNCHANGED <<so, tagOrder>>
    PROVE  Files' = Files /\ Refused2' = Refused2
  BY DEF Files, Refused2

\* A step that reads a line of file p.
OneFile(p, cur, nc) ==
    /\ UNCHANGED <<so, tagOrder>>
    /\ nc \in [1 .. Len(so) -> Positions]
    /\ \A r \in 1 .. Len(so) : r # p => nc[r] = cur[r] /\ at'[r] = at[r]
    /\ \A q \in queue' : q \in queue \/ q \in [top : TagLine, fileNo : {p}]
    /\ \A q \in queue : q.fileNo # p => q \in queue'
    /\ \A q, r \in queue' : q.fileNo = p /\ r.fileNo = p => q = r
    /\ \A q \in queue' : q.fileNo = p => Waits(tagOrder, so[p], at'[p], q.top, nc[p])
    /\ (\A q \in queue' : q.fileNo # p) => Finished(tagOrder, so[p], nc[p])

LEMMA QueueChanged ==
    ASSUME NEW g \in Nat, NEW h \in Nat, NEW cur, QueueUpTo(g, cur), NEW p \in 1 .. Len(so), NEW nc,
           OneFile(p, cur, nc), 1 .. h - 1 = (1 .. g - 1) \cup {p}, g - 1 <= Len(so),
           Len(so) \in Nat
    PROVE  QueueUpTo(h, nc)'
<1>1. so' = so /\ tagOrder' = tagOrder
  BY DEF OneFile
<1>2. \A q \in queue : q \in [top : TagLine, fileNo : 1 .. g - 1]
  BY DEF QueueUpTo
<1>3. ASSUME NEW q \in queue' PROVE q \in [top : TagLine, fileNo : 1 .. h - 1]
  <2>1. CASE q \in queue
    <3>1. q \in [top : TagLine, fileNo : 1 .. g - 1]
      BY <1>2, <2>1
    <3>2. \A i \in 1 .. g - 1 : i \in 1 .. h - 1
      OBVIOUS
    <3>3. QED
      BY <3>1, <3>2
  <2>2. CASE q \in [top : TagLine, fileNo : {p}]
    <3>1. p \in 1 .. h - 1
      OBVIOUS
    <3>2. QED
      BY <2>2, <3>1
  <2>3. QED
    BY <2>1, <2>2 DEF OneFile
<1>4. \A q \in queue' : q.fileNo # p => q \in queue
  BY DEF OneFile
<1>5. ASSUME NEW q \in queue', NEW r \in queue', q.fileNo = r.fileNo PROVE q = r
  <2>1. CASE q.fileNo = p
    BY <1>5, <2>1 DEF OneFile
  <2>2. CASE q.fileNo # p
    <3>1. q \in queue /\ r \in queue
      BY <1>4, <1>5, <2>2
    <3>2. QED
      BY <1>5, <3>1 DEF QueueUpTo
  <2>3. QED
    BY <2>1, <2>2
<1>6. ASSUME NEW q \in queue'
      PROVE  Waits(tagOrder, so[q.fileNo], at'[q.fileNo], q.top, nc[q.fileNo])
  <2>1. CASE q.fileNo = p
    <3>1. Waits(tagOrder, so[p], at'[p], q.top, nc[p])
      BY <2>1 DEF OneFile
    <3>2. QED
      BY <2>1, <3>1
  <2>2. CASE q.fileNo # p
    <3>1. q \in queue
      BY <1>4, <2>2
    <3>2. Waits(tagOrder, so[q.fileNo], at[q.fileNo], q.top, cur[q.fileNo])
      BY <3>1 DEF QueueUpTo
    <3>3. q.fileNo \in 1 .. g - 1
      BY <1>2, <3>1
    <3>4. q.fileNo \in 1 .. Len(so)
      BY <3>3
    <3>5. nc[q.fileNo] = cur[q.fileNo] /\ at'[q.fileNo] = at[q.fileNo]
      BY <2>2, <3>4 DEF OneFile
    <3>6. QED
      BY <3>2, <3>5
  <2>3. QED
    BY <2>1, <2>2
<1>7. ASSUME NEW r \in 1 .. h - 1, \A q \in queue' : q.fileNo # r
      PROVE  Finished(tagOrder, so[r], nc[r])
  <2>1. CASE r = p
    BY <1>7, <2>1 DEF OneFile
  <2>2. CASE r # p
    <3>1. r \in 1 .. g - 1 /\ r \in 1 .. Len(so)
      <4>1. r \in 1 .. g - 1
        BY <2>2
      <4>2. QED
        BY <4>1
    <3>2. nc[r] = cur[r]
      BY <2>2, <3>1 DEF OneFile
    <3>3. \A q \in queue : q.fileNo # r
      <4>1. \A q \in queue : q.fileNo # p => q \in queue'
        BY DEF OneFile
      <4>2. QED
        BY <1>7, <2>2, <4>1
    <3>4. Finished(tagOrder, so[r], cur[r])
      BY <3>1, <3>3 DEF QueueUpTo
    <3>5. QED
      BY <3>2, <3>4
  <2>3. QED
    BY <2>1, <2>2
<1>8. nc \in [1 .. Len(so) -> Positions]
  BY DEF OneFile
<1>9. queue' \subseteq [top : TagLine, fileNo : 1 .. h - 1]
  BY <1>3
<1>10. QED
  BY <1>1, <1>5, <1>6, <1>7, <1>8, <1>9 DEF QueueUpTo

LEMMA initSeqQueues ==
    ASSUME TypeInv, QueueInv, initSeq, UNCHANGED args
    PROVE  QueueInv'
<1>1. pc = "init" /\ Running /\ command = "merge2" /\ f \in 1 .. Len(so) /\ Len(so) \in Nat
  BY FileThere DEF initSeq, Running, TypeInv, PhaseInv, MergeInv
<1>2. /\ so[f] \in Seq(Line) /\ at \in [1 .. Len(so) -> Positions] /\ tagOrder \in Seq(Names)
  BY <1>1, FileThere DEF TypeInv, MergeInv, SessionInv
<1>3. UNCHANGED <<out, so, command, tagOrder, args>>
  BY DEF initSeq, mergeRest, inputs
<1>4. PICK p, lines, ones : /\ p = f /\ lines = so[f]
                            /\ ones = [r \in 1 .. Len(so) |-> 1]
  OBVIOUS
<1>5. PICK n, e, g : n = NextLine(lines, 1) /\ e = [top |-> lines[n], fileNo |-> p] /\ g = p + 1
  OBVIOUS
<1>6. /\ at' = [at EXCEPT ![p] = n + 1]
      /\ \/ n <= Len(lines) /\ lines[n] = Bad /\ pc' = "error" /\ UNCHANGED <<f, queue>>
         \/ /\ n <= Len(lines) => lines[n] # Bad
            /\ queue' = queue \cup (IF n > Len(lines) THEN {} ELSE {e})
            /\ f' = g
            /\ pc' = IF p = Len(so) THEN "merge2" ELSE "init"
  BY <1>4, <1>5 DEF initSeq
<1>7. out = << >> /\ QueueUpTo(p, ones)
  BY <1>1, <1>4 DEF QueueInv
<1>8. /\ p \in 1 .. Len(so) /\ p \in Nat /\ g \in Nat /\ lines \in Seq(Line) /\ g - 1 = p
      /\ 1 .. g - 1 = (1 .. p - 1) \cup {p} /\ p - 1 <= Len(so)
  <2>1. p \in 1 .. Len(so) /\ p \in Nat /\ g \in Nat /\ g - 1 = p /\ p - 1 <= Len(so)
    BY <1>1, <1>4, <1>5
  <2>2. 1 .. g - 1 = (1 .. p - 1) \cup {p}
    BY <2>1
  <2>3. QED
    BY <1>2, <1>4, <2>1, <2>2
<1>9. PICK s : s = TagsUpTo(lines, 1 - 1)
  OBVIOUS
<1>10. s = << >> /\ ReadUpTo(lines, 1) /\ Len(s) + 1 = 1
  <2>1. 0 \in 0 .. Len(lines) /\ Len(lines) \in Nat
    BY <1>8, LenProperties
  <2>2. TagsUpTo(lines, 0) = << >>
    BY <1>8, <2>1, TagsUpToTypes
  <2>3. QED
    BY <1>9, <2>1, <2>2 DEF ReadUpTo
<1>11. OrderlyBy(tagOrder, s)
  BY <1>10, EmptyOrderly
<1>12. /\ n > Len(lines) => Finished(tagOrder, lines, 1)
       /\ n <= Len(lines) /\ lines[n] = Bad => ~ Clean(lines)
       /\ n <= Len(lines) /\ lines[n] # Bad =>
            lines[n] \in TagLine /\ Waits(tagOrder, lines, n + 1, lines[n], 1)
       /\ n \in Nat /\ Len(lines) \in Nat
  BY <1>2, <1>5, <1>8, <1>9, <1>10, <1>11, QueueLine
<1>13. Files' = Files /\ Refused2' = Refused2
  BY <1>3, QueueFrame
<1>14. OrderlyBy(tagOrder', out')
  BY <1>3, <1>7, EmptyOrderly
<1>15. CASE n <= Len(lines) /\ lines[n] = Bad /\ pc' = "error"
  <2>1. Refused2
    BY <1>4, <1>8, <1>12, <1>15 DEF Refused2
  <2>2. QED
    BY <1>13, <1>14, <1>15, <2>1 DEF QueueInv
<1>16. CASE /\ n <= Len(lines) => lines[n] # Bad
            /\ queue' = queue \cup (IF n > Len(lines) THEN {} ELSE {e})
            /\ f' = g
            /\ pc' = IF p = Len(so) THEN "merge2" ELSE "init"
  <2>1. \A q \in queue : q.fileNo \in 1 .. p - 1 /\ q.fileNo # p
    <3>1. \A q \in queue : q.fileNo \in 1 .. p - 1
      BY <1>7 DEF QueueUpTo
    <3>2. QED
      BY <1>8, <3>1
  <2>2. /\ at'[p] = n + 1 /\ ones[p] = 1
        /\ \A r \in 1 .. Len(so) : r # p => at'[r] = at[r]
    BY <1>2, <1>4, <1>6, <1>8
  <2>3. /\ n > Len(lines) => queue' = queue
        /\ n <= Len(lines) => queue' = queue \cup {e}
    BY <1>12, <1>16
  <2>4. /\ n <= Len(lines) => e \in [top : TagLine, fileNo : {p}] /\ e.fileNo = p /\ e.top = lines[n]
    BY <1>5, <1>12, <1>16
  <2>5. ones \in [1 .. Len(so) -> Positions]
    BY <1>4 DEF Positions
  <2>6. n > Len(lines) \/ n <= Len(lines)
    BY <1>12
  <2>7. \A q \in queue' : q \in queue \/ q \in [top : TagLine, fileNo : {p}]
    BY <2>3, <2>4, <2>6
  <2>8. \A q \in queue : q.fileNo # p => q \in queue'
    BY <2>3, <2>6
  <2>9. \A q \in queue' : q.fileNo = p => n <= Len(lines) /\ q = e
    BY <2>1, <2>3, <2>6
  <2>10. \A q \in queue' : q.fileNo = p => Waits(tagOrder, so[p], at'[p], q.top, ones[p])
    BY <1>4, <1>12, <1>16, <2>2, <2>4, <2>9
  <2>11. (\A q \in queue' : q.fileNo # p) => Finished(tagOrder, so[p], ones[p])
    BY <1>4, <1>12, <2>2, <2>3, <2>4, <2>6
  <2>12. OneFile(p, ones, ones)
    BY <1>3, <2>2, <2>5, <2>7, <2>8, <2>9, <2>10, <2>11 DEF OneFile
  <2>13. QueueUpTo(g, ones)'
    BY <1>1, <1>7, <1>8, <2>12, QueueChanged
  <2>14. CASE p # Len(so)
    <3>1. ones = [r \in 1 .. Len(so') |-> 1]
      BY <1>3, <1>4
    <3>2. \E c, k : k = f' /\ c = [r \in 1 .. Len(so') |-> 1] /\ QueueUpTo(k, c)'
      BY <1>16, <2>13, <3>1
    <3>3. pc' = "init" /\ out' = << >>
      BY <1>3, <1>7, <1>16, <2>14
    <3>4. QED
      BY <1>14, <3>2, <3>3 DEF QueueInv
  <2>15. CASE p = Len(so)
    <3>1. /\ Files \in Seq(Seq(TagLine)) /\ Len(Files) = Len(so) /\ Len(Files) # 0
      BY <1>8, <2>15, FilesTypes
    <3>2. PICK T, all : T = Files /\ all = FlattenSeq(T)
      OBVIOUS
    <3>3. PICK off : Offsets(T, off, all)
      BY <3>1, <3>2, FlattenOffsets
    <3>4. ones = [r \in 1 .. Len(T) |-> 1]
      BY <1>4, <3>1, <3>2
    <3>5. Drawn(tagOrder, T, off, all, << >>, ones) /\ Ahead(tagOrder, T, off, all, ones)
      BY <3>1, <3>2, <3>3, <3>4, NothingDrawn
    <3>6. SoFar(off, all, ones)'
      BY <1>3, <1>7, <1>13, <3>2, <3>3, <3>5 DEF SoFar
    <3>7. all = FlattenSeq(Files') /\ g = Len(so') + 1
      BY <1>3, <1>5, <1>13, <2>15, <3>2
    <3>8. \E c, o, k : /\ k = Len(so') + 1 /\ QueueUpTo(k, c)'
                       /\ SoFar(o, FlattenSeq(Files), c)'
      BY <2>13, <3>6, <3>7
    <3>9. pc' = "merge2"
      BY <1>16, <2>15
    <3>10. QED
      BY <1>14, <3>8, <3>9 DEF QueueInv
  <2>16. QED
    BY <2>14, <2>15
<1>17. QED
  BY <1>6, <1>15, <1>16

\* What the files have next: the tag in the queue, or nothing.
LEMMA QueuedTags ==
    ASSUME TypeInv, NEW g, g = Len(so) + 1, NEW cur, QueueUpTo(g, cur)
    PROVE  /\ \A q \in queue : /\ q.fileNo \in 1 .. Len(so) /\ q.top \in TagLine
                               /\ cur[q.fileNo] \in 1 .. Len(Files[q.fileNo])
                               /\ Files[q.fileNo][cur[q.fileNo]] = q.top
           /\ \A p \in 1 .. Len(so) : cur[p] <= Len(Files[p]) => \E q \in queue : q.fileNo = p
<1>1. /\ Len(so) \in Nat /\ g - 1 = Len(so)
      /\ \A p \in 1 .. Len(so) : /\ so[p] \in Seq(Line) /\ Files[p] = Tags(so[p])
                                 /\ Len(Tags(so[p])) \in Nat
  BY FilesTypes
<1>2. tagOrder \in Seq(Names)
  BY DEF TypeInv, SessionInv
<1>3. ASSUME NEW q \in queue
      PROVE  /\ q.fileNo \in 1 .. Len(so) /\ q.top \in TagLine
             /\ cur[q.fileNo] \in 1 .. Len(Files[q.fileNo])
             /\ Files[q.fileNo][cur[q.fileNo]] = q.top
  <2>1. q \in [top : TagLine, fileNo : 1 .. g - 1]
    BY DEF QueueUpTo
  <2>2. PICK p, t, c, lines : p = q.fileNo /\ t = q.top /\ c = cur[p] /\ lines = so[p]
    OBVIOUS
  <2>3. p \in 1 .. Len(so) /\ t \in TagLine /\ lines \in Seq(Line) /\ Files[p] = Tags(lines)
    BY <1>1, <2>1, <2>2
  <2>4. Waits(tagOrder, lines, at[p], t, c)
    BY <2>2 DEF QueueUpTo
  <2>5. c \in 1 .. Len(Tags(lines)) /\ Tags(lines)[c] = t
    BY <1>2, <2>3, <2>4, WaitingTag
  <2>6. QED
    BY <2>2, <2>3, <2>5
<1>4. ASSUME NEW p \in 1 .. Len(so), cur[p] <= Len(Files[p])
      PROVE  \E q \in queue : q.fileNo = p
  <2>1. SUFFICES ASSUME \A q \in queue : q.fileNo # p PROVE FALSE
    OBVIOUS
  <2>2. p \in 1 .. g - 1
    BY <1>1
  <2>3. Finished(tagOrder, so[p], cur[p])
    BY <2>1, <2>2 DEF QueueUpTo
  <2>4. cur[p] = Len(Tags(so[p])) + 1
    BY <2>3 DEF Finished
  <2>5. QED
    BY <1>1, <1>4, <2>4
<1>5. QED
  BY <1>3, <1>4

\* The tag at the head of the queue goes before all others.
LEMMA QueueHead ==
    ASSUME TypeInv, NEW g, g = Len(so) + 1, NEW cur, QueueUpTo(g, cur),
           NEW ts \in queue, \A o \in queue \ {ts} : Comp(o, ts),
           NEW q \in 1 .. Len(so), q # ts.fileNo, cur[q] <= Len(Files[q])
    PROVE  \/ EarlierBy(tagOrder, Files[ts.fileNo][cur[ts.fileNo]], Files[q][cur[q]])
           \/ /\ ts.fileNo < q
              /\ ~ EarlierBy(tagOrder, Files[q][cur[q]], Files[ts.fileNo][cur[ts.fileNo]])
<1>1. PICK o \in queue : o.fileNo = q
  BY QueuedTags
<1>2. /\ Files[ts.fileNo][cur[ts.fileNo]] = ts.top /\ ts.top \in TagLine
      /\ ts.fileNo \in 1 .. Len(so)
  BY QueuedTags
<1>3. Files[q][cur[q]] = o.top /\ o.top \in TagLine
  BY <1>1, QueuedTags
<1>4. Comp(o, ts)
  BY <1>1
<1>5. tagOrder \in Seq(Names) /\ Len(so) \in Nat
  BY FilesTypes DEF TypeInv, SessionInv
<1>6. ts.fileNo \in Nat /\ o.fileNo \in Nat
  BY <1>1, <1>2, <1>5
<1>7. \/ EarlierBy(tagOrder, ts.top, o.top)
      \/ ts.fileNo < o.fileNo /\ ~ EarlierBy(tagOrder, o.top, ts.top)
  BY <1>2, <1>3, <1>4, <1>5, <1>6, CompIs
<1>8. QED
  BY <1>1, <1>2, <1>3, <1>7

\* The merging loop ends when every file has.
LEMMA QueueEmpty ==
    ASSUME TypeInv, QueueInv, pc = "merge2", queue = {}
    PROVE  ~ Refused2 /\ out = InOrderUnion(FlattenSeq(Files))
<1>1. PICK g, cur, off, all : /\ g = Len(so) + 1 /\ QueueUpTo(g, cur)
                              /\ SoFar(off, all, cur) /\ all = FlattenSeq(Files)
  BY DEF QueueInv
<1>2. /\ Files \in Seq(Seq(TagLine)) /\ Len(Files) = Len(so) /\ Len(so) \in Nat /\ g - 1 = Len(so)
      /\ \A p \in 1 .. Len(so) : Files[p] = Tags(so[p]) /\ Len(Tags(so[p])) \in Nat
  BY <1>1, FilesTypes
<1>3. \A p \in 1 .. Len(so) : Finished(tagOrder, so[p], cur[p])
  BY <1>1, <1>2 DEF QueueUpTo
<1>4. ~ Refused2
  BY <1>3 DEF Finished, Refused2
<1>5. \A p \in 1 .. Len(Files) : \A k \in 1 .. Len(Files[p]) : k < cur[p]
  <2>1. ASSUME NEW p \in 1 .. Len(Files), NEW k \in 1 .. Len(Files[p]) PROVE k < cur[p]
    <3>1. cur[p] = Len(Files[p]) + 1 /\ Len(Files[p]) \in Nat
      BY <1>2, <1>3 DEF Finished
    <3>2. QED
      BY <3>1
  <2>2. QED
    BY <2>1
<1>6. tagOrder \in Seq(Names)
  BY DEF TypeInv, SessionInv
<1>7. out \in Seq(TagLine)
  <2>1. command = "merge2"
    BY DEF TypeInv, PhaseInv
  <2>2. QED
    BY <2>1, PlainOut DEF TypeInv
<1>8. PICK T, s : T = Files /\ s = out
  OBVIOUS
<1>9. /\ T \in Seq(Seq(TagLine)) /\ s \in Seq(TagLine)
      /\ Offsets(T, off, all) /\ Drawn(tagOrder, T, off, all, s, cur)
      /\ \A p \in 1 .. Len(T) : \A k \in 1 .. Len(T[p]) : k < cur[p]
  BY <1>1, <1>2, <1>5, <1>7, <1>8 DEF SoFar
<1>10. s = InOrderUnion(all)
  BY <1>6, <1>9, DrawnAll
<1>11. QED
  BY <1>1, <1>4, <1>8, <1>10

LEMMA mergeQueueQueues ==
    ASSUME TypeInv, QueueInv, mergeQueue, UNCHANGED args
    PROVE  QueueInv'
<1>1. pc = "merge2" /\ Running /\ command = "merge2" /\ tagOrder \in Seq(Names)
  BY DEF mergeQueue, Running, TypeInv, PhaseInv, SessionInv
<1>2. UNCHANGED <<so, command, tagOrder, args>>
  BY DEF mergeQueue, mergeRest, inputs
<1>3. Files' = Files /\ Refused2' = Refused2
  BY <1>2, QueueFrame
<1>4. CASE queue = {} /\ pc' = "ok" /\ UNCHANGED <<out, at, queue>>
  <2>1. ~ Refused2 /\ out = InOrderUnion(FlattenSeq(Files))
    BY <1>1, <1>4, QueueEmpty
  <2>2. (FlattenSeq(Files))' = FlattenSeq(Files)
    BY <1>3
  <2>3. (InOrderUnion(FlattenSeq(Files)))' = InOrderUnion(FlattenSeq(Files))
    BY <1>2, <2>2 DEF InOrderUnion, StablySorted, Earlier
  <2>4. args = "ok" => OrderlyBy(tagOrder', out')
    BY <1>1, <1>2, <1>4 DEF QueueInv
  <2>5. QED
    BY <1>2, <1>3, <1>4, <2>1, <2>3, <2>4 DEF QueueInv
<1>5. ASSUME NEW ts \in queue, \A o \in queue \ {ts} : Comp(o, ts),
             out' = Append(out, ts.top),
             NEW p, NEW lines, p = ts.fileNo, lines = so[p],
             NEW n, n = NextLine(lines, at[p]),
             NEW t, t = lines[n],
             at' = [at EXCEPT ![p] = n + 1],
             \/ n > Len(lines) /\ queue' = queue \ {ts} /\ UNCHANGED pc
             \/ n <= Len(lines) /\ ~ (t # Bad /\ ~ Inverted(ts.top, t)) /\ pc' = "error"
             \/ /\ n <= Len(lines) /\ t # Bad /\ ~ Inverted(ts.top, t)
                /\ queue' = (queue \ {ts}) \cup {[ts EXCEPT !.top = t]}
                /\ UNCHANGED pc
      PROVE  QueueInv'
  <2>1. PICK g, cur, off, all : /\ g = Len(so) + 1 /\ QueueUpTo(g, cur)
                                /\ SoFar(off, all, cur) /\ all = FlattenSeq(Files)
    BY <1>1 DEF QueueInv
  <2>2. /\ Files \in Seq(Seq(TagLine)) /\ Len(Files) = Len(so) /\ Len(so) \in Nat /\ g - 1 = Len(so)
        /\ \A r \in 1 .. Len(so) : so[r] \in Seq(Line) /\ Files[r] = Tags(so[r])
    BY <2>1, FilesTypes
  <2>3. PICK T, u, c, s : /\ T = Files /\ u = ts.top /\ c = cur[p]
                          /\ s = TagsUpTo(lines, at[p] - 1)
    OBVIOUS
  <2>4. /\ p \in 1 .. Len(so) /\ u \in TagLine /\ c \in 1 .. Len(T[p]) /\ T[p][c] = u
        /\ lines \in Seq(Line) /\ T[p] = Tags(lines)
    BY <1>5, <2>1, <2>2, <2>3, QueuedTags
  <2>5. Waits(tagOrder, lines, at[p], u, c)
    BY <1>5, <2>1, <2>3 DEF QueueUpTo
  <2>6. /\ ReadUpTo(lines, at[p]) /\ s # << >> /\ c = Len(s) /\ u = Last(s)
        /\ OrderlyBy(tagOrder, s)
    BY <2>3, <2>5 DEF Waits
  <2>7. /\ n > Len(lines) => Finished(tagOrder, lines, Len(s) + 1)
        /\ n <= Len(lines) /\ lines[n] = Bad => ~ Clean(lines)
        /\ n <= Len(lines) /\ lines[n] # Bad =>
             /\ lines[n] \in TagLine
             /\ s = << >> \/ ~ EarlierBy(tagOrder, lines[n], Last(s)) =>
                  Waits(tagOrder, lines, n + 1, lines[n], Len(s) + 1)
             /\ s # << >> /\ EarlierBy(tagOrder, lines[n], Last(s)) => ~ OrderlyBy(tagOrder, Tags(lines))
        /\ n \in Nat /\ Len(lines) \in Nat /\ s \in Seq(TagLine)
    BY <1>1, <1>5, <2>3, <2>4, <2>6, QueueLine
  <2>8. PICK nc : nc = [cur EXCEPT ![p] = c + 1]
    OBVIOUS
  <2>9. cur \in [1 .. Len(so) -> Positions]
    BY <2>1 DEF QueueUpTo
  <2>10. c \in Nat /\ c + 1 \in Positions
    BY <2>6, <2>7, LenProperties DEF Positions
  <2>11. /\ nc \in [1 .. Len(so) -> Positions] /\ nc[p] = c + 1
         /\ \A q \in 1 .. Len(so) : q # p => nc[q] = cur[q]
    BY <2>4, <2>8, <2>9, <2>10
  <2>12. Draws(T, cur, p, nc)
    BY <2>2, <2>3, <2>4, <2>9, <2>11 DEF Draws
  <2>13. out \in Seq(TagLine)
    BY <1>1, PlainOut DEF TypeInv
  <2>14. /\ Offsets(T, off, all) /\ Drawn(tagOrder, T, off, all, out, cur)
         /\ Ahead(tagOrder, T, off, all, cur)
    BY <2>1, <2>3 DEF SoFar
  <2>15. Drawn(tagOrder, T, off, all, Append(out, T[p][cur[p]]), nc)
    BY <1>1, <2>2, <2>3, <2>12, <2>13, <2>14, DrawOne
  <2>16. out' \in Seq(TagLine) /\ Drawn(tagOrder, T, off, all, out', nc)
    BY <1>5, <2>3, <2>4, <2>13, <2>15, AppendProperties
  <2>17. OrderlyBy(tagOrder, out')
    BY <1>1, <2>2, <2>3, <2>14, <2>16, DrawnOrderly
  <2>18. \A q \in 1 .. Len(T) : q # p /\ cur[q] <= Len(T[q]) =>
            \/ EarlierBy(tagOrder, T[p][cur[p]], T[q][cur[q]])
            \/ p < q /\ ~ EarlierBy(tagOrder, T[q][cur[q]], T[p][cur[p]])
    BY <1>5, <2>1, <2>2, <2>3, QueueHead
  <2>19. CASE n <= Len(lines) /\ ~ (t # Bad /\ ~ Inverted(ts.top, t)) /\ pc' = "error"
    <3>1. ~ Clean(lines) \/ ~ OrderlyBy(tagOrder, Tags(lines))
      <4>1. CASE t = Bad
        BY <1>5, <2>7, <2>19, <4>1
      <4>2. CASE t # Bad
        <5>1. Inverted(u, t) /\ t \in TagLine
          BY <1>5, <2>3, <2>7, <2>19, <4>2
        <5>2. EarlierBy(tagOrder, t, Last(s))
          BY <1>1, <2>4, <2>6, <5>1, InvertedIs
        <5>3. QED
          BY <1>5, <2>6, <2>7, <2>19, <4>2, <5>2
      <4>3. QED
        BY <4>1, <4>2
    <3>2. Refused2
      BY <1>5, <2>4, <3>1 DEF Refused2
    <3>3. QED
      BY <1>2, <1>3, <2>17, <2>19, <3>2 DEF QueueInv
  <2>20. ASSUME OneFile(p, cur, nc), pc' = pc,
                nc[p] <= Len(T[p]) => ~ EarlierBy(tagOrder, T[p][nc[p]], T[p][cur[p]])
         PROVE  QueueInv'
    <3>1. 1 .. g - 1 = (1 .. g - 1) \cup {p} /\ g \in Nat /\ g - 1 <= Len(so)
      BY <2>1, <2>2, <2>4
    <3>2. QueueUpTo(g, nc)'
      BY <2>1, <2>2, <2>4, <2>20, <3>1, QueueChanged
    <3>3. Ahead(tagOrder, T, off, all, nc)
      BY <1>1, <2>2, <2>3, <2>12, <2>14, <2>18, <2>20, AheadOne
    <3>4. SoFar(off, all, nc)'
      BY <1>2, <1>3, <2>3, <2>14, <2>16, <3>3 DEF SoFar
    <3>5. \E d, o, k : /\ k = Len(so') + 1 /\ QueueUpTo(k, d)'
                       /\ SoFar(o, FlattenSeq(Files), d)'
      <4>1. all = FlattenSeq(Files') /\ g = Len(so') + 1
        BY <1>2, <1>3, <2>1
      <4>2. QED
        BY <3>2, <3>4, <4>1
    <3>6. pc' = "merge2"
      BY <1>1, <2>20
    <3>7. OrderlyBy(tagOrder', out')
      BY <1>2, <2>17
    <3>8. QED
      BY <3>5, <3>6, <3>7 DEF QueueInv
  <2>21. /\ ts \in [top : TagLine, fileNo : 1 .. g - 1]
         /\ \A q \in queue : q.fileNo = p => q = ts
    BY <1>5, <2>1 DEF QueueUpTo
  <2>22. at'[p] = n + 1 /\ \A r \in 1 .. Len(so) : r # p => at'[r] = at[r]
    <3>1. at \in [1 .. Len(so) -> Positions]
      BY <1>1 DEF TypeInv, MergeInv
    <3>2. QED
      BY <1>5, <2>4, <3>1
  <2>23. CASE n > Len(lines) /\ queue' = queue \ {ts} /\ UNCHANGED pc
    <3>1. Finished(tagOrder, lines, c + 1)
      BY <2>6, <2>7, <2>23
    <3>2. \A q \in queue' : q \in queue /\ q.fileNo # p
      BY <2>21, <2>23
    <3>3. \A q \in queue : q.fileNo # p => q \in queue'
      BY <1>5, <2>23
    <3>4. Finished(tagOrder, so[p], nc[p])
      BY <1>5, <2>11, <3>1
    <3>5. OneFile(p, cur, nc)
      BY <1>2, <2>11, <2>22, <3>2, <3>3, <3>4 DEF OneFile
    <3>6. ~ (nc[p] <= Len(T[p]))
      <4>1. c + 1 = Len(T[p]) + 1
        BY <2>4, <3>1 DEF Finished
      <4>2. QED
        BY <2>4, <2>10, <2>11, <4>1
    <3>7. QED
      BY <2>20, <2>23, <3>5, <3>6
  <2>24. CASE /\ n <= Len(lines) /\ t # Bad /\ ~ Inverted(ts.top, t)
              /\ queue' = (queue \ {ts}) \cup {[ts EXCEPT !.top = t]}
              /\ UNCHANGED pc
    <3>1. t \in TagLine
      BY <1>5, <2>7, <2>24
    <3>2. ~ EarlierBy(tagOrder, t, u)
      BY <1>1, <2>3, <2>4, <2>24, <3>1, InvertedIs
    <3>3. Waits(tagOrder, lines, n + 1, t, c + 1)
      BY <1>5, <2>6, <2>7, <2>24, <3>2
    <3>4. PICK e : e = [ts EXCEPT !.top = t]
      OBVIOUS
    <3>5. e \in [top : TagLine, fileNo : {p}] /\ e.fileNo = p /\ e.top = t
      BY <1>5, <2>21, <3>1, <3>4
    <3>6. queue' = (queue \ {ts}) \cup {e}
      BY <2>24, <3>4
    <3>7. \A q \in queue' : q.fileNo = p => q = e
      BY <2>21, <3>6
    <3>8. \A q \in queue' : q \in queue \/ q \in [top : TagLine, fileNo : {p}]
      BY <3>5, <3>6
    <3>9. \A q \in queue : q.fileNo # p => q \in queue'
      BY <1>5, <3>6
    <3>10. \A q \in queue' : q.fileNo = p => Waits(tagOrder, so[p], at'[p], q.top, nc[p])
      BY <1>5, <2>11, <2>22, <3>3, <3>5, <3>7
    <3>11. ~ \A q \in queue' : q.fileNo # p
      BY <3>5, <3>6
    <3>12. OneFile(p, cur, nc)
      BY <1>2, <2>11, <2>22, <3>7, <3>8, <3>9, <3>10, <3>11 DEF OneFile
    <3>13. T[p][cur[p]] = u /\ (nc[p] <= Len(T[p]) => T[p][nc[p]] = t)
      <4>1. c + 1 \in 1 .. Len(Tags(lines)) /\ Tags(lines)[c + 1] = t
        BY <1>1, <2>4, <3>3, WaitingTag
      <4>2. QED
        BY <2>3, <2>4, <2>11, <4>1
    <3>14. QED
      BY <2>20, <2>24, <3>2, <3>12, <3>13
  <2>25. QED
    BY <1>5, <2>19, <2>23, <2>24
<1>6. QED
  BY <1>4, <1>5 DEF mergeQueue

LEMMA QueueKinds ==
    ASSUME TypeInv, [Next]_somVars
    PROVE  \/ main \/ andThen \/ UNCHANGED somVars
           \/ (initSeq \/ mergeQueue) /\ UNCHANGED args
           \/ command' # "merge2"
<1>1. CASE main \/ andThen \/ UNCHANGED somVars
  BY <1>1
<1>2. CASE Elsewhere /\ ~ (initSeq \/ mergeQueue)
  <2>1. CASE MergeNext /\ UNCHANGED args
    <3>1. MergeCommon
      BY <1>2, <2>1 DEF MergeNext, MergeCommon
    <3>2. command' = command /\ pc \in {"read", "merge", "sort", "write"}
      BY <3>1 DEF MergeCommon, readData, mergeTags, sort, writeData, mergeRest, inputs
    <3>3. QED
      BY <3>2 DEF TypeInv, PhaseInv
  <2>2. CASE ClipNext
    <3>1. pc \in {"clip", "container", "embedded"} /\ command' = command
      BY <1>2, <2>2 DEF ClipNext, clipData, setClippingSpan, map, Elsewhere
    <3>2. QED
      BY <3>1 DEF TypeInv, PhaseInv
  <2>3. CASE XmlNext
    <3>1. pc \in {"import", "export", "exportEnd"} /\ command' = command
      BY <1>2, <2>3 DEF XmlNext, seekRoot, readText, readTag, readTail, writeSemiXML, writeRest, Elsewhere
    <3>2. QED
      BY <3>1 DEF TypeInv, PhaseInv
  <2>4. CASE main \/ andThen \/ ended \/ UNCHANGED somVars
    BY <1>1, <2>4 DEF ended
  <2>5. QED
    BY <2>1, <2>2, <2>3, <2>4 DEF Next
<1>3. CASE MergeCommon /\ UNCHANGED <<clipVars, xmlVars, script, ran, args>>
  <2>1. command' = command /\ pc \in {"read", "merge", "sort", "write"}
    BY <1>3 DEF MergeCommon, readData, mergeTags, sort, writeData, mergeRest, inputs
  <2>2. QED
    BY <2>1 DEF TypeInv, PhaseInv
<1>4. QED
  BY <1>1, <1>2, <1>3, StepKinds DEF Elsewhere

LEMMA mainQueues ==
    ASSUME TypeInv, TypeInv', main
    PROVE  QueueInv'
<1>1. /\ command' = Head(script) /\ pc' = exec(Head(script))
      /\ out' = << >> /\ UNCHANGED <<so, args, tagOrder>>
  BY DEF main
<1>2. f' = 1 /\ queue' = {}
  BY DEF main, MergeReset
<1>3. args \in {"ok", "help", "usage", "nofile"} /\ Len(so) \in Nat
  BY LenProperties DEF TypeInv, SessionInv
<1>4. /\ pc' \in {"read", "init", "clip", "container", "import", "export", "ok", "error"}
      /\ args = "ok" => pc' # "ok"
  BY <1>1, <1>3, ExecEntry
<1>5. args = "ok" /\ command' = "merge2" => pc' = "init"
  BY <1>1 DEF exec, Entry, MergeEntry, MergeCommands
<1>6. OrderlyBy(tagOrder', out')
  BY <1>1, EmptyOrderly
<1>7. PICK ones, g : ones = [p \in 1 .. Len(so) |-> 1] /\ g = 1
  OBVIOUS
<1>8. ones \in [1 .. Len(so) -> Positions] /\ \A p \in 1 .. g - 1 : FALSE
  BY <1>7 DEF Positions
<1>9. QueueUpTo(g, ones)'
  BY <1>1, <1>2, <1>8 DEF QueueUpTo
<1>10. ones = [p \in 1 .. Len(so') |-> 1] /\ g = f'
  BY <1>1, <1>2, <1>7
<1>11. \E c, k : k = f' /\ c = [p \in 1 .. Len(so') |-> 1] /\ QueueUpTo(k, c)'
  BY <1>9, <1>10
<1>12. QED
  BY <1>1, <1>4, <1>5, <1>6, <1>11 DEF QueueInv

LEMMA QueueStep == TypeInv /\ QueueInv /\ [Next]_somVars => QueueInv'
<1> SUFFICES ASSUME TypeInv, QueueInv, [Next]_somVars PROVE QueueInv'
  OBVIOUS
<1>1. TypeInv'
  BY StepTypes
<1>2. CASE UNCHANGED somVars
  <2>1. UNCHANGED <<command, pc, so, args, out, tagOrder, f, at, queue>>
    BY <1>2 DEF somVars, mergeVars
  <2>2. Files' = Files /\ Refused2' = Refused2
    BY <2>1, QueueFrame
  <2>3. (FlattenSeq(Files))' = FlattenSeq(Files)
    BY <2>2
  <2>4. (InOrderUnion(FlattenSeq(Files)))' = InOrderUnion(FlattenSeq(Files))
    BY <2>1, <2>3 DEF InOrderUnion, StablySorted, Earlier
  <2>5. \A g, cur : QueueUpTo(g, cur)' <=> QueueUpTo(g, cur)
    BY <2>1 DEF QueueUpTo
  <2>6. ASSUME pc = "init"
        PROVE  \E cur, g : g = f' /\ cur = [p \in 1 .. Len(so') |-> 1] /\ QueueUpTo(g, cur)'
    BY <2>1, <2>5, <2>6 DEF QueueInv
  <2>7. ASSUME pc = "merge2"
        PROVE  \E cur, off, g : /\ g = Len(so') + 1 /\ QueueUpTo(g, cur)'
                                /\ SoFar(off, FlattenSeq(Files), cur)'
    <3>1. PICK cur, off, g, all : /\ g = Len(so) + 1 /\ QueueUpTo(g, cur)
                                  /\ SoFar(off, all, cur) /\ all = FlattenSeq(Files)
      BY <2>7 DEF QueueInv
    <3>2. SoFar(off, all, cur)'
      BY <2>1, <2>2, <3>1 DEF SoFar
    <3>3. all = FlattenSeq(Files') /\ g = Len(so') + 1 /\ QueueUpTo(g, cur)'
      BY <2>1, <2>2, <2>5, <3>1
    <3>4. QED
      BY <3>2, <3>3
  <2>8. QED
    BY <2>1, <2>2, <2>4, <2>6, <2>7 DEF QueueInv
<1>3. CASE command' # "merge2"
  <2>1. pc' \notin {"init", "merge2"}
    BY <1>1, <1>3 DEF TypeInv, PhaseInv
  <2>2. QED
    BY <1>3, <2>1 DEF QueueInv
<1>4. CASE andThen
  <2>1. pc' = "shell" /\ UNCHANGED <<command, out, args, tagOrder>>
    BY <1>4 DEF andThen, outputs, mergeVars
  <2>2. QED
    BY <2>1 DEF QueueInv
<1>5. CASE main
  BY <1>1, <1>5, mainQueues
<1>6. CASE (initSeq \/ mergeQueue) /\ UNCHANGED args
  BY <1>6, initSeqQueues, mergeQueueQueues
<1>7. QED
  BY <1>2, <1>3, <1>4, <1>5, <1>6, QueueKinds

LEMMA InitQueue == Init => QueueInv
  BY DEF Init, QueueInv

LEMMA QueueInvariant == Spec => []QueueInv
  BY InitQueue, QueueStep, TypesInvariant, PTL DEF Spec

LEMMA Merge2Suffices == TypeInv /\ QueueInv => Merge2Right
<1> SUFFICES ASSUME TypeInv, QueueInv, command = "merge2", args = "ok"
             PROVE  /\ InOrder(out)
                    /\ pc \in {"ok", "error"} =>
                         (pc = "ok" <=> \A p \in DOMAIN so : Clean(so[p]) /\ InOrder(Tags(so[p])))
                    /\ pc = "ok" =>
                         out = StablySorted(FlattenSeq([p \in DOMAIN so |-> Tags(so[p])]), Earlier)
  BY DEF Merge2Right
<1>1. /\ OrderlyBy(tagOrder, out)
      /\ pc = "ok" => ~ Refused2 /\ out = InOrderUnion(FlattenSeq(Files))
      /\ pc = "error" => Refused2
  BY DEF QueueInv
<1>2. \A s : InOrder(s) <=> OrderlyBy(tagOrder, s)
  BY DEF InOrder, Earlier, OrderlyBy, EarlierBy
<1>3. so \in Seq(Seq(Line))
  BY DEF TypeInv, SessionInv
<1>4. DOMAIN so = 1 .. Len(so)
  BY <1>3, LenProperties
<1>5. Refused2 <=> ~ \A p \in DOMAIN so : Clean(so[p]) /\ InOrder(Tags(so[p]))
  BY <1>2, <1>4 DEF Refused2
<1>6. [p \in DOMAIN so |-> Tags(so[p])] = Files
  BY <1>4 DEF Files
<1>7. FlattenSeq([p \in DOMAIN so |-> Tags(so[p])]) = FlattenSeq(Files)
  BY <1>6
<1>8. InOrderUnion(FlattenSeq([p \in DOMAIN so |-> Tags(so[p])])) = InOrderUnion(FlattenSeq(Files))
  BY <1>7
<1>9. pc = "ok" => out = InOrderUnion(FlattenSeq([p \in DOMAIN so |-> Tags(so[p])]))
  BY <1>1, <1>8
<1>10. pc = "ok" => out = StablySorted(FlattenSeq([p \in DOMAIN so |-> Tags(so[p])]), Earlier)
  BY <1>9 DEF InOrderUnion
<1>11. QED
  BY <1>1, <1>2, <1>5, <1>10

\* For any number of files and every tag order: what merge2 has written is in order at
\* every moment, also when it stops; it stops only for a file with a bad line or out of
\* order, and else writes the stable union of all files.
THEOREM Merge2IsRight == Spec => []Merge2Right
  BY TypesInvariant, QueueInvariant, Merge2Suffices, PTL

-----------------------------------------------------------------------------
(* The text that clip writes, and the regions Mapper sees in it.                *)

Spans == [first : Int, second : Int]
Places2 == [first : Nat, second : Nat]
Shape(d, r) == d \in Seq(Spans) /\ r \in Seq(Places2) /\ Len(d) = Len(r)

\* Region k of the regions d of the text stands for region k of r of the whole text.
Region(d, r, text, k) ==
    /\ d[k].first \in Nat /\ d[k].second \in Nat
    /\ d[k].first <= d[k].second /\ d[k].second <= Len(text)
    /\ d[k].first = IF k = 1 THEN 0 ELSE d[k - 1].second + 1
    /\ d[k].second - d[k].first = r[k].second - r[k].first
    /\ \A p \in d[k].first .. d[k].second - 1 : text[p + 1] = r[k].first + (p - d[k].first)
    /\ k < Len(d) => d[k].second < Len(text) /\ text[d[k].second + 1] = Newline

\* The text is made of these regions, with a separator between any two.
Layout(d, r, text) ==
    /\ Shape(d, r) /\ text \in Seq(Nat \cup {Newline})
    /\ Len(text) = IF Len(d) = 0 THEN 0 ELSE d[Len(d)].second
    /\ \A k \in 1 .. Len(d) : Region(d, r, text, k)

\* One more tag for Mapper: a new region, or a longer last one.
Opens(d, r, s, e, q) ==
    /\ Len(r) > 0 => r[Len(r)].second < s.first
    /\ LET from == IF Len(r) = 0 THEN 0 ELSE d[Len(r)].second + 1
       IN  e = Append(d, [first |-> from, second |-> from + s.second - s.first])
    /\ q = Append(r, [first |-> s.first, second |-> s.second])
Extends(d, r, s, e, q) ==
    /\ Len(r) > 0 /\ s.first <= r[Len(r)].second /\ s.first >= r[Len(r)].first
    /\ r[Len(r)].second < s.second
    /\ e = [d EXCEPT ![Len(r)].second = @ + s.second - r[Len(r)].second]
    /\ q = [r EXCEPT ![Len(r)].second = s.second]
Adds(d, r, s, e, q) == Opens(d, r, s, e, q) \/ Extends(d, r, s, e, q)
Refuses(r, s) ==
    /\ Len(r) > 0 /\ s.first < r[Len(r)].first /\ s.first <= r[Len(r)].second
    /\ r[Len(r)].second < s.second

LEMMA CopyChars ==
    ASSUME NEW a \in Nat, NEW b \in Nat, a <= b
    PROVE  /\ Copy(a, b) \in Seq(Nat \cup {Newline}) /\ Len(Copy(a, b)) = b - a
           /\ \A i \in 1 .. b - a : Copy(a, b)[i] = a + (i - 1)
<1>1. b - a \in Nat
  OBVIOUS
<1>2. PICK c : c = [i \in 1 .. b - a |-> a + i - 1]
  OBVIOUS
<1>3. \A i \in 1 .. b - a : c[i] = a + (i - 1) /\ c[i] \in Nat
  BY <1>1, <1>2
<1>4. c \in Seq(Nat \cup {Newline}) /\ Len(c) = b - a
  BY <1>1, <1>2, <1>3
<1>5. QED
  BY <1>2, <1>3, <1>4 DEF Copy

\* A separator and a piece of the whole text put behind the text.
Joined(new, text, sep, a, b) ==
    /\ new \in Seq(Nat \cup {Newline})
    /\ Len(new) = (Len(text) + Len(sep)) + (b - a)
    /\ \A i \in 1 .. Len(text) : new[i] = text[i]
    /\ \A i \in 1 .. Len(sep) : new[Len(text) + i] = sep[i]
    /\ \A i \in 1 .. b - a : new[(Len(text) + Len(sep)) + i] = a + (i - 1)

LEMMA TextMore ==
    ASSUME NEW text \in Seq(Nat \cup {Newline}), NEW sep \in Seq(Nat \cup {Newline}),
           NEW a \in Nat, NEW b \in Nat, a <= b
    PROVE  Joined(text \o sep \o Copy(a, b), text, sep, a, b)
<1>0. PICK L, M, new : L = Len(text) /\ M = Len(sep) /\ new = text \o sep \o Copy(a, b)
  OBVIOUS
<1> DEFINE Chars == Nat \cup {Newline}
<1>1. L \in Nat /\ M \in Nat
  BY <1>0, LenProperties
<1>2. PICK c : c = Copy(a, b)
  OBVIOUS
<1>2a. /\ c \in Seq(Chars) /\ Len(c) = b - a
       /\ \A i \in 1 .. b - a : c[i] = a + (i - 1)
  BY <1>2, CopyChars
<1>3. PICK head : head = text \o sep
  OBVIOUS
<1>3a. text \in Seq(Chars) /\ sep \in Seq(Chars)
  OBVIOUS
<1> HIDE DEF Chars
<1>4. /\ head \in Seq(Chars) /\ Len(head) = L + M
      /\ \A i \in 1 .. L + M : head[i] = IF i <= L THEN text[i] ELSE sep[i - L]
  BY <1>0, <1>3, <1>3a, ConcatProperties
<1>5. new = head \o c
  BY <1>0, <1>2, <1>3
<1>6. /\ new \in Seq(Chars) /\ Len(new) = Len(head) + Len(c)
      /\ \A i \in 1 .. Len(head) + Len(c) : new[i] = IF i <= Len(head) THEN head[i] ELSE c[i - Len(head)]
  <2>1. PICK S : S = Chars
    OBVIOUS
  <2>2. head \in Seq(S) /\ c \in Seq(S)
    BY <1>2a, <1>4, <2>1
  <2>3. /\ head \o c \in Seq(S) /\ Len(head \o c) = Len(head) + Len(c)
        /\ \A i \in 1 .. Len(head) + Len(c) :
             (head \o c)[i] = IF i <= Len(head) THEN head[i] ELSE c[i - Len(head)]
    BY <2>2, ConcatProperties
  <2>4. QED
    BY <1>5, <2>1, <2>3
<1>7. /\ Len(new) = (L + M) + (b - a)
      /\ \A i \in 1 .. (L + M) + (b - a) : new[i] = IF i <= L + M THEN head[i] ELSE c[i - (L + M)]
  BY <1>2a, <1>4, <1>6
<1>8. \A i \in 1 .. L : i \in 1 .. L + M /\ i \in 1 .. (L + M) + (b - a) /\ i <= L /\ i <= L + M
  BY <1>1
<1>9. \A i \in 1 .. L : new[i] = text[i]
  BY <1>4, <1>7, <1>8
<1>10. \A i \in 1 .. M : /\ L + i \in 1 .. L + M /\ L + i \in 1 .. (L + M) + (b - a)
                        /\ ~ (L + i <= L) /\ L + i <= L + M /\ (L + i) - L = i
  BY <1>1
<1>11. \A i \in 1 .. M : new[L + i] = sep[i]
  BY <1>4, <1>7, <1>10
<1>12. \A i \in 1 .. b - a : /\ L + M + i \in 1 .. (L + M) + (b - a)
                             /\ ~ (L + M + i <= L + M) /\ (L + M + i) - (L + M) = i
  BY <1>1
<1>13. \A i \in 1 .. b - a : new[L + M + i] = a + (i - 1)
  <2>1. SUFFICES ASSUME NEW i \in 1 .. b - a PROVE new[L + M + i] = a + (i - 1)
    OBVIOUS
  <2>2. PICK j : j = L + M + i
    OBVIOUS
  <2>3. j \in 1 .. (L + M) + (b - a) /\ ~ (j <= L + M) /\ j - (L + M) = i
    BY <1>12, <2>2
  <2>4. new[j] = c[i]
    BY <1>7, <2>3
  <2>5. QED
    BY <1>2a, <2>2, <2>4
<1>14. QED
  <2>1. (L + M) + (b - a) = Len(new) /\ \A i \in 1 .. b - a : (L + M) + i = L + M + i
    BY <1>1, <1>7
  <2>2. Joined(new, text, sep, a, b)
    BY <1>0, <1>6, <1>9, <1>11, <1>13, <2>1 DEF Chars, Joined
  <2>3. QED
    BY <1>0, <2>2

\* Facts about a shape.
LEMMA ShapeSpans ==
    ASSUME NEW d, NEW r, Shape(d, r)
    PROVE  /\ Len(d) \in Nat /\ Len(r) = Len(d)
           /\ \A k \in 1 .. Len(d) : /\ d[k].first \in Int /\ d[k].second \in Int
                                     /\ r[k].first \in Nat /\ r[k].second \in Nat
<1>1. Len(d) \in Nat /\ Len(r) = Len(d)
  BY LenProperties DEF Shape
<1>2. \A k \in 1 .. Len(d) : d[k] \in Spans /\ r[k] \in Places2
  BY <1>1, ElementOfSeq DEF Shape
<1>3. QED
  BY <1>1, <1>2 DEF Spans, Places2

\* What the two ways to add a tag do to the regions.
LEMMA OpensShape ==
    ASSUME NEW d, NEW r, NEW s \in TagLine, NEW e, NEW q, Shape(d, r), Opens(d, r, s, e, q)
    PROVE  LET K    == Len(d)
               from == IF K = 0 THEN 0 ELSE d[K].second + 1
           IN  /\ Shape(e, q) /\ K \in Nat /\ Len(e) = K + 1 /\ from \in Int
               /\ \A k \in 1 .. K : e[k] = d[k] /\ q[k] = r[k]
               /\ e[K + 1].first = from /\ e[K + 1].second = from + s.second - s.first
               /\ q[K + 1].first = s.first /\ q[K + 1].second = s.second
<1>0. PICK K, from : K = Len(d) /\ from = IF K = 0 THEN 0 ELSE d[K].second + 1
  OBVIOUS
<1>1. s.first \in Nat /\ s.second \in Nat
  BY DEF TagLine
<1>2. K \in Nat /\ Len(r) = K /\ (K > 0 => d[K].second \in Int)
  BY <1>0, ShapeSpans
<1>3. from \in Int
  BY <1>0, <1>2
<1>4. PICK u, v : u = [first |-> from, second |-> from + s.second - s.first]
                  /\ v = [first |-> s.first, second |-> s.second]
  OBVIOUS
<1>5. u \in Spans /\ v \in Places2
  BY <1>1, <1>3, <1>4 DEF Spans, Places2
<1>6. e = Append(d, u) /\ q = Append(r, v)
  BY <1>0, <1>2, <1>4 DEF Opens
<1>7. d \in Seq(Spans) /\ r \in Seq(Places2)
  BY DEF Shape
<1>8. e \in Seq(Spans) /\ Len(e) = K + 1 /\ e[K + 1] = u /\ \A k \in 1 .. K : e[k] = d[k]
  BY <1>0, <1>5, <1>6, <1>7, AppendProperties
<1>9. q \in Seq(Places2) /\ Len(q) = K + 1 /\ q[K + 1] = v /\ \A k \in 1 .. K : q[k] = r[k]
  BY <1>2, <1>5, <1>6, <1>7, AppendProperties
<1>10. QED
  BY <1>0, <1>2, <1>3, <1>4, <1>8, <1>9 DEF Shape

LEMMA ExtendsShape ==
    ASSUME NEW d, NEW r, NEW s \in TagLine, NEW e, NEW q, Shape(d, r), Extends(d, r, s, e, q)
    PROVE  LET K == Len(d)
           IN  /\ Shape(e, q) /\ K \in Nat /\ K > 0 /\ Len(e) = K
               /\ \A k \in 1 .. K - 1 : e[k] = d[k] /\ q[k] = r[k]
               /\ e[K].first = d[K].first /\ e[K].second = d[K].second + (s.second - r[K].second)
               /\ q[K].first = r[K].first /\ q[K].second = s.second
               /\ r[K].second < s.second
<1>0. PICK K : K = Len(d)
  OBVIOUS
<1>1. s.first \in Nat /\ s.second \in Nat
  BY DEF TagLine
<1>2. K \in Nat /\ K > 0 /\ Len(r) = K /\ K \in 1 .. Len(d) /\ K \in 1 .. Len(r)
  BY <1>0, ShapeSpans DEF Extends
<1>3. d \in Seq(Spans) /\ r \in Seq(Places2) /\ d[K] \in Spans /\ r[K] \in Places2
  BY <1>2, ElementOfSeq DEF Shape
<1>4. PICK u, v : /\ u = [d[K] EXCEPT !.second = @ + s.second - r[K].second]
                  /\ v = [r[K] EXCEPT !.second = s.second]
  OBVIOUS
<1>5. /\ u \in Spans /\ v \in Places2
      /\ u.first = d[K].first /\ u.second = d[K].second + (s.second - r[K].second)
      /\ v.first = r[K].first /\ v.second = s.second
  <2>1. d[K].first \in Int /\ d[K].second \in Int /\ r[K].first \in Nat /\ r[K].second \in Nat
    BY <1>3 DEF Spans, Places2
  <2>2. /\ u = [first |-> d[K].first, second |-> d[K].second + s.second - r[K].second]
        /\ v = [first |-> r[K].first, second |-> s.second]
    BY <1>3, <1>4 DEF Spans, Places2
  <2>3. u \in Spans /\ v \in Places2
    BY <1>1, <2>1, <2>2 DEF Spans, Places2
  <2>4. d[K].second + s.second - r[K].second = d[K].second + (s.second - r[K].second)
    BY <1>1, <2>1
  <2>5. QED
    BY <2>2, <2>3, <2>4
<1>6. e = [d EXCEPT ![K] = u] /\ q = [r EXCEPT ![K] = v]
  BY <1>2, <1>4 DEF Extends
<1>7. e \in Seq(Spans) /\ Len(e) = K /\ \A k \in 1 .. K : e[k] = IF k = K THEN u ELSE d[k]
  BY <1>0, <1>2, <1>3, <1>5, <1>6, ExceptSeq
<1>8. q \in Seq(Places2) /\ Len(q) = K /\ \A k \in 1 .. K : q[k] = IF k = K THEN v ELSE r[k]
  BY <1>2, <1>3, <1>5, <1>6, ExceptSeq
<1>9. r[K].second < s.second
  BY <1>2 DEF Extends
<1>10. QED
  BY <1>0, <1>2, <1>5, <1>7, <1>8, <1>9 DEF Shape

\* The last region begins where the new tag or the last region before began.
LEMMA AddsShape ==
    ASSUME NEW d, NEW r, NEW s \in TagLine, NEW e, NEW q, Shape(d, r), Adds(d, r, s, e, q)
    PROVE  /\ Shape(e, q) /\ Len(q) > 0
           /\ \/ q[Len(q)].first = s.first
              \/ Len(d) > 0 /\ q[Len(q)].first = r[Len(d)].first
<1>1. PICK K : K = Len(d)
  OBVIOUS
<1>2. CASE Opens(d, r, s, e, q)
  <2>1. Shape(e, q) /\ Len(e) = K + 1 /\ K \in Nat /\ q[K + 1].first = s.first
    BY <1>1, <1>2, OpensShape
  <2>2. Len(q) = K + 1 /\ K + 1 > 0
    BY <2>1, ShapeSpans
  <2>3. QED
    BY <2>1, <2>2
<1>3. CASE Extends(d, r, s, e, q)
  <2>1. Shape(e, q) /\ Len(e) = K /\ K > 0 /\ q[K].first = r[K].first
    BY <1>1, <1>3, ExtendsShape
  <2>2. Len(q) = K
    BY <2>1, ShapeSpans
  <2>3. QED
    BY <1>1, <2>1, <2>2
<1>4. QED
  BY <1>2, <1>3 DEF Adds

\* The characters of an old region stay where they are.
LEMMA RegionStays ==
    ASSUME NEW d, NEW r, NEW text, NEW e, NEW q, NEW new, Layout(d, r, text), Shape(e, q),
           Len(d) <= Len(e), Len(text) <= Len(new),
           \A i \in 1 .. Len(text) : new[i] = text[i],
           NEW k \in 1 .. Len(d), e[k] = d[k], q[k] = r[k], k > 1 => e[k - 1] = d[k - 1],
           k < Len(e) => d[k].second < Len(new) /\ new[d[k].second + 1] = Newline
    PROVE  Region(e, q, new, k)
<1>1. Region(d, r, text, k)
  BY DEF Layout
<1>3. text \in Seq(Nat \cup {Newline})
  BY DEF Layout
<1>4. Len(text) \in Nat
  BY <1>3, LenProperties
<1>5. \A p \in d[k].first .. d[k].second - 1 : new[p + 1] = r[k].first + (p - d[k].first)
  <2>1. SUFFICES ASSUME NEW p \in d[k].first .. d[k].second - 1
                 PROVE  new[p + 1] = r[k].first + (p - d[k].first)
    OBVIOUS
  <2>2. p + 1 \in 1 .. Len(text)
    BY <1>1, <1>4 DEF Region
  <2>3. QED
    BY <1>1, <2>2 DEF Region
<1>6. QED
  BY <1>1, <1>4, <1>5 DEF Region

\* A new region of the text.
LEMMA LayoutOpens ==
    ASSUME NEW d, NEW r, NEW text, NEW s \in TagLine, NEW e, NEW q,
           Layout(d, r, text), Opens(d, r, s, e, q), s.first <= s.second
    PROVE  Layout(e, q, text \o (IF Len(d) = 0 THEN << >> ELSE <<Newline>>) \o Copy(s.first, s.second))
<1>1. PICK sep, a, b : /\ sep = IF Len(d) = 0 THEN << >> ELSE <<Newline>>
                       /\ a = s.first /\ b = s.second
  OBVIOUS
<1>2. PICK K, from, L, M : /\ K = Len(d) /\ from = IF K = 0 THEN 0 ELSE d[K].second + 1
                           /\ L = Len(text) /\ M = Len(sep)
  OBVIOUS
<1>3. Shape(d, r) /\ text \in Seq(Nat \cup {Newline}) /\ a \in Nat /\ b \in Nat /\ a <= b
  BY <1>1 DEF Layout, TagLine
<1>4. sep \in Seq(Nat \cup {Newline}) /\ M = (IF K = 0 THEN 0 ELSE 1) /\ (K # 0 => sep[1] = Newline)
  <2>1. K = 0 => sep = << >>
    BY <1>1, <1>2
  <2>2. K # 0 => sep = <<Newline>>
    BY <1>1, <1>2
  <2>3. << >> \in Seq(Nat \cup {Newline}) /\ Len(<< >>) = 0
    OBVIOUS
  <2>4. <<Newline>> \in Seq(Nat \cup {Newline}) /\ Len(<<Newline>>) = 1 /\ <<Newline>>[1] = Newline
    OBVIOUS
  <2>5. CASE K = 0
    BY <1>2, <2>1, <2>3, <2>5
  <2>6. CASE K # 0
    BY <1>2, <2>2, <2>4, <2>6
  <2>7. QED
    BY <2>5, <2>6
<1>5. PICK new : new = text \o sep \o Copy(a, b)
  OBVIOUS
<1>5a. Joined(new, text, sep, a, b)
  BY <1>3, <1>4, <1>5, TextMore
<1>6. L \in Nat /\ M \in Nat
  BY <1>2, <1>3, <1>4, LenProperties
<1>6a. PICK N : N = Len(new)
  OBVIOUS
<1>6b. /\ new \in Seq(Nat \cup {Newline}) /\ N = (L + M) + (b - a)
       /\ \A i \in 1 .. L : new[i] = text[i]
       /\ \A i \in 1 .. M : new[L + i] = sep[i]
       /\ \A i \in 1 .. b - a : new[(L + M) + i] = a + (i - 1)
  BY <1>2, <1>5a, <1>6a DEF Joined
<1>6c. N = (L + M) + (b - a) /\ N \in Nat /\ L <= N /\ (M = 1 => L < N)
  BY <1>3, <1>6, <1>6b
<1>7. /\ Shape(e, q) /\ K \in Nat /\ Len(e) = K + 1
      /\ \A k \in 1 .. K : e[k] = d[k] /\ q[k] = r[k]
      /\ e[K + 1].first = from /\ e[K + 1].second = from + b - a
      /\ q[K + 1].first = a /\ q[K + 1].second = b
  BY <1>1, <1>2, <1>3, OpensShape
<1>7a. K \in Nat /\ Len(e) = K + 1
  BY <1>7
<1>8. L = (IF K = 0 THEN 0 ELSE d[K].second)
  BY <1>2 DEF Layout
<1>8a. from = L + M
  BY <1>2, <1>4, <1>6, <1>8
<1>9. ASSUME NEW k \in 1 .. K PROVE Region(e, q, new, k)
  <2>1. Len(d) <= Len(e) /\ Len(text) <= Len(new) /\ k \in 1 .. Len(d)
    BY <1>2, <1>6, <1>6a, <1>6c, <1>7a
  <2>2. k > 1 => k - 1 \in 1 .. K
    BY <1>7a
  <2>3. d[k].second < N /\ new[d[k].second + 1] = Newline
    <3>1. CASE k = K
      <4>1. d[k].second = L /\ M = 1 /\ sep[1] = Newline
        BY <1>4, <1>7a, <1>8, <3>1
      <4>2. 1 \in 1 .. M
        BY <4>1
      <4>3. new[L + 1] = Newline
        BY <1>6b, <4>1, <4>2
      <4>4. QED
        BY <1>6c, <4>1, <4>3
    <3>2. CASE k # K
      <4>1. Region(d, r, text, k) /\ k < Len(d)
        BY <1>2, <1>7a, <3>2 DEF Layout
      <4>2. PICK z : z = d[k].second
        OBVIOUS
      <4>3. z < L /\ text[z + 1] = Newline /\ z \in Nat
        BY <1>2, <4>1, <4>2 DEF Region
      <4>4. z + 1 \in 1 .. L /\ z < N
        BY <1>6, <1>6c, <4>3
      <4>5. QED
        BY <1>6b, <4>2, <4>3, <4>4
    <3>3. QED
      BY <3>1, <3>2
  <2>4. e[k] = d[k] /\ q[k] = r[k] /\ (k > 1 => e[k - 1] = d[k - 1])
    BY <1>7, <2>2
  <2>5. \A i \in 1 .. Len(text) : new[i] = text[i]
    BY <1>2, <1>6b
  <2>6. QED
    BY <1>6a, <1>7, <2>1, <2>3, <2>4, <2>5, RegionStays
<1>10. Region(e, q, new, K + 1)
  <2>1. PICK x, y : x = e[K + 1].first /\ y = e[K + 1].second
    OBVIOUS
  <2>2. x = L + M /\ y = (L + M) + b - a
    BY <1>7, <1>8a, <2>1
  <2>3. x \in Nat /\ y \in Nat /\ x <= y /\ y = N /\ y - x = b - a
    BY <1>3, <1>6, <1>6c, <2>2
  <2>4. x = IF K + 1 = 1 THEN 0 ELSE e[(K + 1) - 1].second + 1
    <3>1. K # 0 => K \in 1 .. K /\ (K + 1) - 1 = K
      BY <1>7a
    <3>2. K # 0 => e[(K + 1) - 1] = d[K]
      BY <1>7, <3>1
    <3>3. K + 1 = 1 <=> K = 0
      BY <1>7a
    <3>4. QED
      BY <1>2, <1>7, <2>1, <3>2, <3>3
  <2>5. ASSUME NEW p \in x .. y - 1
        PROVE  new[p + 1] = a + (p - x)
    <3>1. PICK i : i = (p + 1) - x
      OBVIOUS
    <3>2. i \in 1 .. b - a /\ p + 1 = (L + M) + i /\ i - 1 = p - x
      BY <1>3, <1>6, <2>2, <2>3, <3>1
    <3>3. new[p + 1] = a + (i - 1)
      BY <1>6b, <3>2
    <3>4. QED
      BY <3>2, <3>3
  <2>6. ~ (K + 1 < Len(e)) /\ y <= Len(new)
    BY <1>6a, <1>6c, <1>7a, <2>3
  <2>7. QED
    BY <1>7, <2>1, <2>3, <2>4, <2>5, <2>6 DEF Region
<1>11. Len(new) = e[Len(e)].second /\ Len(e) # 0
  <2>1. (L + M) + b - a = N /\ Len(e) # 0
    BY <1>3, <1>6, <1>6c, <1>7a
  <2>2. QED
    BY <1>6a, <1>7, <1>8a, <2>1
<1>12. \A k \in 1 .. Len(e) : k \in 1 .. K \/ k = K + 1
  BY <1>7a
<1>13. Layout(e, q, new)
  BY <1>6b, <1>7, <1>9, <1>10, <1>11, <1>12 DEF Layout
<1>14. QED
  BY <1>1, <1>5, <1>13

\* A longer last region.
LEMMA LayoutExtends ==
    ASSUME NEW d, NEW r, NEW text, NEW s \in TagLine, NEW e, NEW q,
           Layout(d, r, text), Extends(d, r, s, e, q)
    PROVE  Layout(e, q, text \o << >> \o Copy(r[Len(r)].second, s.second))
<1>1. PICK K, L, b : K = Len(d) /\ L = Len(text) /\ b = s.second
  OBVIOUS
<1>1a. PICK from, c, x : from = r[K].second /\ c = r[K].first /\ x = d[K].first
  OBVIOUS
<1>2. Shape(d, r) /\ text \in Seq(Nat \cup {Newline}) /\ b \in Nat
  BY <1>1 DEF Layout, TagLine
<1>3. /\ Shape(e, q) /\ K \in Nat /\ K > 0 /\ Len(e) = K
      /\ \A k \in 1 .. K - 1 : e[k] = d[k] /\ q[k] = r[k]
      /\ e[K].first = x /\ e[K].second = d[K].second + (b - from)
      /\ q[K].first = c /\ q[K].second = b
      /\ from < b
  BY <1>1, <1>1a, <1>2, ExtendsShape
<1>4. K \in Nat /\ K > 0 /\ Len(e) = K /\ from < b
  BY <1>3
<1>4a. K \in 1 .. Len(d) /\ Len(r) = K
  BY <1>1, <1>2, <1>4, ShapeSpans
<1>4b. from \in Nat /\ c \in Nat
  BY <1>1a, <1>2, <1>4a, ShapeSpans
<1>5. PICK new : new = text \o << >> \o Copy(from, b)
  OBVIOUS
<1>6. PICK N : N = Len(new)
  OBVIOUS
<1>7. L \in Nat
  BY <1>1, <1>2, LenProperties
<1>8. Joined(new, text, << >>, from, b)
  <2>1. << >> \in Seq(Nat \cup {Newline}) /\ from <= b
    BY <1>2, <1>4, <1>4b
  <2>2. QED
    BY <1>2, <1>4b, <1>5, <2>1, TextMore
<1>9. /\ new \in Seq(Nat \cup {Newline}) /\ N = L + (b - from)
      /\ \A i \in 1 .. L : new[i] = text[i]
      /\ \A i \in 1 .. b - from : new[L + i] = from + (i - 1)
  <2>1. Len(<< >>) = 0 /\ L + 0 = L
    BY <1>7
  <2>2. QED
    BY <1>1, <1>6, <1>8, <2>1 DEF Joined
<1>10. N \in Nat /\ L < N /\ N = L + (b - from)
  BY <1>2, <1>4, <1>4b, <1>7, <1>9
<1>11. L = d[K].second /\ Region(d, r, text, K)
  BY <1>1, <1>4, <1>4a DEF Layout
<1>12. ASSUME NEW k \in 1 .. K, k # K PROVE Region(e, q, new, k)
  <2>1. Len(d) <= Len(e) /\ Len(text) <= Len(new) /\ k \in 1 .. Len(d) /\ k \in 1 .. K - 1
    BY <1>1, <1>4, <1>6, <1>7, <1>10, <1>12
  <2>2. k > 1 => k - 1 \in 1 .. K - 1
    BY <1>4, <1>12
  <2>3. Region(d, r, text, k) /\ k < Len(d)
    BY <1>1, <1>4, <1>12 DEF Layout
  <2>4. PICK z : z = d[k].second
    OBVIOUS
  <2>5. z < L /\ text[z + 1] = Newline /\ z \in Nat
    BY <1>1, <2>3, <2>4 DEF Region
  <2>6. z + 1 \in 1 .. L /\ z < N
    BY <1>7, <1>10, <2>5
  <2>7. d[k].second < Len(new) /\ new[d[k].second + 1] = Newline
    BY <1>6, <1>9, <2>4, <2>5, <2>6
  <2>8. e[k] = d[k] /\ q[k] = r[k] /\ (k > 1 => e[k - 1] = d[k - 1])
    BY <1>3, <2>1, <2>2
  <2>9. \A i \in 1 .. Len(text) : new[i] = text[i]
    BY <1>1, <1>9
  <2>10. QED
    BY <1>3, <2>1, <2>7, <2>8, <2>9, RegionStays
<1>13. Region(e, q, new, K)
  <2>1. /\ x \in Nat /\ x <= L
        /\ x = IF K = 1 THEN 0 ELSE d[K - 1].second + 1
        /\ L - x = from - c
        /\ \A p \in x .. L - 1 : text[p + 1] = c + (p - x)
    BY <1>1a, <1>11 DEF Region
  <2>2. e[K].second = N /\ e[K].first = x
    BY <1>3, <1>10, <1>11
  <2>3. x \in Nat /\ x <= N /\ N - x = b - c /\ N <= N
    <3>1. x \in Nat /\ x <= L /\ L - x = from - c
      BY <2>1
    <3>2. QED
      BY <1>2, <1>4b, <1>7, <1>10, <3>1
  <2>4. K # 1 => e[K - 1] = d[K - 1]
    BY <1>3, <1>4
  <2>5. x = IF K = 1 THEN 0 ELSE e[K - 1].second + 1
    BY <2>1, <2>4
  <2>6. ASSUME NEW p \in x .. N - 1
        PROVE  new[p + 1] = c + (p - x)
    <3>1. p \in Int /\ x <= p /\ p <= N - 1
      BY <1>10, <2>3
    <3>2. CASE p < L
      <4>1. p \in x .. L - 1 /\ p + 1 \in 1 .. L
        BY <1>7, <2>3, <3>1, <3>2
      <4>2. new[p + 1] = text[p + 1]
        BY <1>9, <4>1
      <4>3. QED
        BY <2>1, <4>1, <4>2
    <3>3. CASE p >= L
      <4>1. PICK i : i = (p + 1) - L
        OBVIOUS
      <4>2. i \in 1 .. b - from /\ p + 1 = L + i /\ from + (i - 1) = c + (p - x)
        <5>1. L - x = from - c
          BY <2>1
        <5>2. QED
          BY <1>2, <1>4b, <1>7, <1>10, <2>3, <3>1, <3>3, <4>1, <5>1
      <4>3. new[p + 1] = from + (i - 1)
        BY <1>9, <4>2
      <4>4. QED
        BY <4>2, <4>3
    <3>4. QED
      BY <1>7, <3>1, <3>2, <3>3
  <2>7. ~ (K < Len(e))
    BY <1>4
  <2>8. QED
    BY <1>3, <1>6, <1>10, <2>2, <2>3, <2>5, <2>6, <2>7 DEF Region
<1>14. Len(new) = e[Len(e)].second /\ Len(e) # 0
  BY <1>3, <1>4, <1>6, <1>10, <1>11
<1>15. Layout(e, q, new)
  BY <1>3, <1>4, <1>9, <1>12, <1>13, <1>14 DEF Layout
<1>16. r[Len(r)].second = from
  BY <1>1a, <1>4a
<1>17. QED
  BY <1>1, <1>5, <1>15, <1>16

-----------------------------------------------------------------------------
(* What setClippingSpan does with the tags that clip has kept.                  *)

\* Mapper takes the first n tags of s, with the regions D[i] and R[i] after i of
\* them, and refuses the next one, which then is out of order.
Takes(s, n, D, R) ==
    /\ n \in 0 .. Len(s)
    /\ D[0] = << >> /\ R[0] = << >>
    /\ \A i \in 0 .. n : Shape(D[i], R[i])
    /\ \A i \in 1 .. n : Adds(D[i - 1], R[i - 1], s[i], D[i], R[i])
    /\ Len(R[n]) > 0 => \E j \in 1 .. n : R[n][Len(R[n])].first = s[j].first
    /\ n < Len(s) => Refuses(R[n], s[n + 1]) /\ ~ Sorted(<< >>, s)

\* The text does not begin inside the first of several regions.
FirstApart(r) == Len(r) > 1 => r[1].first > 0

\* What clip remembers of the regions: the end of the last one, and whether there
\* has been one that does not begin at offset 0.
Remembers(r, end, first) ==
    /\ end = IF Len(r) = 0 THEN 0 ELSE r[Len(r)].second
    /\ Len(r) = 0 => first
    /\ Len(r) > 0 /\ r[1].first > 0 => ~ first

\* clip has written the text for the tags s.
Clipping(s, text, end, first) ==
    \E n, D, R :
        /\ Takes(s, n, D, R)
        /\ n = Len(s) => /\ FirstApart(R[n]) => Layout(D[n], R[n], text)
                         /\ Remembers(R[n], end, first)
Clipped(s, text) ==
    \E n, D, R :
        /\ Takes(s, n, D, R)
        /\ n = Len(s) /\ FirstApart(R[n]) => Layout(D[n], R[n], text)

\* A tag before an earlier one: the tags are not sorted, and stay so.
LEMMA NotSorted ==
    ASSUME NEW s \in Seq(TagLine), NEW t \in TagLine
    PROVE  /\ ~ Sorted(<< >>, s) => ~ Sorted(<< >>, Append(s, t))
           /\ \A j \in 1 .. Len(s) : t.first < s[j].first => ~ Sorted(<< >>, Append(s, t))
<1>1. PICK u, N : u = Append(s, t) /\ N = Len(s)
  OBVIOUS
<1>2. N \in Nat /\ Len(u) = N + 1 /\ u[N + 1] = t /\ \A i \in 1 .. N : u[i] = s[i]
  BY <1>1, AppendProperties, LenProperties
<1>3. \A i \in 1 .. N : i \in 1 .. N + 1 /\ i < N + 1 /\ N + 1 \in 1 .. N + 1
  BY <1>2
<1>4. ~ Sorted(<< >>, s) => ~ Sorted(<< >>, u)
  BY <1>1, <1>2, <1>3 DEF Sorted
<1>5. ASSUME NEW j \in 1 .. N, t.first < s[j].first PROVE ~ Sorted(<< >>, u)
  <2>1. AIsLessThanB(<< >>, u[N + 1], u[j])
    BY <1>2, <1>5 DEF AIsLessThanB
  <2>2. QED
    BY <1>2, <1>3, <2>1 DEF Sorted
<1>6. QED
  BY <1>1, <1>4, <1>5

\* One more tag of clip, which Mapper does not take any more.
LEMMA TakesNoMore ==
    ASSUME NEW s \in Seq(TagLine), NEW t \in TagLine, NEW n, NEW D, NEW R,
           Takes(s, n, D, R),
           n = Len(s) => Refuses(R[n], t)
    PROVE  Takes(Append(s, t), n, D, R) /\ n < Len(Append(s, t))
<1>1. PICK u, N : u = Append(s, t) /\ N = Len(s)
  OBVIOUS
<1>2. N \in Nat /\ Len(u) = N + 1 /\ u[N + 1] = t /\ \A i \in 1 .. N : u[i] = s[i]
  BY <1>1, AppendProperties, LenProperties
<1>3. n \in 0 .. N /\ n \in 0 .. N + 1 /\ n < N + 1 /\ \A i \in 1 .. n : i \in 1 .. N /\ u[i] = s[i]
  <2>1. n \in 0 .. N
    BY <1>1 DEF Takes
  <2>2. n \in 0 .. N + 1 /\ n < N + 1 /\ \A i \in 1 .. n : i \in 1 .. N
    BY <1>2, <2>1
  <2>3. QED
    BY <1>2, <2>1, <2>2
<1>4. Refuses(R[n], u[n + 1]) /\ ~ Sorted(<< >>, u)
  <2>1. CASE n = N
    <3>1. Refuses(R[n], t)
      BY <1>1, <2>1
    <3>2. PICK j \in 1 .. n : R[n][Len(R[n])].first = s[j].first
      BY <3>1 DEF Takes, Refuses
    <3>3. t.first < s[j].first
      BY <3>1, <3>2 DEF Refuses
    <3>4. QED
      BY <1>1, <1>2, <2>1, <3>1, <3>3, NotSorted
  <2>2. CASE n # N
    <3>1. n < N /\ n + 1 \in 1 .. N
      BY <1>2, <1>3, <2>2
    <3>2. Refuses(R[n], s[n + 1]) /\ ~ Sorted(<< >>, s)
      BY <1>1, <3>1 DEF Takes
    <3>3. QED
      BY <1>1, <1>2, <3>1, <3>2, NotSorted
  <2>3. QED
    BY <2>1, <2>2
<1>5. \A i \in 1 .. n : Adds(D[i - 1], R[i - 1], u[i], D[i], R[i])
  BY <1>3 DEF Takes
<1>6. Len(R[n]) > 0 => \E j \in 1 .. n : R[n][Len(R[n])].first = u[j].first
  BY <1>3 DEF Takes
<1>7. Takes(u, n, D, R)
  BY <1>2, <1>3, <1>4, <1>5, <1>6 DEF Takes
<1>8. QED
  BY <1>1, <1>2, <1>3, <1>7

\* One more tag of clip that Mapper takes.
LEMMA TakesOneMore ==
    ASSUME NEW s \in Seq(TagLine), NEW t \in TagLine, NEW n, NEW D, NEW R,
           Takes(s, n, D, R), n = Len(s), NEW e, NEW q, Adds(D[n], R[n], t, e, q)
    PROVE  \E E, Q : /\ Takes(Append(s, t), n + 1, E, Q) /\ E[n + 1] = e /\ Q[n + 1] = q
                     /\ n + 1 = Len(Append(s, t))
<1>1. PICK u : u = Append(s, t)
  OBVIOUS
<1>2. n \in Nat /\ Len(u) = n + 1 /\ u[n + 1] = t /\ \A i \in 1 .. n : u[i] = s[i]
  BY <1>1, AppendProperties, LenProperties
<1>3. PICK E, Q : /\ E = [i \in 0 .. n + 1 |-> IF i = n + 1 THEN e ELSE D[i]]
                  /\ Q = [i \in 0 .. n + 1 |-> IF i = n + 1 THEN q ELSE R[i]]
  OBVIOUS
<1>4. E[n + 1] = e /\ Q[n + 1] = q /\ \A i \in 0 .. n : E[i] = D[i] /\ Q[i] = R[i]
  BY <1>2, <1>3
<1>5. 0 \in 0 .. n /\ n \in 0 .. n /\ n + 1 \in 1 .. n + 1 /\ (n + 1) - 1 = n
  BY <1>2
<1>6. Shape(D[n], R[n])
  BY <1>5 DEF Takes
<1>7. PICK K : K = Len(D[n])
  OBVIOUS
<1>8. K \in Nat /\ Len(R[n]) = K
  BY <1>6, <1>7, ShapeSpans
<1>9. Shape(e, q) /\ Len(q) > 0 /\ (q[Len(q)].first = t.first \/ (K > 0 /\ q[Len(q)].first = R[n][K].first))
  BY <1>6, <1>7, AddsShape
<1>10. \A i \in 0 .. n + 1 : Shape(E[i], Q[i])
  <2>1. \A i \in 0 .. n + 1 : i = n + 1 \/ i \in 0 .. n
    BY <1>2
  <2>2. QED
    BY <1>4, <1>9, <2>1 DEF Takes
<1>11. \A i \in 1 .. n + 1 : Adds(E[i - 1], Q[i - 1], u[i], E[i], Q[i])
  <2>1. \A i \in 1 .. n + 1 : i = n + 1 \/ (i \in 1 .. n /\ i \in 0 .. n /\ i - 1 \in 0 .. n)
    BY <1>2
  <2>2. \A i \in 1 .. n : Adds(D[i - 1], R[i - 1], s[i], D[i], R[i])
    BY DEF Takes
  <2>3. SUFFICES ASSUME NEW i \in 1 .. n + 1 PROVE Adds(E[i - 1], Q[i - 1], u[i], E[i], Q[i])
    OBVIOUS
  <2>4. CASE i = n + 1
    <3>1. E[i - 1] = D[n] /\ Q[i - 1] = R[n] /\ u[i] = t /\ E[i] = e /\ Q[i] = q
      BY <1>2, <1>4, <1>5, <2>4
    <3>2. QED
      BY <3>1
  <2>5. CASE i # n + 1
    <3>1. /\ i \in 1 .. n /\ E[i - 1] = D[i - 1] /\ Q[i - 1] = R[i - 1] /\ u[i] = s[i]
          /\ E[i] = D[i] /\ Q[i] = R[i]
      BY <1>2, <1>4, <2>1, <2>5
    <3>2. Adds(D[i - 1], R[i - 1], s[i], D[i], R[i])
      BY <2>2, <3>1
    <3>3. QED
      BY <3>1, <3>2
  <2>6. QED
    BY <2>4, <2>5
<1>12. \E j \in 1 .. n + 1 : Q[n + 1][Len(Q[n + 1])].first = u[j].first
  <2>1. CASE q[Len(q)].first = t.first
    BY <1>2, <1>4, <1>5, <2>1
  <2>2. CASE K > 0 /\ q[Len(q)].first = R[n][K].first
    <3>1. PICK j \in 1 .. n : R[n][K].first = s[j].first
      BY <1>8, <2>2 DEF Takes
    <3>2. j \in 1 .. n + 1 /\ u[j] = s[j]
      BY <1>2
    <3>3. QED
      BY <1>4, <2>2, <3>1, <3>2
  <2>3. QED
    BY <1>9, <2>1, <2>2
<1>13. n + 1 \in 0 .. Len(u) /\ ~ (n + 1 < Len(u))
  BY <1>2
<1>14. E[0] = << >> /\ Q[0] = << >>
  BY <1>4, <1>5 DEF Takes
<1>15. Takes(u, n + 1, E, Q)
  BY <1>10, <1>11, <1>12, <1>13, <1>14 DEF Takes
<1>16. QED
  BY <1>1, <1>2, <1>4, <1>15

\* Mapper takes every tag of clip, or finds it out of order; what clip then does
\* with the text is what Mapper does with the regions.
LEMMA ClipsOneMore ==
    ASSUME NEW s \in Seq(TagLine), NEW t \in TagLine, NEW text, NEW end \in Nat,
           NEW first \in BOOLEAN, Clipping(s, text, end, first),
           t.first <= t.second, end < t.second,
           NEW start \in BOOLEAN, start <=> t.first > end,
           NEW from, from = IF start THEN t.first ELSE end,
           NEW sep, sep = IF start /\ ~ first THEN <<Newline>> ELSE << >>
    PROVE  Clipping(Append(s, t), text \o sep \o Copy(from, t.second), t.second, first /\ ~ start)
<1>1. PICK n, D, R :
        /\ Takes(s, n, D, R)
        /\ n = Len(s) => /\ FirstApart(R[n]) => Layout(D[n], R[n], text)
                         /\ Remembers(R[n], end, first)
  BY DEF Clipping
<1>2. PICK d, r, K, new, u : d = D[n] /\ r = R[n] /\ K = Len(d) /\ u = Append(s, t)
                             /\ new = text \o sep \o Copy(from, t.second)
  OBVIOUS
<1>3. Shape(d, r) /\ n \in 0 .. Len(s) /\ Len(s) \in Nat
  <2>1. Len(s) \in Nat /\ n \in 0 .. Len(s)
    BY <1>1, LenProperties DEF Takes
  <2>2. n \in 0 .. n
    BY <2>1
  <2>3. QED
    BY <1>1, <1>2, <2>1, <2>2 DEF Takes
<1>4. /\ K \in Nat /\ Len(r) = K
      /\ K > 0 => /\ K \in 1 .. K /\ 1 \in 1 .. K /\ r[K].first \in Nat /\ r[K].second \in Nat
                  /\ r[1].first \in Nat
  <2>1. K \in Nat /\ Len(r) = K /\ \A k \in 1 .. K : r[k].first \in Nat /\ r[k].second \in Nat
    BY <1>2, <1>3, ShapeSpans
  <2>2. K > 0 => K \in 1 .. K /\ 1 \in 1 .. K
    BY <2>1
  <2>3. QED
    BY <2>1, <2>2
<1>5. t.first \in Nat /\ t.second \in Nat
  BY DEF TagLine
<1>6. ASSUME n = Len(s) => Refuses(r, t)
      PROVE  Clipping(u, new, t.second, first /\ ~ start)
  <2>1. Takes(u, n, D, R) /\ n < Len(u)
    BY <1>1, <1>2, <1>6, TakesNoMore
  <2>2. n # Len(u)
    <3>1. Len(u) = Len(s) + 1
      BY <1>2, AppendProperties
    <3>2. QED
      BY <1>3, <2>1, <3>1
  <2>3. QED
    BY <2>1, <2>2 DEF Clipping
<1>7. ASSUME n = Len(s), ~ Refuses(r, t)
      PROVE  Clipping(u, new, t.second, first /\ ~ start)
  <2>1. Remembers(r, end, first) /\ (FirstApart(r) => Layout(d, r, text))
    BY <1>1, <1>2, <1>7
  <2>2. end = IF K = 0 THEN 0 ELSE r[K].second
    BY <1>4, <2>1 DEF Remembers
  <2>3. PICK e, q : /\ Adds(d, r, t, e, q) /\ Shape(e, q)
                    /\ Remembers(q, t.second, first /\ ~ start)
                    /\ FirstApart(q) => Layout(e, q, new)
    <3>1. CASE start \/ K = 0
      <4>1. PICK f0 : f0 = IF K = 0 THEN 0 ELSE d[K].second + 1
        OBVIOUS
      <4>2. PICK e, q : /\ e = Append(d, [first |-> f0, second |-> f0 + t.second - t.first])
                        /\ q = Append(r, [first |-> t.first, second |-> t.second])
        OBVIOUS
      <4>3. K > 0 => r[K].second < t.first
        BY <1>4, <1>5, <2>2, <3>1
      <4>4. Opens(d, r, t, e, q)
        BY <1>2, <1>4, <4>1, <4>2, <4>3 DEF Opens
      <4>5. /\ Shape(e, q) /\ Len(e) = K + 1
            /\ \A k \in 1 .. K : q[k] = r[k]
            /\ q[K + 1].first = t.first /\ q[K + 1].second = t.second
        <5>1. /\ Shape(e, q) /\ Len(e) = Len(d) + 1
              /\ \A k \in 1 .. Len(d) : q[k] = r[k]
              /\ q[Len(d) + 1].first = t.first /\ q[Len(d) + 1].second = t.second
          <6>1. Shape(d, r)
            BY <1>3
          <6>2. QED
            BY <4>4, <6>1, OpensShape
        <5>2. Len(d) = K
          BY <1>2
        <5>3. QED
          BY <5>1, <5>2
      <4>6. Len(q) = K + 1
        BY <4>5, ShapeSpans
      <4>7. K > 0 => q[1] = r[1]
        BY <1>4, <4>5
      <4>8. Remembers(q, t.second, first /\ ~ start)
        <5>1. K + 1 # 0 /\ K + 1 > 0
          BY <1>4
        <5>2. K = 0 => q[1].first = t.first /\ (t.first > 0 => start)
          <6>1. K = 0 => K + 1 = 1
            BY <1>4
          <6>2. K = 0 => end = 0
            BY <2>2
          <6>3. QED
            BY <4>5, <6>1, <6>2
        <5>3. q[1].first > 0 => ~ (first /\ ~ start)
          <6>1. CASE K = 0
            BY <5>2, <6>1
          <6>2. CASE K # 0
            <7>1. K > 0
              BY <1>4, <6>2
            <7>2. r[1].first > 0 => ~ first
              BY <1>4, <2>1, <7>1 DEF Remembers
            <7>3. QED
              BY <4>7, <7>1, <7>2
          <6>3. QED
            BY <6>1, <6>2
        <5>4. QED
          BY <4>5, <4>6, <5>1, <5>3 DEF Remembers
      <4>9. ASSUME FirstApart(q) PROVE Layout(e, q, new)
        <5>1. FirstApart(r) /\ (K > 0 => ~ first)
          <6>1. CASE K = 0
            BY <1>4, <6>1 DEF FirstApart
          <6>2. CASE K # 0
            <7>1. K > 0 /\ K + 1 > 1
              BY <1>4, <6>2
            <7>2. r[1].first > 0
              BY <4>6, <4>7, <4>9, <7>1 DEF FirstApart
            <7>3. ~ first
              BY <1>4, <2>1, <7>1, <7>2 DEF Remembers
            <7>4. QED
              BY <7>2, <7>3 DEF FirstApart
          <6>3. QED
            BY <6>1, <6>2
        <5>2. from = t.first
          <6>1. CASE start
            BY <6>1
          <6>2. CASE ~ start
            <7>1. K = 0 /\ end = 0
              BY <2>2, <3>1, <6>2
            <7>2. QED
              BY <1>5, <6>2, <7>1
          <6>3. QED
            BY <6>1, <6>2
        <5>3. sep = IF Len(d) = 0 THEN << >> ELSE <<Newline>>
          <6>1. CASE K = 0
            <7>1. first
              BY <1>4, <2>1, <6>1 DEF Remembers
            <7>2. QED
              BY <1>2, <6>1, <7>1
          <6>2. CASE K # 0
            <7>1. ~ first /\ start
              BY <1>4, <3>1, <5>1, <6>2
            <7>2. QED
              BY <1>2, <6>2, <7>1
          <6>3. QED
            BY <6>1, <6>2
        <5>4. Layout(d, r, text)
          BY <2>1, <5>1
        <5>5. Layout(e, q, text \o (IF Len(d) = 0 THEN << >> ELSE <<Newline>>) \o Copy(t.first, t.second))
          BY <4>4, <5>4, LayoutOpens
        <5>6. QED
          BY <1>2, <5>2, <5>3, <5>5
      <4>10. QED
        BY <4>4, <4>5, <4>8, <4>9 DEF Adds
    <3>2. CASE ~ start /\ K > 0
      <4>1. PICK e, q : /\ e = [d EXCEPT ![K].second = @ + t.second - r[K].second]
                        /\ q = [r EXCEPT ![K].second = t.second]
        OBVIOUS
      <4>2. end = r[K].second /\ t.first <= r[K].second /\ r[K].second < t.second
        BY <1>4, <1>5, <2>2, <3>2
      <4>3. t.first >= r[K].first
        BY <1>4, <1>5, <1>7, <3>2, <4>2 DEF Refuses
      <4>4. Extends(d, r, t, e, q)
        BY <1>2, <1>4, <3>2, <4>1, <4>2, <4>3 DEF Extends
      <4>5. /\ Shape(e, q) /\ Len(e) = K
            /\ \A k \in 1 .. K - 1 : q[k] = r[k]
            /\ q[K].first = r[K].first /\ q[K].second = t.second
        BY <1>2, <1>3, <4>4, ExtendsShape
      <4>6. Len(q) = K
        BY <4>5, ShapeSpans
      <4>7. q[1].first = r[1].first
        <5>1. K = 1 \/ 1 \in 1 .. K - 1
          BY <1>4, <3>2
        <5>2. QED
          BY <4>5, <5>1
      <4>8. Remembers(q, t.second, first /\ ~ start)
        <5>1. K # 0
          BY <3>2
        <5>2. r[1].first > 0 => ~ first
          BY <1>4, <2>1, <3>2 DEF Remembers
        <5>3. QED
          BY <4>5, <4>6, <4>7, <5>1, <5>2 DEF Remembers
      <4>9. ASSUME FirstApart(q) PROVE Layout(e, q, new)
        <5>1. FirstApart(r)
          BY <1>4, <4>6, <4>7, <4>9 DEF FirstApart
        <5>2. Layout(d, r, text)
          BY <2>1, <5>1
        <5>3. from = r[Len(r)].second /\ sep = << >>
          BY <1>4, <3>2, <4>2
        <5>4. Layout(e, q, text \o << >> \o Copy(r[Len(r)].second, t.second))
          BY <4>4, <5>2, LayoutExtends
        <5>5. QED
          BY <1>2, <5>3, <5>4
      <4>10. QED
        BY <4>4, <4>5, <4>8, <4>9 DEF Adds
    <3>3. QED
      BY <1>4, <3>1, <3>2
  <2>4. PICK E, Q : /\ Takes(u, n + 1, E, Q) /\ E[n + 1] = e /\ Q[n + 1] = q /\ n + 1 = Len(u)
    <3>1. Takes(s, n, D, R) /\ n = Len(s) /\ Adds(D[n], R[n], t, e, q)
      BY <1>1, <1>2, <1>7, <2>3
    <3>2. \E E, Q : /\ Takes(Append(s, t), n + 1, E, Q) /\ E[n + 1] = e /\ Q[n + 1] = q
                    /\ n + 1 = Len(Append(s, t))
      BY <3>1, TakesOneMore
    <3>3. u = Append(s, t)
      BY <1>2
    <3>4. QED
      BY <3>2, <3>3
  <2>5. QED
    BY <2>3, <2>4 DEF Clipping
<1>8. Clipping(u, new, t.second, first /\ ~ start)
  BY <1>6, <1>7
<1>9. QED
  BY <1>2, <1>8

\* No tag yet.
LEMMA ClippingStart == Clipping(<< >>, << >>, 0, TRUE)
<1>1. PICK D : D = [i \in 0 .. 0 |-> << >>]
  OBVIOUS
<1>2. D[0] = << >> /\ Len(<< >>) = 0
  BY <1>1
<1>3. Shape(<< >>, << >>)
  BY DEF Shape
<1>4. Takes(<< >>, 0, D, D)
  BY <1>2, <1>3 DEF Takes
<1>5. << >> \in Seq(Nat \cup {Newline})
  OBVIOUS
<1>6. Layout(D[0], D[0], << >>)
  BY <1>2, <1>3, <1>5 DEF Layout
<1>7. Remembers(D[0], 0, TRUE)
  BY <1>2 DEF Remembers
<1>8. QED
  BY <1>2, <1>4, <1>6, <1>7 DEF Clipping

-----------------------------------------------------------------------------
(* Where map finds the regions of a tag, and what is there.                     *)

LEMMA LayoutFacts ==
    ASSUME Layout(domain, range, outTxt)
    PROVE  /\ Len(domain) \in Nat /\ Len(outTxt) \in Nat /\ Len(range) = Len(domain)
           /\ \A k \in 1 .. Len(domain) :
                /\ domain[k].first \in Nat /\ domain[k].second \in Nat
                /\ domain[k].first <= domain[k].second /\ domain[k].second <= Len(outTxt)
                /\ range[k].first \in Nat
                /\ k = 1 => domain[k].first = 0
                /\ k > 1 => domain[k].first = domain[k - 1].second + 1
           /\ Len(domain) > 0 => domain[Len(domain)].second = Len(outTxt)
<1>1. Shape(domain, range) /\ outTxt \in Seq(Nat \cup {Newline})
  BY DEF Layout
<1>2. Len(domain) \in Nat /\ Len(outTxt) \in Nat /\ Len(range) = Len(domain)
  BY <1>1, ShapeSpans, LenProperties
<1>3. \A k \in 1 .. Len(domain) : range[k].first \in Nat
  BY <1>1, ShapeSpans
<1>4. \A k \in 1 .. Len(domain) :
                /\ domain[k].first \in Nat /\ domain[k].second \in Nat
                /\ domain[k].first <= domain[k].second /\ domain[k].second <= Len(outTxt)
                /\ domain[k].first = IF k = 1 THEN 0 ELSE domain[k - 1].second + 1
  BY DEF Layout, Region
<1>5. Len(domain) > 0 => domain[Len(domain)].second = Len(outTxt)
  BY <1>2 DEF Layout
<1>6. QED
  BY <1>2, <1>3, <1>4, <1>5

\* The characters next to a position of a region are those next to the position
\* it is mapped to, or separators.
LEMMA CharsKept ==
    ASSUME Layout(domain, range, outTxt), NEW k \in 1 .. Len(domain), NEW p \in Nat,
           contains(domain[k], p)
    PROVE  /\ After(p) = doMapping(k, p) \/ After(p) = Newline
           /\ Before(p) = doMapping(k, p) - 1 \/ Before(p) = Newline
<1>1. PICK L, N, x, y, c, z : /\ L = Len(domain) /\ N = Len(outTxt) /\ x = domain[k].first
                              /\ y = domain[k].second /\ c = range[k].first
                              /\ z = IF k = 1 THEN 0 ELSE domain[k - 1].second
  OBVIOUS
<1>2. /\ L \in Nat /\ N \in Nat /\ x \in Nat /\ y \in Nat /\ x <= y /\ y <= N /\ c \in Nat
      /\ k \in Nat /\ k >= 1 /\ k <= L /\ x <= p /\ p <= y
  BY <1>1, LayoutFacts DEF contains
<1>3. doMapping(k, p) = c + (p - x)
  BY <1>1 DEF doMapping
<1>4. Region(domain, range, outTxt, k)
  BY DEF Layout
<1>5. /\ \A i \in x .. y - 1 : outTxt[i + 1] = c + (i - x)
      /\ k < L => y < N /\ outTxt[y + 1] = Newline
      /\ x = IF k = 1 THEN 0 ELSE z + 1
  BY <1>1, <1>4 DEF Region
<1>6. k = L => y = N
  BY <1>1, <1>2, LayoutFacts
<1>7. After(p) = doMapping(k, p) \/ After(p) = Newline
  <2>1. CASE p < y
    <3>1. p < N /\ p \in x .. y - 1
      BY <1>2, <2>1
    <3>2. outTxt[p + 1] = c + (p - x)
      BY <1>5, <3>1
    <3>3. After(p) = outTxt[p + 1]
      BY <1>1, <3>1 DEF After
    <3>4. QED
      BY <1>3, <3>2, <3>3
  <2>2. CASE p = y /\ k < L
    BY <1>1, <1>5, <2>2 DEF After
  <2>3. CASE p = y /\ k = L
    <3>1. ~ (p < N)
      BY <1>2, <1>6, <2>3
    <3>2. QED
      BY <1>1, <3>1 DEF After
  <2>4. QED
    BY <1>2, <2>1, <2>2, <2>3
<1>8. Before(p) = doMapping(k, p) - 1 \/ Before(p) = Newline
  <2>1. CASE p > x
    <3>1. p \in 1 .. N /\ p - 1 \in x .. y - 1 /\ (p - 1) + 1 = p
      BY <1>2, <2>1
    <3>2. outTxt[p] = c + ((p - 1) - x)
      BY <1>5, <3>1
    <3>3. Before(p) = outTxt[p]
      BY <1>1, <3>1 DEF Before
    <3>4. c + ((p - 1) - x) = (c + (p - x)) - 1
      BY <1>2
    <3>5. QED
      BY <1>3, <3>2, <3>3, <3>4
  <2>2. CASE p = x /\ k = 1
    <3>1. p = 0 /\ p \notin 1 .. N
      BY <1>2, <1>5, <2>2
    <3>2. QED
      BY <1>1, <3>1 DEF Before
  <2>3. CASE p = x /\ k # 1
    <3>1. k - 1 \in 1 .. L /\ k - 1 < L /\ z = domain[k - 1].second /\ p = z + 1
      BY <1>1, <1>2, <1>5, <2>3
    <3>2. Region(domain, range, outTxt, k - 1)
      BY <1>1, <3>1 DEF Layout
    <3>3. outTxt[z + 1] = Newline
      BY <1>1, <3>1, <3>2 DEF Region
    <3>4. Before(p) = outTxt[p] \/ Before(p) = Newline
      BY DEF Before
    <3>5. QED
      BY <3>1, <3>3, <3>4
  <2>4. QED
    BY <1>2, <2>1, <2>2, <2>3
<1>9. QED
  BY <1>7, <1>8

\* What lower_bound finds contains the position, if nothing before it does.
LEMMA LowerFound ==
    ASSUME Layout(domain, range, outTxt), NEW b \in 1 .. Len(domain), NEW e \in 1 .. Len(domain) + 1,
           NEW p \in Nat, b = 1 \/ domain[b].first <= p, LowerBoundEnd(b, e, p) # e
    PROVE  /\ LowerBoundEnd(b, e, p) \in 1 .. Len(domain)
           /\ contains(domain[LowerBoundEnd(b, e, p)], p)
<1>1. PICK i, S : i = LowerBoundEnd(b, e, p) /\ S = {k \in b .. e - 1 : domain[k].second >= p}
  OBVIOUS
<1>2. i = Min({e} \cup S) /\ S \subseteq b .. e - 1 /\ b \in Nat /\ e \in Nat
  BY <1>1 DEF LowerBoundEnd
<1>3. i \in {e} \cup S /\ \A k \in {e} \cup S : i <= k
  BY <1>2, MinBound
<1>4. i \in b .. e - 1 /\ domain[i].second >= p /\ i # e
  BY <1>1, <1>3
<1>5. Len(domain) \in Nat
  BY LayoutFacts
<1>6. i \in 1 .. Len(domain) /\ i \in Nat
  BY <1>4, <1>5
<1>7. domain[i].first <= p
  <2>1. CASE i = b
    <3>1. b = 1 => domain[b].first = 0
      BY LayoutFacts
    <3>2. QED
      BY <2>1, <3>1
  <2>2. CASE i # b
    <3>1. i - 1 \in b .. e - 1 /\ i - 1 \in 1 .. Len(domain) /\ i > 1 /\ ~ (i <= i - 1)
      BY <1>4, <1>5, <2>2
    <3>2. i - 1 \notin S
      BY <1>3, <3>1
    <3>3. ~ (domain[i - 1].second >= p)
      BY <1>1, <3>1, <3>2
    <3>4. PICK y : y = domain[i - 1].second
      OBVIOUS
    <3>5. y \in Nat
      BY <3>1, <3>4, LayoutFacts
    <3>6. domain[i].first = y + 1
      BY <1>6, <3>1, <3>4, LayoutFacts
    <3>7. QED
      BY <3>3, <3>4, <3>5, <3>6
  <2>3. QED
    BY <2>1, <2>2
<1>8. domain[i].second \in Nat
  BY <1>6, LayoutFacts
<1>9. contains(domain[i], p)
  BY <1>4, <1>7, <1>8 DEF contains
<1>10. QED
  BY <1>1, <1>6, <1>9

\* Up to the last region it finds one for every position in the text.
LEMMA LowerThere ==
    ASSUME Layout(domain, range, outTxt), NEW b \in 1 .. Len(domain),
           NEW p \in 0 .. Len(outTxt)
    PROVE  LowerBoundEnd(b, Len(domain) + 1, p) # Len(domain) + 1
<1>1. PICK L, S : L = Len(domain) /\ S = {k \in b .. (L + 1) - 1 : domain[k].second >= p}
  OBVIOUS
<1>2. L \in Nat /\ Len(outTxt) \in Nat /\ (L > 0 => domain[L].second = Len(outTxt))
  BY <1>1, LayoutFacts
<1>3. L \in b .. (L + 1) - 1 /\ L > 0 /\ L + 1 \in Nat /\ b \in Nat
  BY <1>1, <1>2
<1>4. L \in S /\ S \subseteq b .. (L + 1) - 1
  BY <1>1, <1>2, <1>3
<1>5. LowerBoundEnd(b, L + 1, p) = Min({L + 1} \cup S)
  BY <1>1 DEF LowerBoundEnd
<1>6. Min({L + 1} \cup S) <= L
  BY <1>3, <1>4, MinBound
<1>7. QED
  BY <1>1, <1>2, <1>5, <1>6

\* The last region that begins before a position in the text contains it.
LEMMA UpperFound ==
    ASSUME Layout(domain, range, outTxt), NEW p \in 0 .. Len(outTxt), Len(domain) > 0
    PROVE  /\ UpperBoundBegin(1, Len(domain) + 1, p) - 1 \in 1 .. Len(domain)
           /\ contains(domain[UpperBoundBegin(1, Len(domain) + 1, p) - 1], p)
<1>1. PICK L, S, u, i : /\ L = Len(domain) /\ S = {k \in 1 .. (L + 1) - 1 : domain[k].first > p}
                        /\ u = UpperBoundBegin(1, L + 1, p) /\ i = u - 1
  OBVIOUS
<1>2. /\ L \in Nat /\ L > 0 /\ Len(outTxt) \in Nat /\ domain[L].second = Len(outTxt)
      /\ p \in Nat /\ p <= Len(outTxt)
  BY <1>1, LayoutFacts
<1>3. u = Min({L + 1} \cup S) /\ S \subseteq 1 .. (L + 1) - 1
  BY <1>1 DEF UpperBoundBegin
<1>4. u \in {L + 1} \cup S /\ \A k \in {L + 1} \cup S : u <= k
  <2>1. 1 \in Nat /\ L + 1 \in Nat
    BY <1>2
  <2>2. QED
    BY <1>3, <2>1, MinBound
<1>5. u # 1
  <2>1. 1 \in 1 .. Len(domain)
    BY <1>1, <1>2
  <2>2. domain[1].first = 0
    BY <2>1, LayoutFacts
  <2>3. 1 \notin S
    BY <1>1, <1>2, <2>2
  <2>4. QED
    BY <1>2, <1>4, <2>3
<1>6. u \in 2 .. L + 1
  BY <1>2, <1>3, <1>4, <1>5
<1>7. i \in 1 .. L /\ i + 1 = u /\ ~ (u <= i) /\ i \in 1 .. (L + 1) - 1
  BY <1>1, <1>2, <1>6
<1>8. domain[i].first \in Nat /\ domain[i].second \in Nat
  BY <1>1, <1>7, LayoutFacts
<1>9. domain[i].first <= p
  <2>1. i \notin S
    BY <1>4, <1>7
  <2>2. ~ (domain[i].first > p)
    BY <1>1, <1>7, <2>1
  <2>3. QED
    BY <1>2, <1>8, <2>2
<1>10. p <= domain[i].second
  <2>1. CASE i = L
    BY <1>2, <2>1
  <2>2. CASE i # L
    <3>1. u \in 1 .. L /\ u # L + 1 /\ u > 1 /\ u - 1 = i
      BY <1>2, <1>6, <1>7, <2>2
    <3>2. domain[u].first > p
      BY <1>1, <1>4, <3>1
    <3>3. domain[u].first = domain[i].second + 1
      BY <1>1, <3>1, LayoutFacts
    <3>4. QED
      BY <1>2, <1>8, <3>2, <3>3
  <2>3. QED
    BY <2>1, <2>2
<1>11. QED
  BY <1>1, <1>7, <1>9, <1>10 DEF contains

\* Where map looks first for an empty tag are regions of the text.
Hint == emptyTagRegion[1] \in 1 .. Len(domain) /\ emptyTagRegion[2] \in 1 .. Len(domain) + 1

LEMMA EmptyFound ==
    ASSUME Layout(domain, range, outTxt), Hint, NEW p \in 0 .. Len(outTxt),
           emptyTagRegion[1] = 1 \/ domain[emptyTagRegion[1]].first <= p
    PROVE  mapEmpty(p).ok
<1>1. PICK b, e, L : b = emptyTagRegion[1] /\ e = emptyTagRegion[2] /\ L = Len(domain)
  OBVIOUS
<1>2. b \in 1 .. L /\ e \in 1 .. L + 1 /\ L \in Nat /\ p \in Nat /\ (b = 1 \/ domain[b].first <= p)
  BY <1>1, LayoutFacts DEF Hint
<1>3. PICK i, d : /\ i = LowerBoundEnd(b, e, p)
                  /\ d = IF i # e THEN i ELSE LowerBoundEnd(b, L + 1, p)
  OBVIOUS
<1>4. d \in 1 .. L /\ contains(domain[d], p)
  <2>1. CASE i # e
    BY <1>1, <1>2, <1>3, <2>1, LowerFound
  <2>2. CASE i = e
    <3>1. LowerBoundEnd(b, L + 1, p) # L + 1
      BY <1>1, <1>2, LowerThere
    <3>2. L + 1 \in 1 .. L + 1
      BY <1>2
    <3>3. QED
      BY <1>1, <1>2, <1>3, <2>2, <3>1, <3>2, LowerFound
  <2>3. QED
    BY <2>1, <2>2
<1>5. mapEmpty(p) = [ok |-> d <= Len(domain) /\ (d <= Len(domain) => contains(domain[d], p)),
                     dom |-> <<d, d>>, region |-> <<d, d + 1>>]
  BY <1>1, <1>3 DEF mapEmpty
<1>6. PICK m : m = mapEmpty(p)
  OBVIOUS
<1>7. m.ok = (d <= Len(domain) /\ (d <= Len(domain) => contains(domain[d], p)))
  BY <1>5, <1>6
<1>8. d <= Len(domain)
  BY <1>1, <1>2, <1>4
<1>9. m.ok
  BY <1>4, <1>7, <1>8
<1>10. QED
  BY <1>6, <1>9

LEMMA NonEmptyFound ==
    ASSUME Layout(domain, range, outTxt), Len(domain) > 0,
           NEW a \in 0 .. Len(outTxt), NEW b \in 0 .. Len(outTxt)
    PROVE  mapNonEmpty(a, b).ok
<1>1. PICK i, j : /\ i = UpperBoundBegin(1, Len(domain) + 1, a) - 1
                  /\ j = LowerBoundEnd(1, Len(domain) + 1, b)
  OBVIOUS
<1>2. i \in 1 .. Len(domain) /\ contains(domain[i], a)
  BY <1>1, UpperFound
<1>3. Len(domain) \in Nat /\ 1 \in 1 .. Len(domain) /\ Len(domain) + 1 \in 1 .. Len(domain) + 1
  BY LayoutFacts
<1>4. b \in Nat
  BY LayoutFacts
<1>5. j # Len(domain) + 1
  BY <1>1, <1>3, LowerThere
<1>6. j \in 1 .. Len(domain) /\ contains(domain[j], b)
  BY <1>1, <1>3, <1>4, <1>5, LowerFound
<1>7. mapNonEmpty(a, b) =
        [ok |-> /\ i > 0 /\ (i > 0 => contains(domain[i], a))
                /\ j <= Len(domain) /\ (j <= Len(domain) => contains(domain[j], b)),
         dom |-> <<i, j>>, region |-> <<i, j>>]
  BY <1>1 DEF mapNonEmpty
<1>8. PICK m : m = mapNonEmpty(a, b)
  OBVIOUS
<1>9. m.ok = (/\ i > 0 /\ (i > 0 => contains(domain[i], a))
              /\ j <= Len(domain) /\ (j <= Len(domain) => contains(domain[j], b)))
  BY <1>7, <1>8
<1>10. i > 0 /\ j <= Len(domain)
  BY <1>2, <1>3, <1>6
<1>11. m.ok
  BY <1>2, <1>6, <1>9, <1>10
<1>12. QED
  BY <1>8, <1>11

\* How the regions that map returns belong together.
LEMMA RegionsOf ==
    ASSUME ClipInv, NEW t \in TagLine, NEW m,
           m = IF isEmptyTag(t) THEN mapEmpty(t.first) ELSE mapNonEmpty(t.first, t.second), m.ok
    PROVE  /\ m.dom[1] \in 1 .. Len(domain) /\ m.dom[2] \in 1 .. Len(domain)
           /\ contains(domain[m.dom[1]], t.first) /\ contains(domain[m.dom[2]], t.second)
           /\ isEmptyTag(t) => m.dom[1] = m.dom[2]
           /\ m.region[1] = m.dom[1] /\ m.region[2] \in 1 .. Len(domain) + 1
<1>1. Mapped(m, t)
  BY mapEmptyRegion, mapNonEmptyRegion
<1>2. /\ m.dom[1] \in 1 .. Len(domain) /\ m.dom[2] \in 1 .. Len(domain)
      /\ contains(domain[m.dom[1]], t.first) /\ contains(domain[m.dom[2]], t.second)
  BY <1>1 DEF Mapped
<1>3. Len(domain) \in Nat
  BY LenProperties DEF ClipInv
<1>4. CASE isEmptyTag(t)
  <2>1. PICK d : m.dom = <<d, d>> /\ m.region = <<d, d + 1>>
    <3>1. m = mapEmpty(t.first)
      BY <1>4
    <3>2. QED
      BY <3>1 DEF mapEmpty
  <2>2. d \in 1 .. Len(domain) /\ m.dom[1] = d /\ m.dom[2] = d
    BY <1>2, <2>1
  <2>3. m.region[1] = d /\ m.region[2] = d + 1
    BY <2>1
  <2>4. d + 1 \in 1 .. Len(domain) + 1
    BY <1>3, <2>2
  <2>5. QED
    BY <1>2, <2>2, <2>3, <2>4
<1>5. CASE ~ isEmptyTag(t)
  <2>1. m.dom = m.region
    BY <1>5 DEF mapNonEmpty
  <2>2. m.region[2] \in 1 .. Len(domain) + 1
    <3>1. m.dom[2] \in 1 .. Len(domain) + 1
      BY <1>2, <1>3
    <3>2. QED
      BY <2>1, <3>1
  <2>3. QED
    BY <1>2, <1>5, <2>1, <2>2
<1>6. QED
  BY <1>4, <1>5

\* A tag that map accepts is put on the characters it was on.
LEMMA Placing ==
    ASSUME Layout(domain, range, outTxt), NEW t \in TagLine,
           NEW i \in 1 .. Len(domain), NEW j \in 1 .. Len(domain),
           contains(domain[i], t.first), contains(domain[j], t.second),
           isEmptyTag(t) => i = j
    PROVE  SamePlace(t, Tag(doMapping(i, t.first), doMapping(j, t.second), t.name))
<1>1. PICK a, b, c, d, u : /\ a = t.first /\ b = t.second
                           /\ c = doMapping(i, t.first) /\ d = doMapping(j, t.second)
                           /\ u = Tag(c, d, t.name)
  OBVIOUS
<1>2. a \in Nat /\ b \in Nat
  BY <1>1 DEF TagLine
<1>3. (After(a) = c \/ After(a) = Newline) /\ (Before(b) = d - 1 \/ Before(b) = Newline)
  BY <1>1, <1>2, CharsKept
<1>4. u.first = c /\ u.second = d
  BY <1>1 DEF Tag
<1>5. isEmptyTag(t) => isEmptyTag(u) /\ a = b
  BY <1>1, <1>4 DEF isEmptyTag
<1>6. SamePlace(t, u)
  <2>1. CASE isEmptyTag(t)
    <3>1. \/ After(a) = c \/ Before(b) = d - 1
          \/ {After(a), Before(a)} = {Newline}
      BY <1>3, <1>5, <2>1
    <3>2. QED
      BY <1>1, <1>4, <1>5, <2>1, <3>1 DEF SamePlace
  <2>2. CASE ~ isEmptyTag(t)
    BY <1>1, <1>3, <1>4, <2>2 DEF SamePlace
  <2>3. QED
    BY <2>1, <2>2
<1>7. QED
  BY <1>1, <1>6

\* A file of tags has no other lines.
LEMMA NextTag ==
    ASSUME NEW s \in Seq(TagLine), NEW p \in 1 .. Len(s) + 1
    PROVE  NextLine(s, p) = p
<1>1. s \in Seq(Line) /\ Len(s) \in Nat /\ p \in Positions
  BY TagsOfTags, LenProperties DEF Positions
<1>2. PICK n : n = NextLine(s, p)
  OBVIOUS
<1>3. /\ n \in 1 .. Len(s) + 1
      /\ n <= Len(s) => p <= n
      /\ \A i \in p .. Len(s) : i < n => s[i] = Blank
  BY <1>1, <1>2, NextLineProperties
<1>4. p <= n
  BY <1>1, <1>3
<1>5. ~ (p < n)
  <2>1. SUFFICES ASSUME p < n PROVE FALSE
    OBVIOUS
  <2>2. p \in 1 .. Len(s) /\ p \in p .. Len(s)
    BY <1>1, <1>3, <2>1
  <2>3. s[p] = Blank /\ s[p] \in TagLine
    BY <1>3, <2>1, <2>2, ElementOfSeq
  <2>4. QED
    BY <2>3, TagNotBad
<1>6. QED
  BY <1>1, <1>2, <1>3, <1>4, <1>5

\* At most one way to take a tag applies, and neither to a tag that is refused or skipped.
LEMMA OneWay ==
    ASSUME NEW d, NEW r, Shape(d, r), NEW s \in TagLine
    PROVE  /\ \A e, q, e2, q2 : Adds(d, r, s, e, q) /\ Adds(d, r, s, e2, q2) => e = e2 /\ q = q2
           /\ \A e, q : Adds(d, r, s, e, q) =>
                /\ ~ Refuses(r, s)
                /\ ~ (Len(r) > 0 /\ s.first <= r[Len(r)].second /\ s.second <= r[Len(r)].second)
           /\ Refuses(r, s) =>
                ~ (Len(r) > 0 /\ s.first <= r[Len(r)].second /\ s.second <= r[Len(r)].second)
<1>1. PICK K, a, b, x, y : /\ K = Len(r) /\ a = s.first /\ b = s.second
                           /\ x = r[K].first /\ y = r[K].second
  OBVIOUS
<1>2. K \in Nat /\ a \in Nat /\ b \in Nat /\ (K > 0 => x \in Nat /\ y \in Nat)
  <2>1. K \in Nat /\ Len(d) = K
    BY <1>1, ShapeSpans
  <2>2. K > 0 => K \in 1 .. Len(d)
    BY <2>1
  <2>3. QED
    BY <1>1, <2>1, <2>2, ShapeSpans DEF TagLine
<1>3. \A e, q : Opens(d, r, s, e, q) => (K > 0 => y < a)
  BY <1>1 DEF Opens
<1>4. \A e, q : Extends(d, r, s, e, q) => K > 0 /\ a <= y /\ a >= x /\ y < b
  BY <1>1 DEF Extends
<1>5. Refuses(r, s) <=> K > 0 /\ a < x /\ a <= y /\ y < b
  BY <1>1 DEF Refuses
<1>6. \A e, q, e2, q2 : Opens(d, r, s, e, q) /\ Opens(d, r, s, e2, q2) => e = e2 /\ q = q2
  BY DEF Opens
<1>7. \A e, q, e2, q2 : Extends(d, r, s, e, q) /\ Extends(d, r, s, e2, q2) => e = e2 /\ q = q2
  BY DEF Extends
<1>8. \A e, q, e2, q2 : ~ (Opens(d, r, s, e, q) /\ Extends(d, r, s, e2, q2))
  <2>1. ~ ((K > 0 => y < a) /\ (K > 0 /\ a <= y /\ a >= x /\ y < b))
    BY <1>2
  <2>2. QED
    BY <1>3, <1>4, <2>1
<1>9. \A e, q, e2, q2 : Adds(d, r, s, e, q) /\ Adds(d, r, s, e2, q2) => e = e2 /\ q = q2
  BY <1>6, <1>7, <1>8 DEF Adds
<1>10. ~ (Refuses(r, s) /\ K > 0 /\ a <= y /\ b <= y)
  BY <1>2, <1>5
<1>11. ASSUME NEW e, NEW q, Adds(d, r, s, e, q)
       PROVE  ~ Refuses(r, s) /\ ~ (K > 0 /\ a <= y /\ b <= y)
  <2>1. (K > 0 => y < a) \/ (K > 0 /\ a <= y /\ a >= x /\ y < b)
    BY <1>3, <1>4, <1>11 DEF Adds
  <2>2. QED
    BY <1>2, <1>5, <2>1
<1>12. QED
  BY <1>1, <1>9, <1>10, <1>11

-----------------------------------------------------------------------------
(* What holds while clip and unite run.                                         *)

\* SamePlace for a given clipped text.
OnSame(text, t, u) ==
    LET after  == IF t.first < Len(text) THEN text[t.first + 1] ELSE Newline
        before == IF t.first \in 1 .. Len(text) THEN text[t.first] ELSE Newline
        last   == IF t.second \in 1 .. Len(text) THEN text[t.second] ELSE Newline
        begin  == after = u.first
        end    == last = u.second - 1
    IN  IF isEmptyTag(t)
        THEN isEmptyTag(u) /\ (begin \/ end \/ {after, before} = {Newline})
        ELSE (begin \/ after = Newline) /\ (end \/ last = Newline)

Placed(text, ts, us) == \A i \in 1 .. Len(us) : OnSame(text, ts[i], us[i])
InText(text, ts) == \A i \in 1 .. Len(ts) : {ts[i].first, ts[i].second} \subseteq 0 .. Len(text)

\* Two files for unite, in order, and the second one about the text.
InGoodOrder(text, files) ==
    /\ Clean(files[2]) /\ \A p \in {1, 2} : Sorted(<< >>, Tags(files[p]))
    /\ InText(text, Tags(files[2]))

\* No tag ends before it begins.
Forward(ts) == \A i \in 1 .. Len(ts) : ts[i].first <= ts[i].second

\* The first file is the one that clip has written with the text.
ClippedFile ==
    /\ args = "ok" /\ so[1] \in Seq(TagLine)
    /\ Forward(so[1]) /\ Clipped(so[1], outTxt)

\* The regions are those after the tags read so far.
ContainerInv ==
    \E n, D, R :
        /\ Takes(so[1], n, D, R)
        /\ n = Len(so[1]) /\ FirstApart(R[n]) => Layout(D[n], R[n], outTxt)
        /\ lineNo \in 1 .. n + 1
        /\ domain = D[lineNo - 1] /\ range = R[lineNo - 1] /\ out = << >>

\* The tags read so far are placed, and the regions before the one where map looks
\* first are before the last of them.
EmbeddedInv ==
    /\ Layout(domain, range, outTxt) /\ Hint /\ ReadUpTo(so[2], lineNo)
    /\ \E ts : /\ ts = TagsUpTo(so[2], lineNo - 1) /\ Len(out) = Len(ts) /\ Placed(outTxt, ts, out)
               /\ \/ emptyTagRegion[1] = 1
                  \/ Len(ts) > 0 /\ domain[emptyTagRegion[1]].first <= ts[Len(ts)].first

UniteState ==
    /\ pc = "container" => ContainerInv
    /\ pc = "embedded" /\ FirstApart(range) => EmbeddedInv
    /\ pc = "ok" /\ FirstApart(range) =>
         Len(out) = Len(Tags(so[2])) /\ Placed(outTxt, Tags(so[2]), out)
    /\ pc = "error" /\ FirstApart(range) =>
         Placed(outTxt, Tags(so[2]), out) /\ ~ InGoodOrder(outTxt, so)

ClipState == Forward(out) /\ Clipping(out, outTxt, endOfLastRegion, firstRegion)

UniteInv ==
    /\ pc = "clip" => firstRegion \in BOOLEAN /\ ClipState
    /\ pc = "ok" /\ command = "clip" /\ args = "ok" => Forward(out) /\ Clipped(out, outTxt)
    /\ pc = "shell" /\ script # << >> /\ Head(script) = "unite" => outTxt = << >> \/ ClippedFile
    /\ command = "unite" /\ pc # "shell" /\ outTxt # << >> =>
         ClippedFile /\ UniteState

LEMMA OnSameIs ==
    ASSUME NEW t, NEW u
    PROVE  SamePlace(t, u) <=> OnSame(outTxt, t, u)
  BY DEF SamePlace, OnSame, After, Before

LEMMA InitUnite == Init => UniteInv
  BY DEF Init, UniteInv

LEMMA UniteKinds ==
    ASSUME TypeInv, [Next]_somVars
    PROVE  \/ main \/ andThen \/ UNCHANGED somVars
           \/ (clipData \/ setClippingSpan \/ map) /\ UNCHANGED <<args, script>>
           \/ command' \notin {"clip", "unite"} /\ pc' # "shell"
<1>1. CASE main \/ andThen \/ ended \/ UNCHANGED somVars
  BY <1>1 DEF ended
<1>2. CASE MergeNext
  <2>1. command' = command /\ pc \in {"read", "merge", "sort", "write", "init", "merge2"}
    BY <1>2 DEF MergeNext, readData, mergeTags, sort, writeData, initSeq, mergeQueue, mergeRest, inputs
  <2>2. pc' # "shell"
    <3>1. CASE readData
      <4>1. command \in {"sort", "merge", "verify"}
        BY <2>1, <3>1 DEF TypeInv, PhaseInv, readData
      <4>2. QED
        BY <3>1, <4>1 DEF readData, afterRead
    <3>2. CASE mergeTags
      BY <3>2 DEF mergeTags
    <3>3. CASE sort \/ writeData
      BY <3>3 DEF sort, writeData
    <3>4. CASE initSeq
      BY <3>4 DEF initSeq
    <3>5. CASE mergeQueue
      BY <3>5 DEF mergeQueue
    <3>6. QED
      BY <1>2, <3>1, <3>2, <3>3, <3>4, <3>5 DEF MergeNext
  <2>3. QED
    BY <2>1, <2>2 DEF TypeInv, PhaseInv
<1>3. CASE ClipNext /\ UNCHANGED <<args, script>>
  BY <1>3 DEF ClipNext
<1>4. CASE XmlNext
  <2>1. pc \in {"import", "export", "exportEnd"} /\ command' = command
    BY <1>4 DEF XmlNext, seekRoot, readText, readTag, readTail, writeSemiXML, writeRest, inputs
  <2>2. pc' # "shell"
    BY <1>4 DEF XmlNext, seekRoot, readText, readTag, readTail, writeSemiXML, writeRest
  <2>3. QED
    BY <2>1, <2>2 DEF TypeInv, PhaseInv
<1>5. QED
  BY <1>1, <1>2, <1>3, <1>4 DEF Next

LEMMA mainUnites ==
    ASSUME TypeInv, UniteInv, main
    PROVE  UniteInv'
<1>1. /\ pc = "shell" /\ script # << >> /\ command' = Head(script)
      /\ pc' = exec(Head(script)) /\ UNCHANGED <<so, args>>
  BY DEF main
<1>2. /\ out' = << >> /\ outTxt' = IF Head(script) = "unite" THEN outTxt ELSE << >>
      /\ lineNo' = 1 /\ firstRegion' = TRUE /\ endOfLastRegion' = 0
      /\ domain' = << >> /\ range' = << >>
  BY DEF main, ClipReset
<1>3. args \in {"ok", "help", "usage", "nofile"}
  BY DEF TypeInv, SessionInv
<1>4. /\ pc' \in {"read", "init", "clip", "container", "import", "export", "ok", "error"}
      /\ pc' = "clip" => command' = "clip"
      /\ pc' = "container" => command' = "unite"
      /\ args = "ok" => pc' # "ok"
  BY <1>1, <1>3, ExecEntry
<1>5. args = "ok" /\ command' = "unite" => pc' = "container"
  BY <1>1 DEF exec, Entry, ClipEntry, MergeCommands, ClipCommands
<1>6. pc' = "clip" => firstRegion' \in BOOLEAN /\ ClipState'
  <2>1. pc' = "clip" => outTxt' = << >>
    BY <1>1, <1>2, <1>4
  <2>2. out' = << >> /\ endOfLastRegion' = 0 /\ firstRegion' = TRUE
    BY <1>2
  <2>3. Forward(out')
    <3>1. Len(out') = 0
      BY <2>2
    <3>2. QED
      BY <3>1 DEF Forward
  <2>4. ASSUME pc' = "clip"
        PROVE  Clipping(out', outTxt', endOfLastRegion', firstRegion')
    BY <2>1, <2>2, <2>4, ClippingStart
  <2>5. QED
    BY <2>2, <2>3, <2>4 DEF ClipState
<1>7. ASSUME command' = "unite", outTxt' # << >>
      PROVE  ClippedFile' /\ UniteState'
  <2>1. outTxt' = outTxt /\ ClippedFile
    BY <1>1, <1>2, <1>7 DEF UniteInv
  <2>2. ClippedFile'
    BY <1>1, <2>1 DEF ClippedFile
  <2>3. UniteState'
    <3>1. pc' = "container"
      BY <1>1, <1>5, <1>7, <2>1 DEF ClippedFile
    <3>2. PICK n, D, R : /\ Takes(so[1], n, D, R)
                         /\ n = Len(so[1]) /\ FirstApart(R[n]) => Layout(D[n], R[n], outTxt)
      BY <2>1 DEF ClippedFile, Clipped
    <3>3. so[1] \in Seq(TagLine)
      BY <2>1 DEF ClippedFile
    <3>4. n \in 0 .. Len(so[1]) /\ D[0] = << >> /\ R[0] = << >> /\ Len(so[1]) \in Nat
      BY <3>2, <3>3, LenProperties DEF Takes
    <3>5. 1 \in 1 .. n + 1 /\ 1 - 1 = 0
      BY <3>4
    <3>6. lineNo' \in 1 .. n + 1 /\ domain' = D[lineNo' - 1] /\ range' = R[lineNo' - 1]
      BY <1>2, <3>4, <3>5
    <3>7. ContainerInv'
      BY <1>1, <1>2, <2>1, <3>2, <3>6 DEF ContainerInv
    <3>8. QED
      BY <3>1, <3>7 DEF UniteState
  <2>4. QED
    BY <1>1, <2>2, <2>3
<1>8. pc' # "shell" /\ ~ (pc' = "ok" /\ args' = "ok")
  BY <1>1, <1>4
<1>9. QED
  BY <1>6, <1>7, <1>8 DEF UniteInv

LEMMA andThenUnites ==
    ASSUME TypeInv, UniteInv, andThen
    PROVE  UniteInv'
<1>1. /\ pc = "ok" /\ script # << >> /\ args = "ok" /\ pc' = "shell"
      /\ UNCHANGED <<command, script, args, out, outTxt>>
  BY DEF andThen, outputs
<1>2. SUFFICES ASSUME Head(script) = "unite" PROVE ClippedFile'
  BY <1>1 DEF UniteInv
<1>3. command = "clip"
  <2>1. Reads("unite") <= Leaves(command)
    BY <1>1, <1>2 DEF TypeInv, SessionInv
  <2>2. Reads("unite") = 2
    BY DEF Reads
  <2>3. command # "clip" => Leaves(command) = 1
    BY DEF Leaves
  <2>4. QED
    BY <2>1, <2>2, <2>3
<1>4. PICK a : so' = <<out, a>>
  BY <1>3 DEF andThen
<1>5. so'[1] = out
  BY <1>4
<1>6. out \in Seq(TagLine)
  BY <1>1, PlainOut DEF TypeInv
<1>7. Forward(out) /\ Clipped(out, outTxt)
  BY <1>1, <1>3 DEF UniteInv
<1>8. QED
  BY <1>1, <1>5, <1>6, <1>7 DEF ClippedFile

LEMMA clipDataUnites ==
    ASSUME TypeInv, UniteInv, clipData, UNCHANGED <<args, script>>
    PROVE  UniteInv'
<1>1. /\ pc = "clip" /\ Running /\ command = "clip" /\ command' = "clip"
      /\ firstRegion \in BOOLEAN /\ ClipState
  BY DEF clipData, Running, TypeInv, PhaseInv, UniteInv, clipRest, inputs
<1>2. so[1] \in Seq(Line) /\ lineNo \in Positions /\ endOfLastRegion \in Nat
  BY <1>1, FileThere DEF TypeInv, ClipInv
<1>3. PICK n, t : n = NextLine(so[1], lineNo) /\ t = so[1][n]
  OBVIOUS
<1>4. n <= Len(so[1]) => t \in TagLine \cup {Bad}
  BY <1>2, <1>3, NextLineTypes
<1>5. out \in Seq(TagLine)
  BY <1>1, PlainOut DEF TypeInv
<1>6a. PICK start \in BOOLEAN : start <=> t.first > endOfLastRegion
  <2>1. CASE t.first > endOfLastRegion
    BY <2>1
  <2>2. CASE ~ (t.first > endOfLastRegion)
    BY <2>2
  <2>3. QED
    BY <2>1, <2>2
<1>6b. PICK first \in BOOLEAN : first = firstRegion
  BY <1>1
<1>6. PICK end, from, sep :
        /\ end = endOfLastRegion /\ first = firstRegion
        /\ from = IF start THEN t.first ELSE end
        /\ sep = IF start /\ ~ first THEN <<Newline>> ELSE << >>
  BY <1>6b
<1>7. \/ pc' = "ok" /\ UNCHANGED <<out, outTxt, firstRegion, endOfLastRegion>>
      \/ pc' = "error"
      \/ pc' = "clip" /\ UNCHANGED <<out, outTxt, firstRegion, endOfLastRegion>>
      \/ /\ n <= Len(so[1]) /\ t # Bad /\ pc' = "clip" /\ t.second > end
         /\ from = t.second \/ t.second \in from .. Len(txt)
         /\ firstRegion' = (first /\ ~ start)
         /\ outTxt' = outTxt \o sep \o Copy(from, t.second)
         /\ endOfLastRegion' = t.second
         /\ out' = Append(out, t)
  BY <1>1, <1>3, <1>6, <1>6a DEF clipData
<1>8. CASE pc' = "error"
  BY <1>1, <1>8 DEF UniteInv
<1>9. CASE pc' = "ok" /\ UNCHANGED <<out, outTxt, firstRegion, endOfLastRegion>>
  <2>1. Forward(out) /\ Clipped(out, outTxt)
    BY <1>1 DEF ClipState, Clipping, Clipped
  <2>2. QED
    BY <1>1, <1>9, <2>1 DEF UniteInv
<1>10. CASE pc' = "clip" /\ UNCHANGED <<out, outTxt, firstRegion, endOfLastRegion>>
  <2>1. ClipState'
    BY <1>1, <1>10 DEF ClipState
  <2>2. QED
    BY <1>1, <1>10, <2>1 DEF UniteInv
<1>11. CASE /\ n <= Len(so[1]) /\ t # Bad /\ pc' = "clip" /\ t.second > end
            /\ from = t.second \/ t.second \in from .. Len(txt)
            /\ firstRegion' = (first /\ ~ start)
            /\ outTxt' = outTxt \o sep \o Copy(from, t.second)
            /\ endOfLastRegion' = t.second
            /\ out' = Append(out, t)
  <2>1. t \in TagLine /\ t.first \in Nat /\ t.second \in Nat /\ end \in Nat
    BY <1>2, <1>4, <1>6, <1>11 DEF TagLine
  <2>2. start <=> t.first > end
    BY <1>6, <1>6a
  <2>3. ClipState'
    <3>1. PICK N : N = Len(out)
      OBVIOUS
    <3>2. N \in Nat /\ Len(out') = N + 1 /\ out'[N + 1] = t /\ \A i \in 1 .. N : out'[i] = out[i]
      BY <1>5, <1>11, <2>1, <3>1, AppendProperties, LenProperties
    <3>3. N + 1 \in 1 .. N + 1 /\ \A i \in 1 .. N : i \in 1 .. N + 1
      BY <3>2
    <3>4. t.first <= t.second
      <4>1. txt \in Seq(Nat)
        BY <1>1 DEF TypeInv, SessionInv
      <4>1a. Len(txt) \in Nat
        BY <4>1, LenProperties
      <4>2. CASE start
        BY <1>6, <1>11, <2>1, <4>1a, <4>2
      <4>3. CASE ~ start
        BY <1>11, <2>1, <2>2, <4>3
      <4>4. QED
        BY <4>2, <4>3
    <3>5. Forward(out) /\ Clipping(out, outTxt, end, first)
      BY <1>1, <1>6 DEF ClipState
    <3>6. end < t.second
      BY <1>11, <2>1
    <3>7. Clipping(Append(out, t), outTxt \o sep \o Copy(from, t.second), t.second, first /\ ~ start)
      BY <1>5, <1>6, <2>1, <2>2, <3>4, <3>5, <3>6, ClipsOneMore
    <3>8. Forward(out')
      BY <3>1, <3>2, <3>4, <3>5 DEF Forward
    <3>9. QED
      BY <1>11, <3>7, <3>8 DEF ClipState
  <2>4. firstRegion' \in BOOLEAN
    BY <1>11
  <2>5. QED
    BY <1>1, <1>11, <2>3, <2>4 DEF UniteInv
<1>12. QED
  BY <1>7, <1>8, <1>9, <1>10, <1>11

LEMMA setClippingSpanUnites ==
    ASSUME TypeInv, UniteInv, setClippingSpan, UNCHANGED <<args, script>>
    PROVE  UniteInv'
<1>1. /\ pc = "container" /\ command = "unite" /\ command' = "unite"
      /\ UNCHANGED <<so, args, out, outTxt>>
  BY DEF setClippingSpan, TypeInv, PhaseInv, clipRest, inputs
<1>2. pc' \in {"embedded", "error", "container"}
  BY <1>1 DEF setClippingSpan
<1>3. SUFFICES ASSUME outTxt # << >>
               PROVE  ClippedFile' /\ UniteState'
  BY <1>1, <1>2 DEF UniteInv
<1>4. ClippedFile /\ UniteState
  BY <1>1, <1>3 DEF UniteInv
<1>5. ClippedFile'
  BY <1>1, <1>4 DEF ClippedFile
<1>6. SUFFICES UniteState'
  BY <1>1, <1>5
<1>7. PICK n, D, R :
        /\ Takes(so[1], n, D, R)
        /\ n = Len(so[1]) /\ FirstApart(R[n]) => Layout(D[n], R[n], outTxt)
        /\ lineNo \in 1 .. n + 1
        /\ domain = D[lineNo - 1] /\ range = R[lineNo - 1] /\ out = << >>
  BY <1>1, <1>4, <1>6 DEF UniteState, ContainerInv
<1>8. PICK p, N, k : p = lineNo /\ N = Len(so[1]) /\ k = Len(range)
  OBVIOUS
<1>9. N \in Nat /\ n \in 0 .. N /\ p \in 1 .. n + 1 /\ p \in 1 .. N + 1 /\ so[1] \in Seq(TagLine)
  <2>1. so[1] \in Seq(TagLine)
    BY <1>4 DEF ClippedFile
  <2>2. N \in Nat /\ n \in 0 .. N /\ p \in 1 .. n + 1
    BY <1>7, <1>8, <2>1, LenProperties DEF Takes
  <2>3. QED
    BY <2>1, <2>2
<1>10. NextLine(so[1], lineNo) = p
  BY <1>8, <1>9, NextTag
<1>11. PICK s : s = so[1][p]
  OBVIOUS
<1>12. \/ /\ p > N /\ lineNo' = 1 /\ pc' = "embedded"
          /\ emptyTagRegion' = <<1, k + 1>> /\ UNCHANGED <<domain, range>>
       \/ /\ p <= N /\ pc' = "error" /\ (s # Bad => Refuses(range, s))
       \/ /\ p <= N /\ s # Bad /\ lineNo' = p + 1 /\ pc' = pc
          /\ Adds(domain, range, s, domain', range')
       \/ /\ p <= N /\ s # Bad
          /\ Len(range) > 0 /\ s.first <= range[Len(range)].second /\ s.second <= range[Len(range)].second
  BY <1>8, <1>10, <1>11 DEF setClippingSpan, Refuses, Adds, Opens, Extends
<1>13. p - 1 \in 0 .. n /\ p \in Nat
  BY <1>9
<1>14. Shape(domain, range)
  BY <1>7, <1>8, <1>13 DEF Takes
<1>15. p <= N => s \in TagLine /\ s # Bad
  <2>1. p <= N => p \in 1 .. Len(so[1])
    BY <1>8, <1>9
  <2>2. p <= N => s \in TagLine
    BY <1>9, <1>11, <2>1, ElementOfSeq
  <2>3. QED
    BY <2>2, TagNotBad
<1>16. p <= n => Adds(domain, range, s, D[p], R[p])
  <2>1. p <= n => p \in 1 .. n
    BY <1>9
  <2>2. QED
    BY <1>7, <1>8, <1>11, <2>1 DEF Takes
<1>17. p <= N /\ ~ (p <= n) => Refuses(range, s) /\ ~ Sorted(<< >>, so[1]) /\ p = n + 1
  <2>1. p <= N /\ ~ (p <= n) => p = n + 1 /\ n < N /\ p - 1 = n
    BY <1>9
  <2>2. QED
    BY <1>7, <1>8, <1>11, <2>1 DEF Takes
<1>18. CASE /\ p > N /\ lineNo' = 1 /\ pc' = "embedded"
            /\ emptyTagRegion' = <<1, k + 1>> /\ UNCHANGED <<domain, range>>
  <2>1. SUFFICES ASSUME FirstApart(range) PROVE EmbeddedInv'
    BY <1>18 DEF UniteState
  <2>2. n = N /\ p - 1 = n
    BY <1>9, <1>18
  <2>3. Layout(domain, range, outTxt)
    BY <1>7, <1>8, <2>1, <2>2
  <2>4. Layout(domain', range', outTxt')
    BY <1>1, <1>18, <2>3
  <2>5. k \in Nat /\ Len(domain) = k /\ k > 0
    <3>1. k \in Nat /\ Len(domain) = k
      BY <1>8, <2>3, LayoutFacts
    <3>2. k # 0
      <4>1. k = 0 => Len(outTxt) = 0
        BY <2>3, <3>1 DEF Layout
      <4>2. outTxt \in Seq(Nat \cup {Newline})
        BY <2>3 DEF Layout
      <4>3. QED
        BY <1>3, <4>1, <4>2, EmptySeq
    <3>3. QED
      BY <3>1, <3>2
  <2>6. Hint'
    <3>1. emptyTagRegion'[1] = 1 /\ emptyTagRegion'[2] = k + 1
      BY <1>18
    <3>2. 1 \in 1 .. k /\ k + 1 \in 1 .. k + 1
      BY <2>5
    <3>3. Len(domain') = k
      BY <1>18, <2>5
    <3>4. QED
      BY <3>1, <3>2, <3>3 DEF Hint
  <2>7. Running /\ Len(so) \in Nat /\ 2 <= Len(so)
    <3>1. Running
      BY <1>1 DEF Running
    <3>2. QED
      BY <1>1, <3>1, FileThere
  <2>8. so[2] \in Seq(Line) /\ Len(so[2]) \in Nat
    <3>1. 2 \in 1 .. Len(so)
      BY <2>7
    <3>2. so[2] \in Seq(Line)
      BY <2>7, <3>1, FileThere
    <3>3. QED
      BY <3>2, LenProperties
  <2>9. ReadUpTo(so[2], 1) /\ TagsUpTo(so[2], 0) = << >>
    <3>1. 1 \in 1 .. Len(so[2]) + 1 /\ 0 \in 0 .. Len(so[2]) /\ \A i \in 1 .. 1 - 1 : FALSE
      BY <2>8
    <3>2. QED
      BY <2>8, <3>1, TagsUpToTypes DEF ReadUpTo
  <2>10. out = << >> /\ Placed(outTxt, << >>, << >>)
    BY <1>7 DEF Placed
  <2>11. ReadUpTo(so'[2], lineNo') /\ TagsUpTo(so'[2], lineNo' - 1) = << >>
    <3>1. 1 - 1 = 0
      OBVIOUS
    <3>2. QED
      BY <1>1, <1>18, <2>9, <3>1
  <2>12. out' = << >> /\ Placed(outTxt', << >>, out')
    BY <1>1, <2>10
  <2>13. \E ts : /\ ts = TagsUpTo(so'[2], lineNo' - 1) /\ Len(out') = Len(ts)
                 /\ Placed(outTxt', ts, out') /\ emptyTagRegion'[1] = 1
    BY <1>18, <2>11, <2>12
  <2>14. QED
    BY <2>4, <2>6, <2>11, <2>13 DEF EmbeddedInv
<1>19. CASE p <= N /\ pc' = "error" /\ (s # Bad => Refuses(range, s))
  <2>1. ~ (p <= n)
    BY <1>14, <1>15, <1>16, <1>19, OneWay
  <2>2. ~ Sorted(<< >>, Tags(so[1]))
    BY <1>9, <1>17, <1>19, <2>1, TagsOfTags
  <2>3. ~ InGoodOrder(outTxt, so)
    BY <2>2 DEF InGoodOrder
  <2>4. Placed(outTxt, Tags(so[2]), out)
    <3>1. out = << >> /\ 1 .. Len(<< >>) = {}
      BY <1>7
    <3>2. QED
      BY <3>1 DEF Placed
  <2>5. Placed(outTxt', Tags(so'[2]), out') /\ ~ InGoodOrder(outTxt', so')
    BY <1>1, <2>3, <2>4
  <2>6. QED
    BY <1>19, <2>5 DEF UniteState
<1>20. CASE /\ p <= N /\ s # Bad /\ lineNo' = p + 1 /\ pc' = pc
            /\ Adds(domain, range, s, domain', range')
  <2>1. p <= n
    BY <1>14, <1>15, <1>17, <1>20, OneWay
  <2>2. domain' = D[p] /\ range' = R[p]
    BY <1>14, <1>15, <1>16, <1>20, <2>1, OneWay
  <2>3. lineNo' \in 1 .. n + 1 /\ lineNo' - 1 = p
    BY <1>9, <1>20, <2>1
  <2>4. ContainerInv'
    BY <1>1, <1>7, <2>2, <2>3 DEF ContainerInv
  <2>5. QED
    BY <1>1, <1>20, <2>4 DEF UniteState
<1>21. CASE /\ p <= N /\ s # Bad
            /\ Len(range) > 0 /\ s.first <= range[Len(range)].second
            /\ s.second <= range[Len(range)].second
  BY <1>14, <1>15, <1>16, <1>17, <1>21, OneWay
<1>22. QED
  BY <1>12, <1>18, <1>19, <1>20, <1>21

\* map finds the regions of a tag that lies in the text and comes after those before it.
LEMMA TagFound ==
    ASSUME Layout(domain, range, outTxt), Hint, NEW t \in TagLine,
           {t.first, t.second} \subseteq 0 .. Len(outTxt),
           emptyTagRegion[1] = 1 \/ domain[emptyTagRegion[1]].first <= t.first,
           NEW m, m = IF isEmptyTag(t) THEN mapEmpty(t.first) ELSE mapNonEmpty(t.first, t.second)
    PROVE  m.ok
<1>1. t.first \in 0 .. Len(outTxt) /\ t.second \in 0 .. Len(outTxt)
  OBVIOUS
<1>2. CASE isEmptyTag(t)
  <2>1. mapEmpty(t.first).ok
    BY <1>1, EmptyFound
  <2>2. QED
    BY <1>2, <2>1
<1>3. CASE ~ isEmptyTag(t)
  <2>1. Len(domain) > 0
    <3>1. Len(domain) \in Nat
      BY LayoutFacts
    <3>2. QED
      BY <3>1 DEF Hint
  <2>2. mapNonEmpty(t.first, t.second).ok
    BY <1>1, <2>1, NonEmptyFound
  <2>3. QED
    BY <1>3, <2>2
<1>4. QED
  BY <1>2, <1>3

LEMMA mapUnites ==
    ASSUME TypeInv, UniteInv, map, UNCHANGED <<args, script>>
    PROVE  UniteInv'
<1>1. /\ pc = "embedded" /\ command = "unite" /\ command' = "unite"
      /\ UNCHANGED <<so, args, outTxt, domain, range>>
  BY DEF map, TypeInv, PhaseInv, clipRest, inputs
<1>2. pc' \in {"embedded", "error", "ok"}
  BY <1>1 DEF map
<1>3. SUFFICES ASSUME outTxt # << >>
               PROVE  ClippedFile' /\ UniteState'
  BY <1>1, <1>2 DEF UniteInv
<1>4. ClippedFile /\ UniteState
  BY <1>1, <1>3 DEF UniteInv
<1>5. ClippedFile'
  BY <1>1, <1>4 DEF ClippedFile
<1>6. SUFFICES ASSUME FirstApart(range)
               PROVE  UniteState'
  BY <1>1, <1>2, <1>5 DEF UniteState
<1>7. EmbeddedInv
  BY <1>1, <1>4, <1>6 DEF UniteState
<1>8. Layout(domain, range, outTxt) /\ Hint /\ ReadUpTo(so[2], lineNo)
  BY <1>7 DEF EmbeddedInv
<1>9. PICK ts, p, h :
        /\ p = lineNo /\ ts = TagsUpTo(so[2], p - 1) /\ Len(out) = Len(ts) /\ Placed(outTxt, ts, out)
        /\ h = emptyTagRegion[1]
        /\ h = 1 \/ (Len(ts) > 0 /\ domain[h].first <= ts[Len(ts)].first)
  BY <1>7 DEF EmbeddedInv
<1>10. PICK lines : lines = so[2]
  OBVIOUS
<1>11. lines \in Seq(Line) /\ Len(lines) \in Nat
  <2>1. Running
    BY <1>1 DEF Running
  <2>2. Len(so) \in Nat /\ 2 <= Len(so)
    BY <1>1, <2>1, FileThere
  <2>3. 2 \in 1 .. Len(so)
    BY <2>2
  <2>4. so[2] \in Seq(Line)
    BY <2>1, <2>3, FileThere
  <2>5. QED
    BY <1>10, <2>4, LenProperties
<1>12. PICK n, t, m :
        /\ n = NextLine(lines, p) /\ t = lines[n]
        /\ m = IF isEmptyTag(t) THEN mapEmpty(t.first) ELSE mapNonEmpty(t.first, t.second)
  OBVIOUS
<1>13. ReadUpTo(lines, p) /\ ts = TagsUpTo(lines, p - 1)
  BY <1>8, <1>9, <1>10
<1>14. /\ n \in p .. Len(lines) + 1
       /\ n <= Len(lines) /\ t # Bad =>
            t \in TagLine /\ ReadUpTo(lines, n + 1) /\ TagsUpTo(lines, n) = Append(ts, t)
       /\ n <= Len(lines) /\ t = Bad => ~ Clean(lines)
       /\ n > Len(lines) => ts = Tags(lines)
  <2>1. /\ n \in p .. Len(lines) + 1
        /\ n <= Len(lines) /\ lines[n] # Bad =>
             /\ lines[n] \in TagLine
             /\ ReadUpTo(lines, n + 1)
             /\ TagsUpTo(lines, n) = Append(TagsUpTo(lines, p - 1), lines[n])
        /\ n <= Len(lines) /\ lines[n] = Bad => ~ Clean(lines)
        /\ n > Len(lines) => TagsUpTo(lines, p - 1) = Tags(lines) /\ Clean(lines)
    BY <1>11, <1>12, <1>13, ReadLine
  <2>2. QED
    BY <1>12, <1>13, <2>1
<1>15. p \in 1 .. Len(lines) + 1
  BY <1>13 DEF ReadUpTo
<1>16. p - 1 \in 0 .. Len(lines) /\ (n <= Len(lines) => n \in 0 .. Len(lines))
  BY <1>11, <1>14, <1>15
<1>17. ts \in Seq(TagLine) /\ Len(ts) \in Nat /\ Tags(lines) \in Seq(TagLine)
  <2>1. ts \in Seq(TagLine) /\ Tags(lines) \in Seq(TagLine)
    BY <1>11, <1>13, <1>16, TagsUpToTypes
  <2>2. QED
    BY <2>1, LenProperties
<1>18. /\ Len(ts) <= Len(Tags(lines))
       /\ \A i \in 1 .. Len(ts) : Tags(lines)[i] = ts[i]
  BY <1>11, <1>13, <1>16, TagsPrefix
<1>19. Placed(outTxt, Tags(lines), out)
  BY <1>9, <1>18 DEF Placed
<1>20. /\ lineNo' = n + 1
       /\ \/ /\ n > Len(lines) /\ pc' = "ok" /\ UNCHANGED <<out, emptyTagRegion>>
          \/ /\ n <= Len(lines) /\ (t # Bad => ~ m.ok) /\ pc' = "error"
             /\ UNCHANGED <<out, emptyTagRegion>>
          \/ /\ n <= Len(lines) /\ t # Bad /\ m.ok
             /\ out' = Append(out, Tag(doMapping(m.dom[1], t.first),
                                       doMapping(m.dom[2], t.second), t.name))
             /\ emptyTagRegion' = m.region
             /\ UNCHANGED pc
  BY <1>9, <1>10, <1>12 DEF map
<1>21. CASE n > Len(lines) /\ pc' = "ok" /\ UNCHANGED <<out, emptyTagRegion>>
  <2>1. Len(out) = Len(Tags(lines)) /\ Placed(outTxt, Tags(lines), out)
    BY <1>9, <1>14, <1>19, <1>21
  <2>2. Len(out') = Len(Tags(so'[2])) /\ Placed(outTxt', Tags(so'[2]), out')
    BY <1>1, <1>10, <1>21, <2>1
  <2>3. QED
    BY <1>21, <2>2 DEF UniteState
<1>22. ASSUME n <= Len(lines), t # Bad
       PROVE  /\ t \in TagLine /\ t.first \in Nat /\ t.second \in Nat
              /\ Len(Append(ts, t)) = Len(ts) + 1 /\ Append(ts, t)[Len(ts) + 1] = t
              /\ \A i \in 1 .. Len(ts) : Append(ts, t)[i] = ts[i]
              /\ Len(ts) + 1 \in 1 .. Len(Tags(lines)) /\ Tags(lines)[Len(ts) + 1] = t
  <2>1. t \in TagLine /\ t.first \in Nat /\ t.second \in Nat /\ TagsUpTo(lines, n) = Append(ts, t)
    BY <1>14, <1>22 DEF TagLine
  <2>2. /\ Len(Append(ts, t)) = Len(ts) + 1 /\ Append(ts, t)[Len(ts) + 1] = t
        /\ \A i \in 1 .. Len(ts) : Append(ts, t)[i] = ts[i]
    BY <1>17, <2>1, AppendProperties
  <2>3. /\ Len(TagsUpTo(lines, n)) <= Len(Tags(lines))
        /\ \A i \in 1 .. Len(TagsUpTo(lines, n)) : Tags(lines)[i] = TagsUpTo(lines, n)[i]
    BY <1>11, <1>16, <1>22, TagsPrefix
  <2>4. Len(ts) + 1 <= Len(Tags(lines)) /\ \A i \in 1 .. Len(ts) + 1 : Tags(lines)[i] = Append(ts, t)[i]
    BY <2>1, <2>2, <2>3
  <2>5. Len(ts) + 1 \in 1 .. Len(ts) + 1 /\ Len(Tags(lines)) \in Nat
    BY <1>17, LenProperties
  <2>6. Tags(lines)[Len(ts) + 1] = t /\ Len(ts) + 1 \in 1 .. Len(Tags(lines))
    BY <1>17, <2>2, <2>4, <2>5
  <2>7. QED
    BY <2>1, <2>2, <2>6
<1>23. CASE /\ n <= Len(lines) /\ (t # Bad => ~ m.ok) /\ pc' = "error"
            /\ UNCHANGED <<out, emptyTagRegion>>
  <2>1. ~ InGoodOrder(outTxt, so)
    <3>1. SUFFICES ASSUME InGoodOrder(outTxt, so) PROVE FALSE
      OBVIOUS
    <3>2. Clean(lines) /\ Sorted(<< >>, Tags(lines)) /\ InText(outTxt, Tags(lines))
      BY <1>10, <3>1 DEF InGoodOrder
    <3>3. t # Bad
      BY <1>14, <1>23, <3>2
    <3>4. PICK N : N = Len(ts)
      OBVIOUS
    <3>5. /\ t \in TagLine /\ t.first \in Nat /\ t.second \in Nat
          /\ N + 1 \in 1 .. Len(Tags(lines)) /\ Tags(lines)[N + 1] = t
      BY <1>22, <1>23, <3>3, <3>4
    <3>6. {t.first, t.second} \subseteq 0 .. Len(outTxt)
      BY <3>2, <3>5 DEF InText
    <3>7. h = 1 \/ domain[h].first <= t.first
      <4>1. SUFFICES ASSUME h # 1 PROVE domain[h].first <= t.first
        OBVIOUS
      <4>2. N > 0 /\ domain[h].first <= ts[N].first /\ N \in Nat
        BY <1>9, <1>17, <3>4, <4>1
      <4>3. N \in 1 .. N /\ N \in 1 .. Len(Tags(lines)) /\ N < N + 1
        <5>1. Len(Tags(lines)) \in Nat
          BY <1>17, LenProperties
        <5>2. QED
          BY <3>5, <4>2, <5>1
      <4>4. Tags(lines)[N] = ts[N]
        BY <1>18, <3>4, <4>3
      <4>5. ~ AIsLessThanB(<< >>, t, ts[N])
        BY <3>2, <3>5, <4>3, <4>4 DEF Sorted
      <4>6. ts[N] \in TagLine
        BY <1>17, <3>4, <4>3, ElementOfSeq
      <4>7. ~ (t.first < ts[N].first)
        BY <4>5 DEF AIsLessThanB
      <4>8. ts[N].first \in Nat /\ domain[h].first \in Nat
        <5>1. h \in 1 .. Len(domain)
          BY <1>8, <1>9 DEF Hint
        <5>2. QED
          BY <1>8, <4>6, <5>1, LayoutFacts DEF TagLine
      <4>9. QED
        BY <3>5, <4>2, <4>7, <4>8
    <3>8. m.ok
      BY <1>8, <1>9, <1>12, <3>5, <3>6, <3>7, TagFound
    <3>9. QED
      BY <1>23, <3>3, <3>8
  <2>2. Placed(outTxt', Tags(so'[2]), out') /\ ~ InGoodOrder(outTxt', so')
    BY <1>1, <1>10, <1>19, <1>23, <2>1
  <2>3. QED
    BY <1>23, <2>2 DEF UniteState
<1>24. ASSUME n <= Len(lines), t # Bad, m.ok, NEW u,
              u = Tag(doMapping(m.dom[1], t.first), doMapping(m.dom[2], t.second), t.name),
              out' = Append(out, u), emptyTagRegion' = m.region, UNCHANGED pc
       PROVE  UniteState'
  <2>1. PICK N : N = Len(ts) /\ N = Len(out)
    BY <1>9
  <2>2. PICK vs : vs = Append(ts, t)
    OBVIOUS
  <2>3. /\ t \in TagLine /\ Len(vs) = N + 1 /\ vs[N + 1] = t
        /\ \A i \in 1 .. N : vs[i] = ts[i]
    BY <1>22, <1>24, <2>1, <2>2
  <2>4. out \in Seq(TagLine) /\ N \in Nat
    BY <1>1, <1>17, <2>1, PlainOut DEF TypeInv
  <2>5. /\ Len(out') = N + 1 /\ out'[N + 1] = u /\ \A i \in 1 .. N : out'[i] = out[i]
    <3>1. PICK S : S = TagLine \cup {u}
      OBVIOUS
    <3>2. out \in Seq(S) /\ u \in S
      BY <2>4, <3>1
    <3>3. QED
      BY <1>24, <2>1, <3>2, AppendProperties
  <2>6. /\ m.dom[1] \in 1 .. Len(domain) /\ m.dom[2] \in 1 .. Len(domain)
        /\ contains(domain[m.dom[1]], t.first) /\ contains(domain[m.dom[2]], t.second)
        /\ isEmptyTag(t) => m.dom[1] = m.dom[2]
        /\ m.region[1] = m.dom[1] /\ m.region[2] \in 1 .. Len(domain) + 1
    BY <1>12, <1>24, <2>3, RegionsOf DEF TypeInv
  <2>7. OnSame(outTxt, t, u)
    <3>1. SamePlace(t, Tag(doMapping(m.dom[1], t.first), doMapping(m.dom[2], t.second), t.name))
      BY <1>8, <2>3, <2>6, Placing
    <3>2. QED
      BY <1>24, <3>1, OnSameIs
  <2>8. Placed(outTxt, vs, out')
    <3>1. SUFFICES ASSUME NEW i \in 1 .. N + 1 PROVE OnSame(outTxt, vs[i], out'[i])
      BY <2>5 DEF Placed
    <3>2. CASE i = N + 1
      BY <2>3, <2>5, <2>7, <3>2
    <3>3. CASE i # N + 1
      <4>1. i \in 1 .. N
        BY <2>4, <3>3
      <4>2. OnSame(outTxt, ts[i], out[i])
        BY <1>9, <2>1, <4>1 DEF Placed
      <4>3. QED
        BY <2>3, <2>5, <4>1, <4>2
    <3>4. QED
      BY <3>2, <3>3
  <2>9. (n + 1) - 1 = n
    BY <1>14, <1>15
  <2>10. ReadUpTo(so'[2], lineNo') /\ vs = TagsUpTo(so'[2], lineNo' - 1)
    BY <1>1, <1>10, <1>14, <1>20, <1>24, <2>2, <2>9
  <2>11. Layout(domain', range', outTxt')
    BY <1>1, <1>8
  <2>12. Hint'
    BY <1>1, <1>24, <2>6 DEF Hint
  <2>13. Len(vs) > 0 /\ domain'[emptyTagRegion'[1]].first <= vs[Len(vs)].first
    <3>1. domain[m.dom[1]].first <= t.first
      BY <2>6 DEF contains
    <3>2. N + 1 > 0
      BY <2>4
    <3>3. QED
      BY <1>1, <1>24, <2>3, <2>6, <3>1, <3>2
  <2>14. Len(out') = Len(vs) /\ Placed(outTxt', vs, out')
    BY <1>1, <2>3, <2>5, <2>8
  <2>15. EmbeddedInv'
    BY <2>10, <2>11, <2>12, <2>13, <2>14 DEF EmbeddedInv
  <2>16. pc' = "embedded"
    BY <1>1, <1>24
  <2>17. QED
    BY <2>15, <2>16 DEF UniteState
<1>25. QED
  BY <1>20, <1>21, <1>23, <1>24

LEMMA UniteStep == TypeInv /\ UniteInv /\ [Next]_somVars => UniteInv'
<1> SUFFICES ASSUME TypeInv, UniteInv, [Next]_somVars PROVE UniteInv'
  OBVIOUS
<1>1. CASE main
  BY <1>1, mainUnites
<1>2. CASE andThen
  BY <1>2, andThenUnites
<1>3. CASE UNCHANGED somVars
  <2>1. /\ UNCHANGED <<command, pc, so, out, outTxt, script, args>>
        /\ UNCHANGED <<lineNo, firstRegion, endOfLastRegion, domain, range, emptyTagRegion>>
    BY <1>3 DEF somVars, clipVars
  <2>2. (ClipState' <=> ClipState) /\ (ClippedFile' <=> ClippedFile)
    BY <2>1 DEF ClipState, ClippedFile
  <2>3. ContainerInv' <=> ContainerInv
    BY <2>1 DEF ContainerInv
  <2>4. EmbeddedInv' <=> EmbeddedInv
    BY <2>1 DEF EmbeddedInv, Hint
  <2>5. UniteState' <=> UniteState
    BY <2>1, <2>3, <2>4 DEF UniteState
  <2>6. QED
    BY <2>1, <2>2, <2>5 DEF UniteInv
<1>4. CASE (clipData \/ setClippingSpan \/ map) /\ UNCHANGED <<args, script>>
  BY <1>4, clipDataUnites, setClippingSpanUnites, mapUnites
<1>5. CASE command' \notin {"clip", "unite"} /\ pc' # "shell"
  <2>1. TypeInv'
    BY StepTypes
  <2>2. pc' # "clip"
    BY <1>5, <2>1 DEF TypeInv, PhaseInv
  <2>3. QED
    BY <1>5, <2>2 DEF UniteInv
<1>6. QED
  BY <1>1, <1>2, <1>3, <1>4, <1>5, UniteKinds

LEMMA UniteInvariant == Spec => []UniteInv
  BY InitUnite, UniteStep, TypesInvariant, PTL DEF Spec

LEMMA UniteSuffices == TypeInv /\ UniteInv => UniteInverse
<1> SUFFICES ASSUME TypeInv, UniteInv, Len(range) > 1 => range[1].first > 0,
                    command = "unite", pc # "shell", outTxt # << >>
             PROVE  /\ \A i \in 1 .. Len(out) : SamePlace(Tags(so[2])[i], out[i])
                    /\ pc = "ok" => Len(out) = Len(Tags(so[2]))
                    /\ /\ Clean(so[2]) /\ \A p \in {1, 2} : Sorted(<< >>, Tags(so[p]))
                       /\ \A i \in 1 .. Len(Tags(so[2])) :
                            {Tags(so[2])[i].first, Tags(so[2])[i].second} \subseteq 0 .. Len(outTxt)
                       => pc # "error"
  BY DEF UniteInverse, PositionsRestored
<1>1. ClippedFile /\ UniteState /\ FirstApart(range)
  BY DEF UniteInv, FirstApart
<1>3. UniteState
  BY <1>1
<1>4. so[2] \in Seq(Line)
  <2>1. args = "ok"
    BY <1>1 DEF ClippedFile
  <2>2. Reads("unite") <= Len(so) /\ so \in Seq(Seq(Line)) /\ Reads("unite") = 2
    BY <2>1 DEF TypeInv, SessionInv, Reads
  <2>3. 2 \in 1 .. Len(so)
    BY <2>2, LenProperties
  <2>4. QED
    BY <2>2, <2>3, ElementOfSeq
<1>5. pc \in {"container", "embedded", "ok", "error"}
  BY DEF TypeInv, PhaseInv
<1>6. Placed(outTxt, Tags(so[2]), out)
  <2>1. CASE pc = "container"
    <3>1. out = << >> /\ 1 .. Len(<< >>) = {}
      BY <1>3, <2>1 DEF UniteState, ContainerInv
    <3>2. QED
      BY <3>1 DEF Placed
  <2>2. CASE pc = "embedded"
    <3>1. PICK p, ts : /\ p = lineNo - 1 /\ ReadUpTo(so[2], lineNo) /\ ts = TagsUpTo(so[2], p)
                       /\ Len(out) = Len(ts) /\ Placed(outTxt, ts, out)
      BY <1>1, <1>3, <2>2 DEF UniteState, EmbeddedInv
    <3>2. lineNo \in 1 .. Len(so[2]) + 1 /\ Len(so[2]) \in Nat
      BY <1>4, <3>1, LenProperties DEF ReadUpTo
    <3>3. p \in 0 .. Len(so[2])
      BY <3>1, <3>2
    <3>4. \A i \in 1 .. Len(ts) : Tags(so[2])[i] = ts[i]
      BY <1>4, <3>1, <3>3, TagsPrefix
    <3>5. QED
      BY <3>1, <3>4 DEF Placed
  <2>3. CASE pc \in {"ok", "error"}
    BY <1>1, <1>3, <2>3 DEF UniteState
  <2>4. QED
    BY <1>5, <2>1, <2>2, <2>3
<1>7. \A i \in 1 .. Len(out) : SamePlace(Tags(so[2])[i], out[i])
  BY <1>6, OnSameIs DEF Placed
<1>8. pc = "ok" => Len(out) = Len(Tags(so[2]))
  BY <1>1, <1>3 DEF UniteState
<1>9. pc = "error" => ~ InGoodOrder(outTxt, so)
  BY <1>1, <1>3 DEF UniteState
<1>10. QED
  BY <1>7, <1>8, <1>9 DEF InGoodOrder, InText

\* For every text that clip writes and every annotation of it: unite puts each tag on
\* the characters it was made for, and refuses none that lies in the text if both files
\* are in order, unless the text begins inside the first of several regions or a kept
\* tag ends before it begins.
THEOREM UniteIsInverse == Spec => []UniteInverse
  BY TypesInvariant, UniteInvariant, UniteSuffices, PTL
=============================================================================
