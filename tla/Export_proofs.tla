--------------------------- MODULE Export_proofs ---------------------------
(***************************************************************************)
(* What the export of the stand-off annotation tool writes, for any text and *)
(* any stand-off file (ExportIsRight), on top of the types and what is known *)
(* of reading a file (Som_proofs).  What export has written is told by how   *)
(* often each token stands at each place (Wrote), and what it has yet to     *)
(* close by how often each name is left to close at each place (EndsLeft).   *)
(***************************************************************************)
EXTENDS Som_proofs

-----------------------------------------------------------------------------
(* What export has written: the tags before the next one (tag) have been seen,   *)
(* those that begin before position d are opened, and all that end before it are *)
(* closed.                                                                      *)

\* How many entries of s are in Q.
Number(s, Q) == Cardinality({i \in 1 .. Len(s) : s[i] \in Q})

\* The tags with name n that begin, end or stand at position p.
Opening(n, p) == {t \in TagLine : t.name = n /\ t.first = p /\ ~ isEmptyTag(t)}
Closing(n, p) == {t \in TagLine : t.name = n /\ t.second = p /\ ~ isEmptyTag(t)}
Standing(n, p) == {t \in TagLine : t.name = n /\ t.first = p /\ isEmptyTag(t)}

\* The characters among the first i tokens of w, all characters of w, and how many
\* tokens e there are after p characters.
CharsBefore(w, i) == Cardinality({j \in 1 .. i : ~ IsTag(w[j])})
Letters(w) == Without(w, {t \in Range(w) : IsTag(t)})
TokensIn(w, e, p) == Cardinality({i \in 1 .. Len(w) : w[i] = e /\ CharsBefore(w, i) = p})
Escaped(text, c) == [i \in 1 .. c |-> writeCharWithEscaping(text[i])]

\* A tag that ends before it begins.
Backward(t) == t.second < t.first

\* The tags of ts before tag n have been seen up to position d.
SeenUpTo(ts, n, d) ==
    /\ n \in 1 .. Len(ts) + 1
    /\ \A i \in 1 .. n - 1 :
         /\ ts[i] \in TagLine /\ ts[i].first < d
         /\ \A j \in 1 .. i : ts[j].first <= ts[i].first
    /\ n <= Len(ts) /\ ts[n] # Bad /\ ts[n].first < d =>
         \E i \in 1 .. n - 1 : ts[n].first < ts[i].first

\* The end tags yet to be written, when the tags s have been seen.
EndsLeft(ends, s, d) ==
    /\ \A p \in DOMAIN ends : p < d => \E i \in 1 .. Len(s) : Backward(s[i])
    /\ \A i \in 1 .. Len(s) : Backward(s[i]) => \E p \in DOMAIN ends : p < d
    /\ \A p \in Nat : p >= d => (p \in DOMAIN ends <=> \E i \in 1 .. Len(s) : s[i].second = p)
    /\ \A p \in DOMAIN ends : p >= d =>
         \A n \in Names : Number(ends[p], {n}) = Number(s, Closing(n, p))

\* The output w, when the tags s have been seen and c characters been written.
Wrote(w, text, s, c, d) ==
    /\ Letters(w) = Escaped(text, c) /\ CharsBefore(w, Len(w)) = c
    /\ \A n \in Names, p \in Nat :
         /\ TokensIn(w, Start(n), p) = Number(s, Opening(n, p))
         /\ TokensIn(w, Empty(n), p) = Number(s, Standing(n, p))
         /\ (\A i \in 1 .. Len(s) : ~ Backward(s[i])) =>
              TokensIn(w, End(n), p) = IF p < d THEN Number(s, Closing(n, p)) ELSE 0

Seen == SubSeq(tags, 1, tag - 1)
Passed == IF pc = "exportEnd" THEN charCount + 1 ELSE charCount

\* The files export accepts.
Accepted ==
    /\ Clean(so[1])
    /\ \A i \in 1 .. Len(tags) :
         /\ tags[i].first <= tags[i].second /\ tags[i].second <= Len(txt)
         /\ \A j \in 1 .. i : tags[j].first <= tags[i].first

ExportInv ==
    command = "export" /\ args = "ok" =>
        /\ pc \in {"export", "exportEnd"} =>
             /\ charCount <= Len(txt)
             /\ pc = "exportEnd" => charCount = Len(txt) /\ charCount \notin DOMAIN endTagList
             /\ SeenUpTo(tags, tag, Passed)
             /\ EndsLeft(endTagList, Seen, Passed)
             /\ Wrote(outXml, txt, Seen, charCount, Passed)
        /\ pc = "error" => ~ Accepted
        /\ pc = "ok" => Accepted /\ Wrote(outXml, txt, tags, Len(txt), Len(txt) + 1)

-----------------------------------------------------------------------------
(* Counting entries of sequences.                                               *)

\* The number of entries in Q is a number, and 0 if there are none.
LEMMA NumberIs ==
    ASSUME NEW T, NEW s \in Seq(T), NEW Q
    PROVE  /\ IsFiniteSet({i \in 1 .. Len(s) : s[i] \in Q}) /\ Number(s, Q) \in Nat
           /\ Number(s, Q) = 0 <=> \A i \in 1 .. Len(s) : s[i] \notin Q
<1>1. PICK N, S : N = Len(s) /\ S = {i \in 1 .. N : s[i] \in Q}
  OBVIOUS
<1>2. N \in Nat
  BY <1>1, LenProperties
<1>3. IsFiniteSet(S)
  <2>1. IsFiniteSet(1 .. N) /\ S \in SUBSET (1 .. N)
    BY <1>1, <1>2, FS_Interval
  <2>2. QED
    BY <2>1, FS_Subset
<1>4. Cardinality(S) \in Nat /\ (Cardinality(S) = 0 <=> S = {})
  BY <1>3, FS_CardinalityType, FS_EmptySet
<1>5. Number(s, Q) = Cardinality(S)
  BY <1>1 DEF Number
<1>6. QED
  BY <1>1, <1>3, <1>4, <1>5

\* Numbers moved by m are as many as they were.
LEMMA MovedCount ==
    ASSUME NEW m \in Nat, NEW K, K \subseteq Nat, IsFiniteSet(K)
    PROVE  IsFiniteSet({m + k : k \in K}) /\ Cardinality({m + k : k \in K}) = Cardinality(K)
<1>1. PICK T, hx : T = {m + k : k \in K} /\ hx = [k \in K |-> m + k]
  OBVIOUS
<1>2. hx \in [K -> T] /\ \A k \in K : hx[k] = m + k
  BY <1>1
<1>3. \A k, l \in K : hx[k] = hx[l] => k = l
  BY <1>2
<1>4. \A x \in T : \E k \in K : hx[k] = x
  BY <1>1, <1>2
<1>5. hx \in Bijection(K, T)
  BY <1>2, <1>3, <1>4 DEF Bijection, Injection, Surjection, IsInjective
<1>6. IsFiniteSet(T) /\ Cardinality(T) = Cardinality(K)
  BY <1>5, FS_Bijection DEF ExistsBijection
<1>7. QED
  BY <1>1, <1>6

\* The places C are the places A, and the places B after the first m.
Joins(A, m, B, n, C) ==
    /\ A \subseteq 1 .. m /\ B \subseteq 1 .. n
    /\ \A i : i \in C <=> i \in A \/ \E k \in B : i = m + k

LEMMA CountsAdd ==
    ASSUME NEW m \in Nat, NEW n \in Nat, NEW A, NEW B, NEW C, Joins(A, m, B, n, C)
    PROVE  /\ Cardinality(C) = Cardinality(A) + Cardinality(B)
           /\ Cardinality(A) \in Nat /\ Cardinality(B) \in Nat
<1>0. A \subseteq 1 .. m /\ B \subseteq 1 .. n
  BY DEF Joins
<1>1. IsFiniteSet(A) /\ IsFiniteSet(B)
  <2>1. IsFiniteSet(1 .. m) /\ IsFiniteSet(1 .. n)
    BY FS_Interval
  <2>2. QED
    BY <1>0, <2>1, FS_Subset
<1>2. PICK D : D = {m + k : k \in B}
  OBVIOUS
<1>3. IsFiniteSet(D) /\ Cardinality(D) = Cardinality(B)
  <2>1. B \subseteq Nat
    BY <1>0
  <2>2. QED
    BY <1>1, <1>2, <2>1, MovedCount
<1>4. A \cap D = {}
  BY <1>0, <1>2
<1>5. /\ IsFiniteSet(A \cup D)
      /\ Cardinality(A \cup D) = Cardinality(A) + Cardinality(D) - Cardinality({})
  BY <1>1, <1>3, <1>4, FS_Union
<1>6. Cardinality(A) \in Nat /\ Cardinality(B) \in Nat
  BY <1>1, FS_CardinalityType
<1>7. C = A \cup D
  BY <1>2 DEF Joins
<1>8. QED
  BY <1>3, <1>5, <1>6, <1>7, FS_EmptySet

LEMMA NumberConcat ==
    ASSUME NEW T, NEW s \in Seq(T), NEW u \in Seq(T), NEW Q
    PROVE  Number(s \o u, Q) = Number(s, Q) + Number(u, Q)
<1>1. PICK m, n, w : m = Len(s) /\ n = Len(u) /\ w = s \o u
  OBVIOUS
<1>2. m \in Nat /\ n \in Nat /\ Len(w) = m + n
  BY <1>1, LenProperties, ConcatProperties
<1>3. /\ \A i \in 1 .. m : w[i] = s[i]
      /\ \A i \in 1 .. n : w[m + i] = u[i]
  BY <1>1, <1>2, ConcatProperties
<1>4. PICK A, B, C : /\ A = {i \in 1 .. m : s[i] \in Q}
                     /\ B = {i \in 1 .. n : u[i] \in Q}
                     /\ C = {i \in 1 .. m + n : w[i] \in Q}
  OBVIOUS
<1>5. Joins(A, m, B, n, C)
  <2>1. ASSUME NEW i \in C PROVE i \in A \/ \E k \in B : i = m + k
    <3>1. CASE i \in 1 .. m
      BY <1>3, <1>4, <3>1
    <3>2. CASE i \notin 1 .. m
      <4>1. i - m \in 1 .. n /\ i = m + (i - m)
        BY <1>2, <1>4, <3>2
      <4>2. i - m \in B
        BY <1>3, <1>4, <4>1
      <4>3. QED
        BY <4>1, <4>2
    <3>3. QED
      BY <3>1, <3>2
  <2>2. ASSUME NEW i \in A PROVE i \in C
    BY <1>2, <1>3, <1>4
  <2>3. ASSUME NEW k \in B PROVE m + k \in C
    <3>1. k \in 1 .. n /\ m + k \in 1 .. m + n
      BY <1>2, <1>4
    <3>2. QED
      BY <1>3, <1>4, <3>1
  <2>4. A \subseteq 1 .. m /\ B \subseteq 1 .. n
    BY <1>4
  <2>5. QED
    BY <2>1, <2>2, <2>3, <2>4 DEF Joins
<1>6. Cardinality(C) = Cardinality(A) + Cardinality(B)
  BY <1>2, <1>5, CountsAdd
<1>7. QED
  BY <1>1, <1>2, <1>4, <1>6 DEF Number

\* Two sequences with entries in Q and in R at the same places.
SamePlaces(s, Q, v, R) == Len(s) = Len(v) /\ \A i \in 1 .. Len(s) : s[i] \in Q <=> v[i] \in R

LEMMA NumberSame ==
    ASSUME NEW s, NEW v, NEW Q, NEW R, SamePlaces(s, Q, v, R)
    PROVE  Number(s, Q) = Number(v, R)
<1>1. {i \in 1 .. Len(s) : s[i] \in Q} = {i \in 1 .. Len(v) : v[i] \in R}
  BY DEF SamePlaces
<1>2. QED
  BY <1>1 DEF Number

LEMMA NumberReverse ==
    ASSUME NEW T, NEW s \in Seq(T), NEW Q
    PROVE  Number(Reverse(s), Q) = Number(s, Q)
<1>1. PICK N, v : N = Len(s) /\ v = Reverse(s)
  OBVIOUS
<1>2. N \in Nat
  BY <1>1, LenProperties
<1>3. v = [i \in 1 .. N |-> s[(N - i) + 1]]
  BY <1>1 DEF Reverse
<1>4. Len(v) = N
  BY <1>2, <1>3
<1>5. PICK S, R, hx : /\ S = {i \in 1 .. N : s[i] \in Q}
                      /\ R = {i \in 1 .. N : v[i] \in Q}
                      /\ hx = [i \in S |-> (N - i) + 1]
  OBVIOUS
<1>6. \A i \in 1 .. N : /\ (N - i) + 1 \in 1 .. N
                        /\ (N - ((N - i) + 1)) + 1 = i
                        /\ v[i] = s[(N - i) + 1]
  BY <1>2, <1>3
<1>7. \A i \in S : (N - i) + 1 \in R
  <2>1. ASSUME NEW i \in S PROVE (N - i) + 1 \in R
    <3>1. PICK j : j = (N - i) + 1
      OBVIOUS
    <3>2. i \in 1 .. N /\ j \in 1 .. N /\ (N - j) + 1 = i
      BY <1>5, <1>6, <3>1
    <3>3. v[j] = s[i]
      BY <1>6, <3>2
    <3>4. QED
      BY <1>5, <3>1, <3>2, <3>3
  <2>2. QED
    BY <2>1
<1>8. hx \in [S -> R] /\ \A i \in S : hx[i] = (N - i) + 1
  BY <1>5, <1>7
<1>9. \A i, j \in S : hx[i] = hx[j] => i = j
  BY <1>2, <1>5, <1>8
<1>10. \A j \in R : \E i \in S : hx[i] = j
  <2>1. ASSUME NEW j \in R PROVE \E i \in S : hx[i] = j
    <3>1. (N - j) + 1 \in S /\ (N - ((N - j) + 1)) + 1 = j
      BY <1>5, <1>6
    <3>2. QED
      BY <1>8, <3>1
  <2>2. QED
    BY <2>1
<1>11. hx \in Bijection(S, R)
  BY <1>8, <1>9, <1>10 DEF Bijection, Injection, Surjection, IsInjective
<1>12. IsFiniteSet(S)
  BY <1>1, <1>5, NumberIs
<1>13. Cardinality(R) = Cardinality(S)
  BY <1>11, <1>12, FS_Bijection DEF ExistsBijection
<1>14. QED
  BY <1>1, <1>4, <1>5, <1>13 DEF Number

\* Of the entries that are kept, as many are in Q as of all those not in S.
LEMMA NumberWithout ==
    ASSUME NEW T, NEW s \in Seq(T), NEW S, NEW Q
    PROVE  Number(Without(s, S), Q) = Number(s, Q \ S)
<1> DEFINE K == Kept(s, S)
           In(n) == {i \in 1 .. n : s[i] \in Q \ S}
           G == {n \in 0 .. Len(s) : Number(K[n], Q) = Cardinality(In(n))}
<1>1. PICK N : N = Len(s) /\ N \in Nat
  BY LenProperties
<1>2. K \in [0 .. N -> Seq(T \ S)] /\ K[0] = << >> /\ \A n \in 0 .. N : K[n] = KeptStep(s, S, K, n)
  BY <1>1, KeptProperties
<1>3. Without(s, S) = K[N]
  BY <1>1, KeptProperties
<1> HIDE DEF K
<1>4. 0 \in G
  <2>1. Number(<< >>, Q) = Cardinality({})
    <3>1. {i \in 1 .. Len(<< >>) : << >>[i] \in Q} = {}
      OBVIOUS
    <3>2. QED
      BY <3>1 DEF Number
  <2>2. In(0) = {}
    OBVIOUS
  <2>3. QED
    BY <1>1, <1>2, <2>1, <2>2
<1>5. ASSUME NEW n \in 0 .. N - 1, n \in G PROVE n + 1 \in G
  <2>1. n + 1 \in 1 .. N /\ n + 1 \in 0 .. N /\ n \in 0 .. N /\ n + 1 # 0 /\ (n + 1) - 1 = n
    BY <1>1
  <2>2. K[n + 1] = KeptStep(s, S, K, n + 1)
    BY <1>2, <2>1
  <2>3. Number(K[n], Q) = Cardinality(In(n))
    BY <1>5
  <2>4. K[n] \in Seq(T)
    BY <1>2, <2>1
  <2>5. s[n + 1] \in T
    BY <1>1, <2>1, ElementOfSeq
  <2>6. In(n + 1) = IF s[n + 1] \in Q \ S THEN In(n) \cup {n + 1} ELSE In(n)
    BY <1>1
  <2>7. IsFiniteSet(In(n)) /\ n + 1 \notin In(n) /\ Cardinality(In(n)) \in Nat
    <3>0. IsFiniteSet(1 .. n)
      BY <1>1, FS_Interval
    <3>1. IsFiniteSet(1 .. n) /\ In(n) \in SUBSET (1 .. n)
      BY <3>0
    <3>2. IsFiniteSet(In(n))
      BY <3>1, FS_Subset
    <3>3. QED
      BY <1>1, <3>2, FS_CardinalityType
  <2>8. Cardinality(In(n + 1)) = Cardinality(In(n)) + (IF s[n + 1] \in Q \ S THEN 1 ELSE 0)
    <3>1. Cardinality(In(n) \cup {n + 1}) = Cardinality(In(n)) + 1
      BY <2>7, FS_AddElement
    <3> HIDE DEF In
    <3>2. QED
      BY <2>6, <2>7, <3>1
  <2> HIDE DEF In
  <2>9. CASE s[n + 1] \in S
    <3>1. K[n + 1] = K[n]
      BY <2>1, <2>2, <2>9 DEF KeptStep
    <3>2. QED
      BY <1>1, <2>1, <2>3, <2>7, <2>8, <2>9, <3>1
  <2>10. CASE s[n + 1] \notin S
    <3>1. K[n + 1] = Append(K[n], s[n + 1])
      BY <2>1, <2>2, <2>10 DEF KeptStep
    <3>2. PICK x, g : x = s[n + 1] /\ g = K[n]
      OBVIOUS
    <3>3. K[n + 1] = K[n] \o <<x>>
      <4>1. g \in Seq(T) /\ x \in T
        BY <2>4, <2>5, <3>2
      <4>2. Append(g, x) = g \o <<x>>
        BY <4>1, AppendIsConcat
      <4>3. QED
        BY <3>1, <3>2, <4>2
    <3>4. Number(K[n + 1], Q) = Number(K[n], Q) + Number(<<x>>, Q)
      <4>1. <<x>> \in Seq(T) /\ g \in Seq(T)
        BY <2>4, <2>5, <3>2
      <4>2. Number(g \o <<x>>, Q) = Number(g, Q) + Number(<<x>>, Q)
        BY <4>1, NumberConcat
      <4>3. QED
        BY <3>2, <3>3, <4>2
    <3>5. Number(<<x>>, Q) = IF x \in Q THEN 1 ELSE 0
      <4>1. {i \in 1 .. Len(<<x>>) : <<x>>[i] \in Q} = IF x \in Q THEN {1} ELSE {}
        OBVIOUS
      <4>2. QED
        BY <4>1, FS_Singleton, FS_EmptySet DEF Number
    <3>6. QED
      BY <1>1, <2>1, <2>3, <2>7, <2>8, <2>10, <3>2, <3>4, <3>5
  <2>11. QED
    BY <2>9, <2>10
<1>6. N \in G
  <2> HIDE DEF G
  <2>1. \A n \in 0 .. N : n \in G
    BY <1>1, <1>4, <1>5, RangeInduction
  <2>2. QED
    BY <1>1, <2>1
<1>7. QED
  BY <1>1, <1>3, <1>6 DEF Number

\* What is kept is what is not in S.
LEMMA WithoutEntries ==
    ASSUME NEW T, NEW s \in Seq(T), NEW S, NEW x
    PROVE  (\E i \in 1 .. Len(Without(s, S)) : Without(s, S)[i] = x)
             <=> (\E i \in 1 .. Len(s) : s[i] = x) /\ x \notin S
<1>1. PICK w : w = Without(s, S)
  OBVIOUS
<1>2. w \in Seq(T \ S)
  BY <1>1, WithoutType
<1>3. Number(w, {x}) = Number(s, {x} \ S)
  BY <1>1, NumberWithout
<1>4. Number(w, {x}) = 0 <=> \A i \in 1 .. Len(w) : w[i] \notin {x}
  BY <1>2, NumberIs
<1>5. Number(s, {x} \ S) = 0 <=> \A i \in 1 .. Len(s) : s[i] \notin {x} \ S
  BY NumberIs
<1>6. QED
  BY <1>1, <1>3, <1>4, <1>5

\* The first m entries of s and v are the same, and those in S are those in R.
Agree(s, S, v, R, m) ==
    /\ m \in 0 .. Len(s) /\ m \in 0 .. Len(v)
    /\ \A i \in 1 .. m : s[i] = v[i] /\ (s[i] \in S <=> v[i] \in R)

\* What is kept of a part depends on that part only.
LEMMA KeptAgree ==
    ASSUME NEW T, NEW s \in Seq(T), NEW v \in Seq(T), NEW S, NEW R, NEW m, Agree(s, S, v, R, m)
    PROVE  Kept(s, S)[m] = Kept(v, R)[m]
<1> DEFINE K == Kept(s, S)
           L == Kept(v, R)
           G == {n \in 0 .. m : K[n] = L[n]}
<1>0. /\ m \in 0 .. Len(s) /\ m \in 0 .. Len(v)
      /\ \A i \in 1 .. m : s[i] = v[i] /\ (s[i] \in S <=> v[i] \in R)
  BY DEF Agree
<1>1. Len(s) \in Nat /\ Len(v) \in Nat /\ m \in Nat
  BY <1>0, LenProperties
<1>2. K[0] = << >> /\ \A n \in 0 .. Len(s) : K[n] = KeptStep(s, S, K, n)
  BY KeptProperties
<1>3. L[0] = << >> /\ \A n \in 0 .. Len(v) : L[n] = KeptStep(v, R, L, n)
  BY KeptProperties
<1> HIDE DEF K, L
<1>4. 0 \in G
  BY <1>1, <1>2, <1>3
<1>5. ASSUME NEW n \in 0 .. m - 1, n \in G PROVE n + 1 \in G
  <2>1. n + 1 \in 1 .. m /\ n + 1 \in 0 .. Len(s) /\ n + 1 \in 0 .. Len(v) /\ n + 1 # 0 /\ (n + 1) - 1 = n
    BY <1>0, <1>1
  <2>2. K[n + 1] = KeptStep(s, S, K, n + 1) /\ L[n + 1] = KeptStep(v, R, L, n + 1)
    BY <1>2, <1>3, <2>1
  <2>3. K[n] = L[n]
    BY <1>5
  <2>4. s[n + 1] = v[n + 1] /\ (s[n + 1] \in S <=> v[n + 1] \in R)
    BY <1>0, <2>1
  <2>5. K[n + 1] = L[n + 1]
    BY <2>1, <2>2, <2>3, <2>4 DEF KeptStep
  <2>6. QED
    BY <1>1, <2>1, <2>5
<1>6. m \in G
  <2> HIDE DEF G
  <2>1. \A n \in 0 .. m : n \in G
    BY <1>1, <1>4, <1>5, RangeInduction
  <2>2. QED
    BY <1>1, <2>1
<1>7. QED
  BY <1>6 DEF K, L

\* Characters are counted.
LEMMA CharsIs ==
    ASSUME NEW w, NEW i \in Nat
    PROVE  IsFiniteSet({j \in 1 .. i : ~ IsTag(w[j])}) /\ CharsBefore(w, i) \in Nat
<1>1. PICK S : S = {j \in 1 .. i : ~ IsTag(w[j])}
  OBVIOUS
<1>2. IsFiniteSet(1 .. i)
  BY FS_Interval
<1>3. IsFiniteSet(S)
  BY <1>1, <1>2, FS_Subset
<1>4. QED
  BY <1>1, <1>3, FS_CardinalityType DEF CharsBefore

\* More tokens do not change how many characters stand before one.
LEMMA CharsPrefix ==
    ASSUME NEW w, NEW v, NEW m \in Nat, \A j \in 1 .. m : v[j] = w[j], NEW i \in 1 .. m
    PROVE  CharsBefore(v, i) = CharsBefore(w, i)
<1>1. {j \in 1 .. i : ~ IsTag(v[j])} = {j \in 1 .. i : ~ IsTag(w[j])}
  OBVIOUS
<1>2. QED
  BY <1>1 DEF CharsBefore

\* v is w and n tokens more.
Longer(w, v, m, n) ==
    m = Len(w) /\ n \in Nat /\ Len(v) = m + n /\ \A i \in 1 .. m : v[i] = w[i]

\* Tags are no part of the text.
LEMMA LettersKept ==
    ASSUME NEW w \in Seq(Token), NEW v \in Seq(Token), NEW m, NEW n, Longer(w, v, m, n),
           \A i \in m + 1 .. m + n : IsTag(v[i])
    PROVE  Letters(v) = Letters(w)
<1>0. /\ m = Len(w) /\ m \in Nat /\ n \in Nat /\ Len(v) = m + n
      /\ \A i \in 1 .. m : v[i] = w[i]
  BY LenProperties DEF Longer
<1>1. PICK S, R : S = {t \in Range(v) : IsTag(t)} /\ R = {t \in Range(w) : IsTag(t)}
  OBVIOUS
<1>2. /\ \A i \in 1 .. m + n : v[i] \in Range(v)
      /\ \A i \in 1 .. m : w[i] \in Range(w)
  <2>1. DOMAIN v = 1 .. m + n /\ DOMAIN w = 1 .. m
    BY <1>0, LenProperties
  <2>2. QED
    BY <2>1 DEF Range
<1>3. \A i \in 1 .. m : v[i] \in S <=> w[i] \in R
  BY <1>0, <1>1, <1>2
<1>4. \A i \in m + 1 .. m + n : v[i] \in S
  BY <1>0, <1>1, <1>2
<1>5. Kept(v, S)[m] = Kept(w, R)[m]
  <2>1. m \in 0 .. Len(v) /\ m \in 0 .. Len(w)
    BY <1>0
  <2>2. Agree(v, S, w, R, m)
    BY <1>0, <1>3, <2>1 DEF Agree
  <2>3. QED
    BY <2>2, KeptAgree
<1>6. Kept(v, S)[m + n] = Kept(v, S)[m]
  <2>1. PICK l : l = m + n
    OBVIOUS
  <2>2. m \in 0 .. Len(v) /\ l \in m .. Len(v)
    BY <1>0, <2>1
  <2>3. \A i \in m + 1 .. l : v[i] \in S
    BY <1>4, <2>1
  <2>4. Kept(v, S)[l] = Kept(v, S)[m]
    BY <2>2, <2>3, KeptSkip
  <2>5. QED
    BY <2>1, <2>4
<1>7. Without(v, S) = Kept(v, S)[m + n] /\ Without(w, R) = Kept(w, R)[m]
  BY <1>0, KeptProperties
<1>8. QED
  BY <1>1, <1>5, <1>6, <1>7 DEF Letters

\* Any other token is.
LEMMA LettersMore ==
    ASSUME NEW w \in Seq(Token), NEW v \in Seq(Token), NEW m, Longer(w, v, m, 1),
           ~ IsTag(v[m + 1])
    PROVE  Letters(v) = Append(Letters(w), v[m + 1])
<1>0. /\ m = Len(w) /\ m \in Nat /\ Len(v) = m + 1
      /\ \A i \in 1 .. m : v[i] = w[i]
  BY LenProperties DEF Longer
<1>1. PICK S, R : S = {t \in Range(v) : IsTag(t)} /\ R = {t \in Range(w) : IsTag(t)}
  OBVIOUS
<1>2. /\ \A i \in 1 .. m + 1 : v[i] \in Range(v)
      /\ \A i \in 1 .. m : w[i] \in Range(w)
  <2>1. DOMAIN v = 1 .. m + 1 /\ DOMAIN w = 1 .. m
    BY <1>0, LenProperties
  <2>2. QED
    BY <2>1 DEF Range
<1>3. \A i \in 1 .. m : v[i] \in S <=> w[i] \in R
  BY <1>0, <1>1, <1>2
<1>4. Kept(v, S)[m] = Kept(w, R)[m]
  <2>1. m \in 0 .. Len(v) /\ m \in 0 .. Len(w)
    BY <1>0
  <2>2. Agree(v, S, w, R, m)
    BY <1>0, <1>3, <2>1 DEF Agree
  <2>3. QED
    BY <2>2, KeptAgree
<1>5. Kept(v, S)[m + 1] = Append(Kept(v, S)[m], v[m + 1])
  <2>1. v[m + 1] \notin S /\ m + 1 \in 0 .. Len(v) /\ m + 1 # 0 /\ (m + 1) - 1 = m
    BY <1>0, <1>1
  <2>2. Kept(v, S)[m + 1] = KeptStep(v, S, Kept(v, S), m + 1)
    BY <1>0, <2>1, KeptProperties
  <2>3. QED
    BY <1>0, <2>1, <2>2 DEF KeptStep
<1>6. Without(v, S) = Kept(v, S)[m + 1] /\ Without(w, R) = Kept(w, R)[m]
  BY <1>0, KeptProperties
<1>7. QED
  BY <1>1, <1>4, <1>5, <1>6 DEF Letters

\* Nothing but tags.
AllTags(u) == \A k \in 1 .. Len(u) : IsTag(u[k])

\* The output v is w and then the tags u.
AddsTags(v, w, u) ==
    /\ v \in Seq(Token) /\ CharsBefore(v, Len(v)) = CharsBefore(w, Len(w))
    /\ Letters(v) = Letters(w)
    /\ \A e : \A p \in Nat :
         TokensIn(v, e, p) = TokensIn(w, e, p)
                               + (IF p = CharsBefore(w, Len(w)) THEN Number(u, {e}) ELSE 0)

\* After tags are written, the text is the same, and these tags are counted where
\* the text has come to.
LEMMA WriteTags ==
    ASSUME NEW w \in Seq(Token), NEW u \in Seq(Token), AllTags(u)
    PROVE  AddsTags(w \o u, w, u)
<1>0. PICK v : v = w \o u
  OBVIOUS
<1>1. PICK m, n, c : m = Len(w) /\ n = Len(u) /\ c = CharsBefore(w, m)
  OBVIOUS
<1>2. m \in Nat /\ n \in Nat /\ Len(v) = m + n /\ v \in Seq(Token)
  BY <1>0, <1>1, LenProperties, ConcatProperties
<1>3. /\ \A i \in 1 .. m : v[i] = w[i]
      /\ \A i \in 1 .. n : v[m + i] = u[i]
  BY <1>0, <1>1, <1>2, ConcatProperties
<1>4. \A i \in m + 1 .. m + n : IsTag(v[i])
  <2>1. ASSUME NEW i \in m + 1 .. m + n PROVE IsTag(v[i])
    <3>1. i - m \in 1 .. n /\ m + (i - m) = i
      BY <1>2
    <3>2. QED
      BY <1>1, <1>3, <3>1 DEF AllTags
  <2>2. QED
    BY <2>1
<1>5. \A i \in 1 .. m : CharsBefore(v, i) = CharsBefore(w, i)
  BY <1>2, <1>3, CharsPrefix
<1>6. ASSUME NEW i \in m .. m + n PROVE CharsBefore(v, i) = c
  <2>1. {j \in 1 .. i : ~ IsTag(v[j])} = {j \in 1 .. m : ~ IsTag(w[j])}
    BY <1>2, <1>3, <1>4
  <2>2. QED
    BY <1>1, <2>1 DEF CharsBefore
<1>7. CharsBefore(v, Len(v)) = c
  BY <1>2, <1>6
<1>8. Letters(v) = Letters(w)
  <2>1. Longer(w, v, m, n)
    BY <1>1, <1>2, <1>3 DEF Longer
  <2>2. QED
    BY <1>2, <1>4, <2>1, LettersKept
<1>9. ASSUME NEW e, NEW p \in Nat
      PROVE  TokensIn(v, e, p) = TokensIn(w, e, p) + (IF p = c THEN Number(u, {e}) ELSE 0)
  <2>1. PICK A, B, C : /\ A = {i \in 1 .. m : w[i] = e /\ CharsBefore(w, i) = p}
                       /\ B = {k \in 1 .. n : u[k] \in {e} /\ p = c}
                       /\ C = {i \in 1 .. m + n : v[i] = e /\ CharsBefore(v, i) = p}
    OBVIOUS
  <2>2. Joins(A, m, B, n, C)
    <3>1. ASSUME NEW i \in C PROVE i \in A \/ \E k \in B : i = m + k
      <4>1. CASE i \in 1 .. m
        BY <1>3, <1>5, <2>1, <4>1
      <4>2. CASE i \notin 1 .. m
        <5>1. i - m \in 1 .. n /\ i = m + (i - m) /\ i \in m .. m + n
          BY <1>2, <2>1, <4>2
        <5>2. i - m \in B
          BY <1>3, <1>6, <2>1, <5>1
        <5>3. QED
          BY <5>1, <5>2
      <4>3. QED
        BY <4>1, <4>2
    <3>2. ASSUME NEW i \in A PROVE i \in C
      BY <1>2, <1>3, <1>5, <2>1
    <3>3. ASSUME NEW k \in B PROVE m + k \in C
      <4>1. k \in 1 .. n /\ m + k \in 1 .. m + n /\ m + k \in m .. m + n
        BY <1>2, <2>1
      <4>2. QED
        BY <1>3, <1>6, <2>1, <4>1
    <3>4. A \subseteq 1 .. m /\ B \subseteq 1 .. n
      BY <2>1
    <3>5. QED
      BY <3>1, <3>2, <3>3, <3>4 DEF Joins
  <2>3. Cardinality(C) = Cardinality(A) + Cardinality(B) /\ Cardinality(A) \in Nat
    BY <1>2, <2>2, CountsAdd
  <2>4. TokensIn(w, e, p) = Cardinality(A) /\ TokensIn(v, e, p) = Cardinality(C)
    BY <1>1, <1>2, <2>1 DEF TokensIn
  <2>5. CASE p = c
    <3>1. B = {k \in 1 .. n : u[k] \in {e}}
      BY <2>1, <2>5
    <3>2. Cardinality(B) = Number(u, {e})
      BY <1>1, <3>1 DEF Number
    <3>3. QED
      BY <2>3, <2>4, <2>5, <3>2
  <2>6. CASE p # c
    <3>1. B = {}
      BY <2>1, <2>6
    <3>2. Cardinality(B) = 0
      BY <3>1, FS_EmptySet
    <3>3. QED
      BY <2>3, <2>4, <2>6, <3>2
  <2>7. QED
    BY <2>5, <2>6
<1>10. QED
  BY <1>0, <1>1, <1>2, <1>7, <1>8, <1>9 DEF AddsTags

\* The output v is w and then the character x.
AddsChar(v, w, x) ==
    /\ v \in Seq(Token) /\ CharsBefore(v, Len(v)) = CharsBefore(w, Len(w)) + 1
    /\ Letters(v) = Append(Letters(w), x)
    /\ \A e : \A p \in Nat : IsTag(e) => TokensIn(v, e, p) = TokensIn(w, e, p)

\* After a character is written, the tags are counted as before.
LEMMA WriteChar ==
    ASSUME NEW w \in Seq(Token), NEW x \in Token, ~ IsTag(x)
    PROVE  AddsChar(w \o <<x>>, w, x)
<1>0. PICK v : v = w \o <<x>>
  OBVIOUS
<1>1. PICK m : m = Len(w)
  OBVIOUS
<1>2. m \in Nat /\ Len(v) = m + 1 /\ v \in Seq(Token)
  BY <1>0, <1>1, LenProperties
<1>3. v[m + 1] = x /\ \A i \in 1 .. m : v[i] = w[i]
  BY <1>0, <1>1, <1>2
<1>4. \A i \in 1 .. m : CharsBefore(v, i) = CharsBefore(w, i)
  BY <1>2, <1>3, CharsPrefix
<1>5. CharsBefore(v, m + 1) = CharsBefore(w, m) + 1
  <2>1. PICK S, R : S = {j \in 1 .. m + 1 : ~ IsTag(v[j])} /\ R = {j \in 1 .. m : ~ IsTag(w[j])}
    OBVIOUS
  <2>2. S = R \cup {m + 1} /\ m + 1 \notin R
    BY <1>2, <1>3, <2>1
  <2>3. IsFiniteSet(R)
    BY <1>2, <2>1, CharsIs
  <2>4. Cardinality(S) = Cardinality(R) + 1
    BY <2>2, <2>3, FS_AddElement
  <2>5. QED
    BY <2>1, <2>4 DEF CharsBefore
<1>6. Letters(v) = Append(Letters(w), x)
  <2>1. ~ IsTag(v[m + 1])
    BY <1>3
  <2>2. Longer(w, v, m, 1)
    BY <1>1, <1>2, <1>3 DEF Longer
  <2>3. Letters(v) = Append(Letters(w), v[m + 1])
    BY <1>2, <2>1, <2>2, LettersMore
  <2>4. QED
    BY <1>3, <2>3
<1>7. ASSUME NEW e, NEW p \in Nat, IsTag(e) PROVE TokensIn(v, e, p) = TokensIn(w, e, p)
  <2>1. e # x
    BY <1>7
  <2>2. {i \in 1 .. m + 1 : v[i] = e /\ CharsBefore(v, i) = p}
          = {i \in 1 .. m : w[i] = e /\ CharsBefore(w, i) = p}
    BY <1>2, <1>3, <1>4, <2>1
  <2>3. QED
    BY <1>1, <1>2, <2>2 DEF TokensIn
<1>8. QED
  BY <1>0, <1>1, <1>2, <1>5, <1>6, <1>7 DEF AddsChar

LEMMA TokensNat ==
    ASSUME NEW w \in Seq(Token), NEW e, NEW p
    PROVE  TokensIn(w, e, p) \in Nat
<1>1. PICK S : S = {i \in 1 .. Len(w) : w[i] = e /\ CharsBefore(w, i) = p}
  OBVIOUS
<1>2. Len(w) \in Nat
  BY LenProperties
<1>3. S \subseteq 1 .. Len(w) /\ IsFiniteSet(1 .. Len(w))
  BY <1>1, <1>2, FS_Interval
<1>4. IsFiniteSet(S)
  BY <1>3, FS_Subset
<1>5. QED
  BY <1>1, <1>4, FS_CardinalityType DEF TokensIn

-----------------------------------------------------------------------------
(* One pass of export.                                                          *)

\* Here takes the tags at the current position, and there is none of them next.
LEMMA HereIs ==
    ASSUME so[1] \in Seq(Line), NEW i \in 1 .. Len(tags) + 1, NEW here, here = Here(i)
    PROVE  /\ here \in Seq(TagLine) /\ i + Len(here) \in 1 .. Len(tags) + 1
           /\ \A k \in 1 .. Len(here) : here[k] = tags[i + k - 1] /\ here[k].first = charCount
           /\ i + Len(here) <= Len(tags) /\ tags[i + Len(here)] # Bad
                => tags[i + Len(here)].first # charCount
<1> DEFINE stops == {j \in i .. Len(tags) : tags[j] = Bad \/ tags[j].first # charCount}
<1>1. tags \in Seq(Line \ {Blank})
  BY WithoutType DEF tags
<1>2. PICK N : N = Len(tags) /\ N \in Nat
  BY <1>1, LenProperties
<1>3. i \in Nat /\ i >= 1 /\ i \in Positions /\ i <= N + 1
  BY <1>2 DEF Positions
<1>4. PICK m : m = Min({N + 1} \cup stops)
  OBVIOUS
<1>5. stops \subseteq 1 .. N
  BY <1>2, <1>3
<1>6. m \in 1 .. N + 1 /\ (m = N + 1 \/ m \in stops) /\ \A j \in stops : m <= j
  <2> HIDE DEF stops
  <2>1. QED
    BY <1>2, <1>4, <1>5, MinOrNext
<1>7. m >= i
  BY <1>2, <1>3, <1>6
<1>8. here = SubSeq(tags, i, m - 1)
  BY <1>2, <1>4 DEF Here
<1>9. here \in Seq(TagLine)
  BY <1>3, HereType
<1>10. Len(here) = m - i /\ \A k \in 1 .. m - i : here[k] = tags[i + k - 1]
  <2>1. PICK e : e = m - 1 /\ e \in Int /\ e >= i - 1 /\ e <= N
    BY <1>2, <1>3, <1>6, <1>7
  <2>2. here = SubSeq(tags, i, e)
    BY <1>8, <2>1
  <2>3. Len(here) = (e - i) + 1 /\ \A k \in 1 .. (e - i) + 1 : here[k] = tags[i + k - 1]
    BY <1>1, <1>2, <1>3, <2>1, <2>2, SubSeqProperties
  <2>4. QED
    BY <1>3, <1>6, <2>1, <2>3
<1>11. ASSUME NEW k \in 1 .. Len(here) PROVE here[k] = tags[i + k - 1] /\ here[k].first = charCount
  <2>1. PICK j : j = i + k - 1
    OBVIOUS
  <2>2. j \in i .. N /\ ~ (m <= j) /\ here[k] = tags[j]
    BY <1>2, <1>3, <1>6, <1>10, <2>1
  <2>3. ~ (j \in stops)
    BY <1>6, <2>2
  <2>4. tags[j].first = charCount
    BY <1>2, <2>2, <2>3
  <2>5. QED
    BY <2>1, <2>2, <2>4
<1>12. ASSUME i + Len(here) <= Len(tags), tags[i + Len(here)] # Bad
       PROVE  tags[i + Len(here)].first # charCount
  <2>1. i + Len(here) = m /\ m <= N
    BY <1>2, <1>3, <1>6, <1>10, <1>12
  <2>2. m \in stops
    BY <1>2, <1>6, <2>1
  <2>3. QED
    BY <1>12, <2>1, <2>2
<1>13. i + Len(here) = m
  BY <1>3, <1>6, <1>10
<1>14. QED
  BY <1>2, <1>6, <1>9, <1>11, <1>12, <1>13

\* z is y and then u.
TwoParts(z, y, u) ==
    /\ Len(z) = Len(y) + Len(u)
    /\ \A k \in 1 .. Len(y) : z[k] = y[k]
    /\ \A k \in 1 .. Len(u) : z[Len(y) + k] = u[k]

LEMMA JoinedIs ==
    ASSUME NEW T, NEW y \in Seq(T), NEW u \in Seq(T)
    PROVE  y \o u \in Seq(T) /\ TwoParts(y \o u, y, u)
<1>1. PICK z : z = y \o u
  OBVIOUS
<1>2. Len(y) \in Nat /\ Len(u) \in Nat
  BY LenProperties
<1>3. z \in Seq(T) /\ Len(z) = Len(y) + Len(u)
  BY <1>1, <1>2, ConcatProperties
<1>4. \A k \in 1 .. Len(y) : z[k] = y[k]
  BY <1>1, <1>2, ConcatProperties
<1>5. \A k \in 1 .. Len(u) : z[Len(y) + k] = u[k]
  BY <1>1, <1>2, ConcatProperties
<1>6. TwoParts(z, y, u)
  BY <1>3, <1>4, <1>5 DEF TwoParts
<1>7. QED
  BY <1>1, <1>3, <1>6

\* What a pass writes for the tags here, kind by kind: here is the tags empty, all
\* of them empty, and the tags rest.
Parts(here, empty, rest) ==
    /\ empty \in Seq(TagLine) /\ rest \in Seq(TagLine) /\ here = empty \o rest
    /\ \A k \in 1 .. Len(empty) : isEmptyTag(empty[k])

\* Empties takes empty tags from the front.
LEMMA EmptiesIs ==
    ASSUME NEW here \in Seq(TagLine)
    PROVE  Parts(here, Empties(here), RestOf(here, Empties(here)))
<1>0. PICK empty, rest : empty = Empties(here) /\ rest = RestOf(here, empty)
  OBVIOUS
<1> DEFINE full == {j \in 1 .. Len(here) : ~ isEmptyTag(here[j])}
<1>1. PICK L : L = Len(here) /\ L \in Nat
  BY LenProperties
<1>2. full \subseteq 1 .. L
  BY <1>1
<1>3. PICK m : m = Min({L + 1} \cup full)
  OBVIOUS
<1>4. m \in 1 .. L + 1 /\ \A j \in full : m <= j
  <2> HIDE DEF full
  <2>1. QED
    BY <1>1, <1>2, <1>3, MinOrNext
<1>5. empty = SubSeq(here, 1, m - 1)
  BY <1>0, <1>1, <1>3 DEF Empties
<1>6. PICK e \in 0 .. L : e = m - 1
  BY <1>1, <1>4
<1>7. empty = SubSeq(here, 1, e)
  BY <1>5, <1>6
<1>8. empty \in Seq(TagLine) /\ Len(empty) = e /\ \A k \in 1 .. e : empty[k] = here[k]
  BY <1>1, <1>7, SubSeqProperties
<1>9. rest = SubSeq(here, e + 1, L)
  BY <1>0, <1>1, <1>8 DEF RestOf
<1>10. rest \in Seq(TagLine) /\ Len(rest) = L - e /\ \A k \in 1 .. L - e : rest[k] = here[e + k]
  BY <1>1, <1>9, SubSeqProperties
<1>11. here = empty \o rest
  <2>1. PICK w : w = empty \o rest
    OBVIOUS
  <2>2. w \in Seq(TagLine) /\ TwoParts(w, empty, rest)
    <3>1. empty \o rest \in Seq(TagLine) /\ TwoParts(empty \o rest, empty, rest)
      BY <1>8, <1>10, JoinedIs
    <3>2. QED
      BY <2>1, <3>1
  <2>2a. /\ Len(w) = L
         /\ \A k \in 1 .. e : w[k] = empty[k]
         /\ \A k \in 1 .. L - e : w[e + k] = rest[k]
    BY <1>1, <1>8, <1>10, <2>2 DEF TwoParts
  <2>3. ASSUME NEW k \in 1 .. L PROVE w[k] = here[k]
    <3>1. CASE k \in 1 .. e
      BY <1>8, <2>2a, <3>1
    <3>2. CASE k \notin 1 .. e
      <4>1. k - e \in 1 .. L - e /\ e + (k - e) = k
        BY <1>1, <3>2
      <4>2. PICK j \in 1 .. L - e : e + j = k
        BY <4>1
      <4>3. w[e + j] = rest[j] /\ rest[j] = here[e + j]
        BY <1>10, <2>2a
      <4>4. QED
        BY <4>2, <4>3
    <3>3. QED
      BY <3>1, <3>2
  <2>4. QED
    BY <1>1, <2>1, <2>2, <2>2a, <2>3, SeqEqual
<1>12. ASSUME NEW k \in 1 .. Len(empty) PROVE isEmptyTag(empty[k])
  <2>1. k \in 1 .. e /\ k \in 1 .. L /\ ~ (m <= k) /\ empty[k] = here[k]
    BY <1>1, <1>4, <1>6, <1>8
  <2>2. k \notin full
    BY <1>4, <2>1
  <2>3. isEmptyTag(here[k])
    BY <1>1, <2>1, <2>2
  <2>4. QED
    BY <2>1, <2>3
<1>13. Parts(here, empty, rest)
  BY <1>8, <1>10, <1>11, <1>12 DEF Parts
<1>14. QED
  BY <1>0, <1>13

\* Tokens of different kinds or names are different.
LEMMA TokensApart ==
    /\ \A m, n : Start(m) = Start(n) => m = n
    /\ \A m, n : End(m) = End(n) => m = n
    /\ \A m, n : Empty(m) = Empty(n) => m = n
    /\ \A m, n : Start(m) # End(n)
    /\ \A m, n : Start(m) # Empty(n)
    /\ \A m, n : End(m) # Empty(n)
    /\ \A n : IsTag(Start(n)) /\ IsTag(End(n)) /\ IsTag(Empty(n))
<1>1. /\ \A n : Start(n).k = "start" /\ Start(n).name = n
      /\ \A n : End(n).k = "end" /\ End(n).name = n
      /\ \A n : Empty(n).k = "empty" /\ Empty(n).name = n
  BY DEF Start, End, Empty
<1>2. \A n : IsTag(Start(n)) /\ IsTag(End(n)) /\ IsTag(Empty(n))
  BY <1>1 DEF IsTag
<1>3. ASSUME NEW m, NEW n
      PROVE  /\ Start(m) # End(n) /\ Start(m) # Empty(n) /\ End(m) # Empty(n)
             /\ Start(m) = Start(n) => m = n
             /\ End(m) = End(n) => m = n
             /\ Empty(m) = Empty(n) => m = n
  <2>1. /\ Start(m).k = "start" /\ End(m).k = "end" /\ End(n).k = "end" /\ Empty(n).k = "empty"
        /\ Start(m).name = m /\ End(m).name = m /\ Empty(m).name = m
        /\ Start(n).name = n /\ End(n).name = n /\ Empty(n).name = n
    BY <1>1
  <2>2. QED
    BY <2>1
<1>4. QED
  BY <1>2, <1>3

LEMMA PartsAdd ==
    ASSUME NEW here, NEW empty, NEW rest, Parts(here, empty, rest)
    PROVE  /\ here \in Seq(TagLine) /\ empty \in Seq(TagLine) /\ rest \in Seq(TagLine)
           /\ \A Q : /\ Number(here, Q) = Number(empty, Q) + Number(rest, Q)
                     /\ Number(empty, Q) \in Nat /\ Number(rest, Q) \in Nat
           /\ \A k \in 1 .. Len(empty) : empty[k] \in TagLine /\ isEmptyTag(empty[k])
           /\ \A k \in 1 .. Len(rest) : rest[k] \in TagLine
<1>1. /\ empty \in Seq(TagLine) /\ rest \in Seq(TagLine) /\ here = empty \o rest
      /\ \A k \in 1 .. Len(empty) : isEmptyTag(empty[k])
  BY DEF Parts
<1>2. here \in Seq(TagLine)
  BY <1>1, ConcatProperties
<1>3. ASSUME NEW Q PROVE Number(empty \o rest, Q) = Number(empty, Q) + Number(rest, Q)
  BY <1>1, NumberConcat
<1>4. ASSUME NEW Q PROVE Number(empty, Q) \in Nat /\ Number(rest, Q) \in Nat
  BY <1>1, NumberIs
<1>5. QED
  BY <1>1, <1>2, <1>3, <1>4, ElementOfSeq

\* Tags with name n, that are not empty and that are.
Filled(n) == {t \in TagLine : t.name = n /\ ~ isEmptyTag(t)}
Hollow(n) == {t \in TagLine : t.name = n /\ isEmptyTag(t)}

\* The tokens a and r write the tags here.
PassTags(a, r, here, n) ==
    /\ Number(a, {Start(n)}) = 0 /\ Number(a, {End(n)}) = 0 /\ Number(r, {End(n)}) = 0
    /\ Number(r, {Start(n)}) = Number(here, Filled(n))
    /\ Number(a, {Empty(n)}) + Number(r, {Empty(n)}) = Number(here, Hollow(n))

LEMMA PassNumbers ==
    ASSUME NEW here, NEW empty, NEW rest, Parts(here, empty, rest), NEW n \in Names
    PROVE  PassTags(EmptyTokens(empty), RestTokens(rest), here, n)
<1>1. PICK F, E : F = Filled(n) /\ E = Hollow(n)
  OBVIOUS
<1>1a. /\ \A t \in TagLine : t \in F <=> t.name = n /\ ~ isEmptyTag(t)
       /\ \A t \in TagLine : t \in E <=> t.name = n /\ isEmptyTag(t)
       /\ \A t \in F : ~ isEmptyTag(t)
  BY <1>1 DEF Filled, Hollow
<1>2. PICK v, w : v = EmptyTokens(empty) /\ w = RestTokens(rest)
  OBVIOUS
<1>3. PICK a, b : a = Len(empty) /\ b = Len(rest)
  OBVIOUS
<1>4. /\ \A k \in 1 .. a : empty[k] \in TagLine /\ isEmptyTag(empty[k])
      /\ \A k \in 1 .. b : rest[k] \in TagLine
      /\ empty \in Seq(TagLine) /\ rest \in Seq(TagLine)
  BY <1>3, PartsAdd
<1>4a. a \in Nat /\ b \in Nat
  BY <1>3, <1>4, LenProperties
<1>5. Len(v) = a /\ \A k \in 1 .. a : v[k] = Empty(empty[k].name)
  BY <1>2, <1>3, <1>4a DEF EmptyTokens
<1>6. /\ Len(w) = b
      /\ \A k \in 1 .. b : isEmptyTag(rest[k]) => w[k] = Empty(rest[k].name)
      /\ \A k \in 1 .. b : ~ isEmptyTag(rest[k]) => w[k] = Start(rest[k].name)
  BY <1>2, <1>3, <1>4a DEF RestTokens
<1>7. /\ SamePlaces(v, {Start(n)}, empty, {}) /\ SamePlaces(v, {End(n)}, empty, {})
      /\ SamePlaces(w, {End(n)}, rest, {})
  <2>1. \A k \in 1 .. a : v[k] # Start(n) /\ v[k] # End(n)
    BY <1>5, TokensApart
  <2>2. \A k \in 1 .. b : w[k] # End(n)
    BY <1>6, TokensApart
  <2>3. QED
    BY <1>3, <1>5, <1>6, <2>1, <2>2 DEF SamePlaces
<1>8. /\ Number(v, {Start(n)}) = 0 /\ Number(v, {End(n)}) = 0 /\ Number(w, {End(n)}) = 0
  <2>1. /\ Number(v, {Start(n)}) = Number(empty, {}) /\ Number(v, {End(n)}) = Number(empty, {})
        /\ Number(w, {End(n)}) = Number(rest, {})
    BY <1>7, NumberSame
  <2>2. Number(empty, {}) = 0 /\ Number(rest, {}) = 0
    BY <1>4, NumberIs
  <2>3. QED
    BY <2>1, <2>2
<1>9. Number(v, {Empty(n)}) = Number(empty, E)
  <2>1. \A k \in 1 .. a : v[k] = Empty(n) <=> empty[k] \in E
    BY <1>1a, <1>4, <1>5, TokensApart
  <2>2. SamePlaces(v, {Empty(n)}, empty, E)
    BY <1>3, <1>5, <2>1 DEF SamePlaces
  <2>3. QED
    BY <2>2, NumberSame
<1>10. Number(empty, F) = 0
  <2>1. \A k \in 1 .. Len(empty) : empty[k] \notin F
    BY <1>1a, <1>3, <1>4
  <2>2. QED
    BY <1>4, <2>1, NumberIs
<1>11. Number(w, {Start(n)}) = Number(rest, F)
  <2>1. ASSUME NEW k \in 1 .. b PROVE w[k] = Start(n) <=> rest[k] \in F
    <3>1. CASE isEmptyTag(rest[k])
      BY <1>1a, <1>4, <1>6, <3>1, TokensApart
    <3>2. CASE ~ isEmptyTag(rest[k])
      BY <1>1a, <1>4, <1>6, <3>2, TokensApart
    <3>3. QED
      BY <3>1, <3>2
  <2>2. SamePlaces(w, {Start(n)}, rest, F)
    BY <1>3, <1>6, <2>1 DEF SamePlaces
  <2>3. QED
    BY <2>2, NumberSame
<1>12. Number(w, {Empty(n)}) = Number(rest, E)
  <2>1. ASSUME NEW k \in 1 .. b PROVE w[k] = Empty(n) <=> rest[k] \in E
    <3>1. CASE isEmptyTag(rest[k])
      BY <1>1a, <1>4, <1>6, <3>1, TokensApart
    <3>2. CASE ~ isEmptyTag(rest[k])
      BY <1>1a, <1>4, <1>6, <3>2, TokensApart
    <3>3. QED
      BY <3>1, <3>2
  <2>2. SamePlaces(w, {Empty(n)}, rest, E)
    BY <1>3, <1>6, <2>1 DEF SamePlaces
  <2>3. QED
    BY <2>2, NumberSame
<1>13. /\ Number(here, F) = Number(empty, F) + Number(rest, F) /\ Number(rest, F) \in Nat
       /\ Number(here, E) = Number(empty, E) + Number(rest, E)
  BY PartsAdd
<1>14. QED
  BY <1>1, <1>2, <1>8, <1>9, <1>10, <1>11, <1>12, <1>13 DEF PassTags

\* The end tags of names.
LEMMA EndsNumbers ==
    ASSUME NEW names \in Seq(Names), NEW n \in Names
    PROVE  /\ Number(Ends(names), {End(n)}) = Number(names, {n})
           /\ Number(Ends(names), {Start(n)}) = 0 /\ Number(Ends(names), {Empty(n)}) = 0
<1>1. PICK N, v : N = Len(names) /\ v = Ends(names)
  OBVIOUS
<1>2. N \in Nat
  BY <1>1, LenProperties
<1>3. Len(v) = N /\ \A k \in 1 .. N : v[k] = End(names[k])
  BY <1>1, <1>2 DEF Ends
<1>4. \A k \in 1 .. N : /\ v[k] = End(n) <=> names[k] = n
                        /\ v[k] # Start(n) /\ v[k] # Empty(n)
  BY <1>3, TokensApart
<1>5. /\ SamePlaces(v, {End(n)}, names, {n})
      /\ SamePlaces(v, {Start(n)}, names, {}) /\ SamePlaces(v, {Empty(n)}, names, {})
  BY <1>1, <1>3, <1>4 DEF SamePlaces
<1>6. /\ Number(v, {End(n)}) = Number(names, {n})
      /\ Number(v, {Start(n)}) = Number(names, {}) /\ Number(v, {Empty(n)}) = Number(names, {})
  BY <1>5, NumberSame
<1>7. Number(names, {}) = 0
  BY NumberIs
<1>8. QED
  BY <1>1, <1>6, <1>7

\* The tags a pass opens are those of rest that are not empty.
NonEmptyOf(open, rest) ==
    \A x : (\E k \in 1 .. Len(open) : open[k] = x)
            <=> \E k \in 1 .. Len(rest) : rest[k] = x /\ ~ isEmptyTag(x)

LEMMA OpenIs ==
    ASSUME NEW rest \in Seq(TagLine)
    PROVE  /\ OpenOf(rest) \in Seq(TagLine)
           /\ NonEmptyOf(OpenOf(rest), rest)
           /\ \A Q : Number(OpenOf(rest), Q) = Number(rest, {t \in Q : ~ isEmptyTag(t)})
<1>1. PICK S, open : S = {t \in Range(rest) : isEmptyTag(t)} /\ open = Without(rest, S)
  OBVIOUS
<1>2. open = OpenOf(rest)
  BY <1>1 DEF OpenOf
<1>3. Without(rest, S) \in Seq(TagLine \ S)
  BY WithoutType
<1>4. open \in Seq(TagLine)
  BY <1>1, <1>3
<1>5. \A k \in 1 .. Len(rest) : rest[k] \in S <=> isEmptyTag(rest[k])
  <2>1. DOMAIN rest = 1 .. Len(rest)
    BY LenProperties
  <2>2. QED
    BY <1>1, <2>1 DEF Range
<1>6. ASSUME NEW x
      PROVE  (\E k \in 1 .. Len(open) : open[k] = x)
               <=> \E k \in 1 .. Len(rest) : rest[k] = x /\ ~ isEmptyTag(x)
  <2>1. (\E k \in 1 .. Len(Without(rest, S)) : Without(rest, S)[k] = x)
          <=> (\E k \in 1 .. Len(rest) : rest[k] = x) /\ x \notin S
    BY WithoutEntries
  <2>2. QED
    BY <1>1, <1>5, <2>1
<1>7. ASSUME NEW Q PROVE Number(open, Q) = Number(rest, {t \in Q : ~ isEmptyTag(t)})
  <2>1. PICK R : R = {t \in Q : ~ isEmptyTag(t)}
    OBVIOUS
  <2>2. Number(Without(rest, S), Q) = Number(rest, Q \ S)
    BY NumberWithout
  <2>3. SamePlaces(rest, Q \ S, rest, R)
    BY <1>5, <2>1 DEF SamePlaces
  <2>4. Number(rest, Q \ S) = Number(rest, R)
    BY <2>3, NumberSame
  <2>5. QED
    BY <1>1, <2>1, <2>2, <2>4
<1>8. NonEmptyOf(open, rest)
  BY <1>6 DEF NonEmptyOf
<1>9. QED
  BY <1>2, <1>4, <1>7, <1>8

\* The names to close at p are those of the tags that end there.
EndingWith(n, p) == {t \in TagLine : t.name = n /\ t.second = p}

LEMMA NamesAtIs ==
    ASSUME NEW open \in Seq(TagLine), NEW p, NEW n
    PROVE  Number(NamesAt(open, p), {n}) = Number(open, EndingWith(n, p))
<1>1. PICK R, e, P : /\ R = {t \in Range(open) : t.second # p}
                     /\ e = Without(open, R)
                     /\ P = {t \in TagLine : t.name = n}
  OBVIOUS
<1>2. e = EndingAt(open, p)
  BY <1>1 DEF EndingAt
<1>3. Without(open, R) \in Seq(TagLine \ R)
  BY WithoutType
<1>4. e \in Seq(TagLine)
  BY <1>1, <1>3
<1>5. PICK N, r, v : N = Len(e) /\ r = Reverse(e) /\ v = NamesAt(open, p)
  OBVIOUS
<1>6. N \in Nat /\ r = [k \in 1 .. N |-> e[(N - k) + 1]]
  BY <1>4, <1>5, LenProperties DEF Reverse
<1>7. Len(r) = N /\ \A k \in 1 .. N : r[k] \in TagLine
  <2>1. \A k \in 1 .. N : r[k] = e[(N - k) + 1] /\ (N - k) + 1 \in 1 .. N
    BY <1>6
  <2>2. \A k \in 1 .. N : e[k] \in TagLine
    BY <1>4, <1>5, ElementOfSeq
  <2>3. QED
    BY <1>6, <2>1, <2>2
<1>8. v = [k \in 1 .. N |-> r[k].name]
  BY <1>2, <1>5 DEF NamesAt
<1>9. SamePlaces(v, {n}, r, P)
  BY <1>1, <1>6, <1>7, <1>8 DEF SamePlaces
<1>10. Number(v, {n}) = Number(r, P)
  BY <1>9, NumberSame
<1>11. Number(Reverse(e), P) = Number(e, P)
  BY <1>4, NumberReverse
<1>12. Number(Without(open, R), P) = Number(open, P \ R)
  BY NumberWithout
<1>13. PICK C : C = EndingWith(n, p)
  OBVIOUS
<1>14. SamePlaces(open, P \ R, open, C)
  <2>1. DOMAIN open = 1 .. Len(open)
    BY LenProperties
  <2>2. \A k \in 1 .. Len(open) : open[k] \in Range(open)
    BY <2>1 DEF Range
  <2>3. \A k \in 1 .. Len(open) : open[k] \in P \ R <=> open[k] \in C
    BY <1>1, <1>13, <2>2 DEF EndingWith
  <2>4. QED
    BY <2>3 DEF SamePlaces
<1>15. Number(open, P \ R) = Number(open, C)
  BY <1>14, NumberSame
<1>16. QED
  BY <1>1, <1>5, <1>10, <1>11, <1>12, <1>13, <1>15

\* Where the tags open end, the tags here do that are not empty.
SameEnds(open, here) ==
    \A p : (\E k \in 1 .. Len(open) : open[k].second = p)
            <=> \E k \in 1 .. Len(here) : here[k].second = p /\ ~ isEmptyTag(here[k])

LEMMA PassNames ==
    ASSUME NEW here, NEW empty, NEW rest, Parts(here, empty, rest)
    PROVE  /\ SameEnds(OpenOf(rest), here)
           /\ \A p, n : Number(NamesAt(OpenOf(rest), p), {n}) = Number(here, Closing(n, p))
<1>1. /\ here \in Seq(TagLine) /\ empty \in Seq(TagLine) /\ rest \in Seq(TagLine)
      /\ \A Q : /\ Number(here, Q) = Number(empty, Q) + Number(rest, Q)
                /\ Number(empty, Q) \in Nat /\ Number(rest, Q) \in Nat
      /\ \A k \in 1 .. Len(empty) : empty[k] \in TagLine /\ isEmptyTag(empty[k])
  BY PartsAdd
<1>2. PICK open : open = OpenOf(rest)
  OBVIOUS
<1>3. open \in Seq(TagLine)
  BY <1>1, <1>2, OpenIs
<1>4. \A x : (\E k \in 1 .. Len(open) : open[k] = x)
               <=> \E k \in 1 .. Len(rest) : rest[k] = x /\ ~ isEmptyTag(x)
  <2>1. NonEmptyOf(open, rest)
    BY <1>1, <1>2, OpenIs
  <2>2. QED
    BY <2>1 DEF NonEmptyOf
<1>5. ASSUME NEW x, ~ isEmptyTag(x)
      PROVE  (\E k \in 1 .. Len(here) : here[k] = x) <=> \E k \in 1 .. Len(rest) : rest[k] = x
  <2>1. /\ Number(here, {x}) = Number(empty, {x}) + Number(rest, {x})
        /\ Number(empty, {x}) \in Nat /\ Number(rest, {x}) \in Nat
    BY <1>1
  <2>2. /\ Number(here, {x}) = 0 <=> \A k \in 1 .. Len(here) : here[k] \notin {x}
        /\ Number(empty, {x}) = 0 <=> \A k \in 1 .. Len(empty) : empty[k] \notin {x}
        /\ Number(rest, {x}) = 0 <=> \A k \in 1 .. Len(rest) : rest[k] \notin {x}
    BY <1>1, NumberIs
  <2>3. Number(empty, {x}) = 0
    BY <1>1, <1>5, <2>2
  <2>4. Number(here, {x}) = 0 <=> Number(rest, {x}) = 0
    BY <2>1, <2>3
  <2>5. QED
    BY <2>2, <2>4
<1>6. ASSUME NEW p
      PROVE  (\E k \in 1 .. Len(open) : open[k].second = p)
               <=> \E k \in 1 .. Len(here) : here[k].second = p /\ ~ isEmptyTag(here[k])
  <2>1. ASSUME NEW k \in 1 .. Len(open), open[k].second = p
        PROVE  \E j \in 1 .. Len(here) : here[j].second = p /\ ~ isEmptyTag(here[j])
    <3>1. PICK x : x = open[k]
      OBVIOUS
    <3>2. ~ isEmptyTag(x) /\ \E j \in 1 .. Len(rest) : rest[j] = x
      BY <1>4, <3>1
    <3>3. \E j \in 1 .. Len(here) : here[j] = x
      BY <1>5, <3>2
    <3>4. QED
      BY <2>1, <3>1, <3>2, <3>3
  <2>2. ASSUME NEW j \in 1 .. Len(here), here[j].second = p, ~ isEmptyTag(here[j])
        PROVE  \E k \in 1 .. Len(open) : open[k].second = p
    <3>1. PICK x : x = here[j]
      OBVIOUS
    <3>2. ~ isEmptyTag(x) /\ \E k \in 1 .. Len(rest) : rest[k] = x
      BY <1>5, <2>2, <3>1
    <3>3. \E k \in 1 .. Len(open) : open[k] = x
      BY <1>4, <3>2
    <3>4. QED
      BY <2>2, <3>1, <3>3
  <2>3. QED
    BY <2>1, <2>2
<1>7. ASSUME NEW p, NEW n PROVE Number(NamesAt(open, p), {n}) = Number(here, Closing(n, p))
  <2>1. PICK C : C = EndingWith(n, p)
    OBVIOUS
  <2>2. Number(NamesAt(open, p), {n}) = Number(open, C)
    BY <1>3, <2>1, NamesAtIs
  <2>3. Number(open, C) = Number(rest, {t \in C : ~ isEmptyTag(t)})
    BY <1>1, <1>2, OpenIs
  <2>4. {t \in C : ~ isEmptyTag(t)} = Closing(n, p)
    BY <2>1 DEF Closing, EndingWith
  <2>5. Number(empty, Closing(n, p)) = 0
    <3>1. \A k \in 1 .. Len(empty) : empty[k] \notin Closing(n, p)
      BY <1>1 DEF Closing
    <3>2. QED
      BY <1>1, <3>1, NumberIs
  <2>6. PICK Q : Q = Closing(n, p)
    OBVIOUS
  <2>7. Number(here, Q) = Number(empty, Q) + Number(rest, Q) /\ Number(rest, Q) \in Nat
    BY <1>1
  <2>8. Number(NamesAt(open, p), {n}) = Number(rest, Q) /\ Number(empty, Q) = 0
    BY <2>2, <2>3, <2>4, <2>5, <2>6
  <2>9. QED
    BY <2>6, <2>7, <2>8
<1>8. SameEnds(open, here)
  BY <1>6 DEF SameEnds
<1>9. QED
  BY <1>2, <1>7, <1>8

\* The entries of two sequences together.
Both(w, s, u) ==
    /\ \A i \in 1 .. Len(w) : (\E j \in 1 .. Len(s) : w[i] = s[j]) \/ \E k \in 1 .. Len(u) : w[i] = u[k]
    /\ \A j \in 1 .. Len(s) : \E i \in 1 .. Len(w) : w[i] = s[j]
    /\ \A k \in 1 .. Len(u) : \E i \in 1 .. Len(w) : w[i] = u[k]

LEMMA BothEntries ==
    ASSUME NEW T, NEW s \in Seq(T), NEW u \in Seq(T)
    PROVE  Both(s \o u, s, u)
<1>1. PICK m, n, w : m = Len(s) /\ n = Len(u) /\ w = s \o u
  OBVIOUS
<1>2. m \in Nat /\ n \in Nat /\ Len(w) = m + n
  BY <1>1, LenProperties, ConcatProperties
<1>3. /\ \A i \in 1 .. m : w[i] = s[i]
      /\ \A i \in 1 .. n : w[m + i] = u[i]
  BY <1>1, <1>2, ConcatProperties
<1>4. ASSUME NEW i \in 1 .. m + n
      PROVE  (\E j \in 1 .. m : w[i] = s[j]) \/ \E k \in 1 .. n : w[i] = u[k]
  <2>1. i \in 1 .. m \/ (i - m \in 1 .. n /\ m + (i - m) = i)
    BY <1>2
  <2>2. CASE i \in 1 .. m
    BY <1>3, <2>2
  <2>3. CASE i - m \in 1 .. n /\ m + (i - m) = i
    BY <1>3, <2>3
  <2>4. QED
    BY <2>1, <2>2, <2>3
<1>5. \A j \in 1 .. m : j \in 1 .. m + n /\ w[j] = s[j]
  BY <1>2, <1>3
<1>6. \A k \in 1 .. n : m + k \in 1 .. m + n /\ w[m + k] = u[k]
  BY <1>2, <1>3
<1>7. QED
  BY <1>1, <1>2, <1>4, <1>5, <1>6 DEF Both

\* The end tags left after a pass at c that has opened the tags open.
EndsAfter(ends, c, open) ==
    [p \in (DOMAIN ends \ {c}) \cup {open[i].second : i \in 1 .. Len(open)} |->
       NamesAt(open, p) \o (IF p \in DOMAIN ends \ {c} THEN ends[p] ELSE << >>)]

\* The end tags a pass at c finds: none before c.
EndsFound(ends, s, c) ==
    /\ \A p \in DOMAIN ends : p \in Nat /\ p >= c /\ ends[p] \in Seq(Names)
    /\ EndsLeft(ends, s, c)

\* All these tags begin at c.
AllAt(here, c) == \A k \in 1 .. Len(here) : here[k].first = c

\* After the pass at c, nothing is left to close there.
EndsPassed(more, s, c) == EndsLeft(more, s, c + 1) /\ c \notin DOMAIN more

LEMMA PassEnds ==
    ASSUME NEW s \in Seq(TagLine), NEW here, NEW empty, NEW rest, Parts(here, empty, rest),
           NEW c \in Nat, AllAt(here, c), NEW ends, EndsFound(ends, s, c)
    PROVE  EndsPassed(EndsAfter(ends, c, OpenOf(rest)), s \o here, c)
<1>1. /\ here \in Seq(TagLine) /\ rest \in Seq(TagLine)
      /\ \A k \in 1 .. Len(here) : here[k] \in TagLine
  BY PartsAdd, ElementOfSeq
<1>2. PICK open, more, w : /\ open = OpenOf(rest)
                           /\ more = EndsAfter(ends, c, open)
                           /\ w = s \o here
  OBVIOUS
<1>3. open \in Seq(TagLine) /\ \A p : NamesAt(open, p) \in Seq(Names)
  <2>1. OpenOf(rest) \in Seq(TagLine)
    BY <1>1, OpenIs
  <2>2. empty \in Seq(TagLine)
    BY PartsAdd
  <2>3. \A p : NamesAt(open, p) \in Seq(Names)
    <3>1. ASSUME NEW p PROVE NamesAt(open, p) \in Seq(Names)
      <4>1. PICK e, R : e = EndingAt(open, p) /\ R = {t \in Range(open) : t.second # p}
        OBVIOUS
      <4>2. Without(open, R) \in Seq(TagLine \ R)
        BY <1>2, <2>1, WithoutType
      <4>3. e \in Seq(TagLine)
        BY <4>1, <4>2 DEF EndingAt
      <4>4. PICK N : N = Len(e) /\ N \in Nat
        BY <4>3, LenProperties
      <4>5. ASSUME NEW i \in 1 .. N PROVE Reverse(e)[i].name \in Names
        <5>1. (N - i) + 1 \in 1 .. N
          BY <4>4
        <5>2. Reverse(e)[i] = e[(N - i) + 1]
          BY <4>4 DEF Reverse
        <5>3. e[(N - i) + 1] \in TagLine
          BY <4>3, <4>4, <5>1, ElementOfSeq
        <5>4. QED
          BY <5>2, <5>3 DEF TagLine
      <4>6. NamesAt(open, p) = [i \in 1 .. N |-> Reverse(e)[i].name]
        BY <4>1, <4>4 DEF NamesAt
      <4>7. QED
        BY <4>4, <4>5, <4>6
    <3>2. QED
      BY <3>1
  <2>4. QED
    BY <1>2, <2>1, <2>3
<1>4. /\ \A p : (\E k \in 1 .. Len(open) : open[k].second = p)
                  <=> \E k \in 1 .. Len(here) : here[k].second = p /\ ~ isEmptyTag(here[k])
      /\ \A p, n : Number(NamesAt(open, p), {n}) = Number(here, Closing(n, p))
  <2>1. SameEnds(OpenOf(rest), here)
    BY PassNames
  <2>2. ASSUME NEW p, NEW n PROVE Number(NamesAt(OpenOf(rest), p), {n}) = Number(here, Closing(n, p))
    BY PassNames
  <2>3. open = OpenOf(rest)
    BY <1>2
  <2>4. SameEnds(open, here)
    BY <2>1, <2>3
  <2>5. QED
    BY <2>2, <2>3, <2>4 DEF SameEnds
<1>5. /\ \A p \in DOMAIN ends : p \in Nat /\ p >= c /\ ends[p] \in Seq(Names)
      /\ \A i \in 1 .. Len(s) : ~ Backward(s[i])
      /\ \A p \in Nat : p >= c => (p \in DOMAIN ends <=> \E i \in 1 .. Len(s) : s[i].second = p)
      /\ \A p \in DOMAIN ends : p >= c => \A n \in Names : Number(ends[p], {n}) = Number(s, Closing(n, p))
  <2>1. \A p \in DOMAIN ends : p \in Nat /\ p >= c /\ ends[p] \in Seq(Names)
    BY DEF EndsFound
  <2>2. \A p \in DOMAIN ends : ~ (p < c)
    BY <2>1
  <2>3. QED
    BY <2>1, <2>2 DEF EndsFound, EndsLeft
<1>6. /\ \A p : p \in DOMAIN more <=> \/ p \in DOMAIN ends /\ p # c
                                      \/ \E k \in 1 .. Len(here) : here[k].second = p /\ ~ isEmptyTag(here[k])
      /\ \A p \in DOMAIN more : more[p] = NamesAt(open, p) \o (IF p \in DOMAIN ends \ {c} THEN ends[p] ELSE << >>)
  <2>1. DOMAIN more = (DOMAIN ends \ {c}) \cup {open[i].second : i \in 1 .. Len(open)}
    BY <1>2 DEF EndsAfter
  <2>2. \A p \in DOMAIN more : more[p] = NamesAt(open, p) \o (IF p \in DOMAIN ends \ {c} THEN ends[p] ELSE << >>)
    BY <1>2 DEF EndsAfter
  <2>3. \A p : p \in DOMAIN more <=> (p \in DOMAIN ends /\ p # c) \/ \E k \in 1 .. Len(open) : open[k].second = p
    BY <2>1
  <2>4. QED
    BY <1>4, <2>2, <2>3
<1>7. Both(w, s, here)
  BY <1>1, <1>2, BothEntries
<1>8. \A k \in 1 .. Len(here) : /\ here[k].first = c /\ here[k].second \in Nat
                                /\ Backward(here[k]) <=> here[k].second < c
                                /\ isEmptyTag(here[k]) <=> here[k].second = c
  BY <1>1 DEF TagLine, Backward, isEmptyTag, AllAt
<1>9. ASSUME NEW p \in DOMAIN more, p < c + 1 PROVE \E i \in 1 .. Len(w) : Backward(w[i])
  <2>1. p \notin DOMAIN ends \/ p = c
    BY <1>5, <1>9
  <2>2. PICK k \in 1 .. Len(here) : here[k].second = p /\ ~ isEmptyTag(here[k])
    BY <1>6, <2>1
  <2>3. Backward(here[k])
    BY <1>8, <1>9, <2>2
  <2>4. QED
    BY <1>7, <2>3 DEF Both
<1>10. ASSUME NEW i \in 1 .. Len(w), Backward(w[i]) PROVE \E p \in DOMAIN more : p < c + 1
  <2>1. PICK k \in 1 .. Len(here) : w[i] = here[k]
    BY <1>5, <1>7, <1>10 DEF Both
  <2>2. here[k].second < c /\ here[k].second \in Nat
    BY <1>8, <1>10, <2>1
  <2>3. ~ isEmptyTag(here[k])
    BY <1>8, <2>2
  <2>4. here[k].second \in DOMAIN more
    BY <1>6, <2>3
  <2>5. QED
    BY <2>2, <2>4
<1>11. ASSUME NEW p \in Nat, p >= c + 1
       PROVE  p \in DOMAIN more <=> \E i \in 1 .. Len(w) : w[i].second = p
  <2>1. p # c /\ p >= c
    BY <1>11
  <2>2. p \in DOMAIN ends <=> \E i \in 1 .. Len(s) : s[i].second = p
    BY <1>5, <2>1
  <2>3. \A k \in 1 .. Len(here) : here[k].second = p => ~ isEmptyTag(here[k])
    BY <1>8, <2>1
  <2>4. p \in DOMAIN more <=> \/ \E i \in 1 .. Len(s) : s[i].second = p
                              \/ \E k \in 1 .. Len(here) : here[k].second = p
    BY <1>6, <2>1, <2>2, <2>3
  <2>5. (\E i \in 1 .. Len(w) : w[i].second = p)
          <=> \/ \E i \in 1 .. Len(s) : s[i].second = p
              \/ \E k \in 1 .. Len(here) : here[k].second = p
    <3>1. ASSUME NEW i \in 1 .. Len(w), w[i].second = p
          PROVE  \/ \E j \in 1 .. Len(s) : s[j].second = p
                 \/ \E k \in 1 .. Len(here) : here[k].second = p
      <4>1. (\E j \in 1 .. Len(s) : w[i] = s[j]) \/ \E k \in 1 .. Len(here) : w[i] = here[k]
        BY <1>7 DEF Both
      <4>2. QED
        BY <3>1, <4>1
    <3>2. ASSUME NEW j \in 1 .. Len(s), s[j].second = p PROVE \E i \in 1 .. Len(w) : w[i].second = p
      <4>1. PICK i \in 1 .. Len(w) : w[i] = s[j]
        BY <1>7 DEF Both
      <4>2. QED
        BY <3>2, <4>1
    <3>3. ASSUME NEW k \in 1 .. Len(here), here[k].second = p PROVE \E i \in 1 .. Len(w) : w[i].second = p
      <4>1. PICK i \in 1 .. Len(w) : w[i] = here[k]
        BY <1>7 DEF Both
      <4>2. QED
        BY <3>3, <4>1
    <3>4. QED
      BY <3>1, <3>2, <3>3
  <2>6. QED
    BY <2>4, <2>5
<1>12. ASSUME NEW p \in DOMAIN more, p >= c + 1, NEW n \in Names
       PROVE  Number(more[p], {n}) = Number(w, Closing(n, p))
  <2>1. PICK Q, x, y : /\ Q = Closing(n, p) /\ x = NamesAt(open, p)
                       /\ y = IF p \in DOMAIN ends \ {c} THEN ends[p] ELSE << >>
    OBVIOUS
  <2>2. p \in Nat
    BY <1>5, <1>6, <1>8
  <2>3. p # c /\ p >= c
    BY <1>12, <2>2
  <2>4. x \in Seq(Names)
    BY <1>3, <2>1
  <2>5. y \in Seq(Names) /\ Number(y, {n}) = Number(s, Q)
    <3>1. CASE p \in DOMAIN ends
      BY <1>5, <2>1, <2>3, <3>1
    <3>2. CASE p \notin DOMAIN ends
      <4>1. \A i \in 1 .. Len(s) : s[i] \notin Q
        BY <1>5, <2>1, <2>2, <2>3, <3>2 DEF Closing
      <4>2. Number(s, Q) = 0
        BY <4>1, NumberIs
      <4>3. y = << >>
        BY <2>1, <3>2
      <4>4. y \in Seq(Names) /\ \A i \in 1 .. Len(y) : y[i] \notin {n}
        BY <4>3
      <4>5. Number(y, {n}) = 0
        BY <4>4, NumberIs
      <4>6. QED
        BY <4>2, <4>4, <4>5
    <3>3. QED
      BY <3>1, <3>2
  <2>6. Number(x \o y, {n}) = Number(x, {n}) + Number(y, {n})
    BY <2>4, <2>5, NumberConcat
  <2>7. Number(s \o here, Q) = Number(s, Q) + Number(here, Q)
    BY <1>1, NumberConcat
  <2>8. Number(x, {n}) = Number(here, Q)
    BY <1>4, <2>1
  <2>9. Number(s, Q) \in Nat /\ Number(here, Q) \in Nat
    BY <1>1, NumberIs
  <2>10. more[p] = x \o y
    BY <1>6, <2>1
  <2>11. QED
    BY <1>2, <2>1, <2>5, <2>6, <2>7, <2>8, <2>9, <2>10
<1>13. EndsLeft(more, w, c + 1)
  BY <1>9, <1>10, <1>11, <1>12 DEF EndsLeft
<1>14. c \notin DOMAIN more
  BY <1>6, <1>8
<1>15. QED
  BY <1>2, <1>13, <1>14 DEF EndsPassed

\* The end tags a pass at c writes.
EndsAt(ends, c) == IF c \in DOMAIN ends THEN Ends(ends[c]) ELSE << >>

\* The tokens b close what ends at c.
PassEndTags(b, s, c, n) ==
    /\ Number(b, {End(n)}) = Number(s, Closing(n, c))
    /\ Number(b, {Start(n)}) = 0 /\ Number(b, {Empty(n)}) = 0

LEMMA EndsAtIs ==
    ASSUME NEW s \in Seq(TagLine), NEW c \in Nat, NEW ends, EndsFound(ends, s, c)
    PROVE  EndsAt(ends, c) \in Seq(Token) /\ AllTags(EndsAt(ends, c))
<1>1. PICK u : u = EndsAt(ends, c)
  OBVIOUS
<1>2. CASE c \in DOMAIN ends
  <2>1. PICK names, N : names = ends[c] /\ N = Len(names)
    OBVIOUS
  <2>2. names \in Seq(Names) /\ N \in Nat
    BY <1>2, <2>1, LenProperties DEF EndsFound
  <2>3. u = Ends(names)
    BY <1>1, <1>2, <2>1 DEF EndsAt
  <2>4. u \in Seq(Token)
    BY <2>2, <2>3, EndsType
  <2>5. u = [k \in 1 .. N |-> End(names[k])]
    BY <2>1, <2>3 DEF Ends
  <2>6. Len(u) = N /\ \A k \in 1 .. N : u[k] = End(names[k])
    BY <2>2, <2>5
  <2>7. AllTags(u)
    BY <2>6, TokensApart DEF AllTags
  <2>8. QED
    BY <1>1, <2>4, <2>7
<1>3. CASE c \notin DOMAIN ends
  <2>1. u = << >>
    BY <1>1, <1>3 DEF EndsAt
  <2>2. u \in Seq(Token) /\ AllTags(u)
    BY <2>1 DEF AllTags
  <2>3. QED
    BY <1>1, <2>2
<1>4. QED
  BY <1>2, <1>3

LEMMA EndsAtNumbers ==
    ASSUME NEW s \in Seq(TagLine), NEW c \in Nat, NEW ends, EndsFound(ends, s, c), NEW n \in Names
    PROVE  PassEndTags(EndsAt(ends, c), s, c, n)
<1>1. PICK u : u = EndsAt(ends, c)
  OBVIOUS
<1>2. CASE c \in DOMAIN ends
  <2>1. PICK names : names = ends[c]
    OBVIOUS
  <2>2. names \in Seq(Names) /\ Number(names, {n}) = Number(s, Closing(n, c))
    BY <1>2, <2>1 DEF EndsFound, EndsLeft
  <2>3. u = Ends(names)
    BY <1>1, <1>2, <2>1 DEF EndsAt
  <2>4. /\ Number(u, {End(n)}) = Number(names, {n})
        /\ Number(u, {Start(n)}) = 0 /\ Number(u, {Empty(n)}) = 0
    BY <2>2, <2>3, EndsNumbers
  <2>5. QED
    BY <1>1, <2>2, <2>4 DEF PassEndTags
<1>3. CASE c \notin DOMAIN ends
  <2>1. u = << >>
    BY <1>1, <1>3 DEF EndsAt
  <2>2. u \in Seq(Token) /\ \A k \in 1 .. Len(u) : FALSE
    BY <2>1
  <2>3. Number(u, {End(n)}) = 0 /\ Number(u, {Start(n)}) = 0 /\ Number(u, {Empty(n)}) = 0
    BY <2>2, NumberIs
  <2>4. \A i \in 1 .. Len(s) : s[i] \notin Closing(n, c)
    BY <1>3 DEF EndsFound, EndsLeft, Closing
  <2>5. Number(s, Closing(n, c)) = 0
    BY <2>4, NumberIs
  <2>6. QED
    BY <1>1, <2>3, <2>5 DEF PassEndTags
<1>4. QED
  BY <1>2, <1>3

\* The tags here are opened and stand at c; those that end do not end before.
HereTags(here, c, n, p) ==
    /\ Number(here, Opening(n, p)) = IF p = c THEN Number(here, Filled(n)) ELSE 0
    /\ Number(here, Standing(n, p)) = IF p = c THEN Number(here, Hollow(n)) ELSE 0
    /\ (\A k \in 1 .. Len(here) : ~ Backward(here[k])) /\ p <= c => Number(here, Closing(n, p)) = 0

LEMMA HereNumbers ==
    ASSUME NEW here \in Seq(TagLine), NEW c \in Nat, AllAt(here, c), NEW n \in Names, NEW p \in Nat
    PROVE  HereTags(here, c, n, p)
<1>1. \A k \in 1 .. Len(here) : /\ here[k] \in TagLine /\ here[k].first = c /\ here[k].second \in Nat
  <2>1. \A k \in 1 .. Len(here) : here[k] \in TagLine
    BY ElementOfSeq
  <2>2. QED
    BY <2>1 DEF TagLine, AllAt
<1>2. PICK F, E : F = Filled(n) /\ E = Hollow(n)
  OBVIOUS
<1>3. Number(here, Opening(n, p)) = IF p = c THEN Number(here, F) ELSE 0
  <2>1. CASE p = c
    <3>1. SamePlaces(here, Opening(n, p), here, F)
      BY <1>1, <1>2, <2>1 DEF SamePlaces, Opening, Filled
    <3>2. QED
      BY <2>1, <3>1, NumberSame
  <2>2. CASE p # c
    <3>1. \A k \in 1 .. Len(here) : here[k] \notin Opening(n, p)
      BY <1>1, <2>2 DEF Opening
    <3>2. QED
      BY <2>2, <3>1, NumberIs
  <2>3. QED
    BY <2>1, <2>2
<1>4. Number(here, Standing(n, p)) = IF p = c THEN Number(here, E) ELSE 0
  <2>1. CASE p = c
    <3>1. SamePlaces(here, Standing(n, p), here, E)
      BY <1>1, <1>2, <2>1 DEF SamePlaces, Standing, Hollow
    <3>2. QED
      BY <2>1, <3>1, NumberSame
  <2>2. CASE p # c
    <3>1. \A k \in 1 .. Len(here) : here[k] \notin Standing(n, p)
      BY <1>1, <2>2 DEF Standing
    <3>2. QED
      BY <2>2, <3>1, NumberIs
  <2>3. QED
    BY <2>1, <2>2
<1>5. ASSUME \A k \in 1 .. Len(here) : ~ Backward(here[k]), p <= c
      PROVE  Number(here, Closing(n, p)) = 0
  <2>1. ASSUME NEW k \in 1 .. Len(here) PROVE here[k] \notin Closing(n, p)
    <3>1. here[k].first = c /\ here[k].second \in Nat /\ ~ (here[k].second < c)
      BY <1>1, <1>5 DEF Backward
    <3>2. here[k].second = p => isEmptyTag(here[k])
      BY <1>5, <3>1 DEF isEmptyTag
    <3>3. QED
      BY <3>2 DEF Closing
  <2>2. QED
    BY <2>1, NumberIs
<1>6. QED
  BY <1>2, <1>3, <1>4, <1>5 DEF HereTags

\* The output v is w and then the tags a, b and r.
AddsThree(v, w, a, b, r) ==
    /\ v \in Seq(Token) /\ CharsBefore(v, Len(v)) = CharsBefore(w, Len(w))
    /\ Letters(v) = Letters(w)
    /\ \A e : \A p \in Nat :
         TokensIn(v, e, p) = TokensIn(w, e, p)
           + (IF p = CharsBefore(w, Len(w)) THEN Number(a, {e}) + Number(b, {e}) + Number(r, {e}) ELSE 0)

LEMMA WriteThree ==
    ASSUME NEW w \in Seq(Token), NEW a \in Seq(Token), NEW b \in Seq(Token), NEW r \in Seq(Token),
           AllTags(a), AllTags(b), AllTags(r)
    PROVE  AddsThree(w \o a \o b \o r, w, a, b, r)
<1>1. AddsTags(w \o a, w, a)
  BY WriteTags
<1>2. w \o a \in Seq(Token)
  BY <1>1 DEF AddsTags
<1>3. AddsTags(w \o a \o b, w \o a, b)
  BY <1>2, WriteTags
<1>4. w \o a \o b \in Seq(Token)
  BY <1>3 DEF AddsTags
<1>5. AddsTags(w \o a \o b \o r, w \o a \o b, r)
  BY <1>4, WriteTags
<1>6. PICK v1, v2, v3 : v1 = w \o a /\ v2 = w \o a \o b /\ v3 = w \o a \o b \o r
  OBVIOUS
<1>7. AddsTags(v1, w, a) /\ AddsTags(v2, v1, b) /\ AddsTags(v3, v2, r)
  BY <1>1, <1>3, <1>5, <1>6
<1>8. PICK c : c = CharsBefore(w, Len(w))
  OBVIOUS
<1>9. ASSUME NEW e, NEW p \in Nat
      PROVE  TokensIn(v3, e, p) = TokensIn(w, e, p)
               + (IF p = c THEN Number(a, {e}) + Number(b, {e}) + Number(r, {e}) ELSE 0)
  <2>1. TokensIn(v1, e, p) = TokensIn(w, e, p) + (IF p = c THEN Number(a, {e}) ELSE 0)
    BY <1>7, <1>8 DEF AddsTags
  <2>2. TokensIn(v2, e, p) = TokensIn(v1, e, p) + (IF p = c THEN Number(b, {e}) ELSE 0)
    BY <1>7, <1>8 DEF AddsTags
  <2>3. TokensIn(v3, e, p) = TokensIn(v2, e, p) + (IF p = c THEN Number(r, {e}) ELSE 0)
    BY <1>7, <1>8 DEF AddsTags
  <2>4. /\ Number(a, {e}) \in Nat /\ Number(b, {e}) \in Nat /\ Number(r, {e}) \in Nat
    BY NumberIs
  <2>5. TokensIn(w, e, p) \in Nat
    BY TokensNat
  <2>6. QED
    BY <2>1, <2>2, <2>3, <2>4, <2>5
<1>10. /\ v3 \in Seq(Token) /\ CharsBefore(v3, Len(v3)) = c /\ Letters(v3) = Letters(w)
  BY <1>7, <1>8 DEF AddsTags
<1>11. AddsThree(v3, w, a, b, r)
  BY <1>8, <1>9, <1>10 DEF AddsThree
<1>12. QED
  BY <1>6, <1>11

\* The tokens a, b and r are those of a pass.
PassAll(a, b, r, s, here, c) ==
    /\ a \in Seq(Token) /\ b \in Seq(Token) /\ r \in Seq(Token)
    /\ \A n \in Names : PassTags(a, r, here, n) /\ PassEndTags(b, s, c, n)

\* The output of a pass, but for the character.
LEMMA PassWrites ==
    ASSUME NEW w, NEW text, NEW s \in Seq(TagLine), NEW here \in Seq(TagLine), NEW c \in Nat,
           AllAt(here, c), NEW a, NEW b, NEW r, PassAll(a, b, r, s, here, c),
           NEW v, AddsThree(v, w, a, b, r), Wrote(w, text, s, c, c)
    PROVE  Wrote(v, text, s \o here, c, c + 1)
<1>1. PICK z : z = s \o here
  OBVIOUS
<1>2. Letters(w) = Escaped(text, c) /\ CharsBefore(w, Len(w)) = c
  BY DEF Wrote
<1>3. Letters(v) = Escaped(text, c) /\ CharsBefore(v, Len(v)) = c
  BY <1>2 DEF AddsThree
<1>4. Both(z, s, here)
  BY <1>1, BothEntries
<1>5. ASSUME NEW n \in Names, NEW p \in Nat
      PROVE  /\ TokensIn(v, Start(n), p) = Number(z, Opening(n, p))
             /\ TokensIn(v, Empty(n), p) = Number(z, Standing(n, p))
             /\ (\A i \in 1 .. Len(z) : ~ Backward(z[i])) =>
                  TokensIn(v, End(n), p) = IF p < c + 1 THEN Number(z, Closing(n, p)) ELSE 0
  <2>1. PassTags(a, r, here, n) /\ PassEndTags(b, s, c, n)
    BY DEF PassAll
  <2>2. HereTags(here, c, n, p)
    BY HereNumbers
  <2>3. ASSUME NEW Q PROVE /\ Number(z, Q) = Number(s, Q) + Number(here, Q)
                           /\ Number(s, Q) \in Nat /\ Number(here, Q) \in Nat
    <3>1. Number(s \o here, Q) = Number(s, Q) + Number(here, Q)
      BY NumberConcat
    <3>2. Number(s, Q) \in Nat /\ Number(here, Q) \in Nat
      BY NumberIs
    <3>3. QED
      BY <1>1, <3>1, <3>2
  <2>4. ASSUME NEW Q PROVE Number(a, Q) \in Nat /\ Number(b, Q) \in Nat /\ Number(r, Q) \in Nat
    <3>1. a \in Seq(Token) /\ b \in Seq(Token) /\ r \in Seq(Token)
      BY DEF PassAll
    <3>2. QED
      BY <3>1, NumberIs
  <2>5. TokensIn(v, Start(n), p) = Number(z, Opening(n, p))
    <3>1. TokensIn(v, Start(n), p) = TokensIn(w, Start(n), p)
            + (IF p = c THEN Number(a, {Start(n)}) + Number(b, {Start(n)}) + Number(r, {Start(n)}) ELSE 0)
      BY <1>2 DEF AddsThree
    <3>2. TokensIn(w, Start(n), p) = Number(s, Opening(n, p))
      BY DEF Wrote
    <3>3. Number(here, Opening(n, p)) = IF p = c THEN Number(here, Filled(n)) ELSE 0
      BY <2>2 DEF HereTags
    <3>4. /\ Number(a, {Start(n)}) = 0 /\ Number(b, {Start(n)}) = 0
          /\ Number(r, {Start(n)}) = Number(here, Filled(n))
      BY <2>1 DEF PassTags, PassEndTags
    <3>5. Number(here, Filled(n)) \in Nat /\ Number(s, Opening(n, p)) \in Nat
      BY <2>3
    <3>6. QED
      BY <2>3, <3>1, <3>2, <3>3, <3>4, <3>5
  <2>6. TokensIn(v, Empty(n), p) = Number(z, Standing(n, p))
    <3>1. TokensIn(v, Empty(n), p) = TokensIn(w, Empty(n), p)
            + (IF p = c THEN Number(a, {Empty(n)}) + Number(b, {Empty(n)}) + Number(r, {Empty(n)}) ELSE 0)
      BY <1>2 DEF AddsThree
    <3>2. TokensIn(w, Empty(n), p) = Number(s, Standing(n, p))
      BY DEF Wrote
    <3>3. Number(here, Standing(n, p)) = IF p = c THEN Number(here, Hollow(n)) ELSE 0
      BY <2>2 DEF HereTags
    <3>4. /\ Number(b, {Empty(n)}) = 0
          /\ Number(a, {Empty(n)}) + Number(r, {Empty(n)}) = Number(here, Hollow(n))
      BY <2>1 DEF PassTags, PassEndTags
    <3>5. /\ Number(here, Hollow(n)) \in Nat /\ Number(s, Standing(n, p)) \in Nat
          /\ Number(a, {Empty(n)}) \in Nat /\ Number(r, {Empty(n)}) \in Nat
      BY <2>3, <2>4
    <3>6. QED
      BY <2>3, <3>1, <3>2, <3>3, <3>4, <3>5
  <2>7. ASSUME \A i \in 1 .. Len(z) : ~ Backward(z[i])
        PROVE  TokensIn(v, End(n), p) = IF p < c + 1 THEN Number(z, Closing(n, p)) ELSE 0
    <3>1. TokensIn(v, End(n), p) = TokensIn(w, End(n), p)
            + (IF p = c THEN Number(a, {End(n)}) + Number(b, {End(n)}) + Number(r, {End(n)}) ELSE 0)
      BY <1>2 DEF AddsThree
    <3>2. /\ \A i \in 1 .. Len(s) : ~ Backward(s[i])
          /\ \A k \in 1 .. Len(here) : ~ Backward(here[k])
      BY <1>4, <2>7 DEF Both
    <3>3. TokensIn(w, End(n), p) = IF p < c THEN Number(s, Closing(n, p)) ELSE 0
      BY <3>2 DEF Wrote
    <3>4. p <= c => Number(here, Closing(n, p)) = 0
      BY <2>2, <3>2 DEF HereTags
    <3>5. /\ Number(a, {End(n)}) = 0 /\ Number(r, {End(n)}) = 0
          /\ Number(b, {End(n)}) = Number(s, Closing(n, c))
      BY <2>1 DEF PassTags, PassEndTags
    <3>6. p = c => Number(b, {End(n)}) = Number(s, Closing(n, p))
      BY <3>5
    <3>7. Number(s, Closing(n, p)) \in Nat /\ Number(z, Closing(n, p)) = Number(s, Closing(n, p)) + Number(here, Closing(n, p))
      BY <2>3
    <3>8. CASE p < c
      BY <3>1, <3>3, <3>4, <3>7, <3>8
    <3>9. CASE p = c
      BY <3>1, <3>3, <3>4, <3>5, <3>6, <3>7, <3>9
    <3>10. CASE p > c
      BY <3>1, <3>3, <3>10
    <3>11. QED
      BY <3>8, <3>9, <3>10
  <2>8. QED
    BY <2>5, <2>6, <2>7
<1>6. Wrote(v, text, z, c, c + 1)
  BY <1>3, <1>5 DEF Wrote
<1>7. QED
  BY <1>1, <1>6

\* A token for a character is none of a tag.
LEMMA CharToken ==
    ASSUME NEW x \in Nat
    PROVE  writeCharWithEscaping(x) \in Token /\ ~ IsTag(writeCharWithEscaping(x))
BY DEF writeCharWithEscaping, IsTag, Token, Entities

\* The character a pass writes.
LEMMA PassChar ==
    ASSUME NEW w \in Seq(Token), NEW text \in Seq(Nat), NEW s, NEW c \in Nat, c < Len(text),
           Wrote(w, text, s, c, c + 1)
    PROVE  Wrote(w \o <<writeCharWithEscaping(text[c + 1])>>, text, s, c + 1, c + 1)
<1>1. PICK x : x = writeCharWithEscaping(text[c + 1])
  OBVIOUS
<1>2. x \in Token /\ ~ IsTag(x)
  <2>1. text[c + 1] \in Nat
    <3>1. Len(text) \in Nat
      BY LenProperties
    <3>2. c + 1 \in 1 .. Len(text)
      BY <3>1
    <3>3. QED
      BY <3>2, ElementOfSeq
  <2>2. QED
    BY <1>1, <2>1, CharToken
<1>3. AddsChar(w \o <<x>>, w, x)
  BY <1>2, WriteChar
<1>4. PICK v : v = w \o <<x>>
  OBVIOUS
<1>5. AddsChar(v, w, x)
  BY <1>3, <1>4
<1>6. Letters(w) = Escaped(text, c) /\ CharsBefore(w, Len(w)) = c
  BY DEF Wrote
<1>7. Letters(v) = Append(Escaped(text, c), x) /\ CharsBefore(v, Len(v)) = c + 1
  BY <1>5, <1>6 DEF AddsChar
<1>8. Append(Escaped(text, c), x) = Escaped(text, c + 1)
  BY <1>1 DEF Escaped
<1>9. ASSUME NEW n \in Names, NEW p \in Nat
      PROVE  /\ TokensIn(v, Start(n), p) = Number(s, Opening(n, p))
             /\ TokensIn(v, Empty(n), p) = Number(s, Standing(n, p))
             /\ (\A i \in 1 .. Len(s) : ~ Backward(s[i])) =>
                  TokensIn(v, End(n), p) = IF p < c + 1 THEN Number(s, Closing(n, p)) ELSE 0
  <2>1. IsTag(Start(n)) /\ IsTag(End(n)) /\ IsTag(Empty(n))
    BY TokensApart
  <2>2. /\ TokensIn(v, Start(n), p) = TokensIn(w, Start(n), p)
        /\ TokensIn(v, Empty(n), p) = TokensIn(w, Empty(n), p)
        /\ TokensIn(v, End(n), p) = TokensIn(w, End(n), p)
    BY <1>5, <2>1 DEF AddsChar
  <2>3. QED
    BY <2>2 DEF Wrote
<1>10. Wrote(v, text, s, c + 1, c + 1)
  BY <1>7, <1>8, <1>9 DEF Wrote
<1>11. QED
  BY <1>1, <1>4, <1>10

-----------------------------------------------------------------------------
(* Every step of export keeps its invariant.                                    *)

\* The lines that are tags, or bad.
LEMMA tagsAre ==
    ASSUME so[1] \in Seq(Line)
    PROVE  /\ tags \in Seq(Line \ {Blank}) /\ Len(tags) \in Nat
           /\ \A i \in 1 .. Len(tags) : tags[i] = Bad \/ tags[i] \in TagLine
           /\ Clean(so[1]) <=> \A i \in 1 .. Len(tags) : tags[i] # Bad
<1>1. tags \in Seq(Line \ {Blank})
  BY WithoutType DEF tags
<1>2. Len(tags) \in Nat
  BY <1>1, LenProperties
<1>3. \A i \in 1 .. Len(tags) : tags[i] = Bad \/ tags[i] \in TagLine
  <2>1. \A i \in 1 .. Len(tags) : tags[i] \in Line \ {Blank}
    BY <1>1, ElementOfSeq
  <2>2. QED
    BY <2>1 DEF Line
<1>4. (\E i \in 1 .. Len(tags) : tags[i] = Bad)
        <=> (\E i \in 1 .. Len(so[1]) : so[1][i] = Bad) /\ Bad \notin {Blank}
  <2>1. PICK s, S : s = so[1] /\ S = {Blank}
    OBVIOUS
  <2>2. s \in Seq(Line)
    BY <2>1
  <2>3. (\E i \in 1 .. Len(Without(s, S)) : Without(s, S)[i] = Bad)
          <=> (\E i \in 1 .. Len(s) : s[i] = Bad) /\ Bad \notin S
    BY <2>2, WithoutEntries
  <2>4. tags = Without(s, S)
    BY <2>1 DEF tags
  <2>5. QED
    BY <2>1, <2>3, <2>4
<1>5. Bad # Blank
  BY StandOffAssumption
<1>6. Clean(so[1]) <=> \A i \in 1 .. Len(tags) : tags[i] # Bad
  BY <1>4, <1>5 DEF Clean
<1>7. QED
  BY <1>1, <1>2, <1>3, <1>6

\* The entries u come in s after the first g.
ComesAfter(s, g, u) == \A k \in 1 .. Len(u) : u[k] = s[g + k]

LEMMA SubSeqFollows ==
    ASSUME NEW T, NEW s \in Seq(T), NEW u \in Seq(T), NEW g \in 0 .. Len(s), NEW e \in 0 .. Len(s),
           e = g + Len(u), ComesAfter(s, g, u)
    PROVE  SubSeq(s, 1, e) = SubSeq(s, 1, g) \o u
<1>1. PICK x, y, z : x = SubSeq(s, 1, e) /\ y = SubSeq(s, 1, g) /\ z = y \o u
  OBVIOUS
<1>2. PICK N, L : N = Len(s) /\ N \in Nat /\ L = Len(u) /\ L \in Nat
  BY LenProperties
<1>3. x \in Seq(T) /\ Len(x) = e /\ \A k \in 1 .. e : x[k] = s[k]
  BY <1>1, <1>2, SubSeqProperties
<1>4. y \in Seq(T) /\ Len(y) = g /\ \A k \in 1 .. g : y[k] = s[k]
  BY <1>1, <1>2, SubSeqProperties
<1>5. /\ z \in Seq(T) /\ Len(z) = g + L
      /\ \A k \in 1 .. g : z[k] = y[k]
      /\ \A k \in 1 .. L : z[g + k] = u[k]
  <2>1. y \o u \in Seq(T) /\ TwoParts(y \o u, y, u)
    BY <1>4, JoinedIs
  <2>2. z \in Seq(T) /\ TwoParts(z, y, u)
    BY <1>1, <2>1
  <2>3. QED
    BY <1>2, <1>4, <2>2 DEF TwoParts
<1>6. ASSUME NEW k \in 1 .. e PROVE z[k] = x[k]
  <2>1. CASE k \in 1 .. g
    BY <1>3, <1>4, <1>5, <2>1
  <2>2. CASE k \notin 1 .. g
    <3>1. k - g \in 1 .. L /\ g + (k - g) = k
      BY <1>2, <2>2
    <3>2. PICK j \in 1 .. L : g + j = k
      BY <3>1
    <3>3. z[k] = u[j] /\ u[j] = s[k]
      BY <1>2, <1>5, <3>2 DEF ComesAfter
    <3>4. QED
      BY <1>3, <3>3
  <2>3. QED
    BY <2>1, <2>2
<1>7. x = z
  BY <1>2, <1>3, <1>5, <1>6, SeqEqual
<1>8. QED
  BY <1>1, <1>7

\* The tags at the current position, those of them that are written before the end
\* tags, and the others.
HereNow == Here(tag)
EmptyNow == Empties(HereNow)
RestNow == RestOf(HereNow, EmptyNow)

\* What a pass sees.
LEMMA PassSeen ==
    ASSUME so[1] \in Seq(Line), charCount \in Nat, SeenUpTo(tags, tag, charCount)
    PROVE  /\ HereNow \in Seq(TagLine) /\ AllAt(HereNow, charCount) /\ tag + Len(HereNow) \in Nat
           /\ SeenUpTo(tags, tag + Len(HereNow), charCount + 1)
           /\ SubSeq(tags, 1, tag + Len(HereNow) - 1) = SubSeq(tags, 1, tag - 1) \o HereNow
<1>0. PICK here : here = Here(tag)
  OBVIOUS
<1>1. PICK N : N = Len(tags) /\ N \in Nat
  BY tagsAre
<1>2. tag \in 1 .. N + 1
  BY <1>1 DEF SeenUpTo
<1>3. tags \in Seq(Line \ {Blank}) /\ \A i \in 1 .. N : tags[i] = Bad \/ tags[i] \in TagLine
  BY <1>1, tagsAre
<1>4. PICK L, m, c : L = Len(here) /\ m = tag + L /\ c = charCount /\ c \in Nat
  OBVIOUS
<1>5. /\ here \in Seq(TagLine) /\ m \in 1 .. N + 1
      /\ \A k \in 1 .. L : here[k] = tags[tag + k - 1] /\ here[k].first = c
      /\ m <= N /\ tags[m] # Bad => tags[m].first # c
  BY <1>0, <1>1, <1>2, <1>4, HereIs
<1>6. L \in Nat /\ \A k \in 1 .. L : here[k] \in TagLine
  BY <1>4, <1>5, LenProperties, ElementOfSeq
<1>7. /\ \A i \in 1 .. tag - 1 : /\ tags[i] \in TagLine /\ tags[i].first < c
                                 /\ \A j \in 1 .. i : tags[j].first <= tags[i].first
      /\ tag <= N /\ tags[tag] # Bad /\ tags[tag].first < c =>
           \E i \in 1 .. tag - 1 : tags[tag].first < tags[i].first
  BY <1>1, <1>4 DEF SeenUpTo
<1>8. ASSUME NEW i \in tag .. m - 1 PROVE tags[i] \in TagLine /\ tags[i].first = c
  <2>1. PICK k \in 1 .. L : tag + k - 1 = i
    <3>1. i - tag + 1 \in 1 .. L /\ tag + (i - tag + 1) - 1 = i
      BY <1>2, <1>4, <1>6
    <3>2. QED
      BY <3>1
  <2>2. QED
    BY <1>5, <1>6, <2>1
<1>9. ASSUME NEW i \in 1 .. m - 1
      PROVE  /\ tags[i] \in TagLine /\ tags[i].first < c + 1
             /\ \A j \in 1 .. i : tags[j].first <= tags[i].first
  <2>1. \A t \in TagLine : t.first \in Nat
    BY DEF TagLine
  <2>2. \A j \in 1 .. tag - 1 : tags[j].first \in Nat /\ tags[j].first < c
    BY <1>7, <2>1
  <2>3. CASE i < tag
    <3>1. i \in 1 .. tag - 1
      BY <1>2, <1>5, <2>3
    <3>2. QED
      BY <1>4, <1>7, <2>2, <3>1
  <2>4. CASE i >= tag
    <3>1. i \in tag .. m - 1
      BY <1>2, <1>5, <2>4
    <3>2. tags[i] \in TagLine /\ tags[i].first = c
      BY <1>8, <3>1
    <3>3. ASSUME NEW j \in 1 .. i PROVE tags[j].first <= c
      <4>1. CASE j < tag
        <5>1. j \in 1 .. tag - 1
          BY <1>2, <4>1
        <5>2. QED
          BY <1>4, <2>2, <5>1
      <4>2. CASE j >= tag
        <5>1. j \in tag .. m - 1
          BY <1>2, <1>5, <3>1, <4>2
        <5>2. QED
          BY <1>4, <1>8, <5>1
      <4>3. QED
        BY <1>2, <4>1, <4>2
    <3>4. QED
      BY <1>4, <3>2, <3>3
  <2>5. QED
    BY <1>2, <1>5, <2>3, <2>4
<1>10. ASSUME m <= N, tags[m] # Bad, tags[m].first < c + 1
       PROVE  \E i \in 1 .. m - 1 : tags[m].first < tags[i].first
  <2>1. tags[m] \in TagLine /\ tags[m].first \in Nat
    <3>1. tags[m] \in TagLine
      BY <1>3, <1>5, <1>10
    <3>2. QED
      BY <3>1 DEF TagLine
  <2>2. tags[m].first < c
    BY <1>4, <1>5, <1>10, <2>1
  <2>3. CASE L = 0
    <3>1. m = tag
      BY <1>2, <1>4, <2>3
    <3>2. QED
      BY <1>7, <1>10, <2>2, <3>1
  <2>4. CASE L # 0
    <3>1. m - 1 \in tag .. m - 1 /\ m - 1 \in 1 .. m - 1
      BY <1>2, <1>4, <1>6, <2>4
    <3>2. tags[m - 1].first = c
      BY <1>8, <3>1
    <3>3. QED
      BY <2>2, <3>1, <3>2
  <2>5. QED
    BY <2>3, <2>4
<1>11. SeenUpTo(tags, m, c + 1)
  BY <1>1, <1>5, <1>9, <1>10 DEF SeenUpTo
<1>12. SubSeq(tags, 1, m - 1) = SubSeq(tags, 1, tag - 1) \o here
  <2>1. PICK e, g : e = m - 1 /\ g = tag - 1
    OBVIOUS
  <2>2. e \in 0 .. N /\ g \in 0 .. N /\ e = g + L
    BY <1>1, <1>2, <1>4, <1>5, <1>6, <2>1
  <2>3. PICK T : T = Line \ {Blank}
    OBVIOUS
  <2>4. here \in Seq(T)
    <3>1. TagLine \subseteq T
      BY <2>3, StandOffAssumption DEF Line, TagLine
    <3>2. QED
      BY <1>5, <3>1
  <2>5. ASSUME NEW k \in 1 .. L PROVE here[k] = tags[g + k]
    <3>1. tag + k - 1 = g + k
      BY <1>2, <2>1
    <3>2. QED
      BY <1>5, <3>1
  <2>6. ComesAfter(tags, g, here)
    BY <1>4, <2>5 DEF ComesAfter
  <2>7. SubSeq(tags, 1, e) = SubSeq(tags, 1, g) \o here
    BY <1>1, <1>3, <1>4, <2>2, <2>3, <2>4, <2>6, SubSeqFollows
  <2>8. QED
    BY <2>1, <2>7
<1>13. AllAt(here, c)
  BY <1>4, <1>5 DEF AllAt
<1>14. /\ here \in Seq(TagLine) /\ AllAt(here, charCount) /\ tag + Len(here) \in Nat
       /\ SeenUpTo(tags, tag + Len(here), charCount + 1)
       /\ SubSeq(tags, 1, tag + Len(here) - 1) = SubSeq(tags, 1, tag - 1) \o here
  BY <1>1, <1>2, <1>4, <1>5, <1>6, <1>11, <1>12, <1>13
<1>15. here = HereNow
  BY <1>0 DEF HereNow
<1>16. QED
  BY <1>14, <1>15

\* The output of a pass.
LEMMA PassOutput ==
    ASSUME NEW w \in Seq(Token), NEW text, NEW s \in Seq(TagLine),
           NEW here, NEW empty, NEW rest, Parts(here, empty, rest),
           EmptyTokens(empty) \in Seq(Token), RestTokens(rest) \in Seq(Token),
           NEW c \in Nat, AllAt(here, c), NEW ends, EndsFound(ends, s, c), Wrote(w, text, s, c, c)
    PROVE  /\ w \o EmptyTokens(empty) \o EndsAt(ends, c) \o RestTokens(rest) \in Seq(Token)
           /\ Wrote(w \o EmptyTokens(empty) \o EndsAt(ends, c) \o RestTokens(rest), text, s \o here, c, c + 1)
<1>1. PICK a, b, r : a = EmptyTokens(empty) /\ b = EndsAt(ends, c) /\ r = RestTokens(rest)
  OBVIOUS
<1>2. /\ here \in Seq(TagLine) /\ empty \in Seq(TagLine) /\ rest \in Seq(TagLine)
      /\ \A k \in 1 .. Len(empty) : empty[k] \in TagLine /\ isEmptyTag(empty[k])
      /\ \A k \in 1 .. Len(rest) : rest[k] \in TagLine
  BY PartsAdd
<1>3. PICK N, M : N = Len(empty) /\ M = Len(rest) /\ N \in Nat /\ M \in Nat
  BY <1>2, LenProperties
<1>4. AllTags(a) /\ AllTags(r)
  <2>1. Len(a) = N /\ \A k \in 1 .. N : a[k] = Empty(empty[k].name)
    BY <1>1, <1>3 DEF EmptyTokens
  <2>2. Len(r) = M /\ \A k \in 1 .. M : r[k] \in {Empty(rest[k].name), Start(rest[k].name)}
    BY <1>1, <1>3 DEF RestTokens
  <2>3. \A n : IsTag(Start(n)) /\ IsTag(Empty(n))
    BY TokensApart
  <2>4. \A k \in 1 .. N : IsTag(a[k])
    BY <2>1, <2>3
  <2>5. \A k \in 1 .. M : IsTag(r[k])
    BY <2>2, <2>3
  <2>6. QED
    BY <2>1, <2>2, <2>4, <2>5 DEF AllTags
<1>5. a \in Seq(Token) /\ r \in Seq(Token)
  BY <1>1
<1>6. b \in Seq(Token) /\ AllTags(b)
  <2>1. EndsAt(ends, c) \in Seq(Token) /\ AllTags(EndsAt(ends, c))
    BY EndsAtIs
  <2>2. QED
    BY <1>1, <2>1
<1>7. PassAll(a, b, r, s, here, c)
  <2>1. ASSUME NEW n \in Names PROVE PassTags(a, r, here, n) /\ PassEndTags(b, s, c, n)
    <3>1. PassTags(EmptyTokens(empty), RestTokens(rest), here, n)
      BY PassNumbers
    <3>2. PassEndTags(EndsAt(ends, c), s, c, n)
      BY EndsAtNumbers
    <3>3. QED
      BY <1>1, <3>1, <3>2
  <2>2. QED
    BY <1>5, <1>6, <2>1 DEF PassAll
<1>8. AddsThree(w \o a \o b \o r, w, a, b, r)
  BY <1>4, <1>5, <1>6, WriteThree
<1>9. PICK v : v = w \o a \o b \o r
  OBVIOUS
<1>10. AddsThree(v, w, a, b, r)
  BY <1>8, <1>9
<1>11. Wrote(v, text, s \o here, c, c + 1)
  BY <1>2, <1>7, <1>10, PassWrites
<1>12. v \in Seq(Token)
  BY <1>10 DEF AddsThree
<1>13. QED
  BY <1>1, <1>9, <1>11, <1>12

\* What a pass does, if it does not stop.
PassDone(v, more) ==
    /\ endTagList' = more
    /\ \/ /\ charCount < Len(txt) /\ charCount' = charCount + 1 /\ pc' = pc
          /\ outXml' = v \o <<writeCharWithEscaping(txt[charCount + 1])>>
       \/ /\ ~ (charCount < Len(txt)) /\ charCount' = charCount /\ pc' = "exportEnd"
          /\ outXml' = v \o << >>

\* The tags the failed pass refuses: one that ends before it begins, or a bad line.
PassRefused(here) ==
    /\ pc' = "error"
    /\ \/ Min(DOMAIN endTagList \cup {charCount + 1}) < charCount
       \/ tag + Len(here) <= Len(tags) /\ tags[tag + Len(here)] = Bad

LEMMA writeSemiXMLIs ==
    ASSUME writeSemiXML
    PROVE  \/ PassRefused(HereNow)
           \/ /\ ~ Min(DOMAIN endTagList \cup {charCount + 1}) < charCount
              /\ tag' = tag + Len(HereNow)
              /\ PassDone(outXml \o EmptyTokens(EmptyNow) \o EndsAt(endTagList, charCount) \o RestTokens(RestNow),
                          EndsAfter(endTagList, charCount, OpenOf(RestNow)))
<1> DEFINE here == HereNow
           empty == EmptyNow
           rest == RestNow
           open == OpenOf(rest)
           ends == IF charCount \in DOMAIN endTagList THEN Ends(endTagList[charCount]) ELSE << >>
           e3 == IF charCount < Len(txt) THEN <<writeCharWithEscaping(txt[charCount + 1])>> ELSE << >>
           left == [p \in DOMAIN endTagList \ {charCount} |-> endTagList[p]]
           Old(p) == IF p \in DOMAIN left THEN left[p] ELSE << >>
           D == DOMAIN left \cup {open[i].second : i \in 1 .. Len(open)}
           bad == \/ Min(DOMAIN endTagList \cup {charCount + 1}) < charCount
                  \/ tag + Len(here) <= Len(tags) /\ tags[tag + Len(here)] = Bad
<1>1. IF bad THEN pc' = "error" /\ UNCHANGED <<outXml, charCount, tag, endTagList>>
      ELSE /\ outXml' = outXml \o EmptyTokens(empty) \o ends \o RestTokens(rest) \o e3
           /\ tag' = tag + Len(here)
           /\ endTagList' = [p \in D |-> NamesAt(open, p) \o Old(p)]
           /\ IF charCount < Len(txt) THEN charCount' = charCount + 1 /\ UNCHANGED pc
              ELSE pc' = "exportEnd" /\ UNCHANGED charCount
  BY Zenon DEF writeSemiXML, HereNow, EmptyNow, RestNow, EmptyTokens, RestTokens, RestOf, OpenOf, EndingAt, NamesAt
<1>2. [p \in D |-> NamesAt(open, p) \o Old(p)] = EndsAfter(endTagList, charCount, open)
  <2>1. DOMAIN left = DOMAIN endTagList \ {charCount}
    OBVIOUS
  <2>2. \A p : Old(p) = IF p \in DOMAIN endTagList \ {charCount} THEN endTagList[p] ELSE << >>
    OBVIOUS
  <2>3. QED
    BY <2>1, <2>2 DEF EndsAfter
<1>3. ends = EndsAt(endTagList, charCount)
  BY DEF EndsAt
<1> DEFINE v == outXml \o EmptyTokens(empty) \o EndsAt(endTagList, charCount) \o RestTokens(rest)
<1>4. CASE bad
  BY <1>1, <1>4 DEF PassRefused
<1>5. CASE ~ bad
  <2>1. /\ outXml' = v \o e3 /\ tag' = tag + Len(here)
        /\ endTagList' = EndsAfter(endTagList, charCount, open)
        /\ IF charCount < Len(txt) THEN charCount' = charCount + 1 /\ UNCHANGED pc
           ELSE pc' = "exportEnd" /\ UNCHANGED charCount
    <3> HIDE DEF open, D, Old, ends, e3
    <3>1. QED
      BY <1>1, <1>2, <1>3, <1>5
  <2>2. PassDone(v, EndsAfter(endTagList, charCount, open))
    <3> HIDE DEF v, open, bad
    <3>1. CASE charCount < Len(txt)
      <4>1. outXml' = v \o <<writeCharWithEscaping(txt[charCount + 1])>>
        BY <2>1, <3>1
      <4>2. QED
        BY <2>1, <3>1, <4>1 DEF PassDone
    <3>2. CASE ~ (charCount < Len(txt))
      <4>1. outXml' = v \o << >>
        BY <2>1, <3>2
      <4>2. QED
        BY <2>1, <3>2, <4>1 DEF PassDone
    <3>3. QED
      BY <3>1, <3>2
  <2>3. ~ Min(DOMAIN endTagList \cup {charCount + 1}) < charCount
    BY <1>5
  <2>4. QED
    BY <2>1, <2>2, <2>3
<1>6. QED
  BY <1>4, <1>5

\* The parts of a pass.
LEMMA PassParts ==
    ASSUME so[1] \in Seq(Line), charCount \in Nat, SeenUpTo(tags, tag, charCount)
    PROVE  /\ Parts(HereNow, EmptyNow, RestNow)
           /\ EmptyTokens(EmptyNow) \in Seq(Token) /\ RestTokens(RestNow) \in Seq(Token)
<1>1. PICK here, empty, rest : here = HereNow /\ empty = EmptyNow /\ rest = RestNow
  OBVIOUS
<1>2. here \in Seq(TagLine)
  BY <1>1, PassSeen
<1>3. empty = Empties(here) /\ rest = RestOf(here, empty)
  BY <1>1 DEF EmptyNow, RestNow
<1>4. Parts(here, empty, rest)
  <2>1. Parts(here, Empties(here), RestOf(here, Empties(here)))
    BY <1>2, EmptiesIs
  <2>2. QED
    BY <1>3, <2>1
<1>5. empty \in Seq(TagLine)
  BY <1>4 DEF Parts
<1>6. EmptyTokens(empty) \in Seq(Token) /\ RestTokens(rest) \in Seq(Token)
  BY <1>2, <1>3, <1>5, PassTypes
<1>7. QED
  BY <1>1, <1>4, <1>6

\* A file with a bad line, or with a tag that ends before it begins, is not accepted.
LEMMA NotAccepted ==
    ASSUME so[1] \in Seq(Line), Accepted
    PROVE  /\ \A i \in 1 .. Len(tags) : /\ tags[i] \in TagLine /\ tags[i] # Bad
                                        /\ ~ Backward(tags[i])
<1>1. \A i \in 1 .. Len(tags) : tags[i] = Bad \/ tags[i] \in TagLine
  BY tagsAre
<1>2. Clean(so[1]) <=> \A i \in 1 .. Len(tags) : tags[i] # Bad
  BY tagsAre
<1>3. \A i \in 1 .. Len(tags) : tags[i] \in TagLine /\ tags[i] # Bad
  BY <1>1, <1>2 DEF Accepted
<1>4. \A i \in 1 .. Len(tags) : tags[i].first <= tags[i].second /\ tags[i].first \in Nat /\ tags[i].second \in Nat
  BY <1>3 DEF Accepted, TagLine
<1>5. \A i \in 1 .. Len(tags) : ~ Backward(tags[i])
  BY <1>4 DEF Backward
<1>6. QED
  BY <1>3, <1>5

\* Tags seen are tags of the file.
LEMMA SeenAre ==
    ASSUME so[1] \in Seq(Line), NEW d, SeenUpTo(tags, tag, d)
    PROVE  /\ Seen \in Seq(TagLine) /\ Len(Seen) = tag - 1
           /\ \A i \in 1 .. Len(Seen) : i \in 1 .. Len(tags) /\ Seen[i] = tags[i]
<1>1. PICK N : N = Len(tags) /\ N \in Nat
  BY tagsAre
<1>2. tags \in Seq(Line \ {Blank})
  BY tagsAre
<1>3. tag \in 1 .. N + 1 /\ \A i \in 1 .. tag - 1 : tags[i] \in TagLine
  BY <1>1 DEF SeenUpTo
<1>4. PICK e \in 0 .. N : e = tag - 1
  BY <1>1, <1>3
<1>5. PICK s : s = SubSeq(tags, 1, e)
  OBVIOUS
<1>6. s \in Seq(Line \ {Blank}) /\ Len(s) = e /\ \A i \in 1 .. e : s[i] = tags[i]
  BY <1>1, <1>2, <1>5, SubSeqProperties
<1>7. \A i \in 1 .. e : s[i] \in TagLine
  BY <1>3, <1>4, <1>6
<1>8. s \in Seq(TagLine)
  <2>1. s = [i \in 1 .. e |-> s[i]]
    BY <1>6
  <2>2. QED
    BY <1>7, <2>1
<1>9. Seen = s
  BY <1>4, <1>5 DEF Seen
<1>10. QED
  BY <1>1, <1>4, <1>6, <1>8, <1>9

\* The least of some numbers and e is below c only if one of them is.
LEMMA FirstEnd ==
    ASSUME NEW c \in Nat, NEW D, D \subseteq Nat
    PROVE  Min(D \cup {c + 1}) < c <=> \E p \in D : p < c
<1> DEFINE U == D \cup {c + 1}
<1>1. U \subseteq Nat /\ c + 1 \in U /\ U # {}
  OBVIOUS
<1>2. \E x \in U : \A y \in U : x <= y
  <2> HIDE DEF U
  <2>1. QED
    BY <1>1, LeastNumber
<1>3. PICK m : m = Min(U)
  OBVIOUS
<1>4. m \in U /\ \A y \in U : m <= y
  <2> HIDE DEF U
  <2>1. QED
    BY <1>2, <1>3 DEF Min
<1>5. QED
  BY <1>1, <1>3, <1>4

\* What holds while export runs.
Exporting(s, n, c, d, ends, w) ==
    /\ c <= Len(txt) /\ SeenUpTo(tags, n, d) /\ EndsLeft(ends, s, d) /\ Wrote(w, txt, s, c, d)

LEMMA exportTypes ==
    ASSUME TypeInv, command = "export", args = "ok", pc # "shell"
    PROVE  so[1] \in Seq(Line) /\ txt \in Seq(Nat) /\ Len(txt) \in Nat /\ charCount \in Nat
<1>1. so \in Seq(Seq(Line)) /\ Reads(command) <= Len(so) /\ txt \in Seq(Nat)
  BY DEF TypeInv, SessionInv
<1>2. Len(so) \in Nat /\ 1 <= Len(so)
  BY <1>1, LenProperties DEF Reads
<1>3. so[1] \in Seq(Line)
  BY <1>1, <1>2, ElementOfSeq
<1>4. QED
  BY <1>1, <1>3, LenProperties DEF TypeInv, XmlInv

\* A pass that does not stop leaves the output, the end tags and the tags seen in step.
LEMMA PassKeeps ==
    ASSUME TypeInv, command = "export", args = "ok", pc = "export", ExportInv,
           ~ Min(DOMAIN endTagList \cup {charCount + 1}) < charCount,
           NEW v, v = outXml \o EmptyTokens(EmptyNow) \o EndsAt(endTagList, charCount) \o RestTokens(RestNow),
           NEW more, more = EndsAfter(endTagList, charCount, OpenOf(RestNow)),
           NEW z, z = SubSeq(tags, 1, tag + Len(HereNow) - 1)
    PROVE  /\ v \in Seq(Token)
           /\ Exporting(z, tag + Len(HereNow), charCount, charCount + 1, more, v)
           /\ charCount \notin DOMAIN more
<1>1. PICK c, s, here : c = charCount /\ s = Seen /\ here = HereNow
  OBVIOUS
<1>2. so[1] \in Seq(Line) /\ txt \in Seq(Nat) /\ c \in Nat
  BY <1>1, exportTypes
<1>3. outXml \in Seq(Token) /\ DOMAIN endTagList \subseteq Nat
      /\ \A p \in DOMAIN endTagList : endTagList[p] \in Seq(Names)
  BY DEF TypeInv, OutInv, XmlInv
<1>4. /\ c <= Len(txt) /\ SeenUpTo(tags, tag, c) /\ EndsLeft(endTagList, s, c)
      /\ Wrote(outXml, txt, s, c, c)
  BY <1>1 DEF ExportInv, Passed
<1>5. /\ Parts(HereNow, EmptyNow, RestNow)
      /\ EmptyTokens(EmptyNow) \in Seq(Token) /\ RestTokens(RestNow) \in Seq(Token)
  BY <1>1, <1>2, <1>4, PassParts
<1>6. /\ HereNow \in Seq(TagLine) /\ AllAt(HereNow, c)
      /\ SeenUpTo(tags, tag + Len(HereNow), c + 1)
      /\ SubSeq(tags, 1, tag + Len(HereNow) - 1) = SubSeq(tags, 1, tag - 1) \o HereNow
  BY <1>1, <1>2, <1>4, PassSeen
<1>7. s \in Seq(TagLine)
  BY <1>1, <1>2, <1>4, SeenAre
<1>8. z = s \o HereNow
  BY <1>1, <1>6 DEF Seen
<1>9. EndsFound(endTagList, s, c)
  <2>1. \A p \in DOMAIN endTagList : ~ (p < c)
    BY <1>1, <1>2, <1>3, FirstEnd
  <2>2. \A p \in DOMAIN endTagList : p \in Nat /\ p >= c /\ endTagList[p] \in Seq(Names)
    BY <1>2, <1>3, <2>1
  <2>3. QED
    BY <1>4, <2>2 DEF EndsFound
<1>10. EndsPassed(EndsAfter(endTagList, c, OpenOf(RestNow)), s \o HereNow, c)
  BY <1>2, <1>5, <1>6, <1>7, <1>9, PassEnds
<1>11. EndsPassed(more, z, c)
  BY <1>1, <1>8, <1>10
<1>12. /\ outXml \o EmptyTokens(EmptyNow) \o EndsAt(endTagList, c) \o RestTokens(RestNow) \in Seq(Token)
       /\ Wrote(outXml \o EmptyTokens(EmptyNow) \o EndsAt(endTagList, c) \o RestTokens(RestNow),
                txt, s \o HereNow, c, c + 1)
  BY <1>2, <1>3, <1>4, <1>5, <1>6, <1>7, <1>9, PassOutput
<1>13. v \in Seq(Token) /\ Wrote(v, txt, z, c, c + 1)
  BY <1>1, <1>8, <1>12
<1>14. QED
  BY <1>1, <1>4, <1>6, <1>11, <1>13 DEF EndsPassed, Exporting

LEMMA writeSemiXMLExport ==
    ASSUME TypeInv, ExportInv, writeSemiXML, UNCHANGED args, args = "ok"
    PROVE  ExportInv'
<1>1. pc = "export" /\ command = "export" /\ UNCHANGED <<command, so, txt>>
  BY DEF writeSemiXML, TypeInv, PhaseInv, inputs
<1>2. so[1] \in Seq(Line) /\ txt \in Seq(Nat) /\ Len(txt) \in Nat /\ charCount \in Nat
  BY <1>1, exportTypes
<1>3. tags' = tags /\ Accepted' = Accepted
  BY <1>1 DEF tags, Accepted
<1>4. /\ charCount <= Len(txt) /\ SeenUpTo(tags, tag, charCount) /\ EndsLeft(endTagList, Seen, charCount)
  BY <1>1 DEF ExportInv, Passed
<1>5. CASE PassRefused(HereNow)
  <2>1. ~ Accepted
    <3>1. SUFFICES ASSUME Accepted PROVE FALSE
      OBVIOUS
    <3>2. \A i \in 1 .. Len(tags) : tags[i] # Bad /\ ~ Backward(tags[i])
      BY <1>2, <3>1, NotAccepted
    <3>3. CASE Min(DOMAIN endTagList \cup {charCount + 1}) < charCount
      <4>1. DOMAIN endTagList \subseteq Nat
        BY DEF TypeInv, XmlInv
      <4>2. \E p \in DOMAIN endTagList : p < charCount
        BY <1>2, <3>3, <4>1, FirstEnd
      <4>3. \E i \in 1 .. Len(Seen) : Backward(Seen[i])
        BY <1>4, <4>2 DEF EndsLeft
      <4>4. \A i \in 1 .. Len(Seen) : i \in 1 .. Len(tags) /\ Seen[i] = tags[i]
        BY <1>2, <1>4, SeenAre
      <4>5. QED
        BY <3>2, <4>3, <4>4
    <3>4. CASE tag + Len(HereNow) <= Len(tags) /\ tags[tag + Len(HereNow)] = Bad
      <4>1. PICK m : m = tag + Len(HereNow)
        OBVIOUS
      <4>2. SeenUpTo(tags, m, charCount + 1)
        BY <1>2, <1>4, <4>1, PassSeen
      <4>3. m \in 1 .. Len(tags)
        BY <1>2, <3>4, <4>1, <4>2, tagsAre DEF SeenUpTo
      <4>4. QED
        BY <3>2, <3>4, <4>1, <4>3
    <3>5. QED
      BY <1>5, <3>3, <3>4 DEF PassRefused
  <2>2. pc' = "error"
    BY <1>5 DEF PassRefused
  <2>3. QED
    BY <1>3, <2>1, <2>2 DEF ExportInv
<1>6. ASSUME ~ Min(DOMAIN endTagList \cup {charCount + 1}) < charCount, tag' = tag + Len(HereNow),
             PassDone(outXml \o EmptyTokens(EmptyNow) \o EndsAt(endTagList, charCount) \o RestTokens(RestNow),
                      EndsAfter(endTagList, charCount, OpenOf(RestNow)))
      PROVE  ExportInv'
  <2>1. PICK v, more, z :
          /\ v = outXml \o EmptyTokens(EmptyNow) \o EndsAt(endTagList, charCount) \o RestTokens(RestNow)
          /\ more = EndsAfter(endTagList, charCount, OpenOf(RestNow))
          /\ z = SubSeq(tags, 1, tag + Len(HereNow) - 1)
    OBVIOUS
  <2>2. PICK c : c = charCount
    OBVIOUS
  <2>3. v \in Seq(Token) /\ Exporting(z, tag', c, c + 1, more, v) /\ c \notin DOMAIN more
    BY <1>1, <1>6, <2>1, <2>2, PassKeeps
  <2>4. PassDone(v, more)
    BY <1>6, <2>1
  <2>5. Seen' = z
    <3>1. Seen' = SubSeq(tags', 1, tag' - 1)
      BY DEF Seen
    <3>2. tag' = tag + Len(HereNow)
      BY <1>6
    <3>3. z = SubSeq(tags, 1, tag + Len(HereNow) - 1)
      BY <2>1
    <3>4. tag \in Nat /\ Len(HereNow) \in Nat
      <4>1. HereNow \in Seq(TagLine)
        BY <1>2, <1>4, PassSeen
      <4>2. QED
        BY <4>1, LenProperties DEF TypeInv, XmlInv, Positions
    <3>5. tag + Len(HereNow) - 1 = tag' - 1
      BY <3>2, <3>4
    <3>6. z = SubSeq(tags, 1, tag' - 1)
      BY <3>3, <3>5, Zenon
    <3>7. QED
      BY <1>3, <3>1, <3>6, Zenon
  <2>6. endTagList' = more
    BY <2>4 DEF PassDone
  <2>7. CASE c < Len(txt)
    <3>1. /\ charCount' = c + 1 /\ pc' = "export"
          /\ outXml' = v \o <<writeCharWithEscaping(txt[c + 1])>>
      BY <1>1, <2>2, <2>4, <2>7 DEF PassDone
    <3>2. Wrote(v, txt, z, c, c + 1)
      BY <2>3 DEF Exporting
    <3>3. Wrote(v \o <<writeCharWithEscaping(txt[c + 1])>>, txt, z, c + 1, c + 1)
      BY <1>2, <2>2, <2>3, <2>7, <3>2, PassChar
    <3>4. Wrote(outXml', txt, z, c + 1, c + 1)
      BY <3>1, <3>3
    <3>5. c + 1 <= Len(txt)
      BY <1>2, <2>2, <2>7
    <3>6. Passed' = c + 1
      BY <3>1 DEF Passed
    <3>7. SeenUpTo(tags, tag', c + 1) /\ EndsLeft(more, z, c + 1)
      BY <2>3 DEF Exporting
    <3>8. QED
      BY <1>1, <1>3, <2>5, <2>6, <3>1, <3>4, <3>5, <3>6, <3>7 DEF ExportInv
  <2>8. CASE ~ (c < Len(txt))
    <3>1. charCount' = c /\ pc' = "exportEnd" /\ outXml' = v \o << >>
      BY <1>1, <2>2, <2>4, <2>8 DEF PassDone
    <3>2. outXml' = v
      BY <2>3, <3>1, ConcatEmptySeq
    <3>3. Passed' = c + 1 /\ c = Len(txt)
      BY <1>2, <1>4, <2>2, <2>8, <3>1 DEF Passed
    <3>4. SeenUpTo(tags, tag', c + 1) /\ EndsLeft(more, z, c + 1) /\ Wrote(v, txt, z, c, c + 1)
      BY <2>3 DEF Exporting
    <3>5. QED
      BY <1>1, <1>2, <1>3, <2>3, <2>5, <2>6, <3>1, <3>2, <3>3, <3>4 DEF ExportInv
  <2>9. QED
    BY <2>7, <2>8
<1>7. QED
  BY <1>5, <1>6, writeSemiXMLIs

\* writeRest accepts the file, or has a reason not to.
LEMMA writeRestExport ==
    ASSUME TypeInv, ExportInv, writeRest, UNCHANGED args, args = "ok"
    PROVE  ExportInv'
<1>1. pc = "exportEnd" /\ command = "export" /\ UNCHANGED <<command, so, txt>>
  BY DEF writeRest, TypeInv, PhaseInv, inputs
<1>2. so[1] \in Seq(Line) /\ Len(txt) \in Nat
  BY <1>1, exportTypes
<1>3. tags' = tags /\ Accepted' = Accepted
  BY <1>1 DEF tags, Accepted
<1>4. PICK c, s, N : c = charCount /\ s = Seen /\ N = Len(tags)
  OBVIOUS
<1>5. /\ c = Len(txt) /\ c \in Nat /\ c \notin DOMAIN endTagList
      /\ SeenUpTo(tags, tag, c + 1) /\ EndsLeft(endTagList, s, c + 1)
      /\ Wrote(outXml, txt, s, c, c + 1)
  BY <1>1, <1>2, <1>4 DEF ExportInv, Passed
<1>6. /\ s \in Seq(TagLine) /\ Len(s) = tag - 1
      /\ \A i \in 1 .. Len(s) : i \in 1 .. N /\ s[i] = tags[i]
  BY <1>2, <1>4, <1>5, SeenAre
<1>7. N \in Nat /\ tag \in 1 .. N + 1
  BY <1>2, <1>4, <1>5, tagsAre DEF SeenUpTo
<1>8. DOMAIN endTagList \subseteq Nat
  BY DEF TypeInv, XmlInv
<1>9. CASE tag <= N
  <2>1. SUFFICES ASSUME Accepted PROVE FALSE
    BY <1>1, <1>3, <1>4, <1>9 DEF writeRest, ExportInv
  <2>2. \A i \in 1 .. N : tags[i] \in TagLine /\ tags[i] # Bad
    BY <1>2, <1>4, <2>1, NotAccepted
  <2>3. tag \in 1 .. N /\ tags[tag] \in TagLine /\ tags[tag] # Bad
    BY <1>7, <1>9, <2>2
  <2>4. tags[tag].first \in Nat /\ tags[tag].second \in Nat
    BY <2>3 DEF TagLine
  <2>5. tags[tag].first <= tags[tag].second /\ tags[tag].second <= c
    BY <1>4, <1>5, <2>1, <2>3 DEF Accepted
  <2>6. PICK i \in 1 .. tag - 1 : tags[tag].first < tags[i].first
    BY <1>4, <1>5, <1>9, <2>3, <2>4, <2>5 DEF SeenUpTo
  <2>7. i \in 1 .. tag /\ i \in 1 .. N
    BY <1>7, <1>9
  <2>8. tags[i].first <= tags[tag].first /\ tags[i].first \in Nat
    BY <1>4, <2>1, <2>2, <2>3, <2>7 DEF Accepted, TagLine
  <2>9. QED
    BY <2>4, <2>6, <2>8
<1>10. CASE ~ (tag <= N) /\ ~ DOMAIN endTagList \subseteq {c}
  <2>1. SUFFICES ASSUME Accepted PROVE FALSE
    BY <1>1, <1>3, <1>4, <1>10 DEF writeRest, ExportInv
  <2>2. \A i \in 1 .. N : tags[i] \in TagLine /\ ~ Backward(tags[i]) /\ tags[i].second <= c
    BY <1>2, <1>4, <1>5, <2>1, NotAccepted DEF Accepted
  <2>3. PICK p \in DOMAIN endTagList : p # c /\ p \in Nat
    BY <1>8, <1>10
  <2>4. CASE p < c + 1
    <3>1. \E i \in 1 .. Len(s) : Backward(s[i])
      BY <1>5, <2>3, <2>4 DEF EndsLeft
    <3>2. QED
      BY <1>6, <2>2, <3>1
  <2>5. CASE p >= c + 1
    <3>1. PICK i \in 1 .. Len(s) : s[i].second = p
      BY <1>5, <2>3, <2>5 DEF EndsLeft
    <3>2. QED
      BY <1>5, <1>6, <2>2, <2>3, <2>5, <3>1
  <2>6. QED
    BY <1>5, <2>3, <2>4, <2>5
<1>11. CASE ~ (tag <= N) /\ DOMAIN endTagList \subseteq {c}
  <2>1. DOMAIN endTagList = {}
    BY <1>5, <1>11
  <2>2. pc' = "ok" /\ outXml' = outXml
    <3>1. outXml \in Seq(Token)
      BY DEF TypeInv, OutInv
    <3>2. pc' = "ok" /\ outXml' = outXml \o << >>
      BY <1>4, <1>5, <1>11 DEF writeRest
    <3>3. QED
      BY <3>1, <3>2, ConcatEmptySeq
  <2>3. tag - 1 = N
    BY <1>7, <1>11
  <2>4. s = tags
    <3>1. tags \in Seq(Line \ {Blank})
      BY <1>2, tagsAre
    <3>2. QED
      BY <1>4, <1>6, <1>7, <2>3, <3>1, SeqEqual
  <2>5. \A i \in 1 .. N : /\ tags[i] \in TagLine /\ tags[i].first < c + 1
                          /\ \A j \in 1 .. i : tags[j].first <= tags[i].first
    BY <1>5, <2>3 DEF SeenUpTo
  <2>6. \A i \in 1 .. N : ~ Backward(tags[i])
    BY <1>4, <1>5, <2>1, <2>4 DEF EndsLeft
  <2>7. \A i \in 1 .. N : tags[i].first \in Nat /\ tags[i].second \in Nat
    BY <2>5 DEF TagLine
  <2>8. ASSUME NEW i \in 1 .. N PROVE tags[i].first <= tags[i].second /\ tags[i].second <= c
    <3>1. tags[i].first <= tags[i].second
      BY <2>6, <2>7 DEF Backward
    <3>2. PICK p : p = tags[i].second /\ p \in Nat
      BY <2>7
    <3>3. p >= c + 1 => p \in DOMAIN endTagList
      BY <1>4, <1>5, <2>4, <3>2 DEF EndsLeft
    <3>4. QED
      BY <1>5, <2>1, <3>1, <3>2, <3>3
  <2>9. Clean(so[1])
    <3>1. \A i \in 1 .. N : tags[i] # Bad
      BY <2>5, StandOffAssumption DEF TagLine
    <3>2. QED
      BY <1>2, <1>4, <3>1, tagsAre
  <2>10. Accepted
    BY <1>4, <1>5, <2>5, <2>8, <2>9 DEF Accepted
  <2>11. Wrote(outXml', txt, tags, Len(txt), Len(txt) + 1)
    BY <1>5, <2>2, <2>4
  <2>12. QED
    BY <1>1, <1>3, <2>2, <2>10, <2>11 DEF ExportInv
<1>12. QED
  BY <1>9, <1>10, <1>11

\* Nothing is written yet.
LEMMA NothingWrote ==
    ASSUME NEW text
    PROVE  Wrote(<< >>, text, << >>, 0, 0)
<1>1. PICK w : w = << >> /\ Len(w) = 0 /\ w \in Seq(Token)
  BY EmptySeq
<1>2. PICK s : s = << >> /\ Len(s) = 0 /\ s \in Seq(TagLine)
  BY EmptySeq
<1>3. Letters(w) = Escaped(text, 0)
  <2>1. PICK S : S = {t \in Range(w) : IsTag(t)}
    OBVIOUS
  <2>2. Without(w, S) = Kept(w, S)[0] /\ Kept(w, S)[0] = << >>
    BY <1>1, KeptProperties
  <2>3. Letters(w) = << >>
    BY <2>1, <2>2 DEF Letters
  <2>4. Escaped(text, 0) = << >>
    BY DEF Escaped
  <2>5. QED
    BY <2>3, <2>4
<1>4. CharsBefore(w, Len(w)) = 0
  <2>1. {j \in 1 .. 0 : ~ IsTag(w[j])} = {}
    OBVIOUS
  <2>2. QED
    BY <1>1, <2>1, FS_EmptySet DEF CharsBefore
<1>5. ASSUME NEW e, NEW p PROVE TokensIn(w, e, p) = 0
  <2>1. {i \in 1 .. Len(w) : w[i] = e /\ CharsBefore(w, i) = p} = {}
    BY <1>1
  <2>2. QED
    BY <2>1, FS_EmptySet DEF TokensIn
<1>6. ASSUME NEW Q PROVE Number(s, Q) = 0
  <2>1. \A i \in 1 .. Len(s) : s[i] \notin Q
    BY <1>2
  <2>2. QED
    BY <1>2, <2>1, NumberIs
<1>7. Wrote(w, text, s, 0, 0)
  BY <1>3, <1>4, <1>5, <1>6 DEF Wrote
<1>8. QED
  BY <1>1, <1>2, <1>7

LEMMA mainExport ==
    ASSUME TypeInv, TypeInv', main
    PROVE  ExportInv'
<1>1. /\ command' = Head(script) /\ pc' = exec(Head(script))
      /\ outXml' = << >> /\ UNCHANGED <<so, txt, args>>
      /\ charCount' = 0 /\ tag' = 1 /\ endTagList' = [p \in {} |-> << >>]
  BY DEF main, XmlReset
<1>2. SUFFICES ASSUME command' = "export", args = "ok" PROVE ExportInv'
  BY <1>1 DEF ExportInv
<1>3. pc' = "export"
  BY <1>1, <1>2 DEF exec, Entry, MergeCommands, ClipCommands, XmlCommands
<1>4. (so[1] \in Seq(Line))' /\ (Len(txt) \in Nat)'
  <2>1. (TypeInv /\ command = "export" /\ args = "ok" /\ pc # "shell"
          => so[1] \in Seq(Line) /\ Len(txt) \in Nat)'
    BY exportTypes, PTL
  <2>2. QED
    BY <1>1, <1>2, <1>3, <2>1
<1>5. so[1] \in Seq(Line) /\ Len(txt) \in Nat /\ tags' = tags
  BY <1>1, <1>4 DEF tags
<1>6. SeenUpTo(tags, 1, 0)
  <2>1. ASSUME 1 <= Len(tags), tags[1] # Bad PROVE ~ tags[1].first < 0
    <3>1. tags[1] \in TagLine
      BY <1>5, <2>1, tagsAre
    <3>2. QED
      BY <3>1 DEF TagLine
  <2>2. Len(tags) \in Nat
    BY <1>5, tagsAre
  <2>3. QED
    BY <2>1, <2>2 DEF SeenUpTo
<1>7. SubSeq(tags, 1, 0) = << >>
  BY <1>5, tagsAre, SubSeqProperties
<1>8. EndsLeft([p \in {} |-> << >>], << >>, 0)
  BY DEF EndsLeft
<1>9. Wrote(<< >>, txt, << >>, 0, 0)
  BY NothingWrote
<1>10. Seen' = << >> /\ Passed' = 0
  BY <1>1, <1>3, <1>5, <1>7 DEF Seen, Passed
<1>11. QED
  BY <1>1, <1>3, <1>5, <1>6, <1>8, <1>9, <1>10 DEF ExportInv

\* The steps that matter to export.
LEMMA ExportKinds ==
    ASSUME TypeInv, [Next]_somVars
    PROVE  \/ main \/ andThen \/ UNCHANGED somVars
           \/ (writeSemiXML \/ writeRest) /\ UNCHANGED args
           \/ command' # "export"
<1>1. CASE main \/ andThen \/ UNCHANGED somVars
  BY <1>1
<1>2. CASE ended
  BY <1>2 DEF ended
<1>3. CASE MergeNext /\ UNCHANGED <<clipVars, xmlVars, script, ran, args>>
  <2>1. /\ UNCHANGED command
        /\ pc \in {"read", "merge", "sort", "write", "init", "merge2"}
    BY <1>3 DEF MergeNext, readData, mergeTags, sort, writeData, initSeq, mergeQueue, mergeRest, inputs
  <2>2. QED
    BY <2>1 DEF TypeInv, PhaseInv
<1>4. CASE ClipNext /\ UNCHANGED <<mergeVars, xmlVars, script, ran, args>>
  <2>1. pc \in {"clip", "container", "embedded"} /\ UNCHANGED command
    BY <1>4 DEF ClipNext, clipData, setClippingSpan, map, clipRest, inputs
  <2>2. QED
    BY <2>1 DEF TypeInv, PhaseInv
<1>5. CASE XmlNext /\ UNCHANGED <<mergeVars, clipVars, script, ran, args>>
  <2>1. CASE writeSemiXML \/ writeRest
    BY <1>5, <2>1
  <2>2. CASE seekRoot \/ readText \/ readTag \/ readTail
    <3>1. pc = "import" /\ UNCHANGED command
      BY <2>2 DEF seekRoot, readText, readTag, readTail, inputs
    <3>2. QED
      BY <3>1 DEF TypeInv, PhaseInv
  <2>3. QED
    BY <1>5, <2>1, <2>2 DEF XmlNext
<1>6. QED
  BY <1>1, <1>2, <1>3, <1>4, <1>5 DEF Next

LEMMA ExportStep ==
    ASSUME TypeInv, TypeInv', ExportInv, [Next]_somVars
    PROVE  ExportInv'
<1>1. CASE UNCHANGED somVars
  <2>1. /\ UNCHANGED <<command, args, pc, so, txt, outXml, charCount, tag, endTagList>>
    BY <1>1 DEF somVars, xmlVars
  <2>2. tags' = tags
    BY <2>1 DEF tags
  <2>3. Seen' = Seen /\ Passed' = Passed /\ Accepted' = Accepted
    BY <2>1, <2>2 DEF Seen, Passed, Accepted
  <2>4. QED
    BY <2>1, <2>2, <2>3 DEF ExportInv
<1>2. CASE main
  BY <1>2, mainExport
<1>3. CASE andThen
  <2>1. pc' = "shell"
    BY <1>3 DEF andThen
  <2>2. QED
    BY <2>1 DEF ExportInv
<1>4. CASE command' # "export"
  BY <1>4 DEF ExportInv
<1>5. CASE (writeSemiXML \/ writeRest) /\ UNCHANGED args
  <2>1. CASE args = "ok"
    BY <1>5, <2>1, writeSemiXMLExport, writeRestExport
  <2>2. CASE args # "ok"
    BY <1>5, <2>2 DEF ExportInv
  <2>3. QED
    BY <2>1, <2>2
<1>6. QED
  BY <1>1, <1>2, <1>3, <1>4, <1>5, ExportKinds

LEMMA InitExport == Init => ExportInv
  BY DEF Init, ExportInv

LEMMA ExportInvariant == Spec => []ExportInv
  BY InitExport, ExportStep, TypesInvariant, PTL DEF Spec

LEMMA ExportSuffices == TypeInv /\ ExportInv => ExportRight
<1> SUFFICES ASSUME TypeInv, ExportInv, command = "export", args = "ok", pc \in {"ok", "error"}
             PROVE  ExportRight
  BY DEF ExportRight
<1>1. so[1] \in Seq(Line) /\ Len(txt) \in Nat
  BY exportTypes
<1>2. pc = "ok" <=> Accepted
  BY DEF ExportInv
<1>3. ASSUME pc = "ok"
      PROVE  /\ Without(outXml, {t \in Range(outXml) : IsTag(t)})
                  = [i \in 1 .. Len(txt) |-> writeCharWithEscaping(txt[i])]
             /\ \A n \in Names, p \in 0 .. Len(txt) :
                  /\ TokensAt(Start(n), p) = TagsWith(LAMBDA t :
                        t.name = n /\ t.first = p /\ ~ isEmptyTag(t))
                  /\ TokensAt(End(n), p) = TagsWith(LAMBDA t :
                        t.name = n /\ t.second = p /\ ~ isEmptyTag(t))
                  /\ TokensAt(Empty(n), p) = TagsWith(LAMBDA t :
                        t.name = n /\ t.first = p /\ isEmptyTag(t))
  <2>1. Wrote(outXml, txt, tags, Len(txt), Len(txt) + 1)
    BY <1>3 DEF ExportInv
  <2>2. \A i \in 1 .. Len(tags) : tags[i] \in TagLine /\ ~ Backward(tags[i])
    BY <1>1, <1>2, <1>3, NotAccepted
  <2>3. Without(outXml, {t \in Range(outXml) : IsTag(t)})
          = [i \in 1 .. Len(txt) |-> writeCharWithEscaping(txt[i])]
    BY <2>1 DEF Wrote, Letters, Escaped
  <2>4. \A e, p : TokensAt(e, p) = TokensIn(outXml, e, p)
    BY DEF TokensAt, TokensIn, Offset, CharsBefore
  <2>5. ASSUME NEW n \in Names, NEW p \in 0 .. Len(txt)
        PROVE  /\ TokensAt(Start(n), p) = TagsWith(LAMBDA t :
                     t.name = n /\ t.first = p /\ ~ isEmptyTag(t))
               /\ TokensAt(End(n), p) = TagsWith(LAMBDA t :
                     t.name = n /\ t.second = p /\ ~ isEmptyTag(t))
               /\ TokensAt(Empty(n), p) = TagsWith(LAMBDA t :
                     t.name = n /\ t.first = p /\ isEmptyTag(t))
    <3>1. p \in Nat /\ p < Len(txt) + 1
      BY <1>1
    <3>2. /\ TokensAt(Start(n), p) = Number(tags, Opening(n, p))
          /\ TokensAt(End(n), p) = Number(tags, Closing(n, p))
          /\ TokensAt(Empty(n), p) = Number(tags, Standing(n, p))
      BY <2>1, <2>2, <2>4, <3>1 DEF Wrote
    <3>3. /\ {i \in 1 .. Len(tags) : tags[i] \in Opening(n, p)}
               = {i \in 1 .. Len(tags) : tags[i].name = n /\ tags[i].first = p /\ ~ isEmptyTag(tags[i])}
          /\ {i \in 1 .. Len(tags) : tags[i] \in Closing(n, p)}
               = {i \in 1 .. Len(tags) : tags[i].name = n /\ tags[i].second = p /\ ~ isEmptyTag(tags[i])}
          /\ {i \in 1 .. Len(tags) : tags[i] \in Standing(n, p)}
               = {i \in 1 .. Len(tags) : tags[i].name = n /\ tags[i].first = p /\ isEmptyTag(tags[i])}
      BY <2>2 DEF Opening, Closing, Standing
    <3>4. QED
      BY <3>2, <3>3 DEF TagsWith, Number
  <2>6. QED
    BY <2>3, <2>5
<1>4. pc = "ok" <=>
         /\ Clean(so[1])
         /\ \A i \in 1 .. Len(tags) :
              /\ tags[i].first <= tags[i].second /\ tags[i].second <= Len(txt)
              /\ \A j \in 1 .. i : tags[j].first <= tags[i].first
  BY <1>2 DEF Accepted
<1>5. QED
  BY <1>3, <1>4 DEF ExportRight

\* For every text and stand-off file: export ends well exactly when no line is bad and
\* the tags lie in the text, sorted by where they begin; then the output is the text
\* with every tag opened, closed or standing at its positions, as often as the file
\* has it and nowhere else.
THEOREM ExportIsRight == Spec => []ExportRight
  BY TypesInvariant, ExportInvariant, ExportSuffices, PTL
=============================================================================
