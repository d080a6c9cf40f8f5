-------------------------- MODULE Broadcast_proofs --------------------------
(***************************************************************************)
(* One search on the master server, for any number of search servers, any   *)
(* lists of pages and any way in which the servers answer, refuse or die:   *)
(* the loop that reads the replies ends with all that came, and the merge of *)
(* the lists gives every page once, by score.                                *)
(*                                                                           *)
(* The inductive invariant follows a search through its phases.  NetInv and   *)
(* PhaseInv say which sockets are open, read and counted; ReadInv what        *)
(* has been read of the reply that is being read; EndedInv what the replies   *)
(* that were read to their end have left in results and total_hitcount, and   *)
(* why nothing that comes later changes it; ListsInv that the lists are       *)
(* sorted and share no page; MergeInv how the answer and what is left of the  *)
(* lists make up what came.                                                  *)
(***************************************************************************)
EXTENDS Broadcast, FiniteSetTheorems, WellFoundedInduction, TLAPS

Reached == {s \in Servers : conn[s] \notin {"none", "refused"}}
Ended == Reached \ selecter
Receiving == pc \in {"send", "select", "read"}

NetInv ==
    /\ found \in Finds /\ opt \in Options
    /\ conn \in [Servers -> {"none", "refused", "open", "leaked", "closed"}]
    /\ sent \in [Servers -> Nat]
    /\ \A s \in Servers : sent[s] <= Len(Lines(s))
    /\ \A s \in Servers : conn[s] \in {"none", "refused"} => sent[s] = 0
    /\ hosts \subseteq Servers
    /\ \A s \in Servers : s \in hosts <=> conn[s] = "none"
    /\ selecter \subseteq Reached /\ readable \subseteq selecter
    /\ num_of_sockets = Cardinality(selecter)

PhaseInv ==
    /\ pc \in {"send", "select", "read", "merge", "done"}
    /\ pc # "send" => hosts = {}
    /\ pc = "send" => selecter = Reached
    /\ pc # "read" => readable = {} /\ reading = Idle
    /\ pc \in {"merge", "done"} => selecter = {}
    /\ Receiving => merged_result = << >> /\ url2pos = << >> /\ prev = NoPrev

\* The lines that are pages, and those that were taken for pages.
ReadInv ==
    /\ reading.socket = NoServer => reading = Idle
    /\ reading.socket # NoServer =>
        LET s == reading.socket
            n == Len(Returned(s))
        IN  /\ s \in readable
            /\ reading = [socket |-> s, got |-> reading.got,
                          hitcount |-> reading.hitcount, docs |-> reading.docs]
            /\ reading.got \in Nat /\ reading.got <= sent[s] /\ reading.got <= n + 1
            /\ \A i \in 1 .. n : i <= reading.got => Returned(s)[i].line # "LEAVE"
            /\ reading.docs \in Seq(Pages)
            /\ \A p : p \in Range(reading.docs) <=>
                \E i \in 1 .. n : i <= reading.got /\ Returned(s)[i] = p /\ p.line = "doc"
            /\ reading.hitcount \in Nat
            /\ reading.got > n => reading.hitcount = Len(found[s])
            /\ reading.got <= n /\ (\A i \in 1 .. n : Returned(s)[i].line # "hitcount") =>
                 reading.hitcount = 0

\* Nothing of the reply that counts comes any more.
Settled(s) ==
    \/ conn[s] = "closed"
    \/ sent[s] = Len(Lines(s))
    \/ \E k \in 1 .. Len(Returned(s)) : k <= sent[s] /\ Returned(s)[k].line = "LEAVE"

\* No title of its pages spoils the hit count of the server.
Plain(s) ==
    \A i \in 1 .. Len(Returned(s)) :
        \/ Returned(s)[i].line \in {"doc", "other"}
        \/ Returned(s)[i].line = "hitcount" /\ sent[s] > Len(Returned(s))

Counted(S) == {s \in S : sent[s] > Len(Returned(s))}

EndedInv ==
    /\ \A s \in Ended : Settled(s)
    /\ total_hitcount \in Nat
    /\ Receiving =>
        /\ Len(results) = Cardinality(Ended)
        /\ \A p : p \in PagesIn(results) <=> \E s \in Ended : p \in Came(s)
        /\ (\A s \in Ended : Plain(s)) => total_hitcount = Cardinality(Hits(Counted(Ended)))

\* A list is sorted, its pages are all different; no two lists share one.
Sorted(list) ==
    \A i, k \in 1 .. Len(list) :
        i < k => list[i].score >= list[k].score /\ list[i].did # list[k].did
Apart(lists) ==
    \A i, k \in 1 .. Len(lists) : i # k =>
        \A a \in 1 .. Len(lists[i]), b \in 1 .. Len(lists[k]) :
            lists[i][a].did # lists[k][b].did
Proper(lists) ==
    /\ lists \in Seq(Seq(Pages))
    /\ \A i \in 1 .. Len(lists) : Sorted(lists[i])
    /\ Apart(lists)

ListsInv == Proper(results) /\ (reading.socket # NoServer => Sorted(reading.docs))

Wanted == {p \in UNION {Came(s) : s \in Servers} : p.did \in opt.cluster}

MergeInv ==
    /\ merged_result \in Seq([page : Pages, similar_pages : Seq(Pages)])
    /\ \A i, j \in 1 .. Len(merged_result) :
         i < j => merged_result[i].page.score >= merged_result[j].page.score
    /\ \A p \in Taken, q \in PagesIn(results) : p.score >= q.score /\ p.did # q.did
    /\ ~ Receiving => Taken \cup PagesIn(results) = Wanted
    /\ \A i \in 1 .. Len(merged_result) :
         /\ IsInjective(merged_result[i].similar_pages)
         /\ merged_result[i].page \notin Range(merged_result[i].similar_pages)
    /\ \A i, j \in 1 .. Len(merged_result) : i # j => PagesAt(i) \cap PagesAt(j) = {}
    /\ Len(merged_result) <= size
    /\ pc = "done" /\ total_hitcount > 0 => Len(merged_result) = size \/ Nonempty = {}
    /\ opt.filter_simpages =>
         /\ \A i \in 1 .. Len(merged_result) : \A p \in PagesAt(i) :
              p.url \in DOMAIN url2pos /\ url2pos[p.url] = i
         /\ \A u \in DOMAIN url2pos : url2pos[u] \in 1 .. Len(merged_result)
         /\ prev # NoPrev => merged_result # << >>

IInv == NetInv /\ PhaseInv /\ ReadInv /\ EndedInv /\ ListsInv /\ MergeInv

-----------------------------------------------------------------------------
(* Numbers, pages and lines. *)

\* A nonempty set of natural numbers has a least one: what induction is for here.
LEMMA LeastNumber ==
    ASSUME NEW T, T \subseteq Nat, T # {}
    PROVE  \E x \in T : \A y \in T : x <= y
<1> DEFINE R == {ss \in Nat \X Nat : ss[1] < ss[2]}
<1>1. IsWellFoundedOn(R, Nat)
  BY NatLessThanWellFounded DEF OpToRel
<1>2. \A x, y \in Nat : x < y => <<x, y>> \in R
  OBVIOUS
<1> HIDE DEF R
<1>3. PICK x \in T : \A y \in T : ~ (<<y, x>> \in R)
  BY <1>1, WFMin
<1>4. \A y \in T : ~ (y < x)
  BY <1>2, <1>3
<1>5. \A y \in T : x <= y
  BY <1>4
<1> QED BY <1>5

LEMMA PageFacts ==
    \A p \in Pages : /\ p.line \in {"doc", "hitcount", "LEAVE", "other"}
                     /\ p.did \in Int /\ p.score \in Int /\ p.n \in Nat
<1> QED BY PageAssumption

LEMMA FoundFacts ==
    ASSUME NEW f \in Finds, NEW s \in Servers
    PROVE  /\ f[s] \in Seq(Pages) /\ Len(f[s]) \in Nat
           /\ \A i \in 1 .. Len(f[s]) : f[s][i] \in Pages
           /\ \A i, k \in 1 .. Len(f[s]) :
                i < k => f[s][i].score >= f[s][k].score /\ f[s][i].did # f[s][k].did
           /\ \A t \in Servers : t # s =>
                \A i \in 1 .. Len(f[s]), k \in 1 .. Len(f[t]) : f[s][i].did # f[t][k].did
<1>1. f \in [Servers -> Seq(Pages)]
  BY PageAssumption
<1>2. f[s] \in Seq(Pages) /\ Len(f[s]) \in Nat /\ \A i \in 1 .. Len(f[s]) : f[s][i] \in Pages
  BY <1>1
<1>3. \A i, k \in 1 .. Len(f[s]) : i < k => f[s][i].score >= f[s][k].score
  BY PageAssumption
<1>4. \A t \in Servers : \A i \in 1 .. Len(f[s]), k \in 1 .. Len(f[t]) :
        f[s][i].did = f[t][k].did => s = t /\ i = k
  BY PageAssumption
<1>5. \A i, k \in 1 .. Len(f[s]) : i < k => f[s][i].did # f[s][k].did
  <2> SUFFICES ASSUME NEW i \in 1 .. Len(f[s]), NEW k \in 1 .. Len(f[s]), i < k,
                      f[s][i].did = f[s][k].did
               PROVE  FALSE
    OBVIOUS
  <2>1. i = k
    BY <1>4
  <2> QED BY <2>1, <1>2
<1>6. \A t \in Servers : t # s =>
        \A i \in 1 .. Len(f[s]), k \in 1 .. Len(f[t]) : f[s][i].did # f[t][k].did
  BY <1>4
<1> QED BY <1>2, <1>3, <1>5, <1>6

LEMMA ReturnedFacts ==
    ASSUME found \in Finds, NEW s \in Servers
    PROVE  /\ Returned(s) \in Seq(Pages) /\ Len(Returned(s)) \in Nat
           /\ Len(Returned(s)) <= Len(found[s])
           /\ \A i \in 1 .. Len(Returned(s)) :
                Returned(s)[i] = found[s][i] /\ Returned(s)[i] \in Pages
<1>1. found[s] \in Seq(Pages) /\ Len(found[s]) \in Nat
      /\ \A i \in 1 .. Len(found[s]) : found[s][i] \in Pages
  BY FoundFacts
<1> DEFINE m == Least(NUM_OF_RETURN_DOCUMENTS, Len(found[s]))
<1>2. m \in Nat /\ m <= Len(found[s])
  BY <1>1, ServersAssumption DEF Least
<1>3. Returned(s) = SubSeq(found[s], 1, m)
  BY DEF Returned
<1> HIDE DEF m
<1>4. /\ Len(Returned(s)) = m
      /\ \A i \in 1 .. m : Returned(s)[i] = found[s][i]
      /\ Returned(s) \in Seq(Pages)
  BY <1>1, <1>2, <1>3
<1>5. \A i \in 1 .. m : found[s][i] \in Pages
  BY <1>1, <1>2
<1> QED BY <1>2, <1>4, <1>5

LEMMA LinesFacts ==
    ASSUME found \in Finds, NEW s \in Servers
    PROVE  LET n == Len(Returned(s))
           IN  /\ Len(Lines(s)) = n + 2
               /\ \A i \in 1 .. n : Lines(s)[i] = Returned(s)[i]
               /\ Lines(s)[n + 1].line = "hitcount" /\ Lines(s)[n + 1].n = Len(found[s])
               /\ Lines(s)[n + 2].line = "LEAVE"
<1> DEFINE n == Len(Returned(s))
           a == [line |-> "hitcount", n |-> Len(found[s])]
           b == [line |-> "LEAVE"]
<1>1. Returned(s) \in Seq(Pages) /\ n \in Nat
  BY ReturnedFacts
<1>2. Lines(s) = Returned(s) \o <<a, b>>
  BY DEF Lines
<1>3. a.line = "hitcount" /\ a.n = Len(found[s]) /\ b.line = "LEAVE"
  OBVIOUS
<1>4. Returned(s) \in Seq(Pages \cup {a, b}) /\ <<a, b>> \in Seq(Pages \cup {a, b})
  BY <1>1
<1> HIDE DEF a, b
<1>5. /\ Len(Lines(s)) = n + 2
      /\ \A i \in 1 .. n : Lines(s)[i] = Returned(s)[i]
      /\ Lines(s)[n + 1] = a /\ Lines(s)[n + 2] = b
  BY <1>1, <1>2, <1>4
<1> QED BY <1>3, <1>5

LEMMA PagesInFacts ==
    ASSUME NEW lists \in Seq(Seq(Pages))
    PROVE  /\ \A p : p \in PagesIn(lists) <=>
                \E i \in 1 .. Len(lists) : \E k \in 1 .. Len(lists[i]) : lists[i][k] = p
           /\ PagesIn(lists) \subseteq Pages
           /\ \A i \in 1 .. Len(lists) : lists[i] \in Seq(Pages) /\ Len(lists[i]) \in Nat
<1>1. \A i \in 1 .. Len(lists) : lists[i] \in Seq(Pages) /\ Len(lists[i]) \in Nat
        /\ DOMAIN lists[i] = 1 .. Len(lists[i])
        /\ \A k \in 1 .. Len(lists[i]) : lists[i][k] \in Pages
  OBVIOUS
<1>2. \A p : p \in PagesIn(lists) <=> \E i \in 1 .. Len(lists) : p \in Range(lists[i])
  BY DEF PagesIn
<1>3. \A i \in 1 .. Len(lists) : \A p : p \in Range(lists[i]) <=>
        \E k \in 1 .. Len(lists[i]) : lists[i][k] = p
  BY <1>1 DEF Range
<1>4. \A p : p \in PagesIn(lists) <=>
        \E i \in 1 .. Len(lists) : \E k \in 1 .. Len(lists[i]) : lists[i][k] = p
  BY <1>2, <1>3
<1>5. ASSUME NEW p \in PagesIn(lists) PROVE p \in Pages
  <2>1. PICK i \in 1 .. Len(lists) : \E k \in 1 .. Len(lists[i]) : lists[i][k] = p
    BY <1>4
  <2>2. PICK k \in 1 .. Len(lists[i]) : lists[i][k] = p
    BY <2>1
  <2> QED BY <1>1, <2>2
<1> QED BY <1>1, <1>4, <1>5

-----------------------------------------------------------------------------
(* The loops of filterSearchResult. *)

\* A loop over a list of length N whose body adds at most one element: F[n] is what it
\* has built after n rounds.
Loop(F, N, Keep, Item) ==
    [n \in 0 .. N |->
       IF n = 0 THEN << >>
       ELSE IF n \in Keep THEN Append(F[n - 1], Item[n]) ELSE F[n - 1]]

LEMMA LoopExists ==
    ASSUME NEW N \in Nat, NEW Keep, NEW Item
    PROVE  \E F : F = Loop(F, N, Keep, Item)
<1> DEFINE Built(m, F) ==
             F = [n \in 0 .. m |->
                    IF n = 0 THEN << >>
                    ELSE IF n \in Keep THEN Append(F[n - 1], Item[n]) ELSE F[n - 1]]
           T == {m \in 0 .. N : ~ \E F : Built(m, F)}
<1>1. T = {}
  <2> SUFFICES ASSUME T # {} PROVE FALSE
    OBVIOUS
  <2>1. T \subseteq Nat
    OBVIOUS
  <2>2. PICK m \in T : \A y \in T : m <= y
    <3> HIDE DEF T
    <3> QED BY <2>1, LeastNumber
  <2>3. m \in 0 .. N /\ ~ \E F : Built(m, F)
    BY <2>2
  <2>4. CASE m = 0
    <3> DEFINE F == [n \in 0 .. 0 |-> << >>]
    <3>1. \A n \in 0 .. 0 : n = 0
      OBVIOUS
    <3>2. Built(0, F)
      BY <3>1
    <3> QED BY <2>3, <2>4, <3>2
  <2>5. CASE m # 0
    <3>1. m - 1 \in 0 .. N /\ m \in Nat
      BY <2>3, <2>5
    <3>2. m - 1 \notin T
      <4> HIDE DEF T
      <4> QED BY <2>2, <3>1
    <3>3. PICK G : Built(m - 1, G)
      BY <3>1, <3>2
    <3> DEFINE F == [n \in 0 .. m |->
                       IF n < m THEN G[n]
                       ELSE IF n \in Keep THEN Append(G[n - 1], Item[n]) ELSE G[n - 1]]
    <3>4. \A n \in 0 .. m - 1 : F[n] = G[n]
      BY <3>1
    <3>5. ASSUME NEW n \in 0 .. m
          PROVE  F[n] = IF n = 0 THEN << >>
                        ELSE IF n \in Keep THEN Append(F[n - 1], Item[n]) ELSE F[n - 1]
      <4>1. CASE n = m
        <5>1. m - 1 \in 0 .. m - 1
          BY <3>1, <2>5
        <5>2. F[n - 1] = G[n - 1] /\ ~ (n < m) /\ n # 0
          BY <3>1, <3>4, <4>1, <5>1, <2>5
        <5> QED BY <5>2
      <4>2. CASE n # m
        <5>1. n \in 0 .. m - 1 /\ (n # 0 => n - 1 \in 0 .. m - 1)
          BY <3>1, <4>2
        <5>2. G[n] = IF n = 0 THEN << >>
                     ELSE IF n \in Keep THEN Append(G[n - 1], Item[n]) ELSE G[n - 1]
          BY <3>3, <5>1
        <5>3. F[n] = G[n] /\ (n # 0 => F[n - 1] = G[n - 1])
          BY <3>4, <5>1
        <5> HIDE DEF F
        <5> QED BY <5>2, <5>3
      <4> QED BY <4>1, <4>2
    <3>6. DOMAIN F = 0 .. m /\ F = [n \in DOMAIN F |-> F[n]]
      OBVIOUS
    <3> HIDE DEF F
    <3>7. Built(m, F)
      BY <3>5, <3>6
    <3> QED BY <2>3, <3>7
  <2> QED BY <2>4, <2>5
<1>2. N \in 0 .. N
  OBVIOUS
<1>3. \E F : Built(N, F)
  BY <1>1, <1>2
<1> QED BY <1>3 DEF Loop

\* The list holds the items that are kept, in their order, each once: src gives the place
\* that each comes from.
Selects(list, Keep, Item) ==
    \E src : /\ \A i \in 1 .. Len(list) : src[i] \in Keep /\ list[i] = Item[src[i]]
             /\ \A i, k \in 1 .. Len(list) : i < k => src[i] < src[k]
             /\ \A n \in Keep : \E i \in 1 .. Len(list) : src[i] = n

LEMMA LoopResult ==
    ASSUME NEW N \in Nat, NEW S, NEW Keep \in SUBSET (1 .. N), NEW Item,
           \A n \in Keep : Item[n] \in S,
           NEW F, F = Loop(F, N, Keep, Item)
    PROVE  F[N] \in Seq(S) /\ Len(F[N]) \in Nat /\ Selects(F[N], Keep, Item)
<1> DEFINE From(src, m, n) ==
             /\ \A i \in 1 .. m : src[i] \in Keep /\ src[i] <= n /\ F[n][i] = Item[src[i]]
             /\ \A i, k \in 1 .. m : i < k => src[i] < src[k]
             /\ \A x \in Keep : x <= n => \E i \in 1 .. m : src[i] = x
           P(n) == F[n] \in Seq(S) /\ \E src : From(src, Len(F[n]), n)
           T == {n \in 0 .. N : ~ P(n)}
<1>1. F[0] = << >>
  <2>1. 0 \in 0 .. N
    OBVIOUS
  <2> QED BY <2>1 DEF Loop
<1>2. \A n \in 1 .. N : F[n] = IF n \in Keep THEN Append(F[n - 1], Item[n]) ELSE F[n - 1]
  <2>1. \A n \in 1 .. N : n \in 0 .. N /\ n # 0
    OBVIOUS
  <2> QED BY <2>1 DEF Loop
<1>3. P(0)
  <2>1. F[0] \in Seq(S) /\ Len(F[0]) = 0
    BY <1>1
  <2>2. From(<< >>, 0, 0)
    OBVIOUS
  <2> QED BY <2>1, <2>2
<1>4. ASSUME NEW n \in 1 .. N, P(n - 1) PROVE P(n)
  <2>0. \A x \in Keep : x \in Nat /\ (x <= n - 1 => x <= n /\ x < n)
    <3>1. \A x \in 1 .. N : x \in Nat /\ (x <= n - 1 => x <= n /\ x < n)
      OBVIOUS
    <3> QED BY <3>1
  <2> DEFINE m == Len(F[n - 1])
  <2>1. PICK src : From(src, m, n - 1)
    BY <1>4
  <2>2. F[n - 1] \in Seq(S) /\ m \in Nat
    BY <1>4
  <2>3. CASE n \notin Keep
    <3>1. F[n] = F[n - 1]
      BY <1>2, <2>3
    <3>2. \A x \in Keep : x <= n => x <= n - 1
      BY <2>3
    <3>3. From(src, m, n)
      <4>1. \A i \in 1 .. m : src[i] \in Keep /\ src[i] <= n - 1
        BY <2>1
      <4>2. \A i \in 1 .. m : src[i] \in Nat /\ src[i] <= n
        BY <2>0, <4>1
      <4> HIDE DEF m
      <4> QED BY <2>1, <3>1, <3>2, <4>2
    <3>4. From(src, Len(F[n]), n) /\ F[n] \in Seq(S)
      BY <2>2, <3>1, <3>3
    <3> HIDE DEF From
    <3> QED BY <3>4
  <2>4. CASE n \in Keep
    <3>1. F[n] = Append(F[n - 1], Item[n]) /\ Item[n] \in S
      BY <1>2, <2>4
    <3>2. /\ F[n] \in Seq(S) /\ Len(F[n]) = m + 1
          /\ \A i \in 1 .. m : F[n][i] = F[n - 1][i]
          /\ F[n][m + 1] = Item[n]
      BY <2>2, <3>1
    <3> DEFINE new == [i \in 1 .. m + 1 |-> IF i <= m THEN src[i] ELSE n]
    <3>3. (\A i \in 1 .. m : new[i] = src[i]) /\ new[m + 1] = n
      BY <2>2
    <3> HIDE DEF new, m
    <3>4. \A i \in 1 .. m + 1 : i \in 1 .. m \/ i = m + 1
      BY <2>2
    <3>5. \A i \in 1 .. m + 1 : new[i] \in Keep /\ new[i] <= n /\ F[n][i] = Item[new[i]]
      <4>a. \A i \in 1 .. m : src[i] \in Keep /\ src[i] <= n - 1
        BY <2>1
      <4>b. \A i \in 1 .. m : src[i] <= n
        BY <2>0, <4>a
      <4>1. \A i \in 1 .. m : new[i] \in Keep /\ new[i] <= n /\ F[n][i] = Item[new[i]]
        BY <2>1, <3>2, <3>3, <4>b
      <4> QED BY <4>1, <2>4, <3>2, <3>3, <3>4
    <3>6. \A i, k \in 1 .. m + 1 : i < k => new[i] < new[k]
      <4> SUFFICES ASSUME NEW i \in 1 .. m + 1, NEW k \in 1 .. m + 1, i < k
                   PROVE  new[i] < new[k]
        OBVIOUS
      <4>1. i \in 1 .. m
        BY <2>2
      <4>2. new[i] = src[i] /\ src[i] \in Keep /\ src[i] <= n - 1
        BY <2>1, <3>3, <4>1
      <4>3. CASE k \in 1 .. m
        BY <2>1, <3>3, <4>1, <4>3
      <4>4. CASE k = m + 1
        <5>1. src[i] < n
          BY <2>0, <4>2
        <5> QED BY <3>3, <4>2, <4>4, <5>1
      <4> QED BY <3>4, <4>3, <4>4
    <3>7. \A x \in Keep : x <= n => \E i \in 1 .. m + 1 : new[i] = x
      <4> SUFFICES ASSUME NEW x \in Keep, x <= n PROVE \E i \in 1 .. m + 1 : new[i] = x
        OBVIOUS
      <4>1. m + 1 \in 1 .. m + 1 /\ \A i \in 1 .. m : i \in 1 .. m + 1
        BY <2>2
      <4>2. CASE x = n
        BY <3>3, <4>1, <4>2
      <4>3. CASE x # n
        <5>1. x <= n - 1
          BY <4>3
        <5> QED BY <2>1, <3>3, <4>1, <5>1
      <4> QED BY <4>2, <4>3
    <3>8. From(new, m + 1, n)
      BY <3>5, <3>6, <3>7
    <3> QED BY <3>2, <3>8
  <2> QED BY <2>3, <2>4
<1>5. T = {}
  <2> SUFFICES ASSUME T # {} PROVE FALSE
    OBVIOUS
  <2> HIDE DEF P
  <2>1. T \subseteq Nat
    OBVIOUS
  <2>2. PICK n \in T : \A y \in T : n <= y
    <3> HIDE DEF T
    <3> QED BY <2>1, LeastNumber
  <2>3. n \in 0 .. N /\ ~ P(n)
    BY <2>2
  <2>4. n \in 1 .. N /\ n - 1 \in 0 .. N
    BY <1>3, <2>3
  <2>5. n - 1 \notin T
    <3> HIDE DEF T
    <3> QED BY <2>2, <2>4
  <2>6. P(n - 1)
    BY <2>4, <2>5
  <2> QED BY <1>4, <2>3, <2>4, <2>6
<1>6. P(N)
  <2>1. N \in 0 .. N
    OBVIOUS
  <2> HIDE DEF P
  <2> QED BY <1>5, <2>1
<1>7. PICK src : From(src, Len(F[N]), N)
  BY <1>6
<1>8. \A x \in Keep : x <= N
  OBVIOUS
<1>9. F[N] \in Seq(S) /\ Len(F[N]) \in Nat
  BY <1>6
<1> QED BY <1>7, <1>8, <1>9 DEF Selects

LEMMA InClusterFacts ==
    ASSUME NEW list \in Seq(Pages)
    PROVE  LET kept == inCluster(list)
               Keep == {n \in 1 .. Len(list) : list[n].did \in opt.cluster}
           IN  kept \in Seq(Pages) /\ Len(kept) \in Nat /\ Selects(kept, Keep, list)
<1> DEFINE Keep == {n \in 1 .. Len(list) : list[n].did \in opt.cluster}
           N == Len(list)
           Body(F) == [n \in 0 .. N |->
                         IF n = 0 THEN << >>
                         ELSE IF list[n].did \in opt.cluster THEN Append(F[n - 1], list[n])
                         ELSE F[n - 1]]
           G == CHOOSE F : F = Body(F)
<1>1. N \in Nat /\ Keep \in SUBSET (1 .. N) /\ \A n \in Keep : list[n] \in Pages
  OBVIOUS
<1>2. \A F : Body(F) = Loop(F, N, Keep, list)
  <2>1. \A n \in 0 .. N : n # 0 => (n \in Keep <=> list[n].did \in opt.cluster)
    BY <1>1
  <2> HIDE DEF Keep
  <2> QED BY <2>1 DEF Loop
<1>3. inCluster(list) = G[N]
  BY DEF inCluster
<1>4. G = Loop(G, N, Keep, list)
  <2>1. \E F : F = Loop(F, N, Keep, list)
    <3> HIDE DEF Keep, N
    <3> QED BY <1>1, LoopExists
  <2>2. \E F : F = Body(F)
    BY <1>2, <2>1
  <2> HIDE DEF Body
  <2>3. G = Body(G)
    BY <2>2
  <2> QED BY <1>2, <2>3
<1> HIDE DEF Keep, N, G
<1>5. G[N] \in Seq(Pages) /\ Len(G[N]) \in Nat /\ Selects(G[N], Keep, list)
  BY <1>1, <1>4, LoopResult
<1> QED BY <1>3, <1>5 DEF Keep

LEMMA FilterFacts ==
    ASSUME NEW lists \in Seq(Seq(Pages))
    PROVE  LET kept == filterSearchResult(lists)
               Keep == {n \in 1 .. Len(lists) : inCluster(lists[n]) # << >>}
               Item == [n \in 1 .. Len(lists) |-> inCluster(lists[n])]
           IN  kept \in Seq(Seq(Pages)) /\ Len(kept) \in Nat /\ Selects(kept, Keep, Item)
<1> DEFINE N == Len(lists)
           Keep == {n \in 1 .. N : inCluster(lists[n]) # << >>}
           Item == [n \in 1 .. N |-> inCluster(lists[n])]
           Body(F) == [n \in 0 .. N |->
                         IF n = 0 THEN << >>
                         ELSE IF inCluster(lists[n]) # << >>
                              THEN Append(F[n - 1], inCluster(lists[n]))
                         ELSE F[n - 1]]
           G == CHOOSE F : F = Body(F)
<1>1. N \in Nat /\ Keep \in SUBSET (1 .. N) /\ \A n \in Keep : Item[n] = inCluster(lists[n])
  OBVIOUS
<1>a. \A n \in Keep : Item[n] \in Seq(Pages)
  <2>1. \A n \in 1 .. N : lists[n] \in Seq(Pages)
    OBVIOUS
  <2>2. \A n \in 1 .. N : inCluster(lists[n]) \in Seq(Pages)
    BY <2>1, InClusterFacts
  <2> QED BY <1>1, <2>2
<1>2. \A F : Body(F) = Loop(F, N, Keep, Item)
  <2>1. \A n \in 0 .. N : n # 0 => (n \in Keep <=> inCluster(lists[n]) # << >>)
    BY <1>1
  <2>2. \A n \in Keep : Item[n] = inCluster(lists[n])
    OBVIOUS
  <2> HIDE DEF Keep, Item
  <2> QED BY <2>1, <2>2 DEF Loop
<1>3. filterSearchResult(lists) = G[N]
  BY DEF filterSearchResult
<1>4. G = Loop(G, N, Keep, Item)
  <2>1. \E F : F = Loop(F, N, Keep, Item)
    <3> HIDE DEF Keep, N, Item
    <3> QED BY <1>1, LoopExists
  <2>2. \E F : F = Body(F)
    BY <1>2, <2>1
  <2> HIDE DEF Body
  <2>3. G = Body(G)
    BY <2>2
  <2> QED BY <1>2, <2>3
<1> HIDE DEF Keep, N, G, Item
<1>5. G[N] \in Seq(Seq(Pages)) /\ Len(G[N]) \in Nat /\ Selects(G[N], Keep, Item)
  BY <1>1, <1>a, <1>4, LoopResult
<1> QED BY <1>3, <1>5 DEF Keep, N, Item

LEMMA ClusterSorted ==
    ASSUME NEW list \in Seq(Pages), Sorted(list)
    PROVE  LET kept == inCluster(list)
           IN  /\ kept \in Seq(Pages) /\ Len(kept) \in Nat /\ Sorted(kept)
               /\ \A p : (\E i \in 1 .. Len(kept) : kept[i] = p) <=>
                    \E n \in 1 .. Len(list) : list[n] = p /\ p.did \in opt.cluster
<1> DEFINE kept == inCluster(list)
           Keep == {n \in 1 .. Len(list) : list[n].did \in opt.cluster}
<1>1. kept \in Seq(Pages) /\ Len(kept) \in Nat /\ Selects(kept, Keep, list)
  BY InClusterFacts
<1> HIDE DEF kept
<1>2. PICK src : /\ \A i \in 1 .. Len(kept) : src[i] \in Keep /\ kept[i] = list[src[i]]
                 /\ \A i, k \in 1 .. Len(kept) : i < k => src[i] < src[k]
                 /\ \A n \in Keep : \E i \in 1 .. Len(kept) : src[i] = n
  <2> HIDE DEF Keep
  <2> QED BY <1>1 DEF Selects
<1>3. \A i \in 1 .. Len(kept) : src[i] \in 1 .. Len(list)
  BY <1>2
<1>4. Sorted(kept)
  <2>1. ASSUME NEW i \in 1 .. Len(kept), NEW k \in 1 .. Len(kept), i < k
        PROVE  kept[i].score >= kept[k].score /\ kept[i].did # kept[k].did
    <3>1. src[i] < src[k] /\ kept[i] = list[src[i]] /\ kept[k] = list[src[k]]
      BY <1>2, <2>1
    <3> QED BY <1>3, <3>1 DEF Sorted
  <2> QED BY <2>1 DEF Sorted
<1>5. \A p : (\E i \in 1 .. Len(kept) : kept[i] = p) =>
        \E n \in 1 .. Len(list) : list[n] = p /\ p.did \in opt.cluster
  BY <1>2, <1>3
<1>6. \A n \in 1 .. Len(list) : list[n].did \in opt.cluster =>
        \E i \in 1 .. Len(kept) : kept[i] = list[n]
  BY <1>2
<1>7. \A p : (\E n \in 1 .. Len(list) : list[n] = p /\ p.did \in opt.cluster) =>
        \E i \in 1 .. Len(kept) : kept[i] = p
  BY <1>6
<1> QED BY <1>1, <1>4, <1>5, <1>7 DEF kept

\* filterSearchResult keeps the lists in order, and leaves the pages of the cluster.
LEMMA FilterRight ==
    ASSUME NEW lists, Proper(lists)
    PROVE  /\ Proper(filterSearchResult(lists))
           /\ \A p : p \in PagesIn(filterSearchResult(lists)) <=>
                p \in PagesIn(lists) /\ p.did \in opt.cluster
<1> DEFINE kept == filterSearchResult(lists)
           Keep == {n \in 1 .. Len(lists) : inCluster(lists[n]) # << >>}
           Item == [n \in 1 .. Len(lists) |-> inCluster(lists[n])]
<1>0. lists \in Seq(Seq(Pages))
  BY DEF Proper
<1>1. kept \in Seq(Seq(Pages)) /\ Len(kept) \in Nat /\ Selects(kept, Keep, Item)
  BY <1>0, FilterFacts
<1> HIDE DEF kept
<1>2. PICK src : /\ \A i \in 1 .. Len(kept) : src[i] \in Keep /\ kept[i] = Item[src[i]]
                 /\ \A i, k \in 1 .. Len(kept) : i < k => src[i] < src[k]
                 /\ \A n \in Keep : \E i \in 1 .. Len(kept) : src[i] = n
  <2> HIDE DEF Keep, Item
  <2> QED BY <1>1 DEF Selects
<1>3. \A i \in 1 .. Len(kept) : src[i] \in 1 .. Len(lists) /\ kept[i] = inCluster(lists[src[i]])
  BY <1>2
<1>4. \A n \in 1 .. Len(lists) : /\ lists[n] \in Seq(Pages) /\ Len(lists[n]) \in Nat
                                 /\ Sorted(lists[n])
  BY <1>0 DEF Proper
<1>5. \A n \in 1 .. Len(lists) :
        /\ inCluster(lists[n]) \in Seq(Pages) /\ Len(inCluster(lists[n])) \in Nat
        /\ Sorted(inCluster(lists[n]))
        /\ \A p : (\E i \in 1 .. Len(inCluster(lists[n])) : inCluster(lists[n])[i] = p) <=>
             \E k \in 1 .. Len(lists[n]) : lists[n][k] = p /\ p.did \in opt.cluster
  <2> SUFFICES ASSUME NEW n \in 1 .. Len(lists)
               PROVE  /\ inCluster(lists[n]) \in Seq(Pages) /\ Len(inCluster(lists[n])) \in Nat
                      /\ Sorted(inCluster(lists[n]))
                      /\ \A p : (\E i \in 1 .. Len(inCluster(lists[n])) :
                                   inCluster(lists[n])[i] = p) <=>
                           \E k \in 1 .. Len(lists[n]) : lists[n][k] = p /\ p.did \in opt.cluster
    OBVIOUS
  <2>1. lists[n] \in Seq(Pages) /\ Sorted(lists[n])
    BY <1>4
  <2> QED BY <2>1, ClusterSorted
<1>a. \A i \in 1 .. Len(kept) : \A a \in 1 .. Len(kept[i]) :
        \E x \in 1 .. Len(lists[src[i]]) :
          lists[src[i]][x] = kept[i][a] /\ kept[i][a].did \in opt.cluster
  <2> SUFFICES ASSUME NEW i \in 1 .. Len(kept), NEW a \in 1 .. Len(kept[i])
               PROVE  \E x \in 1 .. Len(lists[src[i]]) :
                        lists[src[i]][x] = kept[i][a] /\ kept[i][a].did \in opt.cluster
    OBVIOUS
  <2> DEFINE n == src[i]
             p == kept[i][a]
  <2>1. n \in 1 .. Len(lists) /\ kept[i] = inCluster(lists[n])
    BY <1>3
  <2>2. \E j \in 1 .. Len(inCluster(lists[n])) : inCluster(lists[n])[j] = p
    BY <2>1
  <2> HIDE DEF n, p
  <2>3. \E x \in 1 .. Len(lists[n]) : lists[n][x] = p /\ p.did \in opt.cluster
    BY <1>5, <2>1, <2>2
  <2> QED BY <2>3 DEF n, p
<1>6. \A i \in 1 .. Len(kept) : Sorted(kept[i])
  BY <1>3, <1>5
<1>7. Apart(kept)
  <2> SUFFICES ASSUME NEW i \in 1 .. Len(kept), NEW k \in 1 .. Len(kept), i # k,
                      NEW a \in 1 .. Len(kept[i]), NEW b \in 1 .. Len(kept[k])
               PROVE  kept[i][a].did # kept[k][b].did
    BY DEF Apart
  <2>1. src[i] \in 1 .. Len(lists) /\ src[k] \in 1 .. Len(lists)
    BY <1>3
  <2>2. src[i] # src[k]
    <3>1. i < k \/ k < i
      BY <1>1
    <3>2. src[i] < src[k] \/ src[k] < src[i]
      BY <1>2, <3>1
    <3>3. Len(lists) \in Nat
      BY <1>0
    <3>4. src[i] \in Nat /\ src[k] \in Nat
      BY <2>1, <3>3
    <3> QED BY <3>2, <3>4
  <2>3. PICK x \in 1 .. Len(lists[src[i]]) : lists[src[i]][x] = kept[i][a]
    BY <1>a
  <2>4. PICK y \in 1 .. Len(lists[src[k]]) : lists[src[k]][y] = kept[k][b]
    BY <1>a
  <2>5. lists[src[i]][x].did # lists[src[k]][y].did
    BY <2>1, <2>2 DEF Proper, Apart
  <2> QED BY <2>3, <2>4, <2>5
<1>8. Proper(kept)
  BY <1>1, <1>6, <1>7 DEF Proper
<1>9. \A p : p \in PagesIn(kept) => p \in PagesIn(lists) /\ p.did \in opt.cluster
  <2> SUFFICES ASSUME NEW p, p \in PagesIn(kept)
               PROVE  p \in PagesIn(lists) /\ p.did \in opt.cluster
    OBVIOUS
  <2>1. PICK i \in 1 .. Len(kept) : \E k \in 1 .. Len(kept[i]) : kept[i][k] = p
    BY <1>1, PagesInFacts
  <2>2. \E k \in 1 .. Len(lists[src[i]]) : lists[src[i]][k] = p /\ p.did \in opt.cluster
    BY <1>a, <2>1
  <2> QED BY <1>0, <1>3, <2>1, <2>2, PagesInFacts
<1>10. \A p : p \in PagesIn(lists) /\ p.did \in opt.cluster => p \in PagesIn(kept)
  <2> SUFFICES ASSUME NEW p, p \in PagesIn(lists), p.did \in opt.cluster
               PROVE  p \in PagesIn(kept)
    OBVIOUS
  <2>1. PICK n \in 1 .. Len(lists) : \E k \in 1 .. Len(lists[n]) : lists[n][k] = p
    BY <1>0, PagesInFacts
  <2>2. PICK i \in 1 .. Len(inCluster(lists[n])) : inCluster(lists[n])[i] = p
    BY <1>5, <2>1
  <2>3. inCluster(lists[n]) # << >>
    BY <1>5, <2>2
  <2>4. PICK k \in 1 .. Len(kept) : src[k] = n
    BY <1>2, <2>3
  <2>5. kept[k] = inCluster(lists[n])
    BY <1>3, <2>4
  <2> QED BY <1>1, <2>2, <2>5, PagesInFacts
<1> QED BY <1>8, <1>9, <1>10 DEF kept

-----------------------------------------------------------------------------
(* The best list of merge_search_results. *)

Better(i, j) ==
    LET p == Head(results[i])  q == Head(results[j])
    IN  \/ p.score > q.score
        \/ p.score = q.score /\ (p.did > q.did \/ (p.did = q.did /\ i <= j))

LEMMA HeadFacts ==
    ASSUME Proper(results), NEW i \in Nonempty
    PROVE  /\ i \in 1 .. Len(results) /\ i \in Nat
           /\ results[i] \in Seq(Pages) /\ Len(results[i]) \in Nat \ {0}
           /\ Head(results[i]) = results[i][1] /\ Head(results[i]) \in Pages
           /\ Head(results[i]).score \in Int /\ Head(results[i]).did \in Int
<1>1. results \in Seq(Seq(Pages)) /\ Len(results) \in Nat
  BY DEF Proper
<1>2. i \in 1 .. Len(results) /\ results[i] # << >>
  BY DEF Nonempty
<1>3. i \in Nat
  BY <1>1, <1>2
<1>4. results[i] \in Seq(Pages)
  BY <1>1, <1>2
<1>5. Len(results[i]) \in Nat \ {0} /\ Head(results[i]) = results[i][1] /\ results[i][1] \in Pages
  BY <1>2, <1>4
<1> QED BY <1>2, <1>3, <1>4, <1>5, PageFacts

LEMMA BetterTotal ==
    ASSUME Proper(results)
    PROVE  /\ \A i \in Nonempty : Better(i, i)
           /\ \A i, j \in Nonempty : Better(i, j) \/ Better(j, i)
           /\ \A i, j, k \in Nonempty : Better(i, j) /\ Better(j, k) => Better(i, k)
<1>1. \A i \in Nonempty : i \in Nat /\ Head(results[i]).score \in Int /\ Head(results[i]).did \in Int
  BY HeadFacts
<1> DEFINE S(i) == Head(results[i]).score
           D(i) == Head(results[i]).did
<1>2. \A i, j : Better(i, j) <=>
        S(i) > S(j) \/ (S(i) = S(j) /\ (D(i) > D(j) \/ (D(i) = D(j) /\ i <= j)))
  BY DEF Better
<1>3. \A i \in Nonempty : i \in Nat /\ S(i) \in Int /\ D(i) \in Int
  BY <1>1
<1> HIDE DEF S, D
<1> QED BY <1>2, <1>3

\* Best is always there, and its first page has the best score of all that are left.
LEMMA BestFacts ==
    ASSUME Proper(results), Nonempty # {}
    PROVE  /\ Best \in Nonempty
           /\ \A j \in Nonempty : Head(results[Best]).score >= Head(results[j]).score
<1> DEFINE Leads(i, n) == i <= n /\ \A j \in Nonempty : j <= n => Better(i, j)
           P(n) == (\E i \in Nonempty : i <= n) => \E i \in Nonempty : Leads(i, n)
           T == {n \in Nat : ~ P(n)}
<1>1. \A i \in Nonempty : i \in Nat /\ i \in 1 .. Len(results)
  BY HeadFacts
<1>2. Len(results) \in Nat
  BY DEF Proper
<1>3. P(0)
  <2>1. \A i \in Nonempty : ~ (i <= 0)
    BY <1>1, <1>2
  <2> QED BY <2>1
<1>4. ASSUME NEW n \in Nat \ {0}, P(n - 1) PROVE P(n)
  <2>0. \A i \in Nonempty : /\ i <= n => i <= n - 1 \/ i = n
                            /\ i <= n - 1 => i <= n
    BY <1>1
  <2>1. CASE n \notin Nonempty
    <3>1. \A i \in Nonempty : i <= n <=> i <= n - 1
      BY <2>0, <2>1
    <3> QED BY <1>4, <3>1
  <2>2. CASE n \in Nonempty
    <3>0. n <= n
      OBVIOUS
    <3>1. CASE \A i \in Nonempty : ~ (i <= n - 1)
      <4>1. \A i \in Nonempty : i <= n => i = n
        BY <2>0, <3>1
      <4>2. Leads(n, n)
        BY <2>2, <3>0, <4>1, BetterTotal
      <4> HIDE DEF Leads
      <4> QED BY <2>2, <4>2
    <3>2. CASE \E i \in Nonempty : i <= n - 1
      <4>1. PICK b \in Nonempty : Leads(b, n - 1)
        <5> HIDE DEF Leads
        <5> QED BY <1>4, <3>2
      <4>2. b <= n /\ \A j \in Nonempty : j <= n => j = n \/ Better(b, j)
        BY <2>0, <4>1
      <4>3. CASE Better(b, n)
        <5>1. Leads(b, n)
          BY <4>2, <4>3
        <5> HIDE DEF Leads
        <5> QED BY <5>1
      <4>4. CASE ~ Better(b, n)
        <5>1. Better(n, b) /\ Better(n, n)
          BY <2>2, <4>4, BetterTotal
        <5>2. \A j \in Nonempty : Better(b, j) => Better(n, j)
          BY <2>2, <5>1, BetterTotal
        <5>3. Leads(n, n)
          BY <3>0, <4>2, <5>1, <5>2
        <5> HIDE DEF Leads
        <5> QED BY <2>2, <5>3
      <4> QED BY <4>3, <4>4
    <3> QED BY <3>1, <3>2
  <2> QED BY <2>1, <2>2
<1> HIDE DEF P
<1>5. T = {}
  <2> SUFFICES ASSUME T # {} PROVE FALSE
    OBVIOUS
  <2>1. T \subseteq Nat
    OBVIOUS
  <2>2. PICK n \in T : \A y \in T : n <= y
    <3> HIDE DEF T
    <3> QED BY <2>1, LeastNumber
  <2>3. n \in Nat \ {0} /\ ~ P(n) /\ n - 1 \in Nat
    BY <1>3, <2>2
  <2>4. n - 1 \notin T
    <3> HIDE DEF T
    <3> QED BY <2>2, <2>3
  <2>5. P(n - 1)
    BY <2>3, <2>4
  <2> QED BY <1>4, <2>3, <2>5
<1>6. P(Len(results))
  BY <1>2, <1>5
<1>7. \A i \in Nonempty : i <= Len(results)
  BY <1>1
<1>8. \E i \in Nonempty : \A j \in Nonempty : Better(i, j)
  BY <1>6, <1>7 DEF P
<1>9. Best = CHOOSE i \in Nonempty : \A j \in Nonempty : Better(i, j)
  BY DEF Best, Better
<1>10. Best \in Nonempty /\ \A j \in Nonempty : Better(Best, j)
  BY <1>8, <1>9
<1>11. \A j \in Nonempty : Head(results[Best]).score >= Head(results[j]).score
  <2> SUFFICES ASSUME NEW j \in Nonempty PROVE Head(results[Best]).score >= Head(results[j]).score
    OBVIOUS
  <2>1. Head(results[Best]).score \in Int /\ Head(results[j]).score \in Int
    BY <1>10, HeadFacts
  <2>2. \/ Head(results[Best]).score > Head(results[j]).score
        \/ Head(results[Best]).score = Head(results[j]).score
    BY <1>10 DEF Better
  <2> QED BY <2>1, <2>2
<1> QED BY <1>10, <1>11

\* Shift takes one page, with the best score of all, and leaves the others.
LEMMA ShiftFacts ==
    ASSUME Proper(results), Nonempty # {}, Shift, NEW p, p = Head(results[Best])
    PROVE  /\ p \in Pages /\ p \in PagesIn(results)
           /\ \A q \in PagesIn(results) : q \in Pages /\ p.score >= q.score
           /\ Proper(results)'
           /\ \A q : q \in PagesIn(results)' <=> q \in PagesIn(results) /\ q # p
           /\ \A q \in PagesIn(results)' : q.did # p.did
<1> DEFINE b == Best
<1>1. /\ b \in 1 .. Len(results) /\ results[b] \in Seq(Pages) /\ Len(results[b]) \in Nat \ {0}
      /\ p = results[b][1] /\ p \in Pages
  BY BestFacts, HeadFacts
<1>2. results \in Seq(Seq(Pages)) /\ Len(results) \in Nat
      /\ \A i \in 1 .. Len(results) : results[i] \in Seq(Pages) /\ Len(results[i]) \in Nat
  BY DEF Proper
<1>3. \A i \in 1 .. Len(results) : \A k \in 1 .. Len(results[i]) : p.score >= results[i][k].score
  <2> SUFFICES ASSUME NEW i \in 1 .. Len(results), NEW k \in 1 .. Len(results[i])
               PROVE  p.score >= results[i][k].score
    OBVIOUS
  <2>1. results[i] # << >> /\ 1 \in 1 .. Len(results[i])
    BY <1>2
  <2>2. i \in Nonempty
    BY <2>1 DEF Nonempty
  <2>3. p.score >= results[i][1].score
    BY <2>2, BestFacts, HeadFacts
  <2>4. k = 1 \/ results[i][1].score >= results[i][k].score
    <3>1. k = 1 \/ 1 < k
      BY <1>2
    <3> QED BY <2>1, <3>1 DEF Proper, Sorted
  <2>5. p.score \in Int /\ results[i][1].score \in Int /\ results[i][k].score \in Int
    <3>1. results[i][1] \in Pages /\ results[i][k] \in Pages
      BY <1>2, <2>1
    <3> QED BY <1>1, <3>1, PageFacts
  <2> QED BY <2>3, <2>4, <2>5
<1> HIDE DEF b
<1>4. results' = [results EXCEPT ![b] = Tail(results[b])]
  BY DEF Shift, b
<1>5. /\ Tail(results[b]) \in Seq(Pages) /\ Len(Tail(results[b])) = Len(results[b]) - 1
      /\ \A k \in 1 .. Len(results[b]) - 1 : Tail(results[b])[k] = results[b][k + 1]
  BY <1>1
<1>6. /\ results' \in Seq(Seq(Pages)) /\ Len(results') = Len(results)
      /\ results'[b] = Tail(results[b])
      /\ \A i \in 1 .. Len(results) : i # b => results'[i] = results[i]
  BY <1>1, <1>2, <1>4, <1>5
<1>7. \A k \in 1 .. Len(results'[b]) : /\ k + 1 \in 1 .. Len(results[b]) /\ 1 < k + 1
                                       /\ results'[b][k] = results[b][k + 1]
  BY <1>1, <1>5, <1>6
<1>8. \A i \in 1 .. Len(results) : Sorted(results'[i])
  <2>1. Sorted(results'[b])
    <3> SUFFICES ASSUME NEW i \in 1 .. Len(results'[b]), NEW k \in 1 .. Len(results'[b]), i < k
                 PROVE  /\ results'[b][i].score >= results'[b][k].score
                        /\ results'[b][i].did # results'[b][k].did
      BY DEF Sorted
    <3>1. i + 1 < k + 1
      BY <1>1, <1>5, <1>6
    <3>2. Sorted(results[b])
      BY <1>1 DEF Proper
    <3>3. i + 1 \in 1 .. Len(results[b]) /\ k + 1 \in 1 .. Len(results[b])
      BY <1>7
    <3>4. /\ results[b][i + 1].score >= results[b][k + 1].score
          /\ results[b][i + 1].did # results[b][k + 1].did
      BY <3>1, <3>2, <3>3 DEF Sorted
    <3> QED BY <1>7, <3>4
  <2> QED BY <2>1, <1>6 DEF Proper
<1>9. \A i \in 1 .. Len(results) : \A a \in 1 .. Len(results'[i]) :
        \E k \in 1 .. Len(results[i]) : results'[i][a] = results[i][k]
  <2> SUFFICES ASSUME NEW i \in 1 .. Len(results), NEW a \in 1 .. Len(results'[i])
               PROVE  \E k \in 1 .. Len(results[i]) : results'[i][a] = results[i][k]
    OBVIOUS
  <2>1. CASE i = b
    BY <1>7, <2>1
  <2>2. CASE i # b
    BY <1>6, <2>2
  <2> QED BY <2>1, <2>2
<1>10. Apart(results')
  <2> SUFFICES ASSUME NEW i \in 1 .. Len(results), NEW k \in 1 .. Len(results), i # k,
                      NEW x \in 1 .. Len(results'[i]), NEW y \in 1 .. Len(results'[k])
               PROVE  results'[i][x].did # results'[k][y].did
    BY <1>6 DEF Apart
  <2>1. PICK u \in 1 .. Len(results[i]) : results'[i][x] = results[i][u]
    BY <1>9
  <2>2. PICK v \in 1 .. Len(results[k]) : results'[k][y] = results[k][v]
    BY <1>9
  <2> QED BY <2>1, <2>2 DEF Proper, Apart
<1>11. Proper(results)'
  BY <1>6, <1>8, <1>10 DEF Proper
<1>12. \A i \in 1 .. Len(results) : \A k \in 1 .. Len(results[i]) :
         (i # b \/ k # 1) => results[i][k].did # p.did
  <2> SUFFICES ASSUME NEW i \in 1 .. Len(results), NEW k \in 1 .. Len(results[i]), i # b \/ k # 1
               PROVE  results[i][k].did # results[b][1].did
    BY <1>1
  <2>1. 1 \in 1 .. Len(results[b])
    BY <1>1
  <2>2. CASE i # b
    BY <1>1, <2>1, <2>2 DEF Proper, Apart
  <2>3. CASE i = b /\ k # 1
    <3>1. 1 < k
      BY <1>2, <2>3
    <3> QED BY <1>1, <2>1, <2>3, <3>1 DEF Proper, Sorted
  <2> QED BY <2>2, <2>3
<1>13. \A q : q \in PagesIn(results)' =>
         q \in PagesIn(results) /\ q.did # p.did
  <2> SUFFICES ASSUME NEW q, q \in PagesIn(results')
               PROVE  q \in PagesIn(results) /\ q.did # p.did
    OBVIOUS
  <2>1. PICK i \in 1 .. Len(results) : \E k \in 1 .. Len(results'[i]) : results'[i][k] = q
    BY <1>6, PagesInFacts
  <2>2. PICK a \in 1 .. Len(results'[i]) : results'[i][a] = q
    BY <2>1
  <2>3. CASE i = b
    <3>1. a + 1 \in 1 .. Len(results[i]) /\ a + 1 # 1 /\ results[i][a + 1] = q
      BY <1>7, <2>2, <2>3
    <3>2. q.did # p.did
      BY <1>12, <3>1
    <3> QED BY <1>2, <3>1, <3>2, PagesInFacts
  <2>4. CASE i # b
    BY <1>2, <1>6, <1>12, <2>2, <2>4, PagesInFacts
  <2> QED BY <2>3, <2>4
<1>14. \A q : q \in PagesIn(results) /\ q # p => q \in PagesIn(results)'
  <2> SUFFICES ASSUME NEW q, q \in PagesIn(results), q # p
               PROVE  q \in PagesIn(results')
    OBVIOUS
  <2>1. PICK i \in 1 .. Len(results) : \E k \in 1 .. Len(results[i]) : results[i][k] = q
    BY <1>2, PagesInFacts
  <2>2. PICK a \in 1 .. Len(results[i]) : results[i][a] = q
    BY <2>1
  <2>3. CASE i # b
    <3>1. results'[i] = results[i]
      BY <1>6, <2>3
    <3> QED BY <1>6, <2>2, <3>1, PagesInFacts
  <2>4. CASE i = b
    <3>1. a # 1
      BY <1>1, <2>2, <2>4
    <3>2. a - 1 \in 1 .. Len(results'[b]) /\ (a - 1) + 1 = a
      BY <1>1, <1>5, <1>6, <2>4, <3>1
    <3>3. results'[b][a - 1] = q
      BY <1>7, <2>2, <2>4, <3>2
    <3> QED BY <1>6, <2>4, <3>2, <3>3, PagesInFacts
  <2> QED BY <2>3, <2>4
<1>15. p \in PagesIn(results) /\ \A q \in PagesIn(results) : q \in Pages /\ p.score >= q.score
  <2>1. 1 \in 1 .. Len(results[b])
    BY <1>1
  <2>2. p \in PagesIn(results)
    BY <1>1, <1>2, <2>1, PagesInFacts
  <2>3. \A q \in PagesIn(results) : p.score >= q.score
    BY <1>2, <1>3, PagesInFacts
  <2> QED BY <1>2, <2>2, <2>3, PagesInFacts
<1>16. \A q : q \in PagesIn(results)' <=> q \in PagesIn(results) /\ q # p
  BY <1>13, <1>14
<1> QED BY <1>1, <1>11, <1>13, <1>15, <1>16

-----------------------------------------------------------------------------
(* What a step leaves of the replies. *)

LEMMA SameFound ==
    ASSUME found' = found
    PROVE  /\ \A s : Returned(s)' = Returned(s) /\ Lines(s)' = Lines(s)
           /\ \A S : Hits(S)' = Hits(S)
<1> QED BY DEF Returned, Lines, Hits

LEMMA SameReply ==
    ASSUME found' = found, NEW s, sent'[s] = sent[s]
    PROVE  /\ Came(s)' = Came(s) /\ (Plain(s)' <=> Plain(s))
           /\ conn'[s] = conn[s] => (Settled(s)' <=> Settled(s))
<1>1. Returned(s)' = Returned(s) /\ Lines(s)' = Lines(s)
  BY SameFound
<1>2. Came(s)' = Came(s)
  BY <1>1 DEF Came
<1>3. Plain(s)' <=> Plain(s)
  BY <1>1 DEF Plain
<1>4. conn'[s] = conn[s] => (Settled(s)' <=> Settled(s))
  BY <1>1 DEF Settled
<1> QED BY <1>2, <1>3, <1>4

\* The pages of a reply r of which m lines have come.
CameOf(r, m) ==
    {r[i] : i \in {j \in 1 .. Least(m, Len(r)) :
        r[j].line = "doc" /\ \A k \in 1 .. j : r[k].line # "LEAVE"}}

LEMMA CameOfFacts ==
    ASSUME NEW r, Len(r) \in Nat, NEW m \in Nat
    PROVE  \A p : p \in CameOf(r, m) <=>
             \E j \in 1 .. Len(r) : /\ j <= m /\ r[j] = p /\ p.line = "doc"
                                    /\ \A k \in 1 .. j : r[k].line # "LEAVE"
<1> DEFINE n == Len(r)
<1>1. \A j : j \in 1 .. Least(m, n) <=> j \in 1 .. n /\ j <= m
  BY DEF Least
<1> HIDE DEF n
<1>2. \A p : p \in CameOf(r, m) <=>
        \E j \in 1 .. Least(m, n) : /\ r[j] = p /\ r[j].line = "doc"
                                    /\ \A k \in 1 .. j : r[k].line # "LEAVE"
  BY DEF CameOf, n
<1> QED BY <1>1, <1>2 DEF n

LEMMA CameFacts ==
    ASSUME found \in Finds, sent \in [Servers -> Nat], NEW s \in Servers
    PROVE  \A p : p \in Came(s) <=>
             \E j \in 1 .. Len(Returned(s)) :
               /\ j <= sent[s] /\ Returned(s)[j] = p /\ p.line = "doc"
               /\ \A k \in 1 .. j : Returned(s)[k].line # "LEAVE"
<1>1. Len(Returned(s)) \in Nat /\ sent[s] \in Nat
  BY ReturnedFacts
<1>2. Came(s) = CameOf(Returned(s), sent[s])
  BY DEF Came, CameOf
<1> QED BY <1>1, <1>2, CameOfFacts

LEMMA NothingCame ==
    ASSUME found \in Finds, sent \in [Servers -> Nat], NEW s \in Servers, sent[s] = 0
    PROVE  Came(s) = {}
<1>1. Len(Returned(s)) \in Nat
  BY ReturnedFacts
<1>2. \A j \in 1 .. Len(Returned(s)) : ~ (j <= sent[s])
  BY <1>1
<1> QED BY <1>2, CameFacts

\* Pages that came from two servers have different numbers.
LEMMA CameApart ==
    ASSUME found \in Finds, sent \in [Servers -> Nat],
           NEW s \in Servers, NEW t \in Servers, s # t, NEW p \in Came(s), NEW q \in Came(t)
    PROVE  p.did # q.did
<1>1. PICK i \in 1 .. Len(Returned(s)) : Returned(s)[i] = p
  BY CameFacts
<1>2. PICK k \in 1 .. Len(Returned(t)) : Returned(t)[k] = q
  BY CameFacts
<1>3. i \in 1 .. Len(found[s]) /\ found[s][i] = p
  BY <1>1, ReturnedFacts, FoundFacts
<1>4. k \in 1 .. Len(found[t]) /\ found[t][k] = q
  BY <1>2, ReturnedFacts, FoundFacts
<1> QED BY <1>3, <1>4, FoundFacts

\* What the servers do: lines arrive and connections end, but nothing of a reply that has
\* been read to its end changes.
LEMMA Arrives ==
    ASSUME NetInv, NEW s \in Servers, Serve(s) \/ Die(s) \/ Leak(s)
    PROVE  /\ UNCHANGED <<found, opt, pc, hosts, replyVars, results, mergeVars>>
           /\ conn' \in [Servers -> {"none", "refused", "open", "leaked", "closed"}]
           /\ sent' \in [Servers -> Nat]
           /\ \A t \in Servers :
                /\ sent'[t] <= Len(Lines(t)) /\ sent[t] <= sent'[t]
                /\ conn[t] \in {"none", "refused"} => conn'[t] = conn[t] /\ sent'[t] = sent[t]
                /\ conn[t] \notin {"none", "refused"} => conn'[t] \notin {"none", "refused"}
                /\ Settled(t) =>
                     /\ Settled(t)' /\ Came(t)' = Came(t)
                     /\ Plain(t)' => /\ Plain(t)
                                     /\ sent'[t] > Len(Returned(t)) <=> sent[t] > Len(Returned(t))
<1>0. /\ found \in Finds /\ sent \in [Servers -> Nat]
      /\ conn \in [Servers -> {"none", "refused", "open", "leaked", "closed"}]
      /\ \A t \in Servers : sent[t] <= Len(Lines(t)) /\ sent[t] \in Nat
      /\ \A t \in Servers : conn[t] \in {"none", "refused"} => sent[t] = 0
  BY DEF NetInv
<1>1. /\ \A t \in Servers : /\ Len(Returned(t)) \in Nat /\ Len(Lines(t)) = Len(Returned(t)) + 2
                            /\ Len(Lines(t)) \in Nat
  BY <1>0, ReturnedFacts, LinesFacts
<1>2. /\ UNCHANGED <<found, opt, pc, hosts, replyVars, results, mergeVars>>
      /\ \/ Send(s) /\ conn' = conn
         \/ conn' = [conn EXCEPT ![s] = "closed"] /\ sent' = sent /\ conn[s] \in {"open", "leaked"}
         \/ conn' = [conn EXCEPT ![s] = "leaked"] /\ sent' = sent /\ conn[s] = "open"
  BY DEF Serve, Send, CloseSocket, Die, Leak
<1>3. CASE Send(s) /\ conn' = conn
  <2>1. conn[s] = "open" /\ sent[s] < Len(Lines(s)) /\ sent' = [sent EXCEPT ![s] = sent[s] + 1]
    BY <1>3 DEF Send
  <2>2. sent' \in [Servers -> Nat] /\ sent'[s] = sent[s] + 1
        /\ \A t \in Servers : t # s => sent'[t] = sent[t]
    BY <1>0, <2>1
  <2>3. \A t \in Servers : sent'[t] <= Len(Lines(t)) /\ sent[t] <= sent'[t]
    BY <1>0, <1>1, <2>1, <2>2
  <2>4. \A t \in Servers : t # s => Came(t)' = Came(t) /\ (Plain(t)' <=> Plain(t))
                                    /\ (Settled(t)' <=> Settled(t))
    BY <1>2, <1>3, <2>2, SameReply
  <2>5. Returned(s)' = Returned(s) /\ Lines(s)' = Lines(s)
    BY <1>2, SameFound
  <2>6. ASSUME Settled(s)
        PROVE  Settled(s)' /\ Came(s)' = Came(s) /\ ~ Plain(s)'
    <3>1. PICK k \in 1 .. Len(Returned(s)) : k <= sent[s] /\ Returned(s)[k].line = "LEAVE"
      <4>1. conn[s] # "closed" /\ sent[s] # Len(Lines(s))
        BY <1>0, <1>1, <2>1
      <4> QED BY <2>6, <4>1 DEF Settled
    <3>2. k <= sent'[s]
      BY <1>0, <1>1, <2>2, <3>1
    <3>3. Settled(s)'
      BY <2>5, <3>1, <3>2 DEF Settled
    <3>4. ~ Plain(s)'
      BY <2>5, <3>1 DEF Plain
    <3>5. \A j \in 1 .. Len(Returned(s)) :
            (\A i \in 1 .. j : Returned(s)[i].line # "LEAVE") => j <= sent[s] /\ j <= sent'[s]
      <4> SUFFICES ASSUME NEW j \in 1 .. Len(Returned(s)),
                          \A i \in 1 .. j : Returned(s)[i].line # "LEAVE"
                   PROVE  j <= sent[s] /\ j <= sent'[s]
        OBVIOUS
      <4>1. k \notin 1 .. j
        BY <3>1
      <4>2. j < k
        BY <1>1, <4>1
      <4> QED BY <1>0, <1>1, <2>2, <3>1, <4>2
    <3>7. \A p : p \in Came(s)' <=>
             \E j \in 1 .. Len(Returned(s)) :
               /\ j <= sent'[s] /\ Returned(s)[j] = p /\ p.line = "doc"
               /\ \A i \in 1 .. j : Returned(s)[i].line # "LEAVE"
      <4>1. Came(s)' = CameOf(Returned(s), sent'[s])
        BY <2>5 DEF Came, CameOf
      <4>2. Len(Returned(s)) \in Nat /\ sent'[s] \in Nat
        BY <1>1, <2>2
      <4>3. \A p : p \in CameOf(Returned(s), sent'[s]) <=>
               \E j \in 1 .. Len(Returned(s)) :
                 /\ j <= sent'[s] /\ Returned(s)[j] = p /\ p.line = "doc"
                 /\ \A i \in 1 .. j : Returned(s)[i].line # "LEAVE"
        BY <4>2, CameOfFacts
      <4> QED BY <4>1, <4>3
    <3>8. \A p : p \in Came(s) <=>
             \E j \in 1 .. Len(Returned(s)) :
               /\ j <= sent[s] /\ Returned(s)[j] = p /\ p.line = "doc"
               /\ \A i \in 1 .. j : Returned(s)[i].line # "LEAVE"
      BY <1>0, CameFacts
    <3>9. \A p : p \in Came(s)' <=> p \in Came(s)
      BY <3>5, <3>7, <3>8
    <3> QED BY <3>3, <3>4, <3>9
  <2>7. \A t \in Servers : conn[t] \in {"none", "refused"} => sent'[t] = sent[t]
    BY <2>1, <2>2
  <2> QED BY <1>0, <1>2, <1>3, <2>2, <2>3, <2>4, <2>6, <2>7
<1>4. ASSUME NEW c \in {"closed", "leaked"}, conn' = [conn EXCEPT ![s] = c], sent' = sent,
             conn[s] = "open" \/ (conn[s] = "leaked" /\ c = "closed")
      PROVE  /\ conn' \in [Servers -> {"none", "refused", "open", "leaked", "closed"}]
             /\ sent' \in [Servers -> Nat]
             /\ \A t \in Servers :
                  /\ conn[t] \in {"none", "refused"} => conn'[t] = conn[t] /\ sent'[t] = sent[t]
                  /\ conn[t] \notin {"none", "refused"} => conn'[t] \notin {"none", "refused"}
                  /\ Settled(t) => Settled(t)'
                  /\ Came(t)' = Came(t) /\ (Plain(t)' <=> Plain(t))
  <2>1. conn'[s] = c /\ \A t \in Servers : t # s => conn'[t] = conn[t]
    BY <1>0, <1>4
  <2>2. conn' \in [Servers -> {"none", "refused", "open", "leaked", "closed"}]
    BY <1>0, <1>4
  <2>3. \A t \in Servers : Came(t)' = Came(t) /\ (Plain(t)' <=> Plain(t))
                           /\ (conn'[t] = conn[t] => (Settled(t)' <=> Settled(t)))
    BY <1>2, <1>4, SameReply
  <2>4. Settled(s) => Settled(s)'
    <3>1. Returned(s)' = Returned(s) /\ Lines(s)' = Lines(s)
      BY <1>2, SameFound
    <3> QED BY <1>4, <2>1, <3>1 DEF Settled
  <2> QED BY <1>0, <1>4, <2>1, <2>2, <2>3, <2>4
<1>5. CASE sent' = sent
  <2>1. \A t \in Servers : sent'[t] <= Len(Lines(t)) /\ sent[t] <= sent'[t]
    BY <1>0, <1>5
  <2>2. \E c \in {"closed", "leaked"} :
          conn' = [conn EXCEPT ![s] = c] /\ (conn[s] = "open" \/ (conn[s] = "leaked" /\ c = "closed"))
    <3>1. ~ Send(s)
      <4>1. sent[s] \in Nat /\ sent[s] # sent[s] + 1
        BY <1>0
      <4> QED BY <1>0, <1>5, <4>1 DEF Send
    <3> QED BY <1>2, <3>1
  <2> QED BY <1>2, <1>4, <1>5, <2>1, <2>2
<1> QED BY <1>2, <1>3, <1>5

-----------------------------------------------------------------------------
(* Sockets and phases. *)

LEMMA NetFinite ==
    ASSUME NetInv
    PROVE  /\ IsFiniteSet(selecter) /\ IsFiniteSet(Reached) /\ IsFiniteSet(Ended)
           /\ num_of_sockets \in Nat /\ (num_of_sockets = 0 <=> selecter = {})
<1>1. IsFiniteSet(Servers) /\ selecter \in SUBSET Servers /\ Reached \in SUBSET Servers
      /\ Ended \in SUBSET Servers
  BY ServersAssumption DEF NetInv, Reached, Ended
<1>2. IsFiniteSet(selecter) /\ IsFiniteSet(Reached) /\ IsFiniteSet(Ended)
  BY <1>1, FS_Subset
<1>3. num_of_sockets = Cardinality(selecter)
  BY DEF NetInv
<1> QED BY <1>2, <1>3, FS_CardinalityType, FS_EmptySet

LEMMA NetInit == Init => NetInv /\ PhaseInv /\ ReadInv
<1> SUFFICES ASSUME Init PROVE NetInv /\ PhaseInv /\ ReadInv
  OBVIOUS
<1>1. \A s \in Servers : Len(Lines(s)) \in Nat
  BY ReturnedFacts, LinesFacts DEF Init
<1>2. NetInv
  <2>1. \A s \in Servers : sent[s] <= Len(Lines(s))
    BY <1>1 DEF Init
  <2>2. num_of_sockets = Cardinality(selecter)
    BY FS_EmptySet DEF Init
  <2> QED BY <2>1, <2>2 DEF Init, NetInv, Reached
<1>3. PhaseInv
  BY DEF Init, PhaseInv, Reached
<1>4. ReadInv
  BY DEF Init, ReadInv, Idle
<1> QED BY <1>2, <1>3, <1>4

LEMMA NetArrives ==
    ASSUME NetInv, PhaseInv, NEW s \in Servers, Serve(s) \/ Die(s) \/ Leak(s)
    PROVE  NetInv' /\ PhaseInv' /\ Reached' = Reached
<1>1. /\ UNCHANGED <<found, opt, pc, hosts, replyVars, results, mergeVars>>
      /\ conn' \in [Servers -> {"none", "refused", "open", "leaked", "closed"}]
      /\ sent' \in [Servers -> Nat]
      /\ \A t \in Servers :
           /\ sent'[t] <= Len(Lines(t))
           /\ conn[t] \in {"none", "refused"} => conn'[t] = conn[t] /\ sent'[t] = sent[t]
           /\ conn[t] \notin {"none", "refused"} => conn'[t] \notin {"none", "refused"}
  BY Arrives
<1>2. \A t : Lines(t)' = Lines(t)
  BY <1>1, SameFound
<1>3. Reached' = Reached
  BY <1>1 DEF Reached
<1>4. \A t \in Servers : conn'[t] = "none" <=> conn[t] = "none"
  BY <1>1
<1>5. \A t \in Servers : conn'[t] \in {"none", "refused"} => sent'[t] = 0
  BY <1>1 DEF NetInv
<1>6. NetInv'
  BY <1>1, <1>2, <1>3, <1>4, <1>5 DEF NetInv, replyVars
<1>7. PhaseInv'
  BY <1>1, <1>3 DEF PhaseInv, Receiving, replyVars, mergeVars
<1> QED BY <1>3, <1>6, <1>7

\* send_query_to_slave_servers: the servers reached are those in the selecter.
LEMMA NetConnect ==
    ASSUME NetInv, PhaseInv, NEW s \in Servers, Connect(s) \/ Refused(s)
    PROVE  /\ NetInv' /\ PhaseInv' /\ Ended = {} /\ Ended' = {} /\ Receiving /\ Receiving'
           /\ reading = Idle /\ UNCHANGED <<found, opt, sent, reading, total_hitcount, results, mergeVars>>
<1>1. /\ pc = "send" /\ s \in hosts /\ hosts' = hosts \ {s}
      /\ UNCHANGED <<found, opt, sent, readable, reading, total_hitcount, results, mergeVars>>
      /\ pc' = IF hosts' = {} THEN "select" ELSE "send"
      /\ \/ /\ conn' = [conn EXCEPT ![s] = "open"] /\ selecter' = selecter \cup {s}
            /\ num_of_sockets' = num_of_sockets + 1
         \/ /\ conn' = [conn EXCEPT ![s] = "refused"] /\ selecter' = selecter
            /\ num_of_sockets' = num_of_sockets
  BY DEF Connect, Refused, replyVars
<1>2. conn \in [Servers -> {"none", "refused", "open", "leaked", "closed"}] /\ conn[s] = "none"
      /\ s \in Servers
  BY <1>1 DEF NetInv
<1>3. selecter = Reached /\ readable = {} /\ reading = Idle
  BY <1>1 DEF PhaseInv
<1>4. s \notin Reached
  BY <1>2 DEF Reached
<1>5. /\ conn' \in [Servers -> {"none", "refused", "open", "leaked", "closed"}]
      /\ \A t \in Servers : t # s => conn'[t] = conn[t]
      /\ conn'[s] \in {"open", "refused"}
  BY <1>1, <1>2
<1>6. selecter' = Reached'
  <2>1. CASE conn' = [conn EXCEPT ![s] = "open"] /\ selecter' = selecter \cup {s}
    <3>1. Reached' = Reached \cup {s}
      BY <1>2, <2>1 DEF Reached
    <3> QED BY <1>3, <2>1, <3>1
  <2>2. CASE conn' = [conn EXCEPT ![s] = "refused"] /\ selecter' = selecter
    <3>1. Reached' = Reached
      BY <1>2, <2>2 DEF Reached
    <3> QED BY <1>3, <2>2, <3>1
  <2> QED BY <1>1, <2>1, <2>2
<1>7. num_of_sockets' = Cardinality(selecter')
  <2>1. IsFiniteSet(selecter) /\ num_of_sockets = Cardinality(selecter) /\ s \notin selecter
    BY <1>3, <1>4, NetFinite DEF NetInv
  <2>2. Cardinality(selecter \cup {s}) = Cardinality(selecter) + 1
    BY <2>1, FS_AddElement
  <2> QED BY <1>1, <2>1, <2>2
<1>8. \A t : Lines(t)' = Lines(t)
  BY <1>1, SameFound
<1>9. \A t \in Servers : t \in hosts' <=> conn'[t] = "none"
  BY <1>1, <1>5 DEF NetInv
<1>10. \A t \in Servers : conn'[t] \in {"none", "refused"} => sent'[t] = 0
  BY <1>1, <1>2, <1>5 DEF NetInv
<1>11. NetInv'
  BY <1>1, <1>3, <1>5, <1>6, <1>7, <1>8, <1>9, <1>10 DEF NetInv
<1>12. PhaseInv'
  BY <1>1, <1>3, <1>6 DEF PhaseInv, Receiving, mergeVars
<1> QED BY <1>1, <1>3, <1>6, <1>11, <1>12 DEF Ended, Receiving

\* select and the reading of a line touch neither the replies nor the sockets.
LEMMA NetRead ==
    ASSUME NetInv, PhaseInv, ReadInv, select \/ nextSocket \/ parseLine
    PROVE  /\ NetInv' /\ PhaseInv' /\ Ended' = Ended /\ Receiving /\ Receiving'
           /\ UNCHANGED <<netVars, opt, selecter, num_of_sockets, total_hitcount, results, mergeVars>>
<1>1. UNCHANGED <<netVars, opt, selecter, num_of_sockets, total_hitcount, results, mergeVars>>
  BY DEF select, nextSocket, parseLine
<1>2. Reached' = Reached /\ Ended' = Ended /\ \A s : Lines(s)' = Lines(s)
  BY <1>1, SameFound DEF Reached, Ended, netVars
<1>3. readable' \subseteq selecter
  <2>1. CASE select
    BY <2>1 DEF select
  <2>2. CASE nextSocket \/ parseLine
    BY <2>2 DEF nextSocket, parseLine, NetInv
  <2> QED BY <2>1, <2>2
<1>4. NetInv'
  BY <1>1, <1>2, <1>3 DEF NetInv, netVars
<1>5. /\ pc \in {"select", "read"} /\ pc' \in {"select", "read"}
      /\ pc' # "read" => readable' = {} /\ reading' = Idle
  <2>1. CASE select
    BY <2>1 DEF select
  <2>2. CASE nextSocket
    BY <2>2 DEF nextSocket, ReadInv
  <2>3. CASE parseLine
    <3>1. reading # Idle
      BY <2>3 DEF parseLine, Idle
    <3> QED BY <2>3, <3>1 DEF parseLine, PhaseInv
  <2> QED BY <2>1, <2>2, <2>3
<1>6. PhaseInv'
  BY <1>1, <1>2, <1>5 DEF PhaseInv, Receiving, netVars, mergeVars
<1> QED BY <1>1, <1>2, <1>4, <1>5, <1>6 DEF Receiving

\* The socket whose reply has ended is no longer waited for.
LEMMA NetEndOfReply ==
    ASSUME NetInv, PhaseInv, ReadInv, endOfReply
    PROVE  LET s == reading.socket
           IN  /\ NetInv' /\ PhaseInv' /\ Receiving /\ Receiving'
               /\ s \in Reached /\ s \in Servers /\ s \notin Ended /\ Ended' = Ended \cup {s}
<1> DEFINE s == reading.socket
<1>1. /\ s # NoServer /\ selecter' = selecter \ {s} /\ readable' = readable \ {s}
      /\ num_of_sockets' = num_of_sockets - 1 /\ reading' = Idle
      /\ UNCHANGED <<netVars, opt, pc, mergeVars>>
  BY DEF endOfReply
<1>2. s \in readable /\ s \in selecter /\ s \in Reached /\ s \in Servers
  BY <1>1 DEF ReadInv, NetInv, Reached
<1>3. pc = "read"
  <2>1. reading # Idle
    BY <1>1 DEF Idle
  <2> QED BY <2>1 DEF PhaseInv
<1> HIDE DEF s
<1>4. Reached' = Reached /\ Ended' = Ended \cup {s} /\ s \notin Ended
  BY <1>1, <1>2 DEF Reached, Ended, netVars, NetInv
<1>5. num_of_sockets' = Cardinality(selecter')
  <2>1. IsFiniteSet(selecter) /\ num_of_sockets = Cardinality(selecter)
    BY NetFinite DEF NetInv
  <2> QED BY <1>1, <1>2, <2>1, FS_RemoveElement
<1>6. \A t : Lines(t)' = Lines(t)
  BY <1>1, SameFound DEF netVars
<1>7. selecter' \subseteq Reached' /\ readable' \subseteq selecter'
  BY <1>1, <1>4 DEF NetInv
<1>8. NetInv'
  BY <1>1, <1>5, <1>6, <1>7 DEF NetInv, netVars
<1>9. PhaseInv'
  BY <1>1, <1>3 DEF PhaseInv, Receiving, netVars, mergeVars
<1> QED BY <1>1, <1>2, <1>3, <1>4, <1>8, <1>9 DEF s, Receiving

LEMMA NetMerge ==
    ASSUME NetInv, PhaseInv, search \/ Merge
    PROVE  /\ NetInv' /\ PhaseInv' /\ Ended = Reached /\ Ended' = Ended /\ selecter = {}
           /\ UNCHANGED <<netVars, opt, replyVars>> /\ reading = Idle
           /\ search => Receiving /\ ~ Receiving'
           /\ Merge => ~ Receiving /\ ~ Receiving'
<1>1. /\ UNCHANGED <<netVars, opt, replyVars>>
      /\ pc' \in {"merge", "done"}
      /\ \/ search /\ pc = "select" /\ num_of_sockets = 0 /\ UNCHANGED mergeVars
         \/ Merge /\ pc = "merge"
  <2>1. CASE search
    BY <2>1 DEF search
  <2>2. CASE merged
    BY <2>2 DEF Merge, merged
  <2>3. CASE addPage \/ addKnownUrl \/ addKnownTitle \/ addNew
    <3>1. Merge
      BY <2>3 DEF Merge
    <3>2. pc = "merge" /\ pc' = pc /\ UNCHANGED <<netVars, opt, replyVars>>
      BY <2>3 DEF addPage, addKnownUrl, addKnownTitle, addNew, Merging
    <3> QED BY <3>1, <3>2
  <2> QED BY <2>1, <2>2, <2>3 DEF Merge
<1>2. selecter = {} /\ readable = {} /\ reading = Idle /\ hosts = {}
  BY <1>1, NetFinite DEF PhaseInv
<1>3. Reached' = Reached /\ Ended' = Ended /\ Ended = Reached
      /\ \A t : Lines(t)' = Lines(t)
  BY <1>1, <1>2, SameFound DEF Reached, Ended, netVars, replyVars
<1>4. NetInv'
  BY <1>1, <1>3 DEF NetInv, netVars, replyVars
<1>5. PhaseInv'
  BY <1>1, <1>2 DEF PhaseInv, Receiving, netVars, replyVars
<1>6. (search => Receiving /\ ~ Receiving') /\ (Merge => ~ Receiving /\ ~ Receiving')
  <2>1. search => pc = "select"
    BY DEF search
  <2>2. Merge => pc = "merge"
    BY DEF Merge, addPage, addKnownUrl, addKnownTitle, addNew, merged, Merging
  <2> QED BY <1>1, <2>1, <2>2 DEF Receiving
<1> QED BY <1>1, <1>2, <1>3, <1>4, <1>5, <1>6

-----------------------------------------------------------------------------
(* Reading a reply. *)

ReadSorted == reading.socket # NoServer => Sorted(reading.docs)

LEMMA ReadIdle ==
    ASSUME reading' = Idle PROVE ReadInv' /\ ReadSorted'
<1>1. reading'.socket = NoServer
  BY DEF Idle
<1> QED BY <1>1 DEF ReadInv, ReadSorted

LEMMA ReadArrives ==
    ASSUME NetInv, ReadInv, ReadSorted, NEW s \in Servers, Serve(s) \/ Die(s) \/ Leak(s)
    PROVE  ReadInv' /\ ReadSorted'
<1>1. reading' = reading /\ readable' = readable /\ found' = found
      /\ \A t \in Servers : sent[t] <= sent'[t] /\ sent'[t] \in Nat
  BY Arrives DEF replyVars
<1>2. \A t : Returned(t)' = Returned(t)
  BY <1>1, SameFound
<1>3. CASE reading.socket = NoServer
  BY <1>1, <1>3 DEF ReadInv, ReadSorted
<1>4. CASE reading.socket # NoServer
  <2> DEFINE t == reading.socket
  <2>1. t \in readable /\ t \in Servers
    BY <1>4 DEF ReadInv, NetInv, Reached
  <2>2. reading.got \in Nat /\ reading.got <= sent[t] /\ sent[t] \in Nat
    BY <1>4, <2>1 DEF ReadInv, NetInv
  <2>3. reading.got <= sent'[t]
    BY <1>1, <2>1, <2>2
  <2>4. ReadInv'
    BY <1>1, <1>2, <1>4, <2>3 DEF ReadInv
  <2>5. ReadSorted'
    BY <1>1 DEF ReadSorted
  <2> QED BY <2>4, <2>5
<1> QED BY <1>3, <1>4

\* What has been read of a reply of which g lines were looked at.
Read(s, g, c, docs) ==
    LET n == Len(Returned(s))
    IN  /\ s \in Servers /\ g \in Nat /\ c \in Nat /\ docs \in Seq(Pages)
        /\ s \in readable /\ g <= sent[s] /\ g <= n + 1
        /\ \A i \in 1 .. n : i <= g => Returned(s)[i].line # "LEAVE"
        /\ \A p : p \in Range(docs) <=>
             \E i \in 1 .. n : i <= g /\ Returned(s)[i] = p /\ p.line = "doc"
        /\ g > n => c = Len(found[s])
        /\ g <= n /\ (\A i \in 1 .. n : Returned(s)[i].line # "hitcount") => c = 0

LEMMA ReadSome ==
    ASSUME NEW s, NEW g, NEW c, NEW docs, Read(s, g, c, docs),
           reading' = [socket |-> s, got |-> g, hitcount |-> c, docs |-> docs],
           found' = found, sent' = sent, readable' = readable
    PROVE  ReadInv'
<1>1. /\ reading'.socket = s /\ reading'.got = g /\ reading'.hitcount = c
      /\ reading'.docs = docs
  OBVIOUS
<1>2. s # NoServer
  BY ServersAssumption DEF Read
<1>3. Returned(s)' = Returned(s)
  BY SameFound
<1>4. /\ s \in readable' /\ g <= sent'[s] /\ g <= Len(Returned(s)') + 1
      /\ g \in Nat /\ c \in Nat /\ docs \in Seq(Pages)
      /\ \A i \in 1 .. Len(Returned(s)') : i <= g => Returned(s)'[i].line # "LEAVE"
      /\ \A p : p \in Range(docs) <=>
           \E i \in 1 .. Len(Returned(s)') : i <= g /\ Returned(s)'[i] = p /\ p.line = "doc"
      /\ g > Len(Returned(s)') => c = Len(found'[s])
      /\ g <= Len(Returned(s)') /\ (\A i \in 1 .. Len(Returned(s)') :
            Returned(s)'[i].line # "hitcount") => c = 0
  BY <1>3 DEF Read
<1> QED BY <1>1, <1>2, <1>4 DEF ReadInv

LEMMA ReadNextSocket ==
    ASSUME NetInv, PhaseInv, ReadInv, ReadSorted, nextSocket
    PROVE  ReadInv' /\ ReadSorted'
<1>1. reading = Idle /\ readable' = readable /\ sent' = sent /\ found' = found
  BY DEF nextSocket, ReadInv, netVars
<1>2. CASE reading' = reading
  BY <1>1, <1>2, ReadIdle
<1>3. CASE \E s \in readable : reading' = [reading EXCEPT !.socket = s]
  <2>1. PICK s \in readable : reading' = [reading EXCEPT !.socket = s]
    BY <1>3
  <2>2. reading' = [socket |-> s, got |-> 0, hitcount |-> 0, docs |-> << >>]
    BY <1>1, <2>1 DEF Idle
  <2>3. s \in Servers /\ s \in readable'
    BY <1>1 DEF NetInv, Reached
  <2>4. Returned(s)' = Returned(s) /\ Len(Returned(s)) \in Nat /\ sent'[s] \in Nat
    BY <1>1, <2>3, SameFound, ReturnedFacts DEF NetInv
  <2>5. /\ reading'.socket = s /\ reading'.got = 0 /\ reading'.hitcount = 0
        /\ reading'.docs = << >>
    BY <2>2
  <2>6. s # NoServer
    BY <2>3, ServersAssumption
  <2>7. << >> \in Seq(Pages) /\ \A p : p \notin Range(<< >>)
    BY DEF Range
  <2>8. 0 <= sent'[s] /\ 0 <= Len(Returned(s)) + 1 /\ ~ (0 > Len(Returned(s)))
        /\ \A i \in 1 .. Len(Returned(s)) : ~ (i <= 0)
    BY <2>4
  <2>9. ReadInv'
    BY <2>2, <2>3, <2>4, <2>5, <2>6, <2>7, <2>8 DEF ReadInv
  <2>10. ReadSorted'
    BY <2>5 DEF ReadSorted, Sorted
  <2> QED BY <2>9, <2>10
<1> QED BY <1>2, <1>3 DEF nextSocket

\* A line adds the page to the end of the list, where it belongs.
LEMMA ReadLine ==
    ASSUME NetInv, PhaseInv, ReadInv, ReadSorted, parseLine
    PROVE  ReadInv' /\ ReadSorted'
<1>0. PICK s, g, c, docs : reading = [socket |-> s, got |-> g, hitcount |-> c, docs |-> docs]
  <2>1. reading.socket # NoServer
    BY DEF parseLine
  <2> QED BY <2>1 DEF ReadInv
<1>a. reading.socket = s /\ reading.got = g /\ reading.hitcount = c /\ reading.docs = docs
  BY <1>0
<1> DEFINE n == Len(Returned(s))
           l == Lines(s)[g + 1]
           h == IF l.line = "hitcount" THEN l.n ELSE c
           d == IF l.line = "doc" THEN Append(docs, l) ELSE docs
<1>1. /\ s # NoServer /\ g < sent[s] /\ l.line # "LEAVE"
      /\ reading' = [reading EXCEPT !.got = g + 1, !.hitcount = h, !.docs = d]
      /\ readable' = readable /\ sent' = sent /\ found' = found
  BY <1>a DEF parseLine, netVars
<1>2. /\ s \in readable
      /\ g \in Nat /\ g <= sent[s] /\ g <= n + 1
      /\ \A i \in 1 .. n : i <= g => Returned(s)[i].line # "LEAVE"
      /\ docs \in Seq(Pages)
      /\ \A p : p \in Range(docs) <=>
           \E i \in 1 .. n : i <= g /\ Returned(s)[i] = p /\ p.line = "doc"
      /\ c \in Nat
      /\ g > n => c = Len(found[s])
      /\ g <= n /\ (\A i \in 1 .. n : Returned(s)[i].line # "hitcount") => c = 0
  BY <1>1, <1>a DEF ReadInv
<1>3. s \in Servers /\ sent[s] \in Nat /\ found \in Finds
  BY <1>2 DEF NetInv, Reached
<1>4. /\ n \in Nat /\ \A i \in 1 .. n : Lines(s)[i] = Returned(s)[i] /\ Returned(s)[i] \in Pages
      /\ Lines(s)[n + 1].line = "hitcount" /\ Lines(s)[n + 1].n = Len(found[s])
      /\ Lines(s)[n + 2].line = "LEAVE"
      /\ Len(found[s]) \in Nat
  BY <1>3, ReturnedFacts, LinesFacts, FoundFacts
<1> HIDE DEF n, l
<1>5. reading' = [socket |-> s, got |-> g + 1, hitcount |-> h, docs |-> d]
  <2> HIDE DEF h, d
  <2> QED BY <1>0, <1>1
<1>6. /\ reading'.socket = s /\ reading'.got = g + 1 /\ reading'.hitcount = h
      /\ reading'.docs = d
  BY <1>5
<1>7. g + 1 \in Nat /\ g + 1 <= sent[s] /\ g <= n
  <2>1. g # n + 1
    <3> SUFFICES ASSUME g = n + 1 PROVE FALSE
      OBVIOUS
    <3>1. l = Lines(s)[n + 2]
      BY <1>4 DEF l
    <3> QED BY <1>1, <1>4, <3>1
  <2> QED BY <1>1, <1>2, <1>3, <1>4, <2>1
<1>8. CASE g = n
  <2>1. l.line = "hitcount" /\ l.n = Len(found[s])
    BY <1>4, <1>8 DEF l
  <2>2. h = Len(found[s]) /\ d = docs
    BY <2>1
  <2>3. \A i \in 1 .. n : i <= g /\ i <= g + 1
    BY <1>4, <1>8
  <2>4. g + 1 > n /\ ~ (g + 1 <= n) /\ g + 1 <= n + 1
    BY <1>4, <1>8
  <2>5. ReadInv'
    <3> HIDE DEF h, d
    <3>2. \A i \in 1 .. n : i <= g + 1 => Returned(s)[i].line # "LEAVE"
      BY <1>2, <2>3
    <3>3. \A p : p \in Range(d) <=>
            \E i \in 1 .. n : i <= g + 1 /\ Returned(s)[i] = p /\ p.line = "doc"
      BY <1>2, <2>2, <2>3
    <3>4. h \in Nat /\ s \in readable' /\ sent'[s] = sent[s] /\ d \in Seq(Pages)
      BY <1>1, <1>2, <1>4, <2>2
    <3>5. Read(s, g + 1, h, d)
      BY <1>1, <1>3, <1>7, <2>2, <2>4, <3>2, <3>3, <3>4 DEF n, Read
    <3> QED BY <1>1, <1>5, <3>5, ReadSome
  <2>6. ReadSorted'
    BY <1>1, <1>a, <1>6, <2>2 DEF ReadSorted
  <2> QED BY <2>5, <2>6
<1>9. CASE g < n
  <2>1. g + 1 \in 1 .. n /\ l = Returned(s)[g + 1] /\ l \in Pages
    <3>1. g + 1 \in 1 .. n
      BY <1>2, <1>4, <1>9
    <3> QED BY <1>4, <3>1 DEF l
  <2>2. h \in Nat /\ ((\A i \in 1 .. n : Returned(s)[i].line # "hitcount") => h = 0)
    <3>1. l.n \in Nat
      BY <2>1, PageFacts
    <3> QED BY <1>2, <1>7, <2>1, <3>1
  <2>3. \A i \in 1 .. n : i <= g + 1 <=> i <= g \/ i = g + 1
    BY <1>2, <1>4
  <2>4. d \in Seq(Pages)
    BY <1>2, <2>1
  <2>5. \A p : p \in Range(d) <=> p \in Range(docs) \/ (l.line = "doc" /\ p = l)
    <3>1. CASE l.line = "doc"
      <4>1. d = Append(docs, l)
        BY <3>1
      <4>2. /\ Len(docs) \in Nat /\ Len(d) = Len(docs) + 1 /\ d[Len(docs) + 1] = l
            /\ \A i \in 1 .. Len(docs) : d[i] = docs[i]
            /\ DOMAIN d = 1 .. Len(docs) + 1 /\ DOMAIN docs = 1 .. Len(docs)
        BY <1>2, <2>1, <4>1
      <4>3. \A i : i \in 1 .. Len(docs) + 1 <=> i \in 1 .. Len(docs) \/ i = Len(docs) + 1
        BY <4>2
      <4> HIDE DEF d
      <4> QED BY <3>1, <4>2, <4>3 DEF Range
    <3>2. CASE l.line # "doc"
      BY <3>2
    <3> QED BY <3>1, <3>2
  <2>6. \A p : p \in Range(d) <=>
          \E i \in 1 .. n : i <= g + 1 /\ Returned(s)[i] = p /\ p.line = "doc"
    <3> HIDE DEF d
    <3> QED BY <1>2, <2>1, <2>3, <2>5
  <2>7. \A i \in 1 .. n : i <= g + 1 => Returned(s)[i].line # "LEAVE"
    BY <1>1, <1>2, <2>1, <2>3
  <2>8. g + 1 <= n + 1 /\ ~ (g + 1 > n)
    BY <1>2, <1>4, <1>9
  <2>9. ReadInv'
    <3> HIDE DEF h, d
    <3>4. s \in readable' /\ sent'[s] = sent[s]
      BY <1>1, <1>2
    <3>5. Read(s, g + 1, h, d)
      BY <1>1, <1>3, <1>7, <2>2, <2>4, <2>6, <2>7, <2>8, <3>4 DEF n, Read
    <3> QED BY <1>1, <1>5, <3>5, ReadSome
  <2>10. Sorted(d)
    <3>1. CASE l.line # "doc"
      BY <1>1, <1>a, <3>1 DEF ReadSorted
    <3>2. CASE l.line = "doc"
      <4>1. Sorted(docs)
        BY <1>1, <1>a DEF ReadSorted
      <4>2. /\ Len(docs) \in Nat /\ Len(d) = Len(docs) + 1 /\ d[Len(docs) + 1] = l
            /\ \A i \in 1 .. Len(docs) : d[i] = docs[i] /\ docs[i] \in Range(docs)
        <5>1. d = Append(docs, l)
          BY <3>2
        <5> QED BY <1>2, <2>1, <5>1 DEF Range
      <4>3. \A i \in 1 .. Len(docs) : docs[i].score >= l.score /\ docs[i].did # l.did
        <5> SUFFICES ASSUME NEW i \in 1 .. Len(docs)
                     PROVE  docs[i].score >= l.score /\ docs[i].did # l.did
          OBVIOUS
        <5>1. PICK j \in 1 .. n : j <= g /\ Returned(s)[j] = docs[i]
          BY <1>2, <4>2
        <5>2. /\ found[s][j] = docs[i] /\ found[s][g + 1] = l
              /\ j \in 1 .. Len(found[s]) /\ g + 1 \in 1 .. Len(found[s])
          <6>1. \A k \in 1 .. n : Returned(s)[k] = found[s][k] /\ k \in 1 .. Len(found[s])
            BY <1>3, <1>4, ReturnedFacts DEF n
          <6> QED BY <2>1, <5>1, <6>1
        <5>3. j < g + 1
          BY <1>2, <1>4, <5>1
        <5> QED BY <1>3, <5>2, <5>3, FoundFacts
      <4> HIDE DEF d
      <4>4. \A i \in 1 .. Len(d) : i \in 1 .. Len(docs) \/ i = Len(docs) + 1
        BY <4>2
      <4> SUFFICES ASSUME NEW i \in 1 .. Len(d), NEW k \in 1 .. Len(d), i < k
                   PROVE  d[i].score >= d[k].score /\ d[i].did # d[k].did
        BY DEF Sorted
      <4>5. i \in 1 .. Len(docs)
        BY <4>2
      <4>6. CASE k \in 1 .. Len(docs)
        BY <4>1, <4>2, <4>5, <4>6 DEF Sorted
      <4>7. CASE k = Len(docs) + 1
        BY <4>2, <4>3, <4>5, <4>7
      <4> QED BY <4>4, <4>6, <4>7
    <3> QED BY <3>1, <3>2
  <2> QED BY <1>6, <2>9, <2>10 DEF ReadSorted
<1> QED BY <1>2, <1>4, <1>7, <1>8, <1>9

-----------------------------------------------------------------------------
(* The replies that have been read. *)

LEMMA HitsFacts ==
    ASSUME found \in Finds, NEW S \in SUBSET Servers
    PROVE  /\ IsFiniteSet(Hits(S)) /\ Cardinality(Hits(S)) \in Nat
           /\ \A s \in Servers : s \notin S =>
                Cardinality(Hits(S \cup {s})) = Cardinality(Hits(S)) + Len(found[s])
<1> DEFINE Of(s) == {s} \X (1 .. Len(found[s]))
<1>1. \A s \in Servers : IsFiniteSet(Of(s)) /\ Cardinality(Of(s)) = Len(found[s])
  <2> SUFFICES ASSUME NEW s \in Servers
               PROVE  IsFiniteSet(Of(s)) /\ Cardinality(Of(s)) = Len(found[s])
    OBVIOUS
  <2>1. Len(found[s]) \in Nat
    BY FoundFacts
  <2> DEFINE n == Len(found[s])
             I == 1 .. n
  <2>2. IsFiniteSet(I) /\ Cardinality(I) = n
    <3> HIDE DEF n
    <3>1. 1 \in Int /\ n \in Int
      BY <2>1 DEF n
    <3>2. IsFiniteSet(I) /\ Cardinality(I) = IF 1 > n THEN 0 ELSE n - 1 + 1
      BY <3>1, FS_Interval
    <3>3. n \in Nat
      BY <2>1 DEF n
    <3> HIDE DEF I
    <3> QED BY <3>2, <3>3
  <2>3. IsFiniteSet({s}) /\ Cardinality({s}) = 1
    BY FS_Singleton
  <2> HIDE DEF I
  <2>4. IsFiniteSet({s} \X I) /\ Cardinality({s} \X I) = Cardinality({s}) * Cardinality(I)
    BY <2>2, <2>3, FS_Product
  <2>5. Cardinality({s} \X I) = n
    <3> HIDE DEF n
    <3>1. n \in Nat
      BY <2>1 DEF n
    <3>2. 1 * n = n
      BY <3>1
    <3> QED BY <2>2, <2>3, <2>4, <3>2
  <2> QED BY <2>4, <2>5 DEF I
<1>2. IsFiniteSet(Hits(S))
  <2>1. IsFiniteSet(S)
    BY ServersAssumption, FS_Subset
  <2>2. IsFiniteSet({Of(s) : s \in S})
    <3> DEFINE T == {Of(s) : s \in S}
               F == [s \in S |-> Of(s)]
    <3>1. F \in Surjection(S, T)
      <4> HIDE DEF Of
      <4> QED BY DEF Surjection
    <3> HIDE DEF T, F
    <3>2. IsFiniteSet(T)
      BY <2>1, <3>1, FS_Surjection
    <3> QED BY <3>2 DEF T
  <2>3. \A T \in {Of(s) : s \in S} : IsFiniteSet(T)
    BY <1>1
  <2>4. IsFiniteSet(UNION {Of(s) : s \in S})
    BY <2>2, <2>3, FS_UNION
  <2> QED BY <2>4 DEF Hits
<1>3. ASSUME NEW s \in Servers, s \notin S
      PROVE  Cardinality(Hits(S \cup {s})) = Cardinality(Hits(S)) + Len(found[s])
  <2>1. Hits(S \cup {s}) = Hits(S) \cup Of(s)
    BY DEF Hits
  <2>2. Hits(S) \cap Of(s) = {}
    BY <1>3 DEF Hits
  <2> HIDE DEF Of
  <2>3. Cardinality(Hits(S) \cup Of(s)) =
          Cardinality(Hits(S)) + Cardinality(Of(s)) - Cardinality(Hits(S) \cap Of(s))
    BY <1>1, <1>2, FS_Union
  <2>4. Cardinality(Hits(S) \cap Of(s)) = 0
    BY <2>2, FS_EmptySet
  <2>5. Cardinality(Hits(S)) \in Nat /\ Cardinality(Of(s)) \in Nat
    BY <1>1, <1>2, FS_CardinalityType
  <2>6. \A a, b \in Nat : a + b - 0 = a + b
    OBVIOUS
  <2>7. Cardinality(Of(s)) = Len(found[s])
    BY <1>1
  <2> QED BY <2>1, <2>3, <2>4, <2>5, <2>6, <2>7
<1>4. Cardinality(Hits(S)) \in Nat
  BY <1>2, FS_CardinalityType
<1> QED BY <1>2, <1>3, <1>4

LEMMA EndedInit == Init => EndedInv
<1> SUFFICES ASSUME Init PROVE EndedInv
  OBVIOUS
<1>1. Ended = {}
  BY DEF Init, Ended, Reached
<1>2. Hits(Counted(Ended)) = {} /\ Cardinality({}) = 0
  BY <1>1, FS_EmptySet DEF Hits, Counted
<1>3. results = << >> /\ Len(results) = 0 /\ \A p : p \notin PagesIn(results)
  BY DEF Init, PagesIn
<1>4. total_hitcount = 0
  BY DEF Init
<1>5. Cardinality(Ended) = 0
  BY <1>1, FS_EmptySet
<1> QED BY <1>1, <1>2, <1>3, <1>4, <1>5 DEF EndedInv

\* A step that does not change the replies of the servers in Ended.
LEMMA EndedSame ==
    ASSUME EndedInv, found' = found, results' = results, total_hitcount' = total_hitcount,
           Ended' = Ended, Receiving' => Receiving,
           \A s \in Ended : /\ Settled(s) => Settled(s)'
                            /\ Came(s)' = Came(s)
                            /\ Plain(s)' => /\ Plain(s)
                                            /\ sent'[s] > Len(Returned(s)) <=>
                                                 sent[s] > Len(Returned(s))
    PROVE  EndedInv'
<1>1. \A s : Returned(s)' = Returned(s)
  BY SameFound
<1>2. \A s \in Ended' : Settled(s)'
  BY DEF EndedInv
<1>3. total_hitcount' \in Nat
  BY DEF EndedInv
<1>4. ASSUME Receiving'
      PROVE  /\ Len(results') = Cardinality(Ended')
             /\ \A p : p \in PagesIn(results)' <=> \E s \in Ended' : p \in Came(s)'
             /\ (\A s \in Ended' : Plain(s)') =>
                  total_hitcount' = Cardinality(Hits(Counted(Ended))')
  <2>1. /\ Len(results) = Cardinality(Ended)
        /\ \A p : p \in PagesIn(results) <=> \E s \in Ended : p \in Came(s)
        /\ (\A s \in Ended : Plain(s)) => total_hitcount = Cardinality(Hits(Counted(Ended)))
    BY <1>4 DEF EndedInv
  <2>2. PagesIn(results)' = PagesIn(results)
    BY DEF PagesIn
  <2>3. ASSUME \A s \in Ended' : Plain(s)'
        PROVE  Hits(Counted(Ended))' = Hits(Counted(Ended))
    <3>1. \A s \in Ended : sent'[s] > Len(Returned(s)') <=> sent[s] > Len(Returned(s))
      BY <1>1, <2>3
    <3>2. Counted(Ended)' = Counted(Ended)
      BY <3>1 DEF Counted
    <3> QED BY <3>2 DEF Hits
  <2> QED BY <2>1, <2>2, <2>3
<1> QED BY <1>2, <1>3, <1>4 DEF EndedInv

LEMMA EndedArrives ==
    ASSUME NetInv, PhaseInv, EndedInv, NEW s \in Servers, Serve(s) \/ Die(s) \/ Leak(s)
    PROVE  EndedInv'
<1>1. /\ UNCHANGED <<found, opt, pc, hosts, replyVars, results, mergeVars>>
      /\ \A t \in Servers : Settled(t) =>
           /\ Settled(t)' /\ Came(t)' = Came(t)
           /\ Plain(t)' => /\ Plain(t)
                           /\ sent'[t] > Len(Returned(t)) <=> sent[t] > Len(Returned(t))
  BY Arrives
<1>2. Ended' = Ended
  BY <1>1, NetArrives DEF Ended, replyVars
<1>3. \A t \in Ended : t \in Servers /\ Settled(t)
  BY DEF Ended, Reached, EndedInv
<1>4. Receiving' => Receiving
  BY <1>1 DEF Receiving
<1> QED BY <1>1, <1>2, <1>3, <1>4, EndedSame DEF replyVars

LEMMA EndedConnect ==
    ASSUME NetInv, PhaseInv, EndedInv, NEW s \in Servers, Connect(s) \/ Refused(s)
    PROVE  EndedInv'
<1>1. /\ Ended = {} /\ Ended' = {} /\ Receiving /\ Receiving'
      /\ UNCHANGED <<found, opt, sent, reading, total_hitcount, results, mergeVars>>
  BY NetConnect
<1> QED BY <1>1, EndedSame

LEMMA EndedRead ==
    ASSUME NetInv, PhaseInv, ReadInv, EndedInv, select \/ nextSocket \/ parseLine
    PROVE  EndedInv'
<1>1. /\ Ended' = Ended /\ Receiving /\ Receiving'
      /\ UNCHANGED <<netVars, opt, selecter, num_of_sockets, total_hitcount, results, mergeVars>>
  BY NetRead
<1>2. \A s : /\ Came(s)' = Came(s) /\ (Plain(s)' <=> Plain(s)) /\ (Settled(s)' <=> Settled(s))
             /\ sent'[s] = sent[s]
  BY <1>1, SameReply DEF netVars
<1> QED BY <1>1, <1>2, EndedSame DEF netVars

LEMMA EndedMerge ==
    ASSUME NetInv, PhaseInv, EndedInv, search \/ Merge
    PROVE  EndedInv'
<1>1. Ended' = Ended /\ UNCHANGED <<netVars, opt, replyVars>> /\ ~ Receiving'
  BY NetMerge
<1>2. \A s : Settled(s)' <=> Settled(s)
  BY <1>1, SameReply DEF netVars
<1> QED BY <1>1, <1>2 DEF EndedInv, replyVars

\* At the end of a reply all of it that came has been read, and nothing that counts will come.
LEMMA ReplyRead ==
    ASSUME NetInv, ReadInv, NEW s, s = reading.socket, s # NoServer, AtEnd(s)
    PROVE  /\ s \in Servers /\ Settled(s)
           /\ reading.docs \in Seq(Pages) /\ \A p : p \in Range(reading.docs) <=> p \in Came(s)
           /\ reading.hitcount \in Nat
           /\ Plain(s) =>
                reading.hitcount = IF sent[s] > Len(Returned(s)) THEN Len(found[s]) ELSE 0
<1> DEFINE n == Len(Returned(s))
           g == reading.got
<1>1. /\ s \in readable /\ g \in Nat /\ g <= sent[s] /\ g <= n + 1
      /\ \A i \in 1 .. n : i <= g => Returned(s)[i].line # "LEAVE"
      /\ reading.docs \in Seq(Pages)
      /\ \A p : p \in Range(reading.docs) <=>
           \E i \in 1 .. n : i <= g /\ Returned(s)[i] = p /\ p.line = "doc"
      /\ reading.hitcount \in Nat
      /\ g > n => reading.hitcount = Len(found[s])
      /\ g <= n /\ (\A i \in 1 .. n : Returned(s)[i].line # "hitcount") => reading.hitcount = 0
  BY DEF ReadInv
<1>2. s \in Servers /\ found \in Finds /\ sent \in [Servers -> Nat] /\ sent[s] \in Nat
      /\ sent[s] <= Len(Lines(s))
  BY <1>1 DEF NetInv, Reached
<1>3. /\ n \in Nat /\ \A i \in 1 .. n : Lines(s)[i] = Returned(s)[i]
      /\ Len(Lines(s)) = n + 2 /\ Lines(s)[n + 1].line = "hitcount"
  BY <1>2, ReturnedFacts, LinesFacts
<1> HIDE DEF n, g
<1>4. \/ g = sent[s] /\ conn[s] = "closed"
      \/ g < n /\ g + 1 \in 1 .. n /\ g + 1 <= sent[s] /\ Returned(s)[g + 1].line = "LEAVE"
      \/ g = n + 1 /\ sent[s] = n + 2
  <2>1. CASE ~ (g < sent[s])
    <3>1. g = sent[s]
      BY <1>1, <1>2, <2>1
    <3>2. conn[s] = "closed"
      BY <2>1 DEF AtEnd, g
    <3> QED BY <3>1, <3>2
  <2>2. CASE g < sent[s]
    <3>1. Lines(s)[g + 1].line = "LEAVE"
      BY <2>2 DEF AtEnd, g
    <3>2. CASE g < n
      <4>1. g + 1 \in 1 .. n /\ g + 1 <= sent[s]
        BY <1>1, <1>2, <1>3, <2>2, <3>2
      <4>2. Returned(s)[g + 1].line = "LEAVE"
        BY <1>3, <3>1, <4>1
      <4> QED BY <3>2, <4>1, <4>2
    <3>3. CASE g = n
      <4>1. Lines(s)[g + 1].line = "hitcount"
        BY <1>3, <3>3
      <4> QED BY <3>1, <4>1
    <3>4. CASE g = n + 1
      BY <1>1, <1>2, <1>3, <2>2, <3>4
    <3> QED BY <1>1, <1>3, <3>2, <3>3, <3>4
  <2> QED BY <2>1, <2>2
<1>5. Settled(s)
  BY <1>3, <1>4 DEF Settled, n
<1>6. \A j \in 1 .. n : j <= sent[s] /\ (\A k \in 1 .. j : Returned(s)[k].line # "LEAVE") => j <= g
  <2> SUFFICES ASSUME NEW j \in 1 .. n, j <= sent[s],
                      \A k \in 1 .. j : Returned(s)[k].line # "LEAVE"
               PROVE  j <= g
    OBVIOUS
  <2>1. CASE g = sent[s]
    BY <2>1
  <2>2. CASE g = n + 1
    BY <1>3, <2>2
  <2>3. CASE g < n /\ g + 1 \in 1 .. n /\ Returned(s)[g + 1].line = "LEAVE"
    <3>1. g + 1 \notin 1 .. j
      BY <2>3
    <3> QED BY <1>1, <1>3, <2>3, <3>1
  <2> QED BY <1>4, <2>1, <2>2, <2>3
<1>7. \A p : p \in Came(s) <=>
        \E j \in 1 .. n : /\ j <= sent[s] /\ Returned(s)[j] = p /\ p.line = "doc"
                          /\ \A k \in 1 .. j : Returned(s)[k].line # "LEAVE"
  BY <1>2, CameFacts DEF n
<1>8. \A p : p \in Came(s) => p \in Range(reading.docs)
  BY <1>1, <1>6, <1>7
<1>9. \A p : p \in Range(reading.docs) => p \in Came(s)
  <2> SUFFICES ASSUME NEW p, p \in Range(reading.docs) PROVE p \in Came(s)
    OBVIOUS
  <2>1. PICK i \in 1 .. n : i <= g /\ Returned(s)[i] = p /\ p.line = "doc"
    BY <1>1
  <2>2. \A k \in 1 .. i : k \in 1 .. n /\ k <= g
    BY <1>1, <1>3, <2>1
  <2>3. i <= sent[s]
    BY <1>1, <1>2, <1>3, <2>1
  <2> QED BY <1>1, <1>7, <2>1, <2>2, <2>3
<1>10. ASSUME Plain(s)
       PROVE  reading.hitcount = IF sent[s] > n THEN Len(found[s]) ELSE 0
  <2>1. \A i \in 1 .. n : \/ Returned(s)[i].line \in {"doc", "other"}
                          \/ Returned(s)[i].line = "hitcount" /\ sent[s] > n
    BY <1>10 DEF Plain, n
  <2>2. ~ (g + 1 \in 1 .. n /\ Returned(s)[g + 1].line = "LEAVE")
    BY <2>1
  <2>3. CASE sent[s] > n
    <3>1. g > n
      BY <1>1, <1>2, <1>3, <1>4, <2>2, <2>3
    <3> QED BY <1>1, <2>3, <3>1
  <2>4. CASE ~ (sent[s] > n)
    <3>1. g <= n
      BY <1>1, <1>2, <1>3, <2>4
    <3>2. \A i \in 1 .. n : Returned(s)[i].line # "hitcount"
      BY <2>1, <2>4
    <3> QED BY <1>1, <2>4, <3>1, <3>2
  <2> QED BY <2>3, <2>4
<1> QED BY <1>1, <1>2, <1>5, <1>8, <1>9, <1>10 DEF n

LEMMA AppendPages ==
    ASSUME NEW lists \in Seq(Seq(Pages)), NEW list \in Seq(Pages)
    PROVE  /\ Append(lists, list) \in Seq(Seq(Pages))
           /\ Len(Append(lists, list)) = Len(lists) + 1 /\ Len(lists) \in Nat
           /\ Append(lists, list)[Len(lists) + 1] = list
           /\ \A i \in 1 .. Len(lists) : Append(lists, list)[i] = lists[i]
           /\ \A p : p \in PagesIn(Append(lists, list)) <=>
                p \in PagesIn(lists) \/ p \in Range(list)
<1> DEFINE all == Append(lists, list)
<1>1. /\ all \in Seq(Seq(Pages)) /\ Len(all) = Len(lists) + 1 /\ Len(lists) \in Nat
      /\ all[Len(lists) + 1] = list /\ \A i \in 1 .. Len(lists) : all[i] = lists[i]
  OBVIOUS
<1> HIDE DEF all
<1>2. \A i : i \in 1 .. Len(all) <=> i \in 1 .. Len(lists) \/ i = Len(lists) + 1
  BY <1>1
<1>3. \A p : p \in PagesIn(all) <=> \E i \in 1 .. Len(all) : p \in Range(all[i])
  BY DEF PagesIn
<1>4. \A p : p \in PagesIn(lists) <=> \E i \in 1 .. Len(lists) : p \in Range(lists[i])
  BY DEF PagesIn
<1>5. \A p : p \in PagesIn(all) <=> p \in PagesIn(lists) \/ p \in Range(list)
  BY <1>1, <1>2, <1>3, <1>4
<1> QED BY <1>1, <1>5 DEF all

LEMMA EndedEndOfReply ==
    ASSUME NetInv, PhaseInv, ReadInv, EndedInv, Proper(results), endOfReply
    PROVE  EndedInv'
<1>0. PICK s : s = reading.socket
  OBVIOUS
<1>1. /\ s # NoServer /\ AtEnd(s)
      /\ total_hitcount' = total_hitcount + reading.hitcount
      /\ results' = Append(results, reading.docs)
      /\ UNCHANGED <<netVars, opt, pc, mergeVars>>
  BY <1>0 DEF endOfReply
<1>2. /\ s \in Servers /\ Settled(s)
      /\ reading.docs \in Seq(Pages) /\ \A p : p \in Range(reading.docs) <=> p \in Came(s)
      /\ reading.hitcount \in Nat
      /\ Plain(s) =>
           reading.hitcount = IF sent[s] > Len(Returned(s)) THEN Len(found[s]) ELSE 0
  BY <1>0, <1>1, ReplyRead
<1>3. Receiving /\ Receiving' /\ s \notin Ended /\ Ended' = Ended \cup {s}
  BY <1>0, NetEndOfReply
<1>4. \A t : /\ Came(t)' = Came(t) /\ (Plain(t)' <=> Plain(t)) /\ (Settled(t)' <=> Settled(t))
             /\ sent'[t] = sent[t] /\ Returned(t)' = Returned(t)
  BY <1>1, SameReply, SameFound DEF netVars
<1>5. /\ \A t \in Ended : Settled(t)
      /\ total_hitcount \in Nat
      /\ Len(results) = Cardinality(Ended)
      /\ \A p : p \in PagesIn(results) <=> \E t \in Ended : p \in Came(t)
      /\ (\A t \in Ended : Plain(t)) => total_hitcount = Cardinality(Hits(Counted(Ended)))
  BY <1>3 DEF EndedInv
<1>6. results \in Seq(Seq(Pages))
  BY DEF Proper
<1>7. \A t \in Ended' : Settled(t)'
  BY <1>2, <1>3, <1>4, <1>5
<1>8. total_hitcount' \in Nat
  BY <1>1, <1>2, <1>5
<1>9. Len(results') = Cardinality(Ended')
  <2>1. IsFiniteSet(Ended)
    BY NetFinite
  <2>2. Cardinality(Ended \cup {s}) = Cardinality(Ended) + 1
    BY <1>3, <2>1, FS_AddElement
  <2>3. Len(results') = Len(results) + 1
    BY <1>1, <1>2, <1>6, AppendPages
  <2> QED BY <1>3, <1>5, <2>2, <2>3
<1>10. \A p : p \in PagesIn(results)' <=> \E t \in Ended' : p \in Came(t)'
  <2>1. \A p : p \in PagesIn(results)' <=> p \in PagesIn(results) \/ p \in Range(reading.docs)
    <3>1. PagesIn(results)' = PagesIn(Append(results, reading.docs))
      BY <1>1 DEF PagesIn
    <3> QED BY <1>2, <1>6, <3>1, AppendPages
  <2> QED BY <1>2, <1>3, <1>4, <1>5, <2>1
<1>11. ASSUME \A t \in Ended' : Plain(t)'
       PROVE  total_hitcount' = Cardinality(Hits(Counted(Ended))')
  <2>1. Plain(s) /\ \A t \in Ended : Plain(t)
    BY <1>3, <1>4, <1>11
  <2>2. total_hitcount = Cardinality(Hits(Counted(Ended)))
    BY <1>5, <2>1
  <2>3. Counted(Ended)' = Counted(Ended \cup {s})
    BY <1>3, <1>4 DEF Counted
  <2>4. Hits(Counted(Ended))' = Hits(Counted(Ended \cup {s}))
    BY <1>1, <2>3 DEF Hits, netVars
  <2>5. Counted(Ended) \in SUBSET Servers /\ s \notin Counted(Ended) /\ found \in Finds
    BY <1>3 DEF Counted, Ended, Reached, NetInv
  <2>6. CASE sent[s] > Len(Returned(s))
    <3>1. Counted(Ended \cup {s}) = Counted(Ended) \cup {s}
      BY <2>6 DEF Counted
    <3>2. Cardinality(Hits(Counted(Ended) \cup {s})) =
            Cardinality(Hits(Counted(Ended))) + Len(found[s])
      BY <1>2, <2>5, HitsFacts
    <3>3. reading.hitcount = Len(found[s])
      BY <1>2, <2>1, <2>6
    <3> QED BY <1>1, <2>2, <2>4, <3>1, <3>2, <3>3
  <2>7. CASE ~ (sent[s] > Len(Returned(s)))
    <3>1. Counted(Ended \cup {s}) = Counted(Ended)
      BY <2>7 DEF Counted
    <3>2. reading.hitcount = 0
      BY <1>2, <2>1, <2>7
    <3> QED BY <1>1, <1>5, <2>2, <2>4, <3>1, <3>2
  <2> QED BY <2>6, <2>7
<1> QED BY <1>3, <1>7, <1>8, <1>9, <1>10, <1>11 DEF EndedInv

\* The list of a server is added to the lists of others, which have other pages.
LEMMA ListsEndOfReply ==
    ASSUME NetInv, PhaseInv, ReadInv, ReadSorted, EndedInv, Proper(results), endOfReply
    PROVE  Proper(results)'
<1>0. PICK s : s = reading.socket
  OBVIOUS
<1> DEFINE docs == reading.docs
           N == Len(results)
<1>1. s # NoServer /\ AtEnd(s) /\ results' = Append(results, docs)
  BY <1>0 DEF endOfReply
<1>2. s \in Servers /\ docs \in Seq(Pages) /\ \A p : p \in Range(docs) <=> p \in Came(s)
  BY <1>0, <1>1, ReplyRead
<1>3. Sorted(docs)
  BY <1>0, <1>1 DEF ReadSorted
<1>4. results \in Seq(Seq(Pages)) /\ N \in Nat
      /\ \A i \in 1 .. N : results[i] \in Seq(Pages) /\ Len(results[i]) \in Nat
  BY DEF Proper
<1>5. /\ results' \in Seq(Seq(Pages)) /\ Len(results') = N + 1 /\ results'[N + 1] = docs
      /\ \A i \in 1 .. N : results'[i] = results[i]
  BY <1>1, <1>2, <1>4, AppendPages
<1>6. \A i \in 1 .. N : \A a \in 1 .. Len(results[i]), b \in 1 .. Len(docs) :
        results[i][a].did # docs[b].did
  <2> SUFFICES ASSUME NEW i \in 1 .. N, NEW a \in 1 .. Len(results[i]), NEW b \in 1 .. Len(docs)
               PROVE  results[i][a].did # docs[b].did
    OBVIOUS
  <2>1. results[i][a] \in PagesIn(results)
    BY <1>4, PagesInFacts
  <2>2. Receiving /\ s \notin Ended
    BY <1>0, NetEndOfReply
  <2>3. PICK t \in Ended : results[i][a] \in Came(t)
    BY <2>1, <2>2 DEF EndedInv
  <2>4. docs[b] \in Came(s)
    <3>1. docs[b] \in Range(docs)
      BY <1>2 DEF Range
    <3> QED BY <1>2, <3>1
  <2>5. t \in Servers /\ t # s /\ found \in Finds /\ sent \in [Servers -> Nat]
    BY <2>2 DEF Ended, Reached, NetInv
  <2> QED BY <1>2, <2>3, <2>4, <2>5, CameApart
<1> HIDE DEF docs, N
<1>7. \A i : i \in 1 .. N + 1 <=> i \in 1 .. N \/ i = N + 1
  BY <1>4
<1>8. \A i \in 1 .. N + 1 : Sorted(results'[i])
  BY <1>3, <1>5, <1>7 DEF Proper, N
<1>9. Apart(results')
  <2> SUFFICES ASSUME NEW i \in 1 .. N + 1, NEW k \in 1 .. N + 1, i # k,
                      NEW a \in 1 .. Len(results'[i]), NEW b \in 1 .. Len(results'[k])
               PROVE  results'[i][a].did # results'[k][b].did
    BY <1>5 DEF Apart
  <2>1. CASE i \in 1 .. N /\ k \in 1 .. N
    <3>1. results'[i] = results[i] /\ results'[k] = results[k]
      BY <1>5, <2>1
    <3>2. a \in 1 .. Len(results[i]) /\ b \in 1 .. Len(results[k])
      BY <3>1
    <3>3. results[i][a].did # results[k][b].did
      BY <2>1, <3>2 DEF Proper, Apart, N
    <3> QED BY <3>1, <3>3
  <2>2. CASE i \in 1 .. N /\ k = N + 1
    <3>1. results'[i] = results[i] /\ results'[k] = docs
      BY <1>5, <2>2
    <3>2. results[i][a].did # docs[b].did
      BY <1>6, <2>2, <3>1
    <3> QED BY <3>1, <3>2
  <2>3. CASE i = N + 1 /\ k \in 1 .. N
    <3>1. results'[k] = results[k] /\ results'[i] = docs
      BY <1>5, <2>3
    <3>2. results[k][b].did # docs[a].did
      BY <1>6, <2>3, <3>1
    <3> QED BY <3>1, <3>2
  <2> QED BY <1>7, <2>1, <2>2, <2>3
<1> QED BY <1>5, <1>8, <1>9 DEF Proper

-----------------------------------------------------------------------------
(* The merge of the lists. *)

Entry == [page : Pages, similar_pages : Seq(Pages)]

LEMMA AddFacts ==
    ASSUME merged_result \in Seq(Entry), NEW p \in Pages, Add(p),
           NEW L, L = Len(merged_result)
    PROVE  /\ merged_result' \in Seq(Entry) /\ L \in Nat /\ Len(merged_result') = L + 1
           /\ \A i \in 1 .. L : /\ merged_result'[i] = merged_result[i]
                                /\ PagesAt(i)' = PagesAt(i)
           /\ merged_result'[L + 1].page = p /\ merged_result'[L + 1].similar_pages = << >>
           /\ PagesAt(L + 1)' = {p}
<1> DEFINE e == [page |-> p, similar_pages |-> << >>]
<1>1. e \in Entry /\ e.page = p /\ e.similar_pages = << >>
  BY DEF Entry
<1>2. merged_result' = Append(merged_result, e)
  BY DEF Add
<1> HIDE DEF e
<1>3. /\ merged_result' \in Seq(Entry) /\ L \in Nat /\ Len(merged_result') = L + 1
      /\ \A i \in 1 .. L : merged_result'[i] = merged_result[i]
      /\ merged_result'[L + 1] = e
  BY <1>1, <1>2
<1>4. \A i \in 1 .. L : PagesAt(i)' = PagesAt(i)
  BY <1>3 DEF PagesAt
<1>5. PagesAt(L + 1)' = {p} \cup Range(<< >>)
  BY <1>1, <1>3 DEF PagesAt
<1>6. Range(<< >>) = {}
  BY DEF Range
<1> QED BY <1>1, <1>3, <1>4, <1>5, <1>6

LEMMA AddSimilarFacts ==
    ASSUME merged_result \in Seq(Entry), NEW p \in Pages,
           NEW L, L = Len(merged_result), NEW pos \in 1 .. L, AddSimilar(p, pos)
    PROVE  /\ merged_result' \in Seq(Entry) /\ L \in Nat /\ Len(merged_result') = L
           /\ \A i \in 1 .. L : /\ merged_result'[i].page = merged_result[i].page
                                /\ i # pos => /\ merged_result'[i] = merged_result[i]
                                              /\ PagesAt(i)' = PagesAt(i)
           /\ merged_result'[pos].similar_pages = Append(merged_result[pos].similar_pages, p)
           /\ PagesAt(pos)' = PagesAt(pos) \cup {p}
<1>1. PICK m : m = merged_result[pos]
  OBVIOUS
<1>2. m \in Entry
  BY <1>1
<1>3. PICK sim : sim = m.similar_pages
  OBVIOUS
<1>4. m = [page |-> m.page, similar_pages |-> sim] /\ m.page \in Pages /\ sim \in Seq(Pages)
  BY <1>2, <1>3 DEF Entry
<1> DEFINE e == [page |-> m.page, similar_pages |-> Append(sim, p)]
<1>5. e \in Entry /\ e.page = m.page /\ e.similar_pages = Append(sim, p)
  <2>1. Append(sim, p) \in Seq(Pages)
    BY <1>4
  <2> QED BY <1>4, <2>1 DEF Entry
<1>6. merged_result' = [merged_result EXCEPT ![pos] = e]
  <2>1. merged_result' =
          [merged_result EXCEPT ![pos] = [m EXCEPT !.similar_pages = Append(sim, p)]]
    BY <1>1, <1>3 DEF AddSimilar
  <2>2. PICK pg : pg = m.page
    OBVIOUS
  <2>3. m = [page |-> pg, similar_pages |-> sim]
    BY <1>4, <2>2
  <2>4. \A x : [[page |-> pg, similar_pages |-> sim] EXCEPT !.similar_pages = x] =
                 [page |-> pg, similar_pages |-> x]
    OBVIOUS
  <2>5. [m EXCEPT !.similar_pages = Append(sim, p)] = e
    BY <2>2, <2>3, <2>4
  <2> HIDE DEF e
  <2> QED BY <2>1, <2>5
<1> HIDE DEF e
<1>7. /\ merged_result' \in Seq(Entry) /\ L \in Nat /\ Len(merged_result') = L
      /\ merged_result'[pos] = e
      /\ \A i \in 1 .. L : i # pos => merged_result'[i] = merged_result[i]
  BY <1>5, <1>6
<1>8. \A i \in 1 .. L : i # pos => PagesAt(i)' = PagesAt(i)
  BY <1>7 DEF PagesAt
<1>9. PagesAt(pos)' = PagesAt(pos) \cup {p}
  <2>1. PagesAt(pos)' = {m.page} \cup Range(Append(sim, p))
    BY <1>5, <1>7 DEF PagesAt
  <2>2. PagesAt(pos) = {m.page} \cup Range(sim)
    BY <1>1, <1>3 DEF PagesAt
  <2>3. Range(Append(sim, p)) = Range(sim) \cup {p}
    <3> DEFINE all == Append(sim, p)
               k == Len(sim)
    <3>1. /\ k \in Nat /\ DOMAIN all = 1 .. k + 1 /\ DOMAIN sim = 1 .. k
          /\ all[k + 1] = p /\ \A i \in 1 .. k : all[i] = sim[i]
      BY <1>4
    <3> HIDE DEF all, k
    <3>2. \A i : i \in 1 .. k + 1 <=> i \in 1 .. k \/ i = k + 1
      BY <3>1
    <3>3. Range(all) = Range(sim) \cup {p}
      BY <3>1, <3>2 DEF Range
    <3> QED BY <3>3 DEF all
  <2> QED BY <2>1, <2>2, <2>3
<1>10. \A i \in 1 .. L : merged_result'[i].page = merged_result[i].page
  BY <1>1, <1>5, <1>7
<1> QED BY <1>1, <1>3, <1>5, <1>7, <1>8, <1>9, <1>10

\* A page taken from the best list goes to the place pos of the answer, which then has K
\* places: below what is there, or behind everything.
Goes(p, pos, L, K) ==
    /\ Len(merged_result') = K
    /\ \A i \in 1 .. L : /\ i \in 1 .. K /\ merged_result'[i].page = merged_result[i].page
                         /\ i # pos => PagesAt(i)' = PagesAt(i)
    /\ \/ pos \in 1 .. L /\ K = L /\ PagesAt(pos)' = PagesAt(pos) \cup {p}
       \/ pos = L + 1 /\ K = L + 1 /\ PagesAt(pos)' = {p} /\ merged_result'[pos].page = p

LEMMA MergeTakes ==
    ASSUME MergeInv, Proper(results), ~ Receiving, Wanted' = Wanted, Nonempty # {}, Shift,
           NEW p, p = Head(results[Best]), NEW L, L = Len(merged_result), NEW pos, NEW K, Goes(p, pos, L, K)
    PROVE  /\ \A i, j \in 1 .. K : i < j => merged_result'[i].page.score >= merged_result'[j].page.score
           /\ \A a \in Taken', q \in PagesIn(results)' : a.score >= q.score /\ a.did # q.did
           /\ (Taken \cup PagesIn(results))' = Wanted'
           /\ \A i, j \in 1 .. K : i # j => PagesAt(i)' \cap PagesAt(j)' = {}
           /\ p \notin Taken
<1>1. /\ p \in Pages /\ p \in PagesIn(results)
      /\ \A q \in PagesIn(results) : q \in Pages /\ p.score >= q.score
      /\ \A q : q \in PagesIn(results)' <=> q \in PagesIn(results) /\ q # p
      /\ \A q \in PagesIn(results)' : q.did # p.did
  BY ShiftFacts
<1>2. /\ \A i, j \in 1 .. L :
           i < j => merged_result[i].page.score >= merged_result[j].page.score
      /\ \A a \in Taken, q \in PagesIn(results) : a.score >= q.score /\ a.did # q.did
      /\ Taken \cup PagesIn(results) = Wanted
      /\ \A i, j \in 1 .. L : i # j => PagesAt(i) \cap PagesAt(j) = {}
      /\ L \in Nat
  BY DEF MergeInv
<1>3. \A a : a \in Taken <=> \E i \in 1 .. L : a \in PagesAt(i)
  BY DEF Taken
<1>4. \A a : a \in Taken' <=> \E i \in 1 .. K : a \in PagesAt(i)'
  BY DEF Taken, Goes
<1>5. \A i : i \in 1 .. K <=> i \in 1 .. L \/ i = pos
  BY <1>2 DEF Goes
<1>6. p \notin Taken
  BY <1>1, <1>2
<1>7. \A i \in 1 .. K : \A a : a \in PagesAt(i)' =>
        (i \in 1 .. L /\ a \in PagesAt(i)) \/ (i = pos /\ a = p)
  BY <1>5 DEF Goes
<1>8. p \in PagesAt(pos)' /\ \A i \in 1 .. L : \A a \in PagesAt(i) : a \in PagesAt(i)'
  BY DEF Goes
<1>9. \A a : a \in Taken' <=> a \in Taken \/ a = p
  BY <1>3, <1>4, <1>5, <1>7, <1>8
<1>10. \A i, j \in 1 .. K : i < j => merged_result'[i].page.score >= merged_result'[j].page.score
  <2> SUFFICES ASSUME NEW i \in 1 .. K, NEW j \in 1 .. K, i < j
               PROVE  merged_result'[i].page.score >= merged_result'[j].page.score
    OBVIOUS
  <2>1. CASE j \in 1 .. L
    <3>1. i \in 1 .. L
      BY <1>2, <2>1
    <3> QED BY <1>2, <2>1, <3>1 DEF Goes
  <2>2. CASE j \notin 1 .. L
    <3>1. j = pos /\ pos = L + 1 /\ merged_result'[j].page = p
      BY <1>5, <2>2 DEF Goes
    <3>2. i \in 1 .. L
      BY <1>2, <3>1
    <3>3. merged_result[i].page \in Taken
      BY <1>3, <3>2 DEF PagesAt
    <3>4. merged_result[i].page.score >= p.score
      BY <1>1, <1>2, <3>3
    <3> QED BY <3>1, <3>2, <3>4 DEF Goes
  <2> QED BY <2>1, <2>2
<1>11. \A a \in Taken', q \in PagesIn(results)' : a.score >= q.score /\ a.did # q.did
  BY <1>1, <1>2, <1>9
<1>12. (Taken \cup PagesIn(results))' = Wanted'
  BY <1>1, <1>2, <1>9
<1>13. \A i, j \in 1 .. K : i # j => PagesAt(i)' \cap PagesAt(j)' = {}
  <2> SUFFICES ASSUME NEW i \in 1 .. K, NEW j \in 1 .. K, i # j,
                      NEW a, a \in PagesAt(i)', a \in PagesAt(j)'
               PROVE  FALSE
    OBVIOUS
  <2>1. CASE a = p
    <3>1. ~ (i \in 1 .. L /\ a \in PagesAt(i)) /\ ~ (j \in 1 .. L /\ a \in PagesAt(j))
      BY <1>3, <1>6, <2>1
    <3>2. i = pos /\ j = pos
      BY <1>7, <3>1
    <3> QED BY <3>2
  <2>2. CASE a # p
    <3>1. i \in 1 .. L /\ a \in PagesAt(i) /\ j \in 1 .. L /\ a \in PagesAt(j)
      BY <1>7, <2>2
    <3> QED BY <1>2, <3>1
  <2> QED BY <2>1, <2>2
<1> QED BY <1>6, <1>10, <1>11, <1>12, <1>13

LEMMA SizeFacts ==
    ASSUME NetInv, total_hitcount \in Nat PROVE size \in Nat
<1>1. opt.size \in Nat
  BY ServersAssumption DEF NetInv
<1> QED BY <1>1 DEF size, Least

\* Before the merge there is no answer.
LEMMA MergeInit == Init => MergeInv
<1> SUFFICES ASSUME Init PROVE MergeInv
  OBVIOUS
<1>1. merged_result = << >> /\ Len(merged_result) = 0 /\ url2pos = << >> /\ DOMAIN url2pos = {}
      /\ prev = NoPrev /\ Receiving /\ pc = "send"
  BY DEF Init, Receiving
<1>2. Taken = {}
  BY <1>1 DEF Taken
<1>3. size \in Nat
  BY SizeFacts, NetInit DEF Init
<1>4. merged_result \in Seq(Entry) /\ 0 <= size
  BY <1>1, <1>3
<1>5. 1 .. 0 = {}
  OBVIOUS
<1> QED BY <1>1, <1>2, <1>4, <1>5 DEF MergeInv, Entry

LEMMA MergeNone ==
    ASSUME merged_result' = << >>, url2pos' = << >>, prev' = NoPrev, size' \in Nat,
           pc' = "done" => ~ (total_hitcount' > 0),
           Receiving' \/ (PagesIn(results) = Wanted)'
    PROVE  MergeInv'
<1>1. Len(merged_result') = 0 /\ DOMAIN url2pos' = {} /\ merged_result' \in Seq(Entry) /\ 0 <= size'
  OBVIOUS
<1>2. 1 .. 0 = {}
  OBVIOUS
<1>3. Taken' = {}
  BY <1>1, <1>2 DEF Taken
<1> QED BY <1>1, <1>2, <1>3 DEF MergeInv, Entry

LEMMA SizeNext ==
    ASSUME NetInv', EndedInv' PROVE size' \in Nat
<1>1. opt' \in Options /\ total_hitcount' \in Nat
  BY DEF NetInv, EndedInv
<1>2. opt'.size \in Nat
  BY <1>1, ServersAssumption
<1> QED BY <1>1, <1>2 DEF size, Least

LEMMA MergeReceiving ==
    ASSUME NetInv', PhaseInv', EndedInv', Receiving'
    PROVE  MergeInv'
<1>1. merged_result' = << >> /\ url2pos' = << >> /\ prev' = NoPrev /\ pc' # "done"
  BY DEF PhaseInv, Receiving
<1> QED BY <1>1, SizeNext, MergeNone

\* What is wanted of the replies is settled when all of them have been read.
LEMMA WantedSame ==
    ASSUME opt' = opt, \A s \in Servers : Came(s)' = Came(s)
    PROVE  Wanted' = Wanted
<1> QED BY DEF Wanted

LEMMA MergeArrives ==
    ASSUME NetInv, PhaseInv, EndedInv, MergeInv, NEW s \in Servers, Serve(s) \/ Die(s) \/ Leak(s)
    PROVE  MergeInv'
<1>1. /\ UNCHANGED <<found, opt, pc, hosts, replyVars, results, mergeVars>>
      /\ sent' \in [Servers -> Nat]
      /\ \A t \in Servers :
           /\ conn[t] \in {"none", "refused"} => sent'[t] = sent[t]
           /\ Settled(t) => Came(t)' = Came(t)
  BY Arrives
<1>2. CASE Receiving
  <2>1. Receiving'
    BY <1>1, <1>2 DEF Receiving
  <2> QED BY <2>1, NetArrives, EndedArrives, MergeReceiving
<1>3. CASE ~ Receiving
  <2>1. selecter = {}
    BY <1>3 DEF PhaseInv, Receiving
  <2>2. \A t \in Servers : Came(t)' = Came(t)
    <3> SUFFICES ASSUME NEW t \in Servers PROVE Came(t)' = Came(t)
      OBVIOUS
    <3>1. CASE conn[t] \in {"none", "refused"}
      BY <1>1, <3>1, SameReply
    <3>2. CASE conn[t] \notin {"none", "refused"}
      <4>1. t \in Ended
        BY <2>1, <3>2 DEF Ended, Reached
      <4> QED BY <1>1, <4>1 DEF EndedInv
    <3> QED BY <3>1, <3>2
  <2>3. Wanted' = Wanted
    BY <1>1, <2>2, WantedSame
  <2>4. /\ PagesIn(results)' = PagesIn(results) /\ Taken' = Taken /\ size' = size
        /\ Nonempty' = Nonempty /\ \A i : PagesAt(i)' = PagesAt(i)
    BY <1>1 DEF PagesIn, Taken, PagesAt, size, Nonempty, mergeVars, replyVars
  <2> QED BY <1>1, <1>3, <2>3, <2>4 DEF MergeInv, mergeVars, replyVars, Receiving
<1> QED BY <1>2, <1>3

LEMMA MergeSearch ==
    ASSUME NetInv, PhaseInv, EndedInv, ListsInv, search
    PROVE  MergeInv' /\ Proper(results)'
<1>1. /\ pc = "select" /\ results' = filterSearchResult(results)
      /\ pc' = IF total_hitcount < 1 THEN "done" ELSE "merge"
      /\ UNCHANGED <<netVars, opt, replyVars, mergeVars>>
  BY DEF search
<1>2. /\ Ended = Reached /\ Receiving /\ NetInv' /\ EndedInv'
  BY NetMerge, EndedMerge
<1>3. merged_result' = << >> /\ url2pos' = << >> /\ prev' = NoPrev
  BY <1>1, <1>2 DEF PhaseInv, mergeVars
<1>4. Proper(results) /\ Proper(filterSearchResult(results))
      /\ \A p : p \in PagesIn(filterSearchResult(results)) <=>
           p \in PagesIn(results) /\ p.did \in opt.cluster
  BY FilterRight DEF ListsInv
<1>5. Proper(results)'
  BY <1>1, <1>4 DEF Proper, Sorted, Apart
<1>6. \A p : p \in PagesIn(results)' <=> p \in PagesIn(results) /\ p.did \in opt.cluster
  BY <1>1, <1>4 DEF PagesIn
<1>7. \A p : p \in PagesIn(results) <=> \E s \in Servers : p \in Came(s)
  <2>1. \A s \in Servers : s \in Ended \/ Came(s) = {}
    <3> SUFFICES ASSUME NEW s \in Servers, s \notin Ended PROVE Came(s) = {}
      OBVIOUS
    <3>1. conn[s] \in {"none", "refused"}
      BY <1>2 DEF Reached
    <3>2. sent[s] = 0 /\ found \in Finds /\ sent \in [Servers -> Nat]
      BY <3>1 DEF NetInv
    <3> QED BY <3>2, NothingCame
  <2>2. \A s \in Ended : s \in Servers
    BY DEF Ended, Reached
  <2> QED BY <1>2, <2>1, <2>2 DEF EndedInv
<1>8. \A p : p \in Wanted <=> (\E s \in Servers : p \in Came(s)) /\ p.did \in opt.cluster
  BY DEF Wanted
<1>9. Wanted' = Wanted
  BY <1>1, SameReply, WantedSame DEF netVars
<1>10. (PagesIn(results) = Wanted)'
  BY <1>6, <1>7, <1>8, <1>9
<1>11. pc' = "done" => ~ (total_hitcount' > 0)
  <2>1. total_hitcount \in Nat /\ total_hitcount' = total_hitcount
    BY <1>1 DEF EndedInv, replyVars
  <2> QED BY <1>1, <2>1
<1> QED BY <1>2, <1>3, <1>5, <1>10, <1>11, SizeNext, MergeNone

LEMMA MergedStep ==
    ASSUME NetInv, PhaseInv, EndedInv, ListsInv, MergeInv, merged
    PROVE  MergeInv' /\ Proper(results)'
<1>1. /\ pc = "merge" /\ pc' = "done" /\ (Len(merged_result) >= size \/ Nonempty = {})
      /\ UNCHANGED <<netVars, opt, replyVars, results, mergeVars>>
  BY DEF merged
<1>2. Wanted' = Wanted
  BY <1>1, SameReply, WantedSame DEF netVars
<1>3. /\ PagesIn(results)' = PagesIn(results) /\ Taken' = Taken /\ size' = size
      /\ Nonempty' = Nonempty /\ \A i : PagesAt(i)' = PagesAt(i)
  BY <1>1 DEF PagesIn, Taken, PagesAt, size, Nonempty, mergeVars, replyVars
<1>4. Len(merged_result) = size \/ Nonempty = {}
  <2>1. size \in Nat /\ Len(merged_result) \in Nat /\ Len(merged_result) <= size
    BY SizeFacts DEF MergeInv, EndedInv
  <2> QED BY <1>1, <2>1
<1>5. ~ Receiving
  BY <1>1 DEF Receiving
<1>6. MergeInv'
  BY <1>1, <1>2, <1>3, <1>4, <1>5 DEF MergeInv, mergeVars, replyVars
<1>7. Proper(results)'
  BY <1>1 DEF ListsInv
<1> QED BY <1>6, <1>7

\* What the four ways to take a page share.
LEMMA TakeStep ==
    ASSUME NetInv, PhaseInv, EndedInv, ListsInv, MergeInv, Merging, Shift,
           UNCHANGED <<netVars, opt, pc, replyVars>>
    PROVE  /\ ~ Receiving /\ ~ Receiving' /\ Wanted' = Wanted /\ size' = size /\ pc' = "merge"
           /\ Nonempty # {} /\ Proper(results) /\ Proper(results)'
           /\ Head(results[Best]) \in Pages
           /\ size \in Nat /\ Len(merged_result) \in Nat /\ Len(merged_result) + 1 <= size
           /\ merged_result \in Seq(Entry)
<1>1. pc = "merge" /\ Len(merged_result) < size /\ Nonempty # {}
  BY DEF Merging
<1>2. Proper(results)
  BY DEF ListsInv
<1>3. Wanted' = Wanted
  BY SameReply, WantedSame DEF netVars
<1>4. size' = size
  BY DEF size, replyVars
<1>5. size \in Nat /\ Len(merged_result) \in Nat /\ Len(merged_result) + 1 <= size
      /\ merged_result \in Seq(Entry)
  BY <1>1, SizeFacts DEF MergeInv, EndedInv, Entry
<1>6. Head(results[Best]) \in Pages /\ Proper(results)'
  BY <1>1, <1>2, ShiftFacts
<1> QED BY <1>1, <1>2, <1>3, <1>4, <1>5, <1>6 DEF Receiving

\* The two ways to put the page that was taken into the answer.
LEMMA TakeNew ==
    ASSUME NetInv, PhaseInv, EndedInv, ListsInv, MergeInv, Merging, Shift,
           UNCHANGED <<netVars, opt, pc, replyVars>>,
           NEW p, p = Head(results[Best]), Add(p), NEW L, L = Len(merged_result),
           opt.filter_simpages =>
             /\ \A i \in 1 .. L : \A q \in PagesAt(i) :
                  q.url \in DOMAIN url2pos' /\ url2pos'[q.url] = i
             /\ p.url \in DOMAIN url2pos' /\ url2pos'[p.url] = L + 1
             /\ \A u \in DOMAIN url2pos' : url2pos'[u] \in 1 .. L + 1
    PROVE  MergeInv' /\ Proper(results)'
<1>1. /\ ~ Receiving /\ ~ Receiving' /\ Wanted' = Wanted /\ size' = size /\ pc' = "merge"
      /\ Nonempty # {} /\ Proper(results) /\ Proper(results)' /\ p \in Pages
      /\ L \in Nat /\ L + 1 <= size /\ merged_result \in Seq(Entry)
  BY TakeStep
<1>2. /\ merged_result' \in Seq(Entry) /\ Len(merged_result') = L + 1
      /\ \A i \in 1 .. L : merged_result'[i] = merged_result[i] /\ PagesAt(i)' = PagesAt(i)
      /\ merged_result'[L + 1].page = p /\ merged_result'[L + 1].similar_pages = << >>
      /\ PagesAt(L + 1)' = {p}
  BY <1>1, AddFacts
<1>3. \A i : i \in 1 .. L + 1 <=> i \in 1 .. L \/ i = L + 1
  BY <1>1
<1>4. /\ \A i, j \in 1 .. L + 1 :
           i < j => merged_result'[i].page.score >= merged_result'[j].page.score
      /\ \A a \in Taken', q \in PagesIn(results)' : a.score >= q.score /\ a.did # q.did
      /\ (Taken \cup PagesIn(results))' = Wanted'
      /\ \A i, j \in 1 .. L + 1 : i # j => PagesAt(i)' \cap PagesAt(j)' = {}
  <2>1. \A i \in 1 .. L : /\ i \in 1 .. L + 1 /\ merged_result'[i].page = merged_result[i].page
                          /\ i # L + 1 => PagesAt(i)' = PagesAt(i)
    BY <1>2, <1>3
  <2>2. Goes(p, L + 1, L, L + 1)
    BY <1>2, <2>1 DEF Goes
  <2> QED BY <1>1, <2>2, MergeTakes
<1>5. \A i \in 1 .. L + 1 :
        /\ IsInjective(merged_result'[i].similar_pages)
        /\ merged_result'[i].page \notin Range(merged_result'[i].similar_pages)
  <2>1. \A i \in 1 .. L : /\ IsInjective(merged_result'[i].similar_pages)
                          /\ merged_result'[i].page \notin Range(merged_result'[i].similar_pages)
    BY <1>2 DEF MergeInv
  <2>2. IsInjective(<< >>) /\ Range(<< >>) = {}
    BY DEF IsInjective, Range
  <2> QED BY <1>2, <1>3, <2>1, <2>2
<1>6. opt'.filter_simpages =>
        /\ \A i \in 1 .. L + 1 : \A q \in PagesAt(i)' :
             q.url \in DOMAIN url2pos' /\ url2pos'[q.url] = i
        /\ \A u \in DOMAIN url2pos' : url2pos'[u] \in 1 .. L + 1
        /\ merged_result' # << >>
  <2>1. merged_result' # << >>
    BY <1>1, <1>2
  <2> QED BY <1>2, <1>3, <2>1
<1> QED BY <1>1, <1>2, <1>4, <1>5, <1>6 DEF MergeInv, Entry

LEMMA TakeSimilar ==
    ASSUME NetInv, PhaseInv, EndedInv, ListsInv, MergeInv, Merging, Shift,
           UNCHANGED <<netVars, opt, pc, replyVars>>,
           NEW p, p = Head(results[Best]), NEW L, L = Len(merged_result),
           NEW pos \in 1 .. L, AddSimilar(p, pos),
           opt.filter_simpages =>
             /\ \A i \in 1 .. L : \A q \in PagesAt(i) :
                  q.url \in DOMAIN url2pos' /\ url2pos'[q.url] = i
             /\ p.url \in DOMAIN url2pos' /\ url2pos'[p.url] = pos
             /\ \A u \in DOMAIN url2pos' : url2pos'[u] \in 1 .. L
    PROVE  MergeInv' /\ Proper(results)'
<1>1. /\ ~ Receiving /\ ~ Receiving' /\ Wanted' = Wanted /\ size' = size /\ pc' = "merge"
      /\ Nonempty # {} /\ Proper(results) /\ Proper(results)' /\ p \in Pages
      /\ L \in Nat /\ L + 1 <= size /\ size \in Nat /\ merged_result \in Seq(Entry)
  BY TakeStep
<1>2. /\ merged_result' \in Seq(Entry) /\ Len(merged_result') = L
      /\ \A i \in 1 .. L : /\ merged_result'[i].page = merged_result[i].page
                           /\ i # pos => /\ merged_result'[i] = merged_result[i]
                                         /\ PagesAt(i)' = PagesAt(i)
      /\ merged_result'[pos].similar_pages = Append(merged_result[pos].similar_pages, p)
      /\ PagesAt(pos)' = PagesAt(pos) \cup {p}
  BY <1>1, AddSimilarFacts
<1>3. /\ \A i, j \in 1 .. L :
           i < j => merged_result'[i].page.score >= merged_result'[j].page.score
      /\ \A a \in Taken', q \in PagesIn(results)' : a.score >= q.score /\ a.did # q.did
      /\ (Taken \cup PagesIn(results))' = Wanted'
      /\ \A i, j \in 1 .. L : i # j => PagesAt(i)' \cap PagesAt(j)' = {}
      /\ p \notin Taken
  <2>1. Goes(p, pos, L, L)
    BY <1>2 DEF Goes
  <2> QED BY <1>1, <2>1, MergeTakes
<1>4. ASSUME NEW i \in 1 .. L
      PROVE  /\ IsInjective(merged_result'[i].similar_pages)
             /\ merged_result'[i].page \notin Range(merged_result'[i].similar_pages)
  <2>0. /\ IsInjective(merged_result[i].similar_pages)
        /\ merged_result[i].page \notin Range(merged_result[i].similar_pages)
    BY DEF MergeInv
  <2>1. CASE i # pos
    BY <1>2, <2>0, <2>1
  <2>2. CASE i = pos
    <3>1. PICK sim : sim = merged_result[i].similar_pages
      OBVIOUS
    <3>2. merged_result[i] \in Entry
      BY <1>1
    <3>3. sim \in Seq(Pages)
      BY <3>1, <3>2 DEF Entry
    <3>4. p \notin PagesAt(i)
      BY <1>3 DEF Taken
    <3>5. p \notin Range(sim) /\ merged_result[i].page # p
      BY <3>1, <3>4 DEF PagesAt
    <3> DEFINE all == Append(sim, p)
               k == Len(sim)
    <3>6. /\ k \in Nat /\ DOMAIN all = 1 .. k + 1 /\ DOMAIN sim = 1 .. k
          /\ all[k + 1] = p /\ \A j \in 1 .. k : all[j] = sim[j]
      BY <1>1, <3>3
    <3> HIDE DEF all, k
    <3>7. \A j : j \in 1 .. k + 1 <=> j \in 1 .. k \/ j = k + 1
      BY <3>6
    <3>8. \A j \in 1 .. k : all[j] # p
      BY <3>5, <3>6 DEF Range
    <3>9. IsInjective(all)
      <4>1. IsInjective(sim)
        BY <2>0, <3>1
      <4> QED BY <3>6, <3>7, <3>8, <4>1 DEF IsInjective
    <3>10. merged_result[i].page \notin Range(all)
      <4>1. merged_result[i].page \notin Range(sim)
        BY <2>0, <3>1
      <4> QED BY <3>5, <3>6, <3>7, <4>1 DEF Range
    <3>11. merged_result'[i].similar_pages = all /\ merged_result'[i].page = merged_result[i].page
      BY <1>2, <2>2, <3>1 DEF all
    <3> QED BY <3>9, <3>10, <3>11
  <2> QED BY <2>1, <2>2
<1>5. opt'.filter_simpages =>
        /\ \A i \in 1 .. L : \A q \in PagesAt(i)' :
             q.url \in DOMAIN url2pos' /\ url2pos'[q.url] = i
        /\ \A u \in DOMAIN url2pos' : url2pos'[u] \in 1 .. L
        /\ merged_result' # << >>
  <2>1. merged_result' # << >>
    BY <1>1, <1>2
  <2> QED BY <1>2, <2>1
<1>6. L <= size
  BY <1>1
<1> QED BY <1>1, <1>2, <1>3, <1>4, <1>5, <1>6 DEF MergeInv, Entry

\* Each way of merge_search_results to take a page.
LEMMA MergeStep ==
    ASSUME NetInv, PhaseInv, EndedInv, ListsInv, MergeInv, Merge
    PROVE  MergeInv' /\ Proper(results)'
<1>0. PICK p, L : p = Head(results[Best]) /\ L = Len(merged_result)
  OBVIOUS
<1>1. CASE addPage
  <2>1. /\ Merging /\ Shift /\ Add(p) /\ ~ opt.filter_simpages
        /\ UNCHANGED <<netVars, opt, pc, replyVars>>
    BY <1>0, <1>1 DEF addPage
  <2> QED BY <1>0, <2>1, TakeNew
<1>2. CASE addKnownUrl
  <2>1. /\ Merging /\ Shift /\ AddSimilar(p, url2pos[p.url]) /\ opt.filter_simpages
        /\ p.url \in DOMAIN url2pos /\ url2pos' = url2pos
        /\ UNCHANGED <<netVars, opt, pc, replyVars>>
    BY <1>0, <1>2 DEF addKnownUrl, Known
  <2>2. /\ \A i \in 1 .. L : \A q \in PagesAt(i) :
             q.url \in DOMAIN url2pos /\ url2pos[q.url] = i
        /\ \A u \in DOMAIN url2pos : url2pos[u] \in 1 .. L
    BY <1>0, <2>1 DEF MergeInv
  <2>3. PICK pos : pos = url2pos[p.url]
    OBVIOUS
  <2>4. pos \in 1 .. L /\ AddSimilar(p, pos)
    BY <2>1, <2>2, <2>3
  <2> QED BY <1>0, <2>1, <2>2, <2>3, <2>4, TakeSimilar
<1>3. CASE addKnownTitle
  <2>1. /\ Merging /\ Shift /\ AddSimilar(p, L) /\ opt.filter_simpages
        /\ p.url \notin DOMAIN url2pos /\ url2pos' = PutUrl(p.url, L) /\ prev # NoPrev
        /\ UNCHANGED <<netVars, opt, pc, replyVars>>
    BY <1>0, <1>3 DEF addKnownTitle, Known, Similar
  <2>2. /\ \A i \in 1 .. L : \A q \in PagesAt(i) :
             q.url \in DOMAIN url2pos /\ url2pos[q.url] = i
        /\ \A u \in DOMAIN url2pos : url2pos[u] \in 1 .. L
        /\ merged_result # << >> /\ merged_result \in Seq(Entry)
    BY <1>0, <2>1 DEF MergeInv, Entry
  <2>3. L \in 1 .. L
    BY <1>0, <2>2
  <2>4. /\ DOMAIN url2pos' = DOMAIN url2pos \cup {p.url} /\ url2pos'[p.url] = L
        /\ \A v \in DOMAIN url2pos : v # p.url /\ url2pos'[v] = url2pos[v]
    BY <2>1 DEF PutUrl
  <2>5. /\ \A i \in 1 .. L : \A q \in PagesAt(i) :
             q.url \in DOMAIN url2pos' /\ url2pos'[q.url] = i
        /\ p.url \in DOMAIN url2pos' /\ url2pos'[p.url] = L
        /\ \A u \in DOMAIN url2pos' : url2pos'[u] \in 1 .. L
    BY <2>2, <2>3, <2>4
  <2> QED BY <1>0, <2>1, <2>3, <2>5, TakeSimilar
<1>4. CASE addNew
  <2>1. /\ Merging /\ Shift /\ Add(p) /\ opt.filter_simpages
        /\ p.url \notin DOMAIN url2pos /\ url2pos' = PutUrl(p.url, L + 1)
        /\ UNCHANGED <<netVars, opt, pc, replyVars>>
    BY <1>0, <1>4 DEF addNew, Known
  <2>2. /\ \A i \in 1 .. L : \A q \in PagesAt(i) :
             q.url \in DOMAIN url2pos /\ url2pos[q.url] = i
        /\ \A u \in DOMAIN url2pos : url2pos[u] \in 1 .. L
        /\ L \in Nat
    BY <1>0, <2>1 DEF MergeInv
  <2>3. L + 1 \in 1 .. L + 1 /\ \A i \in 1 .. L : i \in 1 .. L + 1
    BY <2>2
  <2>4. /\ DOMAIN url2pos' = DOMAIN url2pos \cup {p.url} /\ url2pos'[p.url] = L + 1
        /\ \A v \in DOMAIN url2pos : v # p.url /\ url2pos'[v] = url2pos[v]
    BY <2>1 DEF PutUrl
  <2>5. /\ \A i \in 1 .. L : \A q \in PagesAt(i) :
             q.url \in DOMAIN url2pos' /\ url2pos'[q.url] = i
        /\ p.url \in DOMAIN url2pos' /\ url2pos'[p.url] = L + 1
        /\ \A u \in DOMAIN url2pos' : url2pos'[u] \in 1 .. L + 1
    BY <2>2, <2>3, <2>4
  <2> QED BY <1>0, <2>1, <2>5, TakeNew
<1>5. CASE merged
  BY <1>5, MergedStep
<1> QED BY <1>1, <1>2, <1>3, <1>4, <1>5 DEF Merge

-----------------------------------------------------------------------------
(* The invariant, and what it says of an answer. *)

LEMMA InvInit == Init => IInv
<1> SUFFICES ASSUME Init PROVE IInv
  OBVIOUS
<1>1. ListsInv
  <2>1. results = << >> /\ Len(results) = 0 /\ results \in Seq(Seq(Pages))
    BY DEF Init
  <2>2. 1 .. 0 = {}
    OBVIOUS
  <2>3. Proper(results)
    BY <2>1, <2>2 DEF Proper, Apart
  <2>4. reading.socket = NoServer
    BY DEF Init, Idle
  <2> QED BY <2>3, <2>4 DEF ListsInv
<1> QED BY <1>1, NetInit, EndedInit, MergeInit DEF IInv

\* Each step of a server or of the master keeps it.
LEMMA InvNext == IInv /\ [Next]_vars => IInv'
<1> SUFFICES ASSUME NetInv, PhaseInv, ReadInv, EndedInv, ListsInv, MergeInv, [Next]_vars
             PROVE  IInv'
  BY DEF IInv
<1>0. ReadSorted /\ Proper(results)
  BY DEF ListsInv, ReadSorted
<1>1. ReadSorted' /\ Proper(results)' => ListsInv'
  BY DEF ListsInv, ReadSorted
<1>2. ASSUME NEW s \in Servers, Serve(s) \/ Die(s) \/ Leak(s) PROVE IInv'
  <2>1. results' = results
    BY <1>2, Arrives
  <2>2. Proper(results)'
    BY <1>0, <2>1
  <2>3. NetInv' /\ PhaseInv'
    BY <1>2, NetArrives
  <2>4. ReadInv' /\ ReadSorted'
    BY <1>0, <1>2, ReadArrives
  <2> QED BY <1>1, <1>2, <2>2, <2>3, <2>4, EndedArrives, MergeArrives DEF IInv
<1>3. ASSUME NEW s \in Servers, Connect(s) \/ Refused(s) PROVE IInv'
  <2>1. /\ NetInv' /\ PhaseInv' /\ Receiving' /\ reading' = Idle /\ results' = results
    BY <1>3, NetConnect
  <2>2. Proper(results)'
    BY <1>0, <2>1
  <2>3. ReadInv' /\ ReadSorted'
    BY <2>1, ReadIdle
  <2>4. EndedInv'
    BY <1>3, EndedConnect
  <2> QED BY <1>1, <2>1, <2>2, <2>3, <2>4, MergeReceiving DEF IInv
<1>4. ASSUME select \/ nextSocket \/ parseLine PROVE IInv'
  <2>1. NetInv' /\ PhaseInv' /\ Receiving' /\ results' = results
    BY <1>4, NetRead
  <2>2. Proper(results)'
    BY <1>0, <2>1
  <2>3. ReadInv' /\ ReadSorted'
    <3>1. CASE select
      <4>1. reading' = Idle
        BY <3>1 DEF select, PhaseInv
      <4> QED BY <4>1, ReadIdle
    <3>2. CASE nextSocket
      BY <1>0, <3>2, ReadNextSocket
    <3>3. CASE parseLine
      BY <1>0, <3>3, ReadLine
    <3> QED BY <1>4, <3>1, <3>2, <3>3
  <2>4. EndedInv'
    BY <1>4, EndedRead
  <2> QED BY <1>1, <2>1, <2>2, <2>3, <2>4, MergeReceiving DEF IInv
<1>5. ASSUME endOfReply PROVE IInv'
  <2>1. NetInv' /\ PhaseInv' /\ Receiving'
    BY <1>5, NetEndOfReply
  <2>2. reading' = Idle
    BY <1>5 DEF endOfReply
  <2>3. ReadInv' /\ ReadSorted'
    BY <2>2, ReadIdle
  <2>4. EndedInv' /\ Proper(results)'
    BY <1>0, <1>5, EndedEndOfReply, ListsEndOfReply
  <2> QED BY <1>1, <2>1, <2>3, <2>4, MergeReceiving DEF IInv
<1>6. ASSUME search \/ Merge PROVE IInv'
  <2>1. NetInv' /\ PhaseInv' /\ reading' = Idle
    BY <1>6, NetMerge DEF replyVars
  <2>2. ReadInv' /\ ReadSorted'
    BY <2>1, ReadIdle
  <2>3. EndedInv'
    BY <1>6, EndedMerge
  <2>4. MergeInv' /\ Proper(results)'
    BY <1>6, MergeSearch, MergeStep
  <2> QED BY <1>1, <2>1, <2>2, <2>3, <2>4 DEF IInv
<1>7. CASE UNCHANGED vars
  <2>1. /\ UNCHANGED <<found, opt, pc, hosts, conn, sent, selecter, num_of_sockets, readable>>
        /\ UNCHANGED <<reading, total_hitcount, results, merged_result, url2pos, prev>>
    BY <1>7 DEF vars, replyVars, mergeVars
  <2>2. \A s : /\ Returned(s)' = Returned(s) /\ Lines(s)' = Lines(s)
               /\ Came(s)' = Came(s) /\ (Plain(s)' <=> Plain(s)) /\ (Settled(s)' <=> Settled(s))
    BY <2>1, SameFound, SameReply
  <2>3. Reached' = Reached /\ Ended' = Ended /\ (Receiving' <=> Receiving) /\ Wanted' = Wanted
        /\ size' = size /\ Nonempty' = Nonempty /\ Taken' = Taken
        /\ PagesIn(results)' = PagesIn(results) /\ \A i : PagesAt(i)' = PagesAt(i)
    BY <2>1, <2>2, WantedSame
       DEF Reached, Ended, Receiving, size, Nonempty, Taken, PagesIn, PagesAt
  <2>4. NetInv' /\ PhaseInv'
    BY <2>1, <2>2, <2>3 DEF NetInv, PhaseInv
  <2>5. ReadInv' /\ ReadSorted'
    <3>1. Returned(reading.socket)' = Returned(reading.socket)
      BY <2>1 DEF Returned
    <3> QED BY <1>0, <2>1, <3>1 DEF ReadInv, ReadSorted
  <2>6. EndedInv'
    BY <2>1, <2>2, <2>3, EndedSame
  <2>7. MergeInv'
    BY <2>1, <2>3 DEF MergeInv
  <2>8. Proper(results)'
    BY <1>0, <2>1
  <2> QED BY <1>1, <2>4, <2>5, <2>6, <2>7, <2>8 DEF IInv
<1> QED BY <1>2, <1>3, <1>4, <1>5, <1>6, <1>7 DEF Next, Master, Receive

LEMMA Invariant == Spec => []IInv
<1> QED BY InvInit, InvNext, PTL DEF Spec

\* RepliesCounted, for any number of servers and any lists: however the servers answer,
\* refuse or die, and in whatever order recieve_result_from_slave_servers reads their
\* replies, its loop ends when each server that was reached has been counted once, with
\* every page that came and the sum of the hit counts that came.
THEOREM AllRepliesCounted == Spec => []RepliesCounted
<1>1. IInv => RepliesCounted
  <2> SUFFICES ASSUME NetInv, PhaseInv, EndedInv PROVE RepliesCounted
    BY DEF IInv
  <2>1. num_of_sockets = Cardinality(selecter)
    BY DEF NetInv
  <2> SUFFICES ASSUME pc = "select", num_of_sockets = 0,
                      NEW reached, reached = {s \in Servers : conn[s] # "refused"},
                      NEW counted, counted = {s \in reached : sent[s] > Len(Returned(s))}
               PROVE  /\ Len(results) = Cardinality(reached)
                      /\ PagesIn(results) = UNION {Came(s) : s \in reached}
                      /\ (\A s \in reached : \A p \in Range(Returned(s)) :
                            \/ p.line \in {"doc", "other"}
                            \/ p.line = "hitcount" /\ s \in counted) =>
                           total_hitcount = Cardinality(Hits(counted))
    BY <2>1 DEF RepliesCounted
  <2>2. selecter = {} /\ Receiving
    BY NetFinite DEF Receiving
  <2>3. hosts = {}
    BY DEF PhaseInv
  <2>4. reached = Reached /\ Reached = Ended
    BY <2>2, <2>3 DEF Reached, Ended, NetInv
  <2>5. counted = Counted(Ended)
    BY <2>4 DEF Counted
  <2>6. /\ Len(results) = Cardinality(Ended)
        /\ \A p : p \in PagesIn(results) <=> \E s \in Ended : p \in Came(s)
        /\ (\A s \in Ended : Plain(s)) => total_hitcount = Cardinality(Hits(Counted(Ended)))
    BY <2>2 DEF EndedInv
  <2>7. PagesIn(results) = UNION {Came(s) : s \in reached}
    BY <2>4, <2>6
  <2>8. ASSUME \A s \in reached : \A p \in Range(Returned(s)) :
                 p.line \in {"doc", "other"} \/ (p.line = "hitcount" /\ s \in counted)
        PROVE  \A s \in Ended : Plain(s)
    <3> SUFFICES ASSUME NEW s \in Ended, NEW i \in 1 .. Len(Returned(s))
                 PROVE  \/ Returned(s)[i].line \in {"doc", "other"}
                        \/ Returned(s)[i].line = "hitcount" /\ sent[s] > Len(Returned(s))
      BY DEF Plain
    <3>1. s \in Servers /\ found \in Finds
      BY DEF Ended, Reached, NetInv
    <3>2. Returned(s) \in Seq(Pages)
      BY <3>1, ReturnedFacts
    <3>3. Returned(s)[i] \in Range(Returned(s))
      BY <3>2 DEF Range
    <3> QED BY <2>4, <2>8, <3>3
  <2> QED BY <2>4, <2>5, <2>6, <2>7, <2>8
<1> QED BY <1>1, Invariant, PTL

\* AnswerRight, for any number of servers and any lists: merge_search_results, which only
\* looks at the first page of each list, gives the pages that came by score, each of them
\* once, stops only when it has enough or no more, and with filter_simpages keeps pages
\* with the same URL together.
THEOREM AnswerIsRight == Spec => []AnswerRight
<1>1. IInv => AnswerRight
  <2> SUFFICES ASSUME PhaseInv, MergeInv PROVE AnswerRight
    BY DEF IInv
  <2>1. \A i, j \in 1 .. Len(merged_result) :
          i < j => merged_result[i].page.score >= merged_result[j].page.score
    BY DEF MergeInv
  <2>2. \A p \in Taken, q \in PagesIn(results) : p.score >= q.score /\ p # q
    BY DEF MergeInv
  <2>3. ASSUME pc \in {"merge", "done"}
        PROVE  Taken \cup PagesIn(results) =
                 {p \in UNION {Came(s) : s \in Servers} : p.did \in opt.cluster}
    <3>1. ~ Receiving
      BY <2>3 DEF Receiving
    <3>2. Taken \cup PagesIn(results) = Wanted
      BY <3>1 DEF MergeInv
    <3> QED BY <3>2 DEF Wanted
  <2>4. \A i \in 1 .. Len(merged_result) :
          /\ IsInjective(merged_result[i].similar_pages)
          /\ merged_result[i].page \notin Range(merged_result[i].similar_pages)
          /\ \A j \in 1 .. Len(merged_result) : i # j => PagesAt(i) \cap PagesAt(j) = {}
    BY DEF MergeInv
  <2>5. pc = "done" /\ total_hitcount > 0 => Len(merged_result) = size \/ Nonempty = {}
    BY DEF MergeInv
  <2>6. opt.filter_simpages =>
          \A i, j \in 1 .. Len(merged_result) :
            \A p \in PagesAt(i), q \in PagesAt(j) : p.url = q.url => i = j
    <3> SUFFICES ASSUME opt.filter_simpages,
                        NEW i \in 1 .. Len(merged_result), NEW j \in 1 .. Len(merged_result),
                        NEW p \in PagesAt(i), NEW q \in PagesAt(j), p.url = q.url
                 PROVE  i = j
      OBVIOUS
    <3>1. url2pos[p.url] = i /\ url2pos[q.url] = j
      BY DEF MergeInv
    <3> QED BY <3>1
  <2> QED BY <2>1, <2>2, <2>3, <2>4, <2>5, <2>6 DEF AnswerRight
<1> QED BY <1>1, Invariant, PTL
=============================================================================
