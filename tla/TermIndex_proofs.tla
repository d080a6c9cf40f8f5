-------------------------- MODULE TermIndex_proofs --------------------------
(***************************************************************************)
(* Proofs about TermIndex, for any databases, postings and lists: a term is *)
(* found exactly if its database can be used, and the lists of a node with   *)
(* their Hashmaps, arrays or maps, implement DocSet.                         *)
(***************************************************************************)
EXTENDS TermIndex, FiniteSetTheorems, TLAPS

Ids == DocIds \cup {Inf}
Keys == {Inf} \cup 0 .. Slots - 1

\* What a Hashmap holds for a key, seen without its slots and its limits.
At(h, key) == IF key \in DOMAIN h.at THEN h.at[key] ELSE -1

\* h indexes docs: a place it gives is the place of the key.  While rest is still
\* to be added, a map stays within its limit.
Fits(h, docs, rest) ==
    /\ \E D \in SUBSET Keys : h \in [use_of_int_array : BOOLEAN, at : [D -> Int]]
    /\ h.use_of_int_array => DOMAIN h.at = 0 .. Slots - 1
    /\ ~ h.use_of_int_array =>
        /\ IsFiniteSet(DOMAIN h.at)
        /\ Cardinality(DOMAIN h.at) + Len(rest) <= Threshold
    /\ \A key \in DOMAIN h.at : h.at[key] > -1 =>
        h.at[key] + 1 \in 1 .. Len(docs) /\ docs[h.at[key] + 1] = key

Empty(h) == \A key \in DOMAIN h.at : h.at[key] = -1

-----------------------------------------------------------------------------
\* The id of a document is its own slot, in the array as in the map.
LEMMA SlotIsKey ==
    ASSUME NEW h, h.use_of_int_array \in BOOLEAN,
           NEW key, key \in DocIds \/ ~ h.use_of_int_array
    PROVE  Slot(h, key) = key
<1>1. CASE ~ h.use_of_int_array
  BY <1>1 DEF Slot
<1>2. CASE h.use_of_int_array
  <2>1. key \in 0 .. Slots - 1 /\ Slots \in Nat
    BY <1>2, IndexAssumption
  <2>2. key % Slots = key
    BY <2>1, SMTT(30)
  <2>3. QED
    BY <1>2, <2>2 DEF Slot
<1>3. QED
  BY <1>1, <1>2

\* Below its limits a Hashmap gives what it holds.
LEMMA GetIsAt ==
    ASSUME NEW h, NEW docs, NEW rest \in Seq(Ids), Fits(h, docs, rest), NEW key \in DocIds
    PROVE  Get(h, key) = At(h, key)
<1>1. Slot(h, key) = key
  BY SlotIsKey DEF Fits
<1>2. ~ (~ h.use_of_int_array /\ Cardinality(DOMAIN h.at) > MapLimit)
  <2>1. SUFFICES ASSUME ~ h.use_of_int_array
                 PROVE  ~ Cardinality(DOMAIN h.at) > MapLimit
    OBVIOUS
  <2>2. /\ Cardinality(DOMAIN h.at) \in Nat
        /\ Cardinality(DOMAIN h.at) + Len(rest) <= Threshold
    BY <2>1, FS_CardinalityType DEF Fits
  <2>3. Len(rest) \in Nat
    OBVIOUS
  <2>4. QED
    BY <2>2, <2>3, IndexAssumption
<1>3. QED
  BY <1>1, <1>2 DEF Get, At

\* A new Hashmap holds nothing and has room for as many documents as it was made for.
LEMMA NewFits ==
    ASSUME NEW size \in Nat, NEW docs, NEW rest \in Seq(Ids), Len(rest) <= size
    PROVE  /\ Fits(Hashmap(size), docs, rest)
           /\ Empty(Hashmap(size))
           /\ Hashmap(size).use_of_int_array <=> size > Threshold
<1>1. CASE size > Threshold
  <2>1. Hashmap(size) = [use_of_int_array |-> TRUE, at |-> [i \in 0 .. Slots - 1 |-> -1]]
    BY <1>1 DEF Hashmap
  <2>2. 0 .. Slots - 1 \in SUBSET Keys
    BY DEF Keys
  <2>3. Hashmap(size) \in [use_of_int_array : BOOLEAN, at : [0 .. Slots - 1 -> Int]]
    BY <2>1
  <2>4. DOMAIN Hashmap(size).at = 0 .. Slots - 1 /\ Hashmap(size).use_of_int_array
    BY <2>1
  <2>5. \A k \in 0 .. Slots - 1 : Hashmap(size).at[k] = -1
    BY <2>1
  <2>6. \A k \in DOMAIN Hashmap(size).at : ~ Hashmap(size).at[k] > -1
    BY <2>4, <2>5
  <2>7. Fits(Hashmap(size), docs, rest)
    BY <2>2, <2>3, <2>4, <2>6, Zenon DEF Fits
  <2>8. QED
    BY <1>1, <2>4, <2>5, <2>7, Zenon DEF Empty
<1>2. CASE ~ size > Threshold
  <2>1. Hashmap(size) = [use_of_int_array |-> FALSE, at |-> [i \in {} |-> -1]]
    BY <1>2 DEF Hashmap
  <2>2. Hashmap(size) \in [use_of_int_array : BOOLEAN, at : [{} -> Int]]
    BY <2>1
  <2>3. DOMAIN Hashmap(size).at = {} /\ ~ Hashmap(size).use_of_int_array
    BY <2>1
  <2>4. IsFiniteSet({}) /\ Cardinality({}) = 0
    BY FS_EmptySet
  <2>5. Cardinality({}) + Len(rest) <= Threshold
    BY <1>2, <2>4, IndexAssumption
  <2>6. Fits(Hashmap(size), docs, rest)
    BY <2>2, <2>3, <2>4, <2>5 DEF Fits
  <2>7. QED
    BY <1>2, <2>3, <2>6 DEF Empty
<1>3. QED
  BY <1>1, <1>2

\* What Add does: one key gets the value, the others keep theirs.
LEMMA AddAt ==
    ASSUME NEW h, NEW docs, NEW rest, Fits(h, docs, rest),
           NEW key \in Ids, key \in DocIds \/ ~ h.use_of_int_array, NEW value \in Int
    PROVE  /\ \E D \in SUBSET Keys :
                Add(h, key, value) \in [use_of_int_array : BOOLEAN, at : [D -> Int]]
           /\ Add(h, key, value).use_of_int_array = h.use_of_int_array
           /\ DOMAIN Add(h, key, value).at = DOMAIN h.at \cup {key}
           /\ \A k \in DOMAIN h.at \cup {key} :
                Add(h, key, value).at[k] = IF k = key THEN value ELSE h.at[k]
           /\ \A k \in Ids : At(Add(h, key, value), k) = IF k = key THEN value ELSE At(h, k)
<1>1. PICK D \in SUBSET Keys : h \in [use_of_int_array : BOOLEAN, at : [D -> Int]]
  BY DEF Fits
<1>2. Slot(h, key) = key
  BY <1>1, SlotIsKey
<1>3. Add(h, key, value) =
        [h EXCEPT !.at = [k \in D \cup {key} |-> IF k = key THEN value ELSE h.at[k]]]
  BY <1>1, <1>2 DEF Add
<1>4. key \in Keys
  BY IndexAssumption DEF Ids, Keys
<1>5. D \cup {key} \in SUBSET Keys
  BY <1>4
<1>6. [k \in D \cup {key} |-> IF k = key THEN value ELSE h.at[k]] \in [D \cup {key} -> Int]
  BY <1>1
<1>7. PICK at : at = [k \in D \cup {key} |-> IF k = key THEN value ELSE h.at[k]]
  OBVIOUS
<1>8. /\ Add(h, key, value) \in [use_of_int_array : BOOLEAN, at : [D \cup {key} -> Int]]
      /\ Add(h, key, value).at = at
      /\ Add(h, key, value).use_of_int_array = h.use_of_int_array
  BY <1>1, <1>3, <1>6, <1>7
<1>9. DOMAIN h.at = D
  BY <1>1
<1>10. \E E \in SUBSET Keys :
         Add(h, key, value) \in [use_of_int_array : BOOLEAN, at : [E -> Int]]
  BY <1>5, <1>8
<1>11. /\ DOMAIN Add(h, key, value).at = DOMAIN h.at \cup {key}
       /\ \A k \in DOMAIN h.at \cup {key} :
            Add(h, key, value).at[k] = IF k = key THEN value ELSE h.at[k]
  BY <1>7, <1>8, <1>9
<1>12. \A k \in Ids : At(Add(h, key, value), k) = IF k = key THEN value ELSE At(h, k)
  BY <1>11 DEF At
<1>13. QED
  BY <1>8, <1>10, <1>11, <1>12

\* Adding the next document of rest at the end of the list.
LEMMA AddFits ==
    ASSUME NEW h, NEW docs \in Seq(Ids), NEW rest \in Seq(Ids), rest # << >>,
           Fits(h, docs, rest), Head(rest) \in DocIds \/ ~ h.use_of_int_array
    PROVE  Fits(Add(h, Head(rest), Len(docs)), Append(docs, Head(rest)), Tail(rest))
<1> DEFINE g == Add(h, Head(rest), Len(docs))
           new == Append(docs, Head(rest))
<1>1. Head(rest) \in Ids /\ Len(docs) \in Int /\ Len(docs) \in Nat
  OBVIOUS
<1>2. /\ \E D \in SUBSET Keys : g \in [use_of_int_array : BOOLEAN, at : [D -> Int]]
      /\ g.use_of_int_array = h.use_of_int_array
      /\ DOMAIN g.at = DOMAIN h.at \cup {Head(rest)}
      /\ \A k \in DOMAIN h.at \cup {Head(rest)} :
           g.at[k] = IF k = Head(rest) THEN Len(docs) ELSE h.at[k]
  BY <1>1, AddAt
<1>3. ASSUME h.use_of_int_array PROVE DOMAIN g.at = 0 .. Slots - 1
  <2>1. Head(rest) \in 0 .. Slots - 1
    BY <1>3, IndexAssumption
  <2>2. DOMAIN h.at = 0 .. Slots - 1
    BY <1>3 DEF Fits
  <2>3. QED
    BY <1>2, <2>1, <2>2
<1>4. ASSUME ~ h.use_of_int_array
      PROVE  /\ IsFiniteSet(DOMAIN g.at)
             /\ Cardinality(DOMAIN g.at) + Len(Tail(rest)) <= Threshold
  <2>1. IsFiniteSet(DOMAIN h.at) /\ Cardinality(DOMAIN h.at) + Len(rest) <= Threshold
    BY <1>4 DEF Fits
  <2>2. /\ IsFiniteSet(DOMAIN h.at \cup {Head(rest)})
        /\ Cardinality(DOMAIN h.at \cup {Head(rest)}) =
             IF Head(rest) \in DOMAIN h.at THEN Cardinality(DOMAIN h.at)
             ELSE Cardinality(DOMAIN h.at) + 1
    BY <2>1, FS_AddElement
  <2>3. Cardinality(DOMAIN h.at) \in Nat
    BY <2>1, FS_CardinalityType
  <2>4. /\ IsFiniteSet(DOMAIN g.at)
        /\ Cardinality(DOMAIN g.at) = IF Head(rest) \in DOMAIN h.at THEN Cardinality(DOMAIN h.at)
                                      ELSE Cardinality(DOMAIN h.at) + 1
    <3>1. DOMAIN g.at = DOMAIN h.at \cup {Head(rest)}
      BY <1>2
    <3>2. QED
      BY <2>2, <3>1, Zenon
  <2>5. Len(Tail(rest)) = Len(rest) - 1 /\ Len(rest) \in Nat
    OBVIOUS
  <2>6. QED
    BY <2>1, <2>3, <2>4, <2>5, IndexAssumption
<1>5. /\ Len(new) = Len(docs) + 1 /\ new[Len(docs) + 1] = Head(rest)
      /\ \A i \in 1 .. Len(docs) : new[i] = docs[i]
  BY <1>1
<1>6. ASSUME NEW k \in DOMAIN g.at, g.at[k] > -1
      PROVE  g.at[k] + 1 \in 1 .. Len(new) /\ new[g.at[k] + 1] = k
  <2>1. CASE k = Head(rest)
    BY <1>1, <1>2, <1>5, <1>6, <2>1
  <2>2. CASE k # Head(rest)
    <3>1. k \in DOMAIN h.at /\ g.at[k] = h.at[k]
      BY <1>2, <1>6, <2>2
    <3>2. h.at[k] + 1 \in 1 .. Len(docs) /\ docs[h.at[k] + 1] = k
      BY <1>6, <3>1 DEF Fits
    <3>3. QED
      BY <1>1, <1>5, <3>1, <3>2
  <2>3. QED
    BY <2>1, <2>2
<1>7. QED
  BY <1>2, <1>3, <1>4, <1>6 DEF Fits

\* Taking out a document that is there.
LEMMA ClearFits ==
    ASSUME NEW h, NEW docs, NEW rest \in Seq(Ids), Fits(h, docs, rest),
           NEW d \in DocIds, At(h, d) > -1
    PROVE  /\ Fits(Add(h, d, -1), docs, rest)
           /\ \A k \in Ids : At(Add(h, d, -1), k) = IF k = d THEN -1 ELSE At(h, k)
           /\ Add(h, d, -1).use_of_int_array = h.use_of_int_array
<1> DEFINE g == Add(h, d, -1)
<1>1. d \in DOMAIN h.at
  BY DEF At
<1>2. d \in Ids /\ -1 \in Int
  BY DEF Ids
<1>3. /\ \E D \in SUBSET Keys : g \in [use_of_int_array : BOOLEAN, at : [D -> Int]]
      /\ g.use_of_int_array = h.use_of_int_array
      /\ DOMAIN g.at = DOMAIN h.at \cup {d}
      /\ \A k \in DOMAIN h.at \cup {d} : g.at[k] = IF k = d THEN -1 ELSE h.at[k]
      /\ \A k \in Ids : At(g, k) = IF k = d THEN -1 ELSE At(h, k)
  BY <1>2, AddAt
<1>4. DOMAIN g.at = DOMAIN h.at
  BY <1>1, <1>3
<1>5. \A k \in DOMAIN g.at : g.at[k] > -1 =>
        g.at[k] + 1 \in 1 .. Len(docs) /\ docs[g.at[k] + 1] = k
  BY <1>3, <1>4 DEF Fits
<1>6. QED
  BY <1>3, <1>4, <1>5 DEF Fits

-----------------------------------------------------------------------------
TypeInv ==
    /\ store \in Stores /\ IS_32BIT_CPU_MODE \in BOOLEAN
    /\ k2db \in 0 .. Len(store) /\ available \in BOOLEAN
    /\ pc \in {"init", "ready", "fill", "loaded"}
    /\ hit \in BOOLEAN
    /\ todo \in Seq(Ids) /\ ltodo \in Seq(Ids)
    /\ \A i \in 1 .. Len(todo) : todo[i] \in DocIds
    /\ s_documents \in Seq(Ids) /\ l_documents \in Seq(Ids)

\* How far Dbm::init has come.
DbInv ==
    /\ pc = "init" => k2db < Len(store)
    /\ pc # "init" => k2db = Len(store)
    /\ available <=> \A i \in 1 .. k2db : store[i].there \/ IS_32BIT_CPU_MODE

\* Nothing has been looked up or put in before the databases are there.
FreshInv ==
    pc \in {"init", "ready"} =>
        /\ term = 0 /\ todo = << >> /\ ltodo = << >>
        /\ Empty(s_documents_index) /\ Empty(l_documents_index)

IndexInv ==
    /\ Fits(s_documents_index, s_documents, todo)
    /\ Fits(l_documents_index, l_documents, ltodo)

\* A document is in one of the lists only, and the list of lenient documents is
\* filled when the other one is complete.
ApartInv ==
    /\ \A d \in DocIds : ~ (At(s_documents_index, d) > -1 /\ At(l_documents_index, d) > -1)
    /\ \A j \in 1 .. Len(ltodo) :
        ltodo[j] \in DocIds => ~ At(s_documents_index, ltodo[j]) > -1
    /\ \A i \in 1 .. Len(todo), j \in 1 .. Len(ltodo) : todo[i] # ltodo[j]
    /\ todo # << >> => Empty(l_documents_index)
    /\ \A j \in 1 .. Len(ltodo) : ltodo[j] \notin DocIds => ~ l_documents_index.use_of_int_array

IInv == TypeInv /\ DbInv /\ FreshInv /\ IndexInv /\ ApartInv /\ LookupRight

\* An empty Hashmap holds nothing for any key.
LEMMA EmptyAt ==
    ASSUME NEW h, Empty(h)
    PROVE  \A k : At(h, k) = -1
BY DEF Empty, At

LEMMA InitInv == Init => IInv
<1> SUFFICES ASSUME Init PROVE IInv
  OBVIOUS
<1>1. /\ Fits(Hashmap(0), << >>, << >>) /\ Empty(Hashmap(0))
  <2>1. << >> \in Seq(Ids) /\ Len(<< >>) <= 0 /\ 0 \in Nat
    OBVIOUS
  <2>2. QED
    BY <2>1, NewFits
<1>2. IndexInv /\ FreshInv
  BY <1>1 DEF Init, IndexInv, FreshInv
<1>3. Len(store) \in Nat /\ Len(store) > 0
  BY IndexAssumption DEF Init
<1>4. TypeInv /\ DbInv
  <2>1. 0 \in 0 .. Len(store) /\ 0 < Len(store) /\ 1 .. 0 = {}
    BY <1>3
  <2>2. << >> \in Seq(Ids) /\ 1 .. Len(<< >>) = {}
    OBVIOUS
  <2>3. TypeInv
    BY <2>1, <2>2, Zenon DEF Init, TypeInv
  <2>4. pc = "init" /\ k2db = 0 /\ available = TRUE
    BY DEF Init
  <2>5. DbInv
    BY <2>1, <2>4, Zenon DEF DbInv
  <2>6. QED
    BY <2>3, <2>5
<1>5. ApartInv
  <2>1. \A k : ~ At(Hashmap(0), k) > -1
    BY <1>1, EmptyAt
  <2>2. Len(<< >>) = 0
    OBVIOUS
  <2>3. /\ s_documents_index = Hashmap(0)
        /\ todo = << >> /\ ltodo = << >>
    BY DEF Init
  <2>4. 1 .. Len(ltodo) = {}
    BY <2>2, <2>3
  <2>5. QED
    BY <2>1, <2>3, <2>4, Zenon DEF ApartInv
<1>6. LookupRight
  BY DEF Init, LookupRight
<1>7. QED
  BY <1>2, <1>4, <1>5, <1>6 DEF IInv

-----------------------------------------------------------------------------
LEMMA ElementOf ==
    ASSUME NEW S, NEW seq \in Seq(S), NEW i \in 1 .. Len(seq)
    PROVE  seq[i] \in S
OBVIOUS

\* The entry _get comes to is the only one that can hold the term.
LEMMA EntryIs ==
    ASSUME IInv, pc = "ready", NEW t \in Terms
    PROVE  /\ Entry(t) \in 1 .. Len(store)
           /\ \A i \in 1 .. Len(store) : t \in store[i].terms => i = Entry(t)
<1>1. k2db = Len(store) /\ store \in Stores /\ Len(store) \in Nat
  BY IndexAssumption DEF IInv, TypeInv, DbInv
<1>2. \E i \in 1 .. Len(store) :
        /\ \A j \in 1 .. i : store[j].key <= t
        /\ i < Len(store) => t < store[i + 1].key
  BY <1>1, IndexAssumption
<1>3. /\ Entry(t) \in 1 .. Len(store)
      /\ \A j \in 1 .. Entry(t) : store[j].key <= t
      /\ Entry(t) < Len(store) => t < store[Entry(t) + 1].key
  BY <1>1, <1>2 DEF Entry
<1>4. ASSUME NEW i \in 1 .. Len(store), t \in store[i].terms
      PROVE  i = Entry(t)
  <2>1. /\ \A j \in 1 .. i : store[j].key <= t
        /\ \A j \in i + 1 .. Len(store) : t < store[j].key
    BY <1>1, <1>4, IndexAssumption
  <2>2. /\ t \in Nat
        /\ \A j \in 1 .. Len(store) : store[j].key \in Nat
    <3>1. store \in Seq([key : Nat, terms : SUBSET Terms, there : BOOLEAN])
      BY <1>1, IndexAssumption
    <3>2. t \in Nat
      BY IndexAssumption
    <3>3. \A j \in 1 .. Len(store) : store[j] \in [key : Nat, terms : SUBSET Terms, there : BOOLEAN]
      BY <3>1, ElementOf, Zenon
    <3>4. \A j \in 1 .. Len(store) : store[j].key \in Nat
      BY <3>3
    <3>5. QED
      BY <3>2, <3>4, Zenon
  <2>3. PICK e \in 1 .. Len(store) : e = Entry(t)
    BY <1>3
  <2>4. ~ i < e
    <3>1. SUFFICES ASSUME i < e PROVE FALSE
      OBVIOUS
    <3>2. e \in i + 1 .. Len(store) /\ e \in 1 .. e
      BY <1>1, <2>3, <3>1
    <3>3. t < store[e].key /\ store[e].key <= t
      BY <1>3, <2>1, <2>3, <3>2
    <3>4. QED
      BY <2>2, <2>3, <3>3
  <2>5. ~ e < i
    <3>1. SUFFICES ASSUME e < i PROVE FALSE
      OBVIOUS
    <3>2. e + 1 \in 1 .. i /\ e < Len(store) /\ e + 1 \in 1 .. Len(store)
      BY <1>1, <2>3, <3>1
    <3>3. t < store[e + 1].key /\ store[e + 1].key <= t
      BY <1>3, <2>1, <2>3, <3>2
    <3>4. QED
      BY <2>2, <3>2, <3>3
  <2>6. QED
    BY <1>1, <2>3, <2>4, <2>5
<1>5. QED
  BY <1>3, <1>4

\* Whether a look-up succeeds.
LEMMA HitIs ==
    ASSUME IInv, pc = "ready", NEW t \in Terms
    PROVE  (available /\ Gets(t)) <=>
             \E i \in 1 .. Len(store) :
                /\ t \in store[i].terms /\ store[i].there
                /\ IS_32BIT_CPU_MODE \/ \A j \in 1 .. Len(store) : store[j].there
<1>1. PICK e : e = Entry(t)
  OBVIOUS
<1>2. e \in 1 .. Len(store) /\ \A i \in 1 .. Len(store) : t \in store[i].terms => i = e
  BY <1>1, EntryIs
<1>3. available <=> \A i \in 1 .. Len(store) : store[i].there \/ IS_32BIT_CPU_MODE
  BY DEF IInv, DbInv
<1>4. Gets(t) <=> t \in store[e].terms /\ (IS_32BIT_CPU_MODE => store[e].there)
  BY <1>1 DEF Gets
<1>5. IS_32BIT_CPU_MODE \in BOOLEAN
  BY DEF IInv, TypeInv
<1>6. CASE IS_32BIT_CPU_MODE
  BY <1>2, <1>3, <1>4, <1>6, Zenon
<1>7. CASE ~ IS_32BIT_CPU_MODE
  BY <1>2, <1>3, <1>4, <1>7, Zenon
<1>8. QED
  BY <1>5, <1>6, <1>7

-----------------------------------------------------------------------------
\* The rest of a sequence.
LEMMA TailOf ==
    ASSUME NEW seq \in Seq(Ids), seq # << >>
    PROVE  /\ Tail(seq) \in Seq(Ids) /\ Head(seq) \in Ids /\ Head(seq) = seq[1]
           /\ Len(Tail(seq)) = Len(seq) - 1 /\ Len(seq) \in Nat /\ Len(seq) > 0
           /\ \A i \in 1 .. Len(Tail(seq)) : i + 1 \in 1 .. Len(seq) /\ Tail(seq)[i] = seq[i + 1]
OBVIOUS

\* A document that is left out only makes room.
LEMMA TailFits ==
    ASSUME NEW h, NEW docs, NEW rest \in Seq(Ids), rest # << >>, Fits(h, docs, rest)
    PROVE  Fits(h, docs, Tail(rest))
<1>1. Len(Tail(rest)) = Len(rest) - 1 /\ Len(rest) \in Nat
  OBVIOUS
<1>2. ASSUME ~ h.use_of_int_array
      PROVE  /\ IsFiniteSet(DOMAIN h.at)
             /\ Cardinality(DOMAIN h.at) + Len(Tail(rest)) <= Threshold
  <2>1. IsFiniteSet(DOMAIN h.at) /\ Cardinality(DOMAIN h.at) + Len(rest) <= Threshold
    BY <1>2 DEF Fits
  <2>2. Cardinality(DOMAIN h.at) \in Nat
    BY <2>1, FS_CardinalityType
  <2>3. QED
    BY <1>1, <2>1, <2>2, IndexAssumption
<1>3. QED
  BY <1>2 DEF Fits

LEMMA DbStep ==
    ASSUME IInv, init
    PROVE  IInv'
<1>1. /\ pc = "init" /\ k2db' = k2db + 1
      /\ available' = (available /\ (store[k2db + 1].there \/ IS_32BIT_CPU_MODE))
      /\ pc' = IF k2db + 1 = Len(store) THEN "ready" ELSE "init"
      /\ UNCHANGED <<store, IS_32BIT_CPU_MODE, term, hit, todo, ltodo, s_documents, l_documents,
                     s_documents_index, l_documents_index>>
  BY DEF init, listVars
<1>2. Len(store) \in Nat /\ k2db \in 0 .. Len(store) /\ k2db < Len(store)
  BY <1>1, IndexAssumption DEF IInv, TypeInv, DbInv
<1>3. k2db' \in 0 .. Len(store)
  BY <1>1, <1>2
<1>4. TypeInv'
  BY <1>1, <1>3 DEF IInv, TypeInv
<1>5. available' <=> \A i \in 1 .. k2db' : store[i].there \/ IS_32BIT_CPU_MODE
  <2>1. available <=> \A i \in 1 .. k2db : store[i].there \/ IS_32BIT_CPU_MODE
    BY DEF IInv, DbInv
  <2>2. 1 .. k2db' = 1 .. k2db \cup {k2db + 1}
    BY <1>1, <1>2
  <2>3. QED
    BY <1>1, <2>1, <2>2, Zenon
<1>6. DbInv'
  <2>1. pc' = "init" => k2db' < Len(store)
    BY <1>1, <1>2
  <2>2. pc' # "init" => k2db' = Len(store)
    BY <1>1
  <2>3. QED
    BY <1>1, <1>5, <2>1, <2>2, Zenon DEF DbInv
<1>7. FreshInv' /\ IndexInv' /\ ApartInv' /\ LookupRight'
  <2>1. FreshInv'
    BY <1>1 DEF IInv, FreshInv
  <2>2. IndexInv'
    BY <1>1 DEF IInv, IndexInv
  <2>3. ApartInv'
    BY <1>1 DEF IInv, ApartInv
  <2>4. LookupRight'
    BY <1>1 DEF IInv, LookupRight
  <2>5. QED
    BY <2>1, <2>2, <2>3, <2>4
<1>8. QED
  BY <1>4, <1>6, <1>7 DEF IInv

\* Once the databases are there they stay as they are.
LEMMA DbKept ==
    ASSUME IInv, UNCHANGED dbVars, pc # "init", pc' \in {"ready", "fill", "loaded"}
    PROVE  DbInv'
<1>1. UNCHANGED <<store, IS_32BIT_CPU_MODE, k2db, available>>
  BY DEF dbVars
<1>2. QED
  BY <1>1 DEF IInv, DbInv

LEMMA LookupStep ==
    ASSUME IInv, NEW t \in Terms, NEW lenient \in BOOLEAN, lookup_index(t, lenient)
    PROVE  /\ IInv'
           /\ Empty(s_documents_index') /\ Empty(l_documents_index')
<1>1. /\ pc = "ready" /\ pc' = "fill"
      /\ term' = t /\ hit' = (available /\ Gets(t))
      /\ todo' = IF hit' THEN Postings[t] ELSE << >>
      /\ s_documents_index' = Hashmap(Len(todo')) /\ l_documents_index' = Hashmap(Len(todo'))
      /\ l_documents' = IF lenient THEN <<Inf>> ELSE << >>
      /\ UNCHANGED dbVars /\ ltodo' = ltodo /\ s_documents' = s_documents
  BY DEF lookup_index
<1>2. ltodo = << >>
  BY <1>1 DEF IInv, FreshInv
<1>3. todo' \in Seq(DocIds)
  BY <1>1, IndexAssumption
<1>4. todo' \in Seq(Ids) /\ Len(todo') \in Nat /\ \A i \in 1 .. Len(todo') : todo'[i] \in DocIds
  BY <1>3 DEF Ids
<1>5. ltodo' \in Seq(Ids) /\ Len(ltodo') = 0 /\ 1 .. Len(ltodo') = {}
  BY <1>1, <1>2
<1>6. /\ Fits(s_documents_index', s_documents', todo') /\ Empty(s_documents_index')
      /\ Fits(l_documents_index', l_documents', ltodo') /\ Empty(l_documents_index')
  <2>1. Len(todo') <= Len(todo') /\ Len(ltodo') <= Len(todo')
    BY <1>4, <1>5
  <2>2. QED
    BY <1>1, <1>4, <1>5, <2>1, NewFits
<1>7. TypeInv'
  <2>1. hit' \in BOOLEAN
    BY <1>1
  <2>2. l_documents' \in Seq(Ids)
    <3>1. Inf \in Ids
      BY DEF Ids
    <3>2. <<Inf>> \in Seq(Ids) /\ << >> \in Seq(Ids)
      BY <3>1
    <3>3. QED
      BY <1>1, <3>2
  <2>3. UNCHANGED <<store, IS_32BIT_CPU_MODE, k2db, available>>
    BY <1>1 DEF dbVars
  <2>4. QED
    BY <1>1, <1>4, <1>5, <2>1, <2>2, <2>3 DEF IInv, TypeInv
<1>8. DbInv'
  BY <1>1, DbKept
<1>9. ApartInv'
  <2>1. \A k : ~ At(s_documents_index', k) > -1
    BY <1>6, EmptyAt
  <2>2. QED
    BY <1>5, <1>6, <2>1, Zenon DEF ApartInv
<1>10. LookupRight'
  <2>1. UNCHANGED <<store, IS_32BIT_CPU_MODE>>
    BY <1>1 DEF dbVars
  <2>2. hit' <=> \E i \in 1 .. Len(store) :
                    /\ t \in store[i].terms /\ store[i].there
                    /\ IS_32BIT_CPU_MODE \/ \A j \in 1 .. Len(store) : store[j].there
    <3>1. (available /\ Gets(t)) <=>
            \E i \in 1 .. Len(store) :
                /\ t \in store[i].terms /\ store[i].there
                /\ IS_32BIT_CPU_MODE \/ \A j \in 1 .. Len(store) : store[j].there
      BY <1>1, HitIs
    <3>2. hit' = (available /\ Gets(t))
      BY <1>1
    <3>3. QED
      BY <3>1, <3>2, Zenon
  <2>3. QED
    BY <1>1, <2>1, <2>2, Zenon DEF LookupRight
<1>11. QED
  BY <1>1, <1>6, <1>7, <1>8, <1>9, <1>10 DEF IInv, FreshInv, IndexInv

LEMMA MapIndexStep ==
    ASSUME IInv, NEW s \in Lists, NEW l \in Lists \cup {<<Inf>>}, map_index(s, l)
    PROVE  /\ IInv'
           /\ Empty(s_documents_index') /\ Empty(l_documents_index')
<1>1. /\ pc = "ready" /\ pc' = "fill"
      /\ \A i \in 1 .. Len(s) : \A j \in 1 .. Len(l) : s[i] # l[j]
      /\ todo' = s /\ ltodo' = l
      /\ s_documents_index' = Hashmap(Len(s)) /\ l_documents_index' = Hashmap(Len(l))
      /\ UNCHANGED dbVars
      /\ UNCHANGED <<term, hit, s_documents, l_documents>>
  BY DEF map_index
<1>2. s \in Seq(DocIds)
  BY IndexAssumption
<1>3. s \in Seq(Ids) /\ Len(s) \in Nat /\ \A i \in 1 .. Len(s) : s[i] \in DocIds
  BY <1>2 DEF Ids
<1>4. /\ l \in Seq(Ids) /\ Len(l) \in Nat
      /\ \A j \in 1 .. Len(l) : l[j] \notin DocIds => Len(l) = 1
  <2>1. CASE l \in Lists
    <3>1. l \in Seq(DocIds)
      BY <2>1, IndexAssumption
    <3>2. l \in Seq(Ids) /\ Len(l) \in Nat /\ \A j \in 1 .. Len(l) : l[j] \in DocIds
      BY <3>1 DEF Ids
    <3>3. QED
      BY <3>2
  <2>2. CASE l = <<Inf>>
    <3>1. Inf \in Ids
      BY DEF Ids
    <3>2. QED
      BY <2>2, <3>1
  <2>3. QED
    BY <2>1, <2>2
<1>5. /\ Fits(s_documents_index', s_documents', todo') /\ Empty(s_documents_index')
      /\ Fits(l_documents_index', l_documents', ltodo') /\ Empty(l_documents_index')
      /\ l_documents_index'.use_of_int_array <=> Len(l) > Threshold
  <2>1. Len(s) <= Len(s) /\ Len(l) <= Len(l)
    BY <1>3, <1>4
  <2>2. QED
    BY <1>1, <1>3, <1>4, <2>1, NewFits
<1>6. TypeInv'
  <2>1. UNCHANGED <<store, IS_32BIT_CPU_MODE, k2db, available>>
    BY <1>1 DEF dbVars
  <2>2. QED
    BY <1>1, <1>3, <1>4, <2>1 DEF IInv, TypeInv
<1>7. DbInv'
  BY <1>1, DbKept
<1>8. ApartInv'
  <2>1. /\ \A k : ~ At(s_documents_index', k) > -1
        /\ \A k : ~ At(l_documents_index', k) > -1
    BY <1>5, EmptyAt
  <2>2. \A j \in 1 .. Len(ltodo') :
          ltodo'[j] \notin DocIds => ~ l_documents_index'.use_of_int_array
    <3>1. ~ 1 > Threshold
      BY IndexAssumption
    <3>2. QED
      BY <1>1, <1>4, <1>5, <3>1, Zenon
  <2>3. \A i \in 1 .. Len(todo'), j \in 1 .. Len(ltodo') : todo'[i] # ltodo'[j]
    BY <1>1
  <2>4. QED
    BY <1>5, <2>1, <2>2, <2>3, Zenon DEF ApartInv
<1>9. LookupRight'
  BY <1>1 DEF IInv, LookupRight, dbVars
<1>10. QED
  BY <1>1, <1>5, <1>6, <1>7, <1>8, <1>9 DEF IInv, FreshInv, IndexInv

\* What appendDocument changes in the index.
LEMMA AppendStep ==
    ASSUME IInv, appendDocument
    PROVE  /\ IInv'
           /\ Head(todo) \in DocIds
           /\ \A k \in Ids : At(s_documents_index', k) =
                IF k = Head(todo) THEN Len(s_documents) ELSE At(s_documents_index, k)
           /\ l_documents_index' = l_documents_index /\ Len(s_documents) \in Nat
<1>1. /\ pc = "fill" /\ todo # << >> /\ todo' = Tail(todo)
      /\ s_documents' = Append(s_documents, Head(todo))
      /\ s_documents_index' = Add(s_documents_index, Head(todo), Len(s_documents))
      /\ UNCHANGED dbVars
      /\ UNCHANGED <<pc, term, hit, ltodo, l_documents, l_documents_index>>
  BY DEF appendDocument
<1>2. /\ todo \in Seq(Ids) /\ ltodo \in Seq(Ids) /\ s_documents \in Seq(Ids)
      /\ \A i \in 1 .. Len(todo) : todo[i] \in DocIds
  BY DEF IInv, TypeInv
<1>3. /\ Tail(todo) \in Seq(Ids) /\ Head(todo) \in Ids /\ Head(todo) = todo[1]
      /\ 1 \in 1 .. Len(todo)
      /\ \A i \in 1 .. Len(Tail(todo)) : i + 1 \in 1 .. Len(todo) /\ Tail(todo)[i] = todo[i + 1]
  BY <1>1, <1>2, TailOf
<1>4. Head(todo) \in DocIds /\ Len(s_documents) \in Nat /\ Len(s_documents) \in Int
  BY <1>2, <1>3
<1>5. Fits(s_documents_index, s_documents, todo) /\ Fits(l_documents_index, l_documents, ltodo)
  BY DEF IInv, IndexInv
<1>6. \A k \in Ids : At(s_documents_index', k) =
        IF k = Head(todo) THEN Len(s_documents) ELSE At(s_documents_index, k)
  BY <1>1, <1>3, <1>4, <1>5, AddAt
<1>7. Fits(s_documents_index', s_documents', todo')
  BY <1>1, <1>2, <1>4, <1>5, AddFits
<1>8. s_documents' \in Seq(Ids)
  BY <1>1, <1>2, <1>3
<1>9. TypeInv'
  <2>1. UNCHANGED <<store, IS_32BIT_CPU_MODE, k2db, available>>
    BY <1>1 DEF dbVars
  <2>2. \A i \in 1 .. Len(todo') : todo'[i] \in DocIds
    BY <1>1, <1>2, <1>3
  <2>3. QED
    BY <1>1, <1>3, <1>8, <2>1, <2>2 DEF IInv, TypeInv
<1>10. DbInv'
  BY <1>1, DbKept
<1>11. ApartInv'
  <2>1. /\ Empty(l_documents_index)
        /\ \A j \in 1 .. Len(ltodo) :
             ltodo[j] \in DocIds => ~ At(s_documents_index, ltodo[j]) > -1
        /\ \A i \in 1 .. Len(todo), j \in 1 .. Len(ltodo) : todo[i] # ltodo[j]
        /\ \A j \in 1 .. Len(ltodo) :
             ltodo[j] \notin DocIds => ~ l_documents_index.use_of_int_array
    BY <1>1 DEF IInv, ApartInv
  <2>2. \A k : ~ At(l_documents_index, k) > -1
    BY <2>1, EmptyAt
  <2>3. \A j \in 1 .. Len(ltodo) :
          ltodo[j] \in DocIds => ~ At(s_documents_index', ltodo[j]) > -1
    <3>1. SUFFICES ASSUME NEW j \in 1 .. Len(ltodo), ltodo[j] \in DocIds
                   PROVE  ~ At(s_documents_index', ltodo[j]) > -1
      OBVIOUS
    <3>2. ltodo[j] # Head(todo) /\ ltodo[j] \in Ids
      BY <1>3, <2>1, <3>1 DEF Ids
    <3>3. QED
      BY <1>6, <2>1, <3>1, <3>2
  <2>4. \A i \in 1 .. Len(todo'), j \in 1 .. Len(ltodo') : todo'[i] # ltodo'[j]
    BY <1>1, <1>3, <2>1
  <2>5. QED
    BY <1>1, <2>1, <2>2, <2>3, <2>4, Zenon DEF ApartInv
<1>12. LookupRight'
  BY <1>1 DEF IInv, LookupRight, dbVars
<1>13. QED
  BY <1>1, <1>4, <1>5, <1>6, <1>7, <1>9, <1>10, <1>11, <1>12 DEF IInv, FreshInv, IndexInv

LEMMA SkipStep ==
    ASSUME IInv, skipDocument
    PROVE  IInv'
<1>1. /\ pc = "fill" /\ todo # << >> /\ todo' = Tail(todo)
      /\ UNCHANGED dbVars /\ UNCHANGED listVars
      /\ UNCHANGED <<pc, term, hit, ltodo>>
  BY DEF skipDocument
<1>2. /\ todo \in Seq(Ids) /\ \A i \in 1 .. Len(todo) : todo[i] \in DocIds
  BY DEF IInv, TypeInv
<1>3. /\ Tail(todo) \in Seq(Ids)
      /\ \A i \in 1 .. Len(Tail(todo)) : i + 1 \in 1 .. Len(todo) /\ Tail(todo)[i] = todo[i + 1]
  BY <1>1, <1>2, TailOf
<1>4. UNCHANGED <<s_documents, l_documents, s_documents_index, l_documents_index>>
  BY <1>1 DEF listVars
<1>5. TypeInv'
  <2>1. UNCHANGED <<store, IS_32BIT_CPU_MODE, k2db, available>>
    BY <1>1 DEF dbVars
  <2>2. \A i \in 1 .. Len(todo') : todo'[i] \in DocIds
    BY <1>1, <1>2, <1>3
  <2>3. QED
    BY <1>1, <1>3, <1>4, <2>1, <2>2 DEF IInv, TypeInv
<1>6. DbInv'
  BY <1>1, DbKept
<1>7. IndexInv'
  <2>1. Fits(s_documents_index, s_documents, Tail(todo))
    BY <1>1, <1>2, TailFits DEF IInv, IndexInv
  <2>2. QED
    BY <1>1, <1>4, <2>1 DEF IInv, IndexInv
<1>8. ApartInv'
  <2>1. \A i \in 1 .. Len(todo), j \in 1 .. Len(ltodo) : todo[i] # ltodo[j]
    BY DEF IInv, ApartInv
  <2>2. \A i \in 1 .. Len(todo'), j \in 1 .. Len(ltodo') : todo'[i] # ltodo'[j]
    BY <1>1, <1>3, <2>1
  <2>3. QED
    BY <1>1, <1>4, <2>2 DEF IInv, ApartInv
<1>9. LookupRight'
  BY <1>1 DEF IInv, LookupRight, dbVars
<1>10. QED
  BY <1>1, <1>5, <1>6, <1>7, <1>8, <1>9 DEF IInv, FreshInv

\* What the loop over l_documents changes in the index.
LEMMA LenientStep ==
    ASSUME IInv, appendLenient
    PROVE  /\ IInv'
           /\ Head(ltodo) \in Ids
           /\ \A k \in Ids : At(l_documents_index', k) =
                IF k = Head(ltodo) THEN Len(l_documents) ELSE At(l_documents_index, k)
           /\ s_documents_index' = s_documents_index /\ Len(l_documents) \in Nat
<1>1. /\ pc = "fill" /\ todo = << >> /\ ltodo # << >> /\ ltodo' = Tail(ltodo)
      /\ l_documents' = Append(l_documents, Head(ltodo))
      /\ l_documents_index' = Add(l_documents_index, Head(ltodo), Len(l_documents))
      /\ UNCHANGED dbVars
      /\ UNCHANGED <<pc, term, hit, todo, s_documents, s_documents_index>>
  BY DEF appendLenient
<1>2. ltodo \in Seq(Ids) /\ l_documents \in Seq(Ids)
  BY DEF IInv, TypeInv
<1>3. /\ Tail(ltodo) \in Seq(Ids) /\ Head(ltodo) \in Ids /\ Head(ltodo) = ltodo[1]
      /\ 1 \in 1 .. Len(ltodo)
      /\ \A i \in 1 .. Len(Tail(ltodo)) : i + 1 \in 1 .. Len(ltodo) /\ Tail(ltodo)[i] = ltodo[i + 1]
  BY <1>1, <1>2, TailOf
<1>4. Len(l_documents) \in Nat /\ Len(l_documents) \in Int
  BY <1>2
<1>5. /\ \A d \in DocIds : ~ (At(s_documents_index, d) > -1 /\ At(l_documents_index, d) > -1)
      /\ \A j \in 1 .. Len(ltodo) :
           ltodo[j] \in DocIds => ~ At(s_documents_index, ltodo[j]) > -1
      /\ \A j \in 1 .. Len(ltodo) :
           ltodo[j] \notin DocIds => ~ l_documents_index.use_of_int_array
  BY DEF IInv, ApartInv
<1>6. Head(ltodo) \in DocIds \/ ~ l_documents_index.use_of_int_array
  BY <1>3, <1>5
<1>7. Fits(l_documents_index, l_documents, ltodo) /\ Fits(s_documents_index, s_documents, todo)
  BY DEF IInv, IndexInv
<1>8. /\ \A k \in Ids : At(l_documents_index', k) =
           IF k = Head(ltodo) THEN Len(l_documents) ELSE At(l_documents_index, k)
      /\ l_documents_index'.use_of_int_array = l_documents_index.use_of_int_array
  BY <1>1, <1>3, <1>4, <1>6, <1>7, AddAt
<1>9. Fits(l_documents_index', l_documents', ltodo')
  BY <1>1, <1>2, <1>6, <1>7, AddFits
<1>10. TypeInv'
  <2>1. UNCHANGED <<store, IS_32BIT_CPU_MODE, k2db, available>>
    BY <1>1 DEF dbVars
  <2>2. l_documents' \in Seq(Ids)
    BY <1>1, <1>2, <1>3
  <2>3. QED
    BY <1>1, <1>3, <2>1, <2>2 DEF IInv, TypeInv
<1>11. DbInv'
  BY <1>1, DbKept
<1>12. ApartInv'
  <2>1. \A d \in DocIds : ~ (At(s_documents_index', d) > -1 /\ At(l_documents_index', d) > -1)
    <3>1. SUFFICES ASSUME NEW d \in DocIds
                   PROVE  ~ (At(s_documents_index, d) > -1 /\ At(l_documents_index', d) > -1)
      BY <1>1
    <3>2. d \in Ids
      BY DEF Ids
    <3>3. CASE d = Head(ltodo)
      BY <1>3, <1>5, <3>3
    <3>4. CASE d # Head(ltodo)
      BY <1>5, <1>8, <3>2, <3>4
    <3>5. QED
      BY <3>3, <3>4
  <2>2. \A j \in 1 .. Len(ltodo') :
          ltodo'[j] \in DocIds => ~ At(s_documents_index', ltodo'[j]) > -1
    BY <1>1, <1>3, <1>5
  <2>3. \A j \in 1 .. Len(ltodo') :
          ltodo'[j] \notin DocIds => ~ l_documents_index'.use_of_int_array
    BY <1>1, <1>3, <1>5, <1>8
  <2>4. todo' = << >> /\ 1 .. Len(todo') = {}
    BY <1>1
  <2>5. QED
    BY <2>1, <2>2, <2>3, <2>4, Zenon DEF ApartInv
<1>13. LookupRight'
  BY <1>1 DEF IInv, LookupRight, dbVars
<1>14. QED
  BY <1>1, <1>3, <1>4, <1>7, <1>8, <1>9, <1>10, <1>11, <1>12, <1>13 DEF IInv, FreshInv, IndexInv

LEMMA FilledStep ==
    ASSUME IInv, filled
    PROVE  IInv'
<1>1. /\ pc = "fill" /\ pc' = "loaded"
      /\ UNCHANGED dbVars /\ UNCHANGED listVars
      /\ UNCHANGED <<term, hit, todo, ltodo>>
  BY DEF filled
<1>2. /\ UNCHANGED <<store, IS_32BIT_CPU_MODE, k2db, available>>
      /\ UNCHANGED <<s_documents, l_documents, s_documents_index, l_documents_index>>
  BY <1>1 DEF dbVars, listVars
<1>3. TypeInv'
  BY <1>1, <1>2 DEF IInv, TypeInv
<1>4. DbInv'
  BY <1>1, DbKept
<1>5. IndexInv' /\ LookupRight'
  BY <1>1, <1>2 DEF IInv, IndexInv, LookupRight
<1>6. ApartInv'
  BY <1>1, <1>2 DEF IInv, ApartInv
<1>7. QED
  BY <1>1, <1>3, <1>4, <1>5, <1>6 DEF IInv, FreshInv

\* remove_doc takes the document out of the one list it is in.
LEMMA RemoveStep ==
    ASSUME IInv, NEW d \in DocIds, remove_doc(d)
    PROVE  /\ IInv'
           /\ \A k \in DocIds :
                /\ ~ At(s_documents_index', d) > -1 /\ ~ At(l_documents_index', d) > -1
                /\ k # d => /\ At(s_documents_index', k) = At(s_documents_index, k)
                            /\ At(l_documents_index', k) = At(l_documents_index, k)
<1>1. /\ pc = "loaded" /\ UNCHANGED dbVars
      /\ UNCHANGED <<pc, term, hit, todo, ltodo, s_documents, l_documents>>
  BY DEF remove_doc
<1>2. UNCHANGED <<store, IS_32BIT_CPU_MODE, k2db, available>>
  BY <1>1 DEF dbVars
<1>3. /\ Fits(s_documents_index, s_documents, todo) /\ Fits(l_documents_index, l_documents, ltodo)
      /\ todo \in Seq(Ids) /\ ltodo \in Seq(Ids)
  BY DEF IInv, IndexInv, TypeInv
<1>4. /\ Get(s_documents_index, d) = At(s_documents_index, d)
      /\ Get(l_documents_index, d) = At(l_documents_index, d)
  BY <1>3, GetIsAt
<1>5. /\ \A e \in DocIds : ~ (At(s_documents_index, e) > -1 /\ At(l_documents_index, e) > -1)
      /\ \A j \in 1 .. Len(ltodo) :
           ltodo[j] \in DocIds => ~ At(s_documents_index, ltodo[j]) > -1
      /\ \A i \in 1 .. Len(todo), j \in 1 .. Len(ltodo) : todo[i] # ltodo[j]
      /\ todo # << >> => Empty(l_documents_index)
      /\ \A j \in 1 .. Len(ltodo) :
           ltodo[j] \notin DocIds => ~ l_documents_index.use_of_int_array
  BY DEF IInv, ApartInv
<1>6. DocIds \subseteq Ids
  BY DEF Ids
<1>7. ~ (-1 > -1)
  OBVIOUS
<1>8. CASE /\ Get(s_documents_index, d) > -1
           /\ s_documents_index' = Add(s_documents_index, d, -1)
           /\ UNCHANGED l_documents_index
  <2>1. /\ Fits(s_documents_index', s_documents, todo)
        /\ \A k \in Ids : At(s_documents_index', k) = IF k = d THEN -1 ELSE At(s_documents_index, k)
    BY <1>3, <1>4, <1>8, ClearFits
  <2>2. ~ At(l_documents_index, d) > -1
    BY <1>4, <1>5, <1>8
  <2>3. /\ \A e \in DocIds : ~ (At(s_documents_index', e) > -1 /\ At(l_documents_index, e) > -1)
        /\ \A j \in 1 .. Len(ltodo) :
             ltodo[j] \in DocIds => ~ At(s_documents_index', ltodo[j]) > -1
    BY <1>5, <1>6, <1>7, <2>1
  <2>4. ApartInv'
    BY <1>1, <1>5, <1>8, <2>3 DEF ApartInv
  <2>5. IndexInv'
    BY <1>1, <1>3, <1>8, <2>1 DEF IndexInv
  <2>6. QED
    <3>1. TypeInv'
      BY <1>1, <1>2 DEF IInv, TypeInv
    <3>2. DbInv'
      BY <1>1, DbKept
    <3>3. LookupRight' /\ FreshInv'
      BY <1>1, <1>2 DEF IInv, LookupRight, FreshInv
    <3>4. \A k \in DocIds :
            /\ ~ At(s_documents_index', d) > -1 /\ ~ At(l_documents_index', d) > -1
            /\ k # d => /\ At(s_documents_index', k) = At(s_documents_index, k)
                        /\ At(l_documents_index', k) = At(l_documents_index, k)
      BY <1>6, <1>7, <1>8, <2>1, <2>2
    <3>5. QED
      BY <2>4, <2>5, <3>1, <3>2, <3>3, <3>4 DEF IInv
<1>9. CASE /\ ~ Get(s_documents_index, d) > -1 /\ Get(l_documents_index, d) > -1
           /\ l_documents_index' = Add(l_documents_index, d, -1)
           /\ UNCHANGED s_documents_index
  <2>1. /\ Fits(l_documents_index', l_documents, ltodo)
        /\ \A k \in Ids : At(l_documents_index', k) = IF k = d THEN -1 ELSE At(l_documents_index, k)
        /\ l_documents_index'.use_of_int_array = l_documents_index.use_of_int_array
    BY <1>3, <1>4, <1>9, ClearFits
  <2>2. \A e \in DocIds : ~ (At(s_documents_index, e) > -1 /\ At(l_documents_index', e) > -1)
    BY <1>5, <1>6, <1>7, <2>1
  <2>3. todo = << >>
    <3>1. SUFFICES ASSUME Empty(l_documents_index) PROVE FALSE
      BY <1>5
    <3>2. QED
      BY <1>4, <1>7, <1>9, <3>1, EmptyAt
  <2>4. ApartInv'
    BY <1>1, <1>5, <1>9, <2>1, <2>2, <2>3 DEF ApartInv
  <2>5. IndexInv'
    BY <1>1, <1>3, <1>9, <2>1 DEF IndexInv
  <2>6. QED
    <3>1. TypeInv'
      BY <1>1, <1>2 DEF IInv, TypeInv
    <3>2. DbInv'
      BY <1>1, DbKept
    <3>3. LookupRight' /\ FreshInv'
      BY <1>1, <1>2 DEF IInv, LookupRight, FreshInv
    <3>4. \A k \in DocIds :
            /\ ~ At(s_documents_index', d) > -1 /\ ~ At(l_documents_index', d) > -1
            /\ k # d => /\ At(s_documents_index', k) = At(s_documents_index, k)
                        /\ At(l_documents_index', k) = At(l_documents_index, k)
      BY <1>4, <1>6, <1>7, <1>9, <2>1
    <3>5. QED
      BY <2>4, <2>5, <3>1, <3>2, <3>3, <3>4 DEF IInv
<1>10. QED
  BY <1>8, <1>9 DEF remove_doc

LEMMA NextInv == IInv /\ [Next]_vars => IInv'
<1> SUFFICES ASSUME IInv, [Next]_vars PROVE IInv'
  OBVIOUS
<1>1. CASE init
  BY <1>1, DbStep
<1>2. CASE \E t \in Terms, lenient \in BOOLEAN : lookup_index(t, lenient)
  BY <1>2, LookupStep
<1>3. CASE \E s \in Lists, l \in Lists \cup {<<Inf>>} : map_index(s, l)
  BY <1>3, MapIndexStep
<1>4. CASE appendDocument
  BY <1>4, AppendStep
<1>5. CASE skipDocument
  BY <1>5, SkipStep
<1>6. CASE appendLenient
  BY <1>6, LenientStep
<1>7. CASE filled
  BY <1>7, FilledStep
<1>8. CASE \E d \in DocIds : remove_doc(d)
  BY <1>8, RemoveStep
<1>9. CASE UNCHANGED vars
  <2>1. /\ UNCHANGED <<store, IS_32BIT_CPU_MODE, k2db, available, pc, term, hit, todo, ltodo>>
        /\ UNCHANGED <<s_documents, l_documents, s_documents_index, l_documents_index>>
    BY <1>9 DEF vars, dbVars, listVars
  <2>2. TypeInv' /\ DbInv' /\ FreshInv'
    BY <2>1 DEF IInv, TypeInv, DbInv, FreshInv
  <2>3. IndexInv' /\ LookupRight'
    BY <2>1 DEF IInv, IndexInv, LookupRight
  <2>4. ApartInv'
    BY <2>1 DEF IInv, ApartInv
  <2>5. QED
    BY <2>2, <2>3, <2>4 DEF IInv
<1>10. QED
  BY <1>1, <1>2, <1>3, <1>4, <1>5, <1>6, <1>7, <1>8, <1>9 DEF Next

LEMMA Invariance == Spec => []IInv
BY InitInv, NextInv, PTL DEF Spec

\* A look-up finds a term exactly if the database that holds it can be used, for
\* any number of databases and any of them missing.
THEOREM LookupIsRight == Spec => []LookupRight
<1>1. IInv => LookupRight
  BY DEF IInv
<1>2. QED
  BY <1>1, Invariance, PTL

-----------------------------------------------------------------------------
\* What get_doc returns, in terms of the two indexes.
LEMMA AnswerIs ==
    ASSUME NEW s, NEW l, NEW sdocs, NEW ldocs, NEW rest \in Seq(Ids), NEW lrest \in Seq(Ids),
           Fits(s, sdocs, rest), Fits(l, ldocs, lrest), NEW d \in DocIds
    PROVE  (IF Get(s, d) > -1 THEN sdocs[Get(s, d) + 1]
            ELSE IF Get(l, d) > -1 THEN ldocs[Get(l, d) + 1] ELSE -1) =
           IF At(s, d) > -1 \/ At(l, d) > -1 THEN d ELSE -1
<1>1. Get(s, d) = At(s, d) /\ Get(l, d) = At(l, d)
  BY GetIsAt
<1>2. At(s, d) > -1 => sdocs[At(s, d) + 1] = d
  BY DEF At, Fits
<1>3. At(l, d) > -1 => ldocs[At(l, d) + 1] = d
  BY DEF At, Fits
<1>4. QED
  BY <1>1, <1>2, <1>3

Held(d) == At(s_documents_index, d) > -1 \/ At(l_documents_index, d) > -1

LEMMA GetDocIs ==
    ASSUME IInv, NEW d \in DocIds
    PROVE  get_doc(d) = IF Held(d) THEN d ELSE -1
<1>1. /\ Fits(s_documents_index, s_documents, todo) /\ Fits(l_documents_index, l_documents, ltodo)
      /\ todo \in Seq(Ids) /\ ltodo \in Seq(Ids)
  BY DEF IInv, IndexInv, TypeInv
<1>2. QED
  BY <1>1, AnswerIs DEF get_doc, Held

LEMMA GetDocIsPrimed ==
    ASSUME IInv', NEW d \in DocIds
    PROVE  get_doc(d)' = IF Held(d)' THEN d ELSE -1
<1>1. /\ Fits(s_documents_index', s_documents', todo')
      /\ Fits(l_documents_index', l_documents', ltodo')
      /\ todo' \in Seq(Ids) /\ ltodo' \in Seq(Ids)
  BY DEF IInv, IndexInv, TypeInv
<1>2. QED
  BY <1>1, AnswerIs DEF get_doc, Held

\* A step that changes no index seen from outside is a stuttering step.
LEMMA SameAnswers ==
    ASSUME IInv, IInv', \A d \in DocIds : Held(d)' = Held(d)
    PROVE  [d \in DocIds |-> get_doc(d)]' = [d \in DocIds |-> get_doc(d)]
<1>1. \A d \in DocIds : get_doc(d)' = get_doc(d)
  BY GetDocIs, GetDocIsPrimed
<1>2. QED
  BY <1>1

\* A step that puts one document in.
LEMMA OneMore ==
    ASSUME IInv, IInv', NEW e \in DocIds, Held(e)',
           \A d \in DocIds \ {e} : Held(d)' = Held(d)
    PROVE  [d \in DocIds |-> get_doc(d)]' = [[d \in DocIds |-> get_doc(d)] EXCEPT ![e] = e]
<1>1. \A d \in DocIds : get_doc(d)' = IF d = e THEN e ELSE get_doc(d)
  <2>1. TAKE d \in DocIds
  <2>2. CASE d = e
    BY <2>2, GetDocIsPrimed
  <2>3. CASE d # e
    BY <2>3, GetDocIs, GetDocIsPrimed
  <2>4. QED
    BY <2>2, <2>3
<1>2. QED
  BY <1>1

\* A step that takes one document out.
LEMMA OneLess ==
    ASSUME IInv, IInv', NEW e \in DocIds, ~ Held(e)',
           \A d \in DocIds \ {e} : Held(d)' = Held(d)
    PROVE  [d \in DocIds |-> get_doc(d)]' = [[d \in DocIds |-> get_doc(d)] EXCEPT ![e] = -1]
<1>1. \A d \in DocIds : get_doc(d)' = IF d = e THEN -1 ELSE get_doc(d)
  <2>1. TAKE d \in DocIds
  <2>2. CASE d = e
    BY <2>2, GetDocIsPrimed
  <2>3. CASE d # e
    BY <2>3, GetDocIs, GetDocIsPrimed
  <2>4. QED
    BY <2>2, <2>3
<1>2. QED
  BY <1>1

LEMMA InitRefines == Init => Docs!Init
<1> SUFFICES ASSUME Init PROVE Docs!Init
  OBVIOUS
<1>1. IInv
  BY InitInv
<1>2. \A d \in DocIds : ~ Held(d)
  <2>1. Empty(s_documents_index) /\ Empty(l_documents_index)
    BY <1>1 DEF Init, IInv, FreshInv
  <2>2. QED
    BY <2>1, EmptyAt DEF Held
<1>3. \A d \in DocIds : get_doc(d) = -1
  BY <1>1, <1>2, GetDocIs
<1>4. QED
  BY <1>3 DEF Docs!Init

LEMMA NextRefines ==
    IInv /\ IInv' /\ [Next]_vars =>
        Docs!Next \/ UNCHANGED [d \in DocIds |-> get_doc(d)]
<1> SUFFICES ASSUME IInv, IInv', [Next]_vars
             PROVE  Docs!Next \/ UNCHANGED [d \in DocIds |-> get_doc(d)]
  OBVIOUS
<1>1. ASSUME s_documents_index' = s_documents_index, l_documents_index' = l_documents_index
      PROVE  UNCHANGED [d \in DocIds |-> get_doc(d)]
  <2>1. \A d \in DocIds : Held(d)' = Held(d)
    BY <1>1 DEF Held
  <2>2. QED
    BY <2>1, SameAnswers
<1>2. ASSUME pc = "ready", Empty(s_documents_index'), Empty(l_documents_index')
      PROVE  UNCHANGED [d \in DocIds |-> get_doc(d)]
  <2>1. Empty(s_documents_index) /\ Empty(l_documents_index)
    BY <1>2 DEF IInv, FreshInv
  <2>2. \A k : /\ At(s_documents_index, k) = -1 /\ At(l_documents_index, k) = -1
               /\ At(s_documents_index', k) = -1 /\ At(l_documents_index', k) = -1
    BY <1>2, <2>1, EmptyAt
  <2>3. \A d \in DocIds : Held(d)' = Held(d)
    BY <2>2 DEF Held
  <2>4. QED
    BY <2>3, SameAnswers
<1>3. ASSUME NEW e \in DocIds, Held(e)', \A d \in DocIds \ {e} : Held(d)' = Held(d)
      PROVE  Docs!Next
  BY <1>3, OneMore DEF Docs!Next, Docs!Put
<1>4. DocIds \subseteq Ids
  BY DEF Ids
<1>5. CASE init \/ skipDocument \/ filled \/ UNCHANGED vars
  BY <1>1, <1>5 DEF init, skipDocument, filled, vars, listVars
<1>6. CASE \E t \in Terms, lenient \in BOOLEAN : lookup_index(t, lenient)
  BY <1>2, <1>6, LookupStep DEF lookup_index
<1>7. CASE \E s \in Lists, l \in Lists \cup {<<Inf>>} : map_index(s, l)
  BY <1>2, <1>7, MapIndexStep DEF map_index
<1>8. CASE appendDocument
  <2>1. /\ Head(todo) \in DocIds
        /\ \A k \in Ids : At(s_documents_index', k) =
             IF k = Head(todo) THEN Len(s_documents) ELSE At(s_documents_index, k)
        /\ l_documents_index' = l_documents_index /\ Len(s_documents) \in Nat
    BY <1>8, AppendStep
  <2>2. PICK e \in DocIds : e = Head(todo)
    BY <2>1
  <2>3. At(s_documents_index', e) > -1
    BY <1>4, <2>1, <2>2
  <2>4. \A d \in DocIds \ {e} : At(s_documents_index', d) = At(s_documents_index, d)
    BY <1>4, <2>1, <2>2
  <2>5. Held(e)' /\ \A d \in DocIds \ {e} : Held(d)' = Held(d)
    BY <2>1, <2>3, <2>4 DEF Held
  <2>6. QED
    BY <1>3, <2>5
<1>9. CASE appendLenient
  <2>1. /\ Head(ltodo) \in Ids
        /\ \A k \in Ids : At(l_documents_index', k) =
             IF k = Head(ltodo) THEN Len(l_documents) ELSE At(l_documents_index, k)
        /\ s_documents_index' = s_documents_index /\ Len(l_documents) \in Nat
    BY <1>9, LenientStep
  <2>2. PICK e \in Ids : e = Head(ltodo)
    BY <2>1
  <2>3. At(l_documents_index', e) > -1
    BY <2>1, <2>2
  <2>4. \A d \in DocIds \ {e} : At(l_documents_index', d) = At(l_documents_index, d)
    BY <1>4, <2>1, <2>2
  <2>5. \A d \in DocIds \ {e} : Held(d)' = Held(d)
    BY <2>1, <2>4 DEF Held
  <2>6. CASE e \in DocIds
    <3>1. Held(e)'
      BY <2>3 DEF Held
    <3>2. QED
      BY <1>3, <2>5, <2>6, <3>1
  <2>7. CASE e \notin DocIds
    BY <2>5, <2>7, SameAnswers
  <2>8. QED
    BY <2>6, <2>7
<1>10. ASSUME NEW e \in DocIds, remove_doc(e)
       PROVE  Docs!Next
  <2>1. /\ ~ At(s_documents_index', e) > -1 /\ ~ At(l_documents_index', e) > -1
        /\ \A k \in DocIds \ {e} : /\ At(s_documents_index', k) = At(s_documents_index, k)
                                   /\ At(l_documents_index', k) = At(l_documents_index, k)
    BY <1>10, RemoveStep
  <2>2. ~ Held(e)' /\ \A d \in DocIds \ {e} : Held(d)' = Held(d)
    BY <2>1 DEF Held
  <2>3. QED
    BY <2>2, OneLess DEF Docs!Next, Docs!TakeOut
<1>11. QED
  BY <1>5, <1>6, <1>7, <1>8, <1>9, <1>10 DEF Next

\* The lists of a node and their Hashmaps, arrays or maps, implement DocSet.
THEOREM Refinement == Spec => ImplementsDocSet
<1>1. IInv /\ [Next]_vars => IInv'
  BY NextInv
<1>2. QED
  BY <1>1, Invariance, InitRefines, NextRefines, PTL DEF Spec, ImplementsDocSet, Docs!Spec
=============================================================================
