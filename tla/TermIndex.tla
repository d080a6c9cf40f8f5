----------------------------- MODULE TermIndex -----------------------------
(***************************************************************************)
(* A node of the query tree gets its documents: the term is looked up in the *)
(* offset databases (class Dbm), its posting list is read (read_index), or   *)
(* the lists of the children have been combined (the last part of merge_and  *)
(* and merge_or); the documents go into two lists and the indexes from ids   *)
(* to places in them (class Hashmap), which get_doc and remove_doc use.      *)
(* Keys of the databases are numbers, in the order of the strings.           *)
(***************************************************************************)
EXTENDS Integers, Sequences, FiniteSets

CONSTANTS
    Terms,       \* the keys, natural numbers greater than 0
    Stores,      \* keymap files: sequences of [key, terms, there]
    Postings,    \* the documents of every term, from its block of the index file
    Lists,       \* the lists of documents that merge_and and merge_or come to
    DocIds,      \* the ids of the documents of one server
    Slots,       \* 1000000: the size of the array of a large Hashmap
    Threshold,   \* 1000: up to this many documents a Hashmap is a map
    MapLimit     \* 200000: a map with more entries is ignored

Inf == -1        \* the id that stands for all documents in l_documents

Distinct(docs) == \A i, j \in 1 .. Len(docs) : docs[i] = docs[j] => i = j

\* A server has fewer documents than a Hashmap has slots.  The databases hold the
\* sorted terms in pieces, and the keymap file has the first term of every piece
\* but the first; every term falls between the keys of one piece and of the next.
ASSUME IndexAssumption ==
    /\ Slots \in Nat /\ Threshold \in Nat \ {0} /\ MapLimit \in Nat
    /\ Threshold <= MapLimit
    /\ DocIds \subseteq 0 .. Slots - 1
    /\ Terms \subseteq Nat \ {0}
    /\ Postings \in [Terms -> Seq(DocIds)]
    /\ \A t \in Terms : Distinct(Postings[t])
    /\ Lists \subseteq Seq(DocIds)
    /\ \A docs \in Lists : Distinct(docs)
    /\ \A s \in Stores :
        /\ s \in Seq([key : Nat, terms : SUBSET Terms, there : BOOLEAN])
        /\ Len(s) > 0 /\ s[1].key = 0
        /\ \A i \in 1 .. Len(s) : \A t \in s[i].terms :
             /\ \A j \in 1 .. i : s[j].key <= t
             /\ \A j \in i + 1 .. Len(s) : t < s[j].key
        /\ \A t \in Terms : \E i \in 1 .. Len(s) :
             /\ \A j \in 1 .. i : s[j].key <= t
             /\ i < Len(s) => t < s[i + 1].key

VARIABLES
    store,         \* the keymap file and the databases it names
    IS_32BIT_CPU_MODE,
    k2db,          \* Dbm: how many entries have been made
    available,     \* Dbm
    pc,            \* "init", "ready", "fill" the lists, "loaded"
    term,          \* the term looked up, 0 for none
    hit,           \* whether the look-up gave an address
    todo, ltodo,   \* documents still to be put in s_documents and l_documents
    s_documents, l_documents,
    s_documents_index, l_documents_index

dbVars == <<store, IS_32BIT_CPU_MODE, k2db, available>>
listVars == <<s_documents, l_documents, s_documents_index, l_documents_index>>
vars == <<dbVars, pc, term, hit, todo, ltodo, listVars>>

-----------------------------------------------------------------------------
\* Hashmap: an array indexed by the id modulo its size, or a map.
Hashmap(size) ==
    IF size > Threshold THEN [use_of_int_array |-> TRUE, at |-> [i \in 0 .. Slots - 1 |-> -1]]
    ELSE [use_of_int_array |-> FALSE, at |-> [i \in {} |-> -1]]

\* Mutant: the last slot is the first one again.
Slot_Short(h, key) == IF h.use_of_int_array THEN key % (Slots - 1) ELSE key

Slot(h, key) == IF h.use_of_int_array THEN key % Slots ELSE key

Add(h, key, value) ==
    [h EXCEPT !.at = [i \in DOMAIN h.at \cup {Slot(h, key)} |->
                        IF i = Slot(h, key) THEN value ELSE h.at[i]]]

Get(h, key) ==
    IF \/ ~ h.use_of_int_array /\ Cardinality(DOMAIN h.at) > MapLimit
       \/ Slot(h, key) \notin DOMAIN h.at
    THEN -1 ELSE h.at[Slot(h, key)]

\* The document get_doc returns, -1 for NULL.  Places in the lists count from 0.
get_doc(d) ==
    LET p == Get(s_documents_index, d)
        q == Get(l_documents_index, d)
    IN  IF p > -1 THEN s_documents[p + 1] ELSE IF q > -1 THEN l_documents[q + 1] ELSE -1

-----------------------------------------------------------------------------
\* Mutant: the piece before is searched for its first term.
Entry_Before(t) == CHOOSE i \in 1 .. k2db :
                /\ \A j \in 2 .. i : store[j].key < t
                /\ i < k2db => t <= store[i + 1].key

\* _get: the last entry whose key is not greater.
Entry(t) == CHOOSE i \in 1 .. k2db :
                /\ \A j \in 1 .. i : store[j].key <= t
                /\ i < k2db => t < store[i + 1].key

\* Whether get finds the term, once it is called.  With 32 bits a database is
\* opened for every look-up.
Gets(t) == t \in store[Entry(t)].terms /\ (IS_32BIT_CPU_MODE => store[Entry(t)].there)

Init ==
    /\ store \in Stores /\ IS_32BIT_CPU_MODE \in BOOLEAN
    /\ k2db = 0 /\ available = TRUE
    /\ pc = "init" /\ term = 0 /\ hit = FALSE
    /\ todo = << >> /\ ltodo = << >>
    /\ s_documents = << >> /\ l_documents = << >>
    /\ s_documents_index = Hashmap(0) /\ l_documents_index = Hashmap(0)

\* Dbm::init, one database.
init ==
    /\ pc = "init"
    /\ k2db' = k2db + 1
    /\ available' = (available /\ (store[k2db + 1].there \/ IS_32BIT_CPU_MODE))
    /\ pc' = IF k2db + 1 = Len(store) THEN "ready" ELSE "init"
    /\ UNCHANGED <<store, IS_32BIT_CPU_MODE, term, hit, todo, ltodo, listVars>>

\* lookup_index and read_index up to read_dids_with_feature.  A lenient term has
\* all documents as its l_documents.
lookup_index(t, lenient) ==
    /\ pc = "ready"
    /\ term' = t
    /\ hit' = (available /\ Gets(t))
    /\ todo' = IF hit' THEN Postings[t] ELSE << >>
    /\ s_documents_index' = Hashmap(Len(todo'))
    /\ l_documents_index' = Hashmap(Len(todo'))
    /\ l_documents' = IF lenient THEN <<Inf>> ELSE << >>
    /\ pc' = "fill"
    /\ UNCHANGED <<dbVars, ltodo, s_documents>>

\* The last part of merge_and and merge_or: no document is in both lists, and
\* l_documents may stand for all documents.
map_index(s, l) ==
    /\ pc = "ready"
    /\ \A i \in 1 .. Len(s) : \A j \in 1 .. Len(l) : s[i] # l[j]
    /\ todo' = s /\ ltodo' = l
    /\ s_documents_index' = Hashmap(Len(s))
    /\ l_documents_index' = Hashmap(Len(l))
    /\ pc' = "fill"
    /\ UNCHANGED <<dbVars, term, hit, s_documents, l_documents>>

\* appendDocument, and the loop over s_documents.
appendDocument ==
    /\ pc = "fill" /\ todo # << >>
    /\ todo' = Tail(todo)
    /\ s_documents' = Append(s_documents, Head(todo))
    /\ s_documents_index' = Add(s_documents_index, Head(todo), Len(s_documents))
    /\ UNCHANGED <<dbVars, pc, term, hit, ltodo, l_documents, l_documents_index>>

\* read_dids_with_feature leaves out a document without the features asked for.
skipDocument ==
    /\ pc = "fill" /\ todo # << >> /\ term # 0
    /\ todo' = Tail(todo)
    /\ UNCHANGED <<dbVars, pc, term, hit, ltodo, listVars>>

\* The loop over l_documents.
appendLenient ==
    /\ pc = "fill" /\ todo = << >> /\ ltodo # << >>
    /\ ltodo' = Tail(ltodo)
    /\ l_documents' = Append(l_documents, Head(ltodo))
    /\ l_documents_index' = Add(l_documents_index, Head(ltodo), Len(l_documents))
    /\ UNCHANGED <<dbVars, pc, term, hit, todo, s_documents, s_documents_index>>

filled ==
    /\ pc = "fill" /\ todo = << >> /\ ltodo = << >>
    /\ pc' = "loaded"
    /\ UNCHANGED <<dbVars, term, hit, todo, ltodo, listVars>>

remove_doc(d) ==
    /\ pc = "loaded"
    /\ \/ /\ Get(s_documents_index, d) > -1
          /\ s_documents_index' = Add(s_documents_index, d, -1)
          /\ UNCHANGED l_documents_index
       \/ /\ ~ Get(s_documents_index, d) > -1 /\ Get(l_documents_index, d) > -1
          /\ l_documents_index' = Add(l_documents_index, d, -1)
          /\ UNCHANGED s_documents_index
    /\ UNCHANGED <<dbVars, pc, term, hit, todo, ltodo, s_documents, l_documents>>

Next ==
    \/ init
    \/ \E t \in Terms, lenient \in BOOLEAN : lookup_index(t, lenient)
    \/ \E s \in Lists, l \in Lists \cup {<<Inf>>} : map_index(s, l)
    \/ appendDocument \/ skipDocument \/ appendLenient \/ filled
    \/ \E d \in DocIds : remove_doc(d)

Spec == Init /\ [][Next]_vars

-----------------------------------------------------------------------------
\* A term is found exactly if some database holds it and could be opened: with 64
\* bits a single missing database makes every term of the index unknown, with 32
\* bits only the terms it holds.
LookupRight ==
    term # 0 =>
        (hit <=> \E i \in 1 .. Len(store) :
                    /\ term \in store[i].terms /\ store[i].there
                    /\ IS_32BIT_CPU_MODE \/ \A j \in 1 .. Len(store) : store[j].there)

\* The two lists and their indexes answer like a DocSet: a node never gives
\* another document than the one asked for, before or after removals.
Docs == INSTANCE DocSet WITH found <- [d \in DocIds |-> get_doc(d)]

ImplementsDocSet == Docs!Spec
=============================================================================
