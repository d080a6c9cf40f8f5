----------------------------- MODULE ListMerge -----------------------------
(***************************************************************************)
(* One call of and_operation, or_operation or dup_check_operation, pass by  *)
(* pass: the loops that combine the document lists of two parts of a query. *)
(* The lists come from the constant Lists; every list the callers build      *)
(* with these operations satisfies the assumption on it.                     *)
(***************************************************************************)
EXTENDS DocListOps

CONSTANTS
    DocIds,   \* the document ids
    Leaves,   \* where a document was read (which term of the query)
    Lists     \* the argument lists

Doc == [id : DocIds \cup {Inf}, leaf : Leaves]

\* Ids are increasing and no document is there twice.
Ascending(docs) == \A i, j \in 1 .. Len(docs) : i < j => docs[i].id < docs[j].id

Finite(docs) == \A i \in 1 .. Len(docs) : docs[i].id \in DocIds

ASSUME ListsAssumption ==
    /\ DocIds \subseteq Nat
    /\ \A docs \in Lists :
        /\ docs \in Seq(Doc)
        /\ Ascending(docs)
        /\ Finite(docs) \/ (Len(docs) = 1 /\ docs[1].id = Inf)

VARIABLES op, docs1, docs2, w
listVars == <<op, docs1, docs2, w>>

\* A call with an empty destination, as all callers make it but merge_or.  The
\* list whose documents dup_check_operation removes is s_documents, which never
\* stands for all documents.
ListInit ==
    /\ docs1 \in Lists
    /\ docs2 \in Lists
    /\ \/ op = "and" /\ w = AndBegin(docs1, docs2, << >>)
       \/ op = "or"  /\ w = OrBegin(docs1, docs2, << >>)
       \/ op = "dup" /\ ~ Infinite(docs2) /\ w = DupBegin(docs1, docs2, << >>)

and_operation == op = "and" /\ ~ w.done /\ w' = AndStep(docs1, docs2, w)
or_operation == op = "or" /\ ~ w.done /\ w' = OrStep(docs1, docs2, w)
dup_check_operation == op = "dup" /\ ~ w.done /\ w' = DupStep(docs1, docs2, w)

ListNext == /\ and_operation \/ or_operation \/ dup_check_operation
        /\ UNCHANGED <<op, docs1, docs2>>

ListSpec == ListInit /\ [][ListNext]_listVars

-----------------------------------------------------------------------------
Ids(docs) == {docs[i].id : i \in 1 .. Len(docs)}

\* The state of a call: the iterators stay inside the lists while the loop runs.
ListTypeOK ==
    /\ op \in {"and", "or", "dup"}
    /\ docs1 \in Lists /\ docs2 \in Lists
    /\ w.dest \in Seq(Doc)
    /\ w.done \in BOOLEAN
    /\ ~ w.done => w.it1 \in 1 .. Len(docs1) /\ w.it2 \in 1 .. Len(docs2)

\* The result is sorted without duplicates, as the next operation needs it.
ResultAscending == w.done => Ascending(w.dest)

\* What a list stands for: the list with id -1 stands for every document.
Has(docs, x) == Infinite(docs) \/ x \in Ids(docs)

\* and_operation computes the documents of both lists.
AndCorrect == w.done /\ op = "and" =>
    \A x \in DocIds : Has(w.dest, x) <=> Has(docs1, x) /\ Has(docs2, x)

\* or_operation computes the documents of either list.
OrCorrect == w.done /\ op = "or" =>
    \A x \in DocIds : Has(w.dest, x) <=> Has(docs1, x) \/ Has(docs2, x)

\* dup_check_operation removes from the first list what is in the second; the
\* list of all documents is left alone.
DupCorrect == w.done /\ op = "dup" =>
    \A x \in DocIds : Has(w.dest, x) <=>
        Infinite(docs1) \/ (x \in Ids(docs1) /\ x \notin Ids(docs2))
=============================================================================
