----------------------------- MODULE DocListOps -----------------------------
(***************************************************************************)
(* The three list operations of search/documents.cc, as the code performs   *)
(* them: and_operation, or_operation and dup_check_operation walk two lists  *)
(* of documents with one iterator each and append to a third.  A list is     *)
(* sorted by document id; the list that holds one document with id -1 stands *)
(* for "every document" (set_l_documents_inf).                               *)
(*                                                                           *)
(* A state of a walk is a record: it1, it2 are the iterators (Len + 1 is     *)
(* end()), dest the list built so far, done tells whether the call returned. *)
(* ...Begin is what a call does before its loop, ...Step one pass of it.     *)
(***************************************************************************)
EXTENDS Integers, Sequences

\* The id of the document that stands for all documents.
Inf == -1

Infinite(docs) == docs # << >> /\ docs[1].id = Inf

Walk(i, j, d, b) == [it1 |-> i, it2 |-> j, dest |-> d, done |-> b]

\* The documents an iterator at i still has before it.
Rest(docs, i) == SubSeq(docs, i, Len(docs))

-----------------------------------------------------------------------------
AndBegin(docs1, docs2, dest) ==
    IF docs1 = << >> \/ docs2 = << >> THEN Walk(1, 1, dest, TRUE)
    ELSE IF Infinite(docs1) THEN Walk(1, 1, docs2, TRUE)
    ELSE IF Infinite(docs2) THEN Walk(1, 1, docs1, TRUE)
    ELSE Walk(1, 1, dest, FALSE)

\* Mutant: the iterator that is moved on is the one at the larger document.
AndStepSwapped(docs1, docs2, w) ==
    LET id1 == docs1[w.it1].id
        id2 == docs2[w.it2].id
    IN  IF id1 < id2 THEN
            Walk(w.it1, w.it2 + 1, w.dest, w.it2 = Len(docs2))
        ELSE IF id1 > id2 THEN
            Walk(w.it1 + 1, w.it2, w.dest, w.it1 = Len(docs1))
        ELSE
            Walk(w.it1 + 1, w.it2 + 1, Append(w.dest, docs1[w.it1]),
                 w.it1 = Len(docs1) \/ w.it2 = Len(docs2))

\* Mutant: after a match only the first iterator is compared with end().
AndStepUnchecked(docs1, docs2, w) ==
    LET id1 == docs1[w.it1].id
        id2 == docs2[w.it2].id
    IN  IF id1 > id2 THEN
            Walk(w.it1, w.it2 + 1, w.dest, w.it2 = Len(docs2))
        ELSE IF id1 < id2 THEN
            Walk(w.it1 + 1, w.it2, w.dest, w.it1 = Len(docs1))
        ELSE
            Walk(w.it1 + 1, w.it2 + 1, Append(w.dest, docs1[w.it1]), w.it1 = Len(docs1))

AndStep(docs1, docs2, w) ==
    LET id1 == docs1[w.it1].id
        id2 == docs2[w.it2].id
    IN  IF id1 > id2 THEN
            Walk(w.it1, w.it2 + 1, w.dest, w.it2 = Len(docs2))
        ELSE IF id1 < id2 THEN
            Walk(w.it1 + 1, w.it2, w.dest, w.it1 = Len(docs1))
        ELSE
            Walk(w.it1 + 1, w.it2 + 1, Append(w.dest, docs1[w.it1]),
                 w.it1 = Len(docs1) \/ w.it2 = Len(docs2))

-----------------------------------------------------------------------------
OrBegin(docs1, docs2, dest) ==
    IF docs1 = << >> /\ docs2 = << >> THEN Walk(1, 1, dest, TRUE)
    ELSE IF docs1 = << >> THEN Walk(1, 1, docs2, TRUE)
    ELSE IF docs2 = << >> THEN Walk(1, 1, docs1, TRUE)
    ELSE IF Infinite(docs1) THEN Walk(1, 1, <<docs1[1]>>, TRUE)
    ELSE IF Infinite(docs2) THEN Walk(1, 1, <<docs2[1]>>, TRUE)
    ELSE Walk(1, 1, dest, FALSE)

\* Mutant: a document of both lists is taken from each of them.
OrStepTwice(docs1, docs2, w) ==
    LET id1 == docs1[w.it1].id
        id2 == docs2[w.it2].id
        last1 == w.it1 = Len(docs1)
        last2 == w.it2 = Len(docs2)
    IN  IF id2 < id1 THEN
            Walk(w.it1, w.it2 + 1,
                 Append(w.dest, docs2[w.it2])
                     \o (IF last2 THEN Rest(docs1, w.it1) ELSE << >>), last2)
        ELSE
            Walk(w.it1 + 1, w.it2,
                 Append(w.dest, docs1[w.it1])
                     \o (IF last1 THEN Rest(docs2, w.it2) ELSE << >>), last1)

\* Mutant: the rest of the longer list is not copied.
OrStepNoRest(docs1, docs2, w) ==
    LET id1 == docs1[w.it1].id
        id2 == docs2[w.it2].id
        last1 == w.it1 = Len(docs1)
        last2 == w.it2 = Len(docs2)
    IN  IF id2 < id1 THEN
            Walk(w.it1, w.it2 + 1, Append(w.dest, docs2[w.it2]), last2)
        ELSE IF id1 < id2 THEN
            Walk(w.it1 + 1, w.it2, Append(w.dest, docs1[w.it1]), last1)
        ELSE
            Walk(w.it1 + 1, w.it2 + 1, Append(w.dest, docs1[w.it1]), last1 \/ last2)

\* When one list is used up the rest of the other is copied.
OrStep(docs1, docs2, w) ==
    LET id1 == docs1[w.it1].id
        id2 == docs2[w.it2].id
        last1 == w.it1 = Len(docs1)
        last2 == w.it2 = Len(docs2)
    IN  IF id2 < id1 THEN
            Walk(w.it1, w.it2 + 1,
                 Append(w.dest, docs2[w.it2])
                     \o (IF last2 THEN Rest(docs1, w.it1) ELSE << >>), last2)
        ELSE IF id1 < id2 THEN
            Walk(w.it1 + 1, w.it2,
                 Append(w.dest, docs1[w.it1])
                     \o (IF last1 THEN Rest(docs2, w.it2) ELSE << >>), last1)
        ELSE
            Walk(w.it1 + 1, w.it2 + 1,
                 Append(w.dest, docs1[w.it1])
                     \o (IF last1 THEN Rest(docs2, w.it2 + 1)
                         ELSE IF last2 THEN Rest(docs1, w.it1 + 1) ELSE << >>),
                 last1 \/ last2)

-----------------------------------------------------------------------------
DupBegin(docs1, docs2, dest) ==
    IF docs1 = << >> THEN Walk(1, 1, dest, TRUE)
    ELSE IF docs2 = << >> THEN Walk(1, 1, docs1, TRUE)
    ELSE Walk(1, 1, dest, FALSE)

\* Mutant: the rest of the first list is lost when the second one is used up.
DupStepNoRest(docs1, docs2, w) ==
    LET id1 == docs1[w.it1].id
        id2 == docs2[w.it2].id
        last1 == w.it1 = Len(docs1)
        last2 == w.it2 = Len(docs2)
    IN  IF id2 < id1 THEN
            Walk(w.it1, w.it2 + 1, w.dest, last2)
        ELSE IF id1 < id2 THEN
            Walk(w.it1 + 1, w.it2, Append(w.dest, docs1[w.it1]), last1)
        ELSE
            Walk(w.it1 + 1, w.it2 + 1, w.dest, last1 \/ last2)

DupStep(docs1, docs2, w) ==
    LET id1 == docs1[w.it1].id
        id2 == docs2[w.it2].id
        last1 == w.it1 = Len(docs1)
        last2 == w.it2 = Len(docs2)
    IN  IF id2 < id1 THEN
            Walk(w.it1, w.it2 + 1,
                 w.dest \o (IF last2 THEN Rest(docs1, w.it1) ELSE << >>), last2)
        ELSE IF id1 < id2 THEN
            Walk(w.it1 + 1, w.it2, Append(w.dest, docs1[w.it1]), last1)
        ELSE
            Walk(w.it1 + 1, w.it2 + 1,
                 w.dest \o (IF ~ last1 /\ last2 THEN Rest(docs1, w.it1 + 1) ELSE << >>),
                 last1 \/ last2)
=============================================================================
