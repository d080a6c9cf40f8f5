---------------------------- MODULE MCListMerge ----------------------------
(* All pairs of sorted lists over four ids, and the list of all documents.    *)
EXTENDS ListMerge, FiniteSets, SequencesExt

CONSTANTS MaxId, leafA

MCLists ==
    {<<[id |-> Inf, leaf |-> leafA]>>}
        \cup {[i \in 1 .. Cardinality(S) |->
                 [id |-> SetToSortSeq(S, <)[i], leaf |-> leafA]] : S \in SUBSET (0 .. MaxId)}
=============================================================================
