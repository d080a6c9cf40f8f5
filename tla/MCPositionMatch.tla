-------------------------- MODULE MCPositionMatch --------------------------
(* Two words over all lists of positions up to MaxPos and a list that has a    *)
(* position twice, three words with at most MaxOccurs occurrences each, and a   *)
(* single word.                                                                *)
EXTENDS PositionMatch, SequencesExt

CONSTANTS MaxPos, MaxOccurs

AsList(S) == Append(SetToSortSeq(S, <), End)

AllLists == {AsList(S) : S \in SUBSET (0 .. MaxPos)} \cup {<<1, 1, End>>}
FewLists == {AsList(S) : S \in {S \in SUBSET (0 .. MaxPos) : Cardinality(S) <= MaxOccurs}}

MCQueries ==
    {<<a>> : a \in AllLists} \cup {<<a, b>> : a \in AllLists, b \in AllLists}
        \cup {<<a, b, c>> : a \in FewLists, b \in FewLists, c \in FewLists}
=============================================================================
