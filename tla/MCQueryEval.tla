---------------------------- MODULE MCQueryEval ----------------------------
(* Queries of the forms _to_S_exp and _to_S_exp_for_ROOT of TermGroup.pm make,   *)
(* over two documents, with every choice of postings and of positions.          *)
EXTENDS QueryEval

MCNodes == 1 .. 8
Pad(seq, x) == [n \in MCNodes |-> IF n <= Len(seq) THEN seq[n] ELSE x]

Tree(types, kids) == [type |-> Pad(types, "NONE"), kids |-> Pad(kids, << >>)]

MCTrees == {
    \* A group with a synonym of two words, and a word.
    Tree(<<"ROOT", "PROX", "OR", "STRICT", "PROX", "STRICT", "STRICT", "STRICT">>,
         <<<<2>>, <<3, 8>>, <<4, 5>>, << >>, <<6, 7>>>>),
    \* Words, a dependency, an optional word with a synonym, and an anchor.
    Tree(<<"ROOT", "AND", "STRICT", "STRICT", "OPTIONAL", "OR_MAX", "OPTIONAL", "OPTIONAL">>,
         <<<<2, 5, 6>>, <<3, 4>>, << >>, << >>, << >>, <<7, 8>>>>),
    \* A group of synonyms whose word is read first.
    Tree(<<"ROOT", "ORDERED_PROX", "OR_MAX", "STRICT", "STRICT", "STRICT", "STRICT">>,
         <<<<2>>, <<3, 6, 7>>, <<4, 5>>>>),
    \* A phrase and another expression.
    Tree(<<"PROX", "ROOT", "ROOT", "PHRASE", "STRICT", "STRICT", "STRICT", "OPTIONAL">>,
         <<<<2, 3>>, <<7, 8>>, <<4>>, <<5, 6>>>>),
    \* A disjunction with groups inside it.
    Tree(<<"ROOT", "OR", "OR", "STRICT", "OR", "STRICT", "STRICT", "STRICT">>,
         <<<<2>>, <<8, 3>>, <<4, 5>>, << >>, <<6, 7>>>>),
    \* A word, and an optional group with words inside it.
    Tree(<<"ROOT", "STRICT", "OR", "OPTIONAL", "AND", "STRICT", "STRICT">>,
         <<<<2, 3>>, << >>, <<4, 5>>, << >>, <<6, 7>>>>),
    \* Optional words only.
    Tree(<<"ROOT", "OR_MAX", "OPTIONAL", "OPTIONAL", "OPTIONAL">>, <<<<2, 5>>, <<3, 4>>>>),
    Tree(<<"ROOT", "OPTIONAL", "OPTIONAL">>, <<<<2, 3>>>>) }
=============================================================================
