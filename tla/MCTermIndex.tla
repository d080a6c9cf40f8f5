---------------------------- MODULE MCTermIndex ----------------------------
(* Five terms in up to three databases, any of them missing; lists of up to    *)
(* five documents, with Hashmaps of both kinds.                                *)
EXTENDS TermIndex

Piece(k, ts, b) == [key |-> k, terms |-> ts, there |-> b]

MCStores ==
    {<<Piece(0, {1, 2, 3, 5}, b)>> : b \in BOOLEAN}
    \cup {<<Piece(0, {1}, b), Piece(2, {2, 3}, c), Piece(5, {5}, d)>> :
            b \in BOOLEAN, c \in BOOLEAN, d \in BOOLEAN}

MCPostings == [t \in Terms |-> CASE t = 1 -> <<0, 1, 2, 3, 4>>
                                 [] t = 2 -> <<1, 4>>
                                 [] t = 3 -> <<0, 2, 4>>
                                 [] t = 4 -> <<3>>
                                 [] t = 5 -> << >>]

MCLists == {<< >>, <<0, 4>>, <<1, 2, 3>>, <<0, 2, 3, 4>>, <<2>>}
=============================================================================
