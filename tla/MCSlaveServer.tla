--------------------------- MODULE MCSlaveServer ---------------------------
(* Three connections, two indexed terms of different sizes and one term that  *)
(* is not in the index; the postings share no number, so reading the wrong    *)
(* one shows.                                                                 *)
EXTENDS SlaveServer

CONSTANTS c1, c2, c3, ta, tb, tz

MCClients == {c1, c2, c3}
MCTerms == {ta, tb, tz}
MCQueries == {<<ta, tb>>, <<tz, ta>>}
MCAddr == [t \in {ta, tb} |-> IF t = ta THEN 0 ELSE 3]
\* A posting of two numbers, and one of none (its size word alone).
MCIndex == <<2, 11, 12, 0, 99>>
=============================================================================
