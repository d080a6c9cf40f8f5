--------------------------- MODULE MCResultCache ---------------------------
(* Four requests.  Two searches with different queries and two clusterings of  *)
(* the same query; and searches alone, two with one query and two with another.*)
EXTENDS ResultCache, TLC

CONSTANTS r1, r2, r3, r4, ka, kb, kc

MCRequests == {r1, r2, r3, r4}
MCWorkloads == {r1 :> kc @@ r2 :> kc @@ r3 :> ka @@ r4 :> kb,
                r1 :> ka @@ r2 :> ka @@ r3 :> kb @@ r4 :> kb}
MCTextKeys == {kc}
\* The first two requests always have the same key.
MCSymmetry == Permutations({r1, r2})
=============================================================================
