---------------------------- MODULE MCBroadcast ----------------------------
(* Three servers with up to three pages each: equal and near scores, pages of  *)
(* one URL or one title on several servers, titles with words of the protocol. *)
EXTENDS Broadcast

CONSTANTS s1, s2, s3

Page(d, sc, u, t, l) ==
    [did |-> d, score |-> sc, url |-> u, title |-> t, line |-> l, n |-> 7,
     stored |-> IF d % 2 = 0 THEN NoTitle ELSE "t1"]

P(d, sc, u, t) == Page(d, sc, u, t, "doc")

MCFinds == {
    (s1 :> <<P(1, 9, "u1", "t1"), P(2, 5, "u2", "t2"), P(3, 5, "u1", "t1")>>)
      @@ (s2 :> <<P(4, 9, "u4", "t1"), P(5, 8, "u1", "t2")>>) @@ (s3 :> <<P(6, 8, "u6", "t2")>>),
    (s1 :> <<P(1, 9, "u1", ""), P(3, 9, "u1", "")>>) @@ (s2 :> <<P(5, 8, "u5", "t1")>>)
      @@ (s3 :> <<P(2, 8, "u2", ""), P(4, 7, "u4", NoTitle)>>),
    (s1 :> <<Page(1, 9, "u1", "t1", "hitcount"), P(3, 8, "u3", "t2")>>)
      @@ (s2 :> <<P(2, 8, "u2", "t2"), Page(5, 7, "u5", "t1", "other"), P(4, 6, "u4", "t1")>>)
      @@ (s3 :> << >>),
    (s1 :> <<P(1, 9, "u1", "t1"), Page(3, 8, "u3", "t2", "LEAVE")>>)
      @@ (s2 :> <<P(2, 8, "u2", "t2")>>) @@ (s3 :> << >>)}

MCPages == UNION {Range(f[s]) : f \in MCFinds, s \in {s1, s2, s3}}

Option(k, b, c) == [size |-> k, filter_simpages |-> b, cluster |-> c]

MCOptions == {Option(2, FALSE, 1 .. 6), Option(9, TRUE, 1 .. 6), Option(2, TRUE, {1, 2, 4, 6})}
=============================================================================
