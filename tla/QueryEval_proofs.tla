-------------------------- MODULE QueryEval_proofs --------------------------
(***************************************************************************)
(* What is proved of the evaluation of a query, for any query tree, of any   *)
(* depth, over any index.  Reading a term only among the documents that were *)
(* already retrieved loses no document and adds none (IInv).  The search      *)
(* returns the documents the query stands for, and reads nothing undefined,   *)
(* when the query has a body (EvalInv, FoundInv).                             *)
(***************************************************************************)
EXTENDS QueryEval, SequenceTheorems, WellFoundedInduction, TLAPS

\* The hits of a node, and what it stands for, given those of its children.
HitsOf(q, found, n) == NodeDocs(q, [m \in Nodes |-> Parts(q, m)], {"PHRASE"}, found, n)
WantedOf(q, found, n) == NodeDocs(q, [m \in Nodes |-> Needed(q, m)], Conditions, found, n)

\* The query is one of those the constants allow; it does not change.
QueryOK ==
    /\ IsTree(query) /\ IsQuery(query)
    /\ \A n \in Nodes : query.type[n] \in TermTypes => query.post[n] \subseteq Docs
    /\ Hits(query) \in [Nodes -> SUBSET Docs]
    /\ \A n \in Nodes : Hits(query)[n] = HitsOf(query, Hits(query), n)

\* The active calls: a chain from the top node down, in which each node is at the child
\* that was called.
Chain ==
    /\ Len(stack) > 0 => stack[1] = Root
    /\ \A i \in 1 .. Len(stack) - 1 :
        /\ k[stack[i]] <= Len(query.kids[stack[i]])
        /\ stack[i + 1] = query.kids[stack[i]][k[stack[i]]]
    /\ \A i, j \in 1 .. Len(stack) : stack[i] = stack[j] => i = j

\* Those of merge_and_or have not returned.
StackInv ==
    /\ Chain
    /\ \A i \in 1 .. Len(stack) : stack[i] \notin merged /\ query.type[stack[i]] # "NONE"

Active(n) == \E i \in 1 .. Len(stack) : stack[i] = n

\* The children a node has taken were evaluated, the ones after the next were not; a
\* node that was not called yet has no child that was.
KidsInv == \A n \in Nodes :
    /\ \A i \in 1 .. k[n] - 1 : query.kids[n][i] \in merged
    /\ \A i \in k[n] + 1 .. Len(query.kids[n]) : query.kids[n][i] \notin merged
    /\ n \notin merged /\ ~ Active(n) =>
        k[n] = 1 /\ \A i \in 1 .. Len(query.kids[n]) : query.kids[n][i] \notin merged

\* A type changes only after the node was evaluated.
TypesInv == \A n \in Nodes :
    \/ type[n] = query.type[n]
    \/ n \in merged /\ type[n] = "OR_OPTIONAL" /\ query.type[n] \in OrTypes

\* The document is one of those a node was told to look at.
Fits(n, d) == arg[n] = NULL \/ d \in arg[n]

IsPart(n, i) == \/ i = 1
                \/ query.type[n] = "PHRASE"
                \/ query.type[n] # "ROOT" /\ query.type[query.kids[n][i]] # "OPTIONAL"

\* The document is a hit as far as the children that were taken tell.
InSoFar(n, d) ==
    IF query.type[n] \in OrTypes
    THEN \E i \in 1 .. k[n] - 1 : IsPart(n, i) /\ d \in Hits(query)[query.kids[n][i]]
    ELSE \A i \in 1 .. k[n] - 1 : IsPart(n, i) => d \in Hits(query)[query.kids[n][i]]

\* What a node has collected so far.
SoFarInv == \A n \in Nodes \ merged : k[n] > 1 =>
    /\ \A d \in s_documents[n] : InSoFar(n, d)
    /\ \A d \in Docs : Fits(n, d) /\ InSoFar(n, d) => d \in s_documents[n]

\* What it hands on leaves out no document that may still be in its result.
HandInv == \A n \in Nodes \ merged : k[n] > 1 /\ query.type[n] \notin OrTypes =>
    \A d \in Docs : Fits(n, d) /\ InSoFar(n, d) =>
        already_retrieved_docs[n] = NULL \/ d \in already_retrieved_docs[n]

\* So it is with what the child that was called got.
ArgInv == \A n \in Nodes \ merged : k[n] <= Len(query.kids[n]) =>
    LET c == query.kids[n][k[n]]
    IN  c \in merged \/ Active(c) =>
            \A d \in Docs : Fits(n, d) /\ (query.type[n] \in OrTypes \/ InSoFar(n, d)) => Fits(c, d)

\* merge_phrase narrows the documents, never the ids.
IdsInv == \A n \in merged : s_documents[n] \subseteq ids[n]

MergeInv == StackInv /\ KidsInv /\ TypesInv /\ SoFarInv /\ HandInv /\ ArgInv

\* While nodes are walked there is a document they are walked for.
DocInv == phase # "merge" /\ stack # << >> => doc \in Docs

IInv == TypeOK /\ QueryOK /\ PruningExact /\ IdsInv /\ DocInv /\ (phase = "merge" => MergeInv)

-----------------------------------------------------------------------------
\* A set of document ids has a smallest one.
LEMMA Smallest ==
    ASSUME NEW S, S \subseteq Docs, S # {}
    PROVE  Min(S) \in S
<1> DEFINE R == OpToRel(<, Nat)
<1>1. S \subseteq Nat
  BY QueriesAssumption
<1>2. IsWellFoundedOn(R, Nat)
  BY NatLessThanWellFounded
<1>3. R = {ss \in Nat \X Nat : ss[1] < ss[2]}
  BY DEF OpToRel
<1> HIDE DEF R
<1>4. PICK x \in S : \A y \in S : ~ (<<y, x>> \in R)
  BY <1>1, <1>2, WFMin
<1>5. ASSUME NEW y \in S PROVE x <= y
  <2>1. x \in Nat /\ y \in Nat
    BY <1>1
  <2>2. ~ (y < x)
    BY <1>3, <1>4, <2>1
  <2>3. QED
    BY <2>1, <2>2
<1>6. QED
  BY <1>5 DEF Min

\* The places of the nodes in the tree.
LEMMA KidFacts ==
    ASSUME QueryOK
    PROVE  /\ Root \in Nodes /\ query.type[Root] # "NONE"
           /\ \A n \in Nodes :
                /\ Len(query.kids[n]) \in Nat
                /\ \A i \in 1 .. Len(query.kids[n]) :
                    /\ query.kids[n][i] \in Nodes \ {Root}
                    /\ query.type[query.kids[n][i]] # "NONE"
                /\ query.type[n] \in TermTypes \cup {"NONE"} <=> Len(query.kids[n]) = 0
           /\ \A n, m \in Nodes : \A i \in 1 .. Len(query.kids[n]), l \in 1 .. Len(query.kids[m]) :
                query.kids[n][i] = query.kids[m][l] => n = m /\ i = l
<1> DEFINE ks == query.kids
           ty == query.type
<1>1. /\ ks \in [Nodes -> Seq(Nodes \ {Root})]
      /\ \A n \in Nodes : ty[n] \in TermTypes \cup {"NONE"} <=> ks[n] = << >>
      /\ \A n, m \in Nodes : \A i \in 1 .. Len(ks[n]) : \A l \in 1 .. Len(ks[m]) :
            /\ ks[n][i] = ks[m][l] => n = m /\ i = l
            /\ ty[ks[n][i]] # "NONE"
      /\ ty[Root] # "NONE"
  BY DEF QueryOK, IsTree
<1>2. Root \in Nodes
  BY QueriesAssumption
<1> HIDE DEF ks, ty
<1>3. ASSUME NEW n \in Nodes
      PROVE  /\ Len(ks[n]) \in Nat
             /\ \A i \in 1 .. Len(ks[n]) : ks[n][i] \in Nodes \ {Root} /\ ty[ks[n][i]] # "NONE"
             /\ ty[n] \in TermTypes \cup {"NONE"} <=> Len(ks[n]) = 0
  <2>1. ks[n] \in Seq(Nodes \ {Root})
    BY <1>1
  <2>2. Len(ks[n]) \in Nat /\ \A i \in 1 .. Len(ks[n]) : ks[n][i] \in Nodes \ {Root}
    BY <2>1
  <2>3. ks[n] = << >> <=> Len(ks[n]) = 0
    BY <2>1
  <2>4. \A i \in 1 .. Len(ks[n]) : ty[ks[n][i]] # "NONE"
    BY <1>1
  <2>5. QED
    BY <1>1, <2>2, <2>3, <2>4
<1>4. \A n, m \in Nodes : \A i \in 1 .. Len(ks[n]), l \in 1 .. Len(ks[m]) :
        ks[n][i] = ks[m][l] => n = m /\ i = l
  BY <1>1
<1>5. QED
  BY <1>1, <1>2, <1>3, <1>4 DEF ks, ty

\* The top of the stack, and its child.
LEMMA TopFacts ==
    ASSUME TypeOK, QueryOK, stack # << >>
    PROVE  /\ Len(stack) \in Nat \ {0}
           /\ Top \in Nodes
           /\ k[Top] \in Nat /\ k[Top] >= 1
           /\ AtChild => k[Top] \in 1 .. Len(query.kids[Top]) /\ Child \in Nodes
           /\ Pop(stack) \in Seq(Nodes)
           /\ Len(Pop(stack)) = Len(stack) - 1
           /\ \A i \in 1 .. Len(stack) - 1 : Pop(stack)[i] = stack[i]
<1>1. stack \in Seq(Nodes) /\ Len(stack) \in Nat \ {0}
  BY DEF TypeOK
<1>2. Top \in Nodes
  BY <1>1 DEF Top
<1>3. k[Top] \in Nat /\ k[Top] \in 1 .. Len(query.kids[Top]) + 1
  BY <1>2 DEF TypeOK
<1>4. Len(query.kids[Top]) \in Nat
  BY <1>2, KidFacts
<1>5. AtChild => k[Top] \in 1 .. Len(query.kids[Top]) /\ Child \in Nodes
  <2> HAVE AtChild
  <2>1. k[Top] \in 1 .. Len(query.kids[Top])
    BY <1>3, <1>4 DEF AtChild
  <2>2. QED
    BY <1>2, <2>1, KidFacts DEF Child
<1>6. /\ Pop(stack) \in Seq(Nodes)
      /\ Len(Pop(stack)) = Len(stack) - 1
      /\ \A i \in 1 .. Len(stack) - 1 : Pop(stack)[i] = stack[i]
  <2> DEFINE m == Len(stack) - 1
             p == SubSeq(stack, 1, m)
  <2>1. \A i \in 1 .. m : stack[i] \in Nodes
    BY <1>1
  <2>2. m \in Nat
    BY <1>1
  <2>3. Pop(stack) = p
    BY DEF Pop
  <2> HIDE DEF m
  <2>4. /\ p \in Seq(Nodes)
        /\ Len(p) = IF 1 <= m THEN m - 1 + 1 ELSE 0
        /\ \A i \in 1 .. m - 1 + 1 : p[i] = stack[1 + i - 1]
    BY <2>1, <2>2, SubSeqProperties
  <2> HIDE DEF p
  <2>5. Len(p) = m /\ \A i \in 1 .. m : p[i] = stack[i]
    <3>1. Len(p) = m
      BY <2>2, <2>4
    <3>2. ASSUME NEW i \in 1 .. m PROVE p[i] = stack[i]
      <4>1. i \in 1 .. m - 1 + 1 /\ 1 + i - 1 = i
        BY <2>2
      <4>2. QED
        BY <2>4, <4>1
    <3>3. QED
      BY <3>1, <3>2
  <2>6. QED
    BY <2>3, <2>4, <2>5 DEF m
<1>7. QED
  BY <1>1, <1>2, <1>3, <1>4, <1>5, <1>6

-----------------------------------------------------------------------------
(* The documents of the nodes are well defined: no node is below itself. *)

\* The documents of a node depend on those of the children that count only.
LEMMA NodeDocsLocal ==
    ASSUME NEW q, NEW part, NEW conds, NEW f, NEW g, NEW n, \A c \in part[n] : f[c] = g[c]
    PROVE  NodeDocs(q, part, conds, f, n) = NodeDocs(q, part, conds, g, n)
<1>1. \A d : (\E c \in part[n] : d \in f[c]) <=> (\E c \in part[n] : d \in g[c])
  OBVIOUS
<1>2. \A d : (\A c \in part[n] : d \in f[c]) <=> (\A c \in part[n] : d \in g[c])
  OBVIOUS
<1>3. /\ {d \in Docs : \E c \in part[n] : d \in f[c]} = {d \in Docs : \E c \in part[n] : d \in g[c]}
      /\ {d \in Docs : (q.type[n] \in conds => d \in q.near[n]) /\ \A c \in part[n] : d \in f[c]}
           = {d \in Docs : (q.type[n] \in conds => d \in q.near[n]) /\ \A c \in part[n] : d \in g[c]}
  BY <1>1, <1>2
<1> QED BY <1>3 DEF NodeDocs

\* What a node's documents are, by its type.
LEMMA NodeDocsFacts ==
    ASSUME NEW q, NEW part, NEW conds, NEW f, NEW n, NEW d
    PROVE  /\ q.type[n] \in TermTypes =>
                (d \in NodeDocs(q, part, conds, f, n) <=> d \in q.post[n])
           /\ q.type[n] \in OrTypes =>
                (d \in NodeDocs(q, part, conds, f, n) <=>
                    d \in Docs /\ \E c \in part[n] : d \in f[c])
           /\ q.type[n] \in AndTypes \cup {"PHRASE"} =>
                (d \in NodeDocs(q, part, conds, f, n) <=>
                    /\ d \in Docs /\ (q.type[n] \in conds => d \in q.near[n])
                    /\ \A c \in part[n] : d \in f[c])
<1>1. CASE q.type[n] \in TermTypes
  <2>1. NodeDocs(q, part, conds, f, n) = q.post[n]
    BY <1>1 DEF NodeDocs, TermTypes, OrTypes, AndTypes
  <2>2. q.type[n] \notin OrTypes /\ q.type[n] \notin AndTypes \cup {"PHRASE"}
    BY <1>1 DEF TermTypes, OrTypes, AndTypes
  <2> QED BY <2>1, <2>2
<1>2. CASE q.type[n] \in OrTypes
  <2>1. NodeDocs(q, part, conds, f, n) = {e \in Docs : \E c \in part[n] : e \in f[c]}
    BY <1>2 DEF NodeDocs, TermTypes, OrTypes, AndTypes
  <2>2. q.type[n] \notin TermTypes /\ q.type[n] \notin AndTypes \cup {"PHRASE"}
    BY <1>2 DEF TermTypes, OrTypes, AndTypes
  <2> QED BY <2>1, <2>2
<1>3. CASE q.type[n] \in AndTypes \cup {"PHRASE"}
  <2>1. NodeDocs(q, part, conds, f, n) =
          {e \in Docs : (q.type[n] \in conds => e \in q.near[n]) /\ \A c \in part[n] : e \in f[c]}
    BY <1>3 DEF NodeDocs, TermTypes, OrTypes, AndTypes
  <2>2. q.type[n] \notin TermTypes /\ q.type[n] \notin OrTypes
    BY <1>3 DEF TermTypes, OrTypes, AndTypes
  <2> QED BY <2>1, <2>2
<1> QED BY <1>1, <1>2, <1>3

\* f gives the documents of the nodes of D, which has with a node the children that count.
Solves(q, part, conds, D, f) ==
    /\ D \subseteq Nodes
    /\ \A n \in D : part[n] \subseteq D /\ f[n] = NodeDocs(q, part, conds, f, n)

\* A place in a tree, and what is below it.
Grounded(q, part) ==
    /\ \A S \in SUBSET Nodes : S # {} => \E n \in S : Kids(q, n) \cap S = {}
    /\ \A n \in Nodes : part[n] \subseteq Nodes /\ part[n] \subseteq Kids(q, n)

LEMMA SolutionsAgree ==
    ASSUME NEW q, NEW part, NEW conds, Grounded(q, part), NEW D, NEW E, NEW f, NEW g,
           Solves(q, part, conds, D, f), Solves(q, part, conds, E, g),
           NEW n, n \in D, n \in E
    PROVE  f[n] = g[n]
<1> DEFINE T == {x \in Nodes : x \in D /\ x \in E /\ f[x] # g[x]}
<1> SUFFICES ASSUME f[n] # g[n] PROVE FALSE
  OBVIOUS
<1>1. n \in T
  BY DEF Solves
<1>2. T \in SUBSET Nodes /\ T # {}
  BY <1>1
<1>3. PICK x \in T : Kids(q, x) \cap T = {}
  <2> HIDE DEF T
  <2> QED BY <1>2 DEF Grounded
<1>4. x \in D /\ x \in E /\ x \in Nodes /\ f[x] # g[x]
  BY <1>3
<1>5. \A c \in part[x] : c \in D /\ c \in E /\ c \in Nodes /\ c \in Kids(q, x)
  BY <1>4 DEF Solves, Grounded
<1>6. \A c \in part[x] : f[c] = g[c]
  BY <1>3, <1>5
<1>7. NodeDocs(q, part, conds, f, x) = NodeDocs(q, part, conds, g, x)
  BY <1>6, NodeDocsLocal
<1> QED BY <1>4, <1>7 DEF Solves

LEMMA SolutionExists ==
    ASSUME NEW q, NEW part, NEW conds, Grounded(q, part)
    PROVE  \E f : DOMAIN f = Nodes /\ f = [n \in Nodes |-> f[n]] /\ Solves(q, part, conds, Nodes, f)
<1> DEFINE Has(x, v) == \E D, f : Solves(q, part, conds, D, f) /\ x \in D /\ v = f[x]
           U == {x \in Nodes : \E v : Has(x, v)}
           F == [x \in Nodes |-> CHOOSE v : Has(x, v)]
<1>1. ASSUME NEW D, NEW f, Solves(q, part, conds, D, f), NEW x \in D
      PROVE  x \in U /\ F[x] = f[x]
  <2>1. x \in Nodes
    BY <1>1 DEF Solves
  <2>2. Has(x, f[x])
    BY <1>1
  <2>3. \A v : Has(x, v) => v = f[x]
    BY <1>1, SolutionsAgree
  <2> HIDE DEF Has
  <2> QED BY <2>1, <2>2, <2>3
<1>2. ASSUME NEW x \in U
      PROVE  part[x] \subseteq U /\ F[x] = NodeDocs(q, part, conds, F, x)
  <2>1. PICK D, f : Solves(q, part, conds, D, f) /\ x \in D
    OBVIOUS
  <2> HIDE DEF U, F
  <2>2. part[x] \subseteq D /\ f[x] = NodeDocs(q, part, conds, f, x)
    BY <2>1 DEF Solves
  <2>3. \A c \in part[x] : c \in U /\ F[c] = f[c]
    BY <1>1, <2>1, <2>2
  <2>4. NodeDocs(q, part, conds, f, x) = NodeDocs(q, part, conds, F, x)
    BY <2>3, NodeDocsLocal
  <2> QED BY <1>1, <2>1, <2>2, <2>3, <2>4
<1>3. U = Nodes
  <2> DEFINE T == Nodes \ U
  <2> SUFFICES ASSUME T # {} PROVE FALSE
    OBVIOUS
  <2>1. T \in SUBSET Nodes
    OBVIOUS
  <2>2. PICK n \in T : Kids(q, n) \cap T = {}
    <3> HIDE DEF T
    <3> QED BY <2>1 DEF Grounded
  <2>3. n \in Nodes /\ n \notin U
    BY <2>2
  <2>4. part[n] \subseteq U
    <3>1. part[n] \subseteq Nodes /\ part[n] \subseteq Kids(q, n)
      BY <2>3 DEF Grounded
    <3> HIDE DEF U
    <3> QED BY <2>2, <3>1
  <2>5. U \subseteq Nodes
    OBVIOUS
  <2> DEFINE D == U \cup {n}
             f == [x \in D |-> IF x = n THEN NodeDocs(q, part, conds, F, n) ELSE F[x]]
  <2> HIDE DEF U, F, T
  <2>6. /\ D \subseteq Nodes /\ n \in D /\ U \subseteq D
        /\ f[n] = NodeDocs(q, part, conds, F, n) /\ \A x \in U : f[x] = F[x]
    BY <2>3, <2>5
  <2>7. \A x \in D : x = n \/ x \in U
    OBVIOUS
  <2> HIDE DEF D, f
  <2>8. ASSUME NEW x \in D PROVE part[x] \subseteq D /\ f[x] = NodeDocs(q, part, conds, f, x)
    <3>1. part[x] \subseteq U /\ f[x] = NodeDocs(q, part, conds, F, x)
      BY <1>2, <2>4, <2>6, <2>7
    <3>2. \A c \in part[x] : f[c] = F[c]
      BY <2>6, <3>1
    <3>3. NodeDocs(q, part, conds, f, x) = NodeDocs(q, part, conds, F, x)
      BY <3>2, NodeDocsLocal
    <3> QED BY <2>6, <3>1, <3>3
  <2>9. Solves(q, part, conds, D, f)
    BY <2>6, <2>8 DEF Solves
  <2> QED BY <1>1, <2>3, <2>6, <2>9
<1>4. DOMAIN F = Nodes /\ F = [n \in Nodes |-> F[n]]
  OBVIOUS
<1> HIDE DEF F, U
<1>5. Solves(q, part, conds, Nodes, F)
  BY <1>2, <1>3 DEF Solves
<1> QED BY <1>4, <1>5

LEMMA Evaluates ==
    ASSUME NEW q, NEW part, NEW conds, Grounded(q, part),
           \A n \in Nodes : q.type[n] \in TermTypes => q.post[n] \subseteq Docs
    PROVE  /\ Evaluate(q, part, conds) \in [Nodes -> SUBSET Docs]
           /\ \A n \in Nodes : Evaluate(q, part, conds)[n] =
                NodeDocs(q, part, conds, Evaluate(q, part, conds), n)
<1> DEFINE Rec(f) == [n \in Nodes |-> NodeDocs(q, part, conds, [c \in part[n] |-> f[c]], n)]
           G == CHOOSE f : f = Rec(f)
<1>1. Evaluate(q, part, conds) = G
  BY DEF Evaluate
<1>2. ASSUME NEW f, NEW n
      PROVE  NodeDocs(q, part, conds, [c \in part[n] |-> f[c]], n) = NodeDocs(q, part, conds, f, n)
  <2> DEFINE g == [c \in part[n] |-> f[c]]
  <2>1. \A c \in part[n] : g[c] = f[c]
    OBVIOUS
  <2> HIDE DEF g
  <2>2. NodeDocs(q, part, conds, g, n) = NodeDocs(q, part, conds, f, n)
    BY <2>1, NodeDocsLocal
  <2> QED BY <2>2 DEF g
<1>3. PICK f : DOMAIN f = Nodes /\ f = [n \in Nodes |-> f[n]] /\ Solves(q, part, conds, Nodes, f)
  BY SolutionExists
<1>4. \A n \in Nodes : f[n] = NodeDocs(q, part, conds, [c \in part[n] |-> f[c]], n)
  BY <1>2, <1>3 DEF Solves
<1>5. f = Rec(f)
  BY <1>3, <1>4
<1> HIDE DEF Rec
<1>6. G = Rec(G)
  BY <1>5
<1> HIDE DEF G
<1>7. \A n \in Nodes : Rec(G)[n] = NodeDocs(q, part, conds, G, n)
  BY <1>2 DEF Rec
<1>8. \A n \in Nodes : NodeDocs(q, part, conds, G, n) \subseteq Docs
  BY DEF NodeDocs
<1>9. DOMAIN Rec(G) = Nodes /\ Rec(G) = [n \in Nodes |-> Rec(G)[n]]
  BY DEF Rec
<1>10. G \in [Nodes -> SUBSET Docs]
  BY <1>6, <1>7, <1>8, <1>9
<1> QED BY <1>1, <1>6, <1>7, <1>10

\* So it is with the hits and with what a query stands for.
LEMMA HitsFacts ==
    ASSUME NEW q, IsTree(q), \A n \in Nodes : q.type[n] \in TermTypes => q.post[n] \subseteq Docs
    PROVE  /\ Hits(q) \in [Nodes -> SUBSET Docs]
           /\ \A n \in Nodes : Hits(q)[n] = HitsOf(q, Hits(q), n)
<1> DEFINE part == [n \in Nodes |-> Parts(q, n)]
<1>1. \A n \in Nodes : Parts(q, n) \subseteq Kids(q, n) /\ Kids(q, n) \subseteq Nodes
  <2>1. q.kids \in [Nodes -> Seq(Nodes \ {Root})]
    BY DEF IsTree
  <2>2. \A n \in Nodes : \A i \in 1 .. Len(q.kids[n]) : q.kids[n][i] \in Nodes
    BY <2>1
  <2> QED BY <2>2 DEF Parts, Kids
<1>2. \A n \in Nodes : part[n] = Parts(q, n)
  OBVIOUS
<1> HIDE DEF part
<1>3. Grounded(q, part)
  <2>1. \A n \in Nodes : part[n] \subseteq Nodes /\ part[n] \subseteq Kids(q, n)
    BY <1>1, <1>2
  <2>2. \A S \in SUBSET Nodes : S # {} => \E n \in S : Kids(q, n) \cap S = {}
    BY DEF IsTree
  <2> QED BY <2>1, <2>2 DEF Grounded
<1>4. Hits(q) = Evaluate(q, part, {"PHRASE"})
  BY DEF Hits, part
<1>5. \A f, n : HitsOf(q, f, n) = NodeDocs(q, part, {"PHRASE"}, f, n)
  BY DEF HitsOf, part
<1> QED BY <1>3, <1>4, <1>5, Evaluates

LEMMA WantedFacts ==
    ASSUME NEW q, IsTree(q), \A n \in Nodes : q.type[n] \in TermTypes => q.post[n] \subseteq Docs
    PROVE  /\ Wanted(q) \in [Nodes -> SUBSET Docs]
           /\ \A n \in Nodes : Wanted(q)[n] = WantedOf(q, Wanted(q), n)
<1> DEFINE part == [n \in Nodes |-> Needed(q, n)]
<1>1. \A n \in Nodes : q.type[n] = "ROOT" => 1 \in 1 .. Len(q.kids[n])
  <2>1. \A n \in Nodes : q.type[n] = "ROOT" => q.kids[n] # << >> /\ q.kids[n] \in Seq(Nodes \ {Root})
    BY DEF IsTree, TermTypes
  <2> QED BY <2>1
<1>2. \A n \in Nodes : Needed(q, n) \subseteq Kids(q, n) /\ Kids(q, n) \subseteq Nodes
  <2>1. q.kids \in [Nodes -> Seq(Nodes \ {Root})]
    BY DEF IsTree
  <2>2. \A n \in Nodes : \A i \in 1 .. Len(q.kids[n]) : q.kids[n][i] \in Nodes
    BY <2>1
  <2> QED BY <1>1, <2>2 DEF Needed, Kids
<1>3. \A n \in Nodes : part[n] = Needed(q, n)
  OBVIOUS
<1> HIDE DEF part
<1>4. Grounded(q, part)
  <2>1. \A n \in Nodes : part[n] \subseteq Nodes /\ part[n] \subseteq Kids(q, n)
    BY <1>2, <1>3
  <2>2. \A S \in SUBSET Nodes : S # {} => \E n \in S : Kids(q, n) \cap S = {}
    BY DEF IsTree
  <2> QED BY <2>1, <2>2 DEF Grounded
<1>5. Wanted(q) = Evaluate(q, part, Conditions)
  BY DEF Wanted, part
<1>6. \A f, n : WantedOf(q, f, n) = NodeDocs(q, part, Conditions, f, n)
  BY DEF WantedOf, part
<1> QED BY <1>4, <1>5, <1>6, Evaluates

\* The query of a search.
LEMMA InitQuery == Init => QueryOK
<1> SUFFICES ASSUME Init PROVE QueryOK
  OBVIOUS
<1>0. PICK t \in Trees : \E post \in [Terms(t) -> SUBSET Docs] :
            \E near \in [Conditioned(t) -> SUBSET Docs] : query = Query(t, post, near)
  BY DEF Init
<1>1. PICK post \in [Terms(t) -> SUBSET Docs], near \in [Conditioned(t) -> SUBSET Docs] :
            query = Query(t, post, near)
  BY <1>0
<1>2. query.type = t.type /\ query.kids = t.kids /\ query.post = post
  BY <1>1 DEF Query
<1>3. IsTree(t) /\ IsQuery(t)
  BY QueriesAssumption
<1>a. \A n : Kids(query, n) = Kids(t, n)
  BY <1>2 DEF Kids
<1>4. IsTree(query)
  <2>1. \A S \in SUBSET Nodes : S # {} => \E n \in S : Kids(t, n) \cap S = {}
    BY <1>3 DEF IsTree
  <2>2. \A S \in SUBSET Nodes : S # {} => \E n \in S : Kids(query, n) \cap S = {}
    BY <1>a, <2>1
  <2>3. /\ t.type \in [Nodes -> TermTypes \cup AndTypes \cup OrTypes \cup {"PHRASE", "NONE"}]
        /\ t.kids \in [Nodes -> Seq(Nodes \ {Root})]
        /\ \A n \in Nodes : t.type[n] \in TermTypes \cup {"NONE"} <=> t.kids[n] = << >>
        /\ \A n, m \in Nodes : \A i \in 1 .. Len(t.kids[n]) : \A l \in 1 .. Len(t.kids[m]) :
            /\ t.kids[n][i] = t.kids[m][l] => n = m /\ i = l
            /\ t.type[t.kids[n][i]] # "NONE"
        /\ t.type[Root] # "NONE"
    BY <1>3, Zenon DEF IsTree
  <2>4. /\ query.type \in [Nodes -> TermTypes \cup AndTypes \cup OrTypes \cup {"PHRASE", "NONE"}]
        /\ query.kids \in [Nodes -> Seq(Nodes \ {Root})]
        /\ query.type[Root] # "NONE"
    BY <1>2, <2>3
  <2>5. \A n \in Nodes : query.type[n] \in TermTypes \cup {"NONE"} <=> query.kids[n] = << >>
    BY <1>2, <2>3
  <2>6. \A n, m \in Nodes :
        \A i \in 1 .. Len(query.kids[n]) : \A l \in 1 .. Len(query.kids[m]) :
            /\ query.kids[n][i] = query.kids[m][l] => n = m /\ i = l
            /\ query.type[query.kids[n][i]] # "NONE"
    BY <1>2, <2>3
  <2> QED BY <2>2, <2>4, <2>5, <2>6, Zenon DEF IsTree
<1>b. IsQuery(query)
  BY <1>2, <1>3 DEF IsQuery
<1>6. \A n \in Nodes : query.type[n] \in TermTypes => query.post[n] \subseteq Docs
  BY <1>2 DEF Terms
<1>5. /\ Hits(query) \in [Nodes -> SUBSET Docs]
      /\ \A n \in Nodes : Hits(query)[n] = HitsOf(query, Hits(query), n)
  BY <1>4, <1>6, HitsFacts
<1>7. QED
  BY <1>4, <1>5, <1>6, <1>b DEF QueryOK

\* The invariant holds when search() starts.
LEMMA InitInv == Init => IInv
<1> SUFFICES ASSUME Init PROVE IInv
  OBVIOUS
<1>1. QueryOK
  BY InitQuery
<1>2. \A n \in Nodes : Len(query.kids[n]) \in Nat
  BY <1>1, KidFacts
<1>3. Root \in Nodes /\ query.type[Root] # "NONE"
  BY <1>1, KidFacts
<1>4. stack = <<Root>> /\ stack \in Seq(Nodes) /\ Len(stack) = 1 /\ stack[1] = Root
  BY <1>3 DEF Init
<1>5. TypeOK
  <2>1. type \in [Nodes -> TermTypes \cup AndTypes \cup OrTypes \cup {"PHRASE", "NONE", "OR_OPTIONAL"}]
    BY <1>1 DEF Init, QueryOK, IsTree
  <2>2. k \in [Nodes -> Nat] /\ \A n \in Nodes : k[n] \in 1 .. Len(query.kids[n]) + 1
    BY <1>2 DEF Init
  <2>3. QED
    BY <1>4, <2>1, <2>2 DEF Init, TypeOK
<1>6. MergeInv
  <2>1. StackInv
    BY <1>3, <1>4 DEF StackInv, Chain, Init
  <2>2. KidsInv
    BY DEF KidsInv, Init
  <2>3. TypesInv
    BY DEF TypesInv, Init
  <2>4. SoFarInv /\ HandInv
    BY DEF SoFarInv, HandInv, Init
  <2>5. ArgInv
    BY <1>3, KidFacts, <1>1 DEF ArgInv, Fits, Init
  <2>6. QED
    BY <2>1, <2>2, <2>3, <2>4, <2>5 DEF MergeInv
<1>7. QED
  BY <1>1, <1>5, <1>6 DEF IInv, PruningExact, IdsInv, DocInv, Init

\* The hits of the nodes of the query.
LEMMA HitsAt ==
    ASSUME QueryOK, NEW n \in Nodes, NEW d \in Docs
    PROVE  /\ query.type[n] \in TermTypes => (d \in Hits(query)[n] <=> d \in query.post[n])
           /\ query.type[n] \in OrTypes =>
                (d \in Hits(query)[n] <=> \E c \in Parts(query, n) : d \in Hits(query)[c])
           /\ query.type[n] \in AndTypes \cup {"PHRASE"} =>
                (d \in Hits(query)[n] <=>
                    /\ query.type[n] = "PHRASE" => d \in query.near[n]
                    /\ \A c \in Parts(query, n) : d \in Hits(query)[c])
<1> DEFINE part == [m \in Nodes |-> Parts(query, m)]
           H == Hits(query)
<1>1. part[n] = Parts(query, n)
  OBVIOUS
<1>2. H[n] = NodeDocs(query, part, {"PHRASE"}, H, n)
  BY DEF QueryOK, HitsOf
<1> HIDE DEF part, H
<1>3. query.type[n] \in {"PHRASE"} <=> query.type[n] = "PHRASE"
  OBVIOUS
<1>4. /\ query.type[n] \in TermTypes => (d \in H[n] <=> d \in query.post[n])
      /\ query.type[n] \in OrTypes => (d \in H[n] <=> \E c \in Parts(query, n) : d \in H[c])
      /\ query.type[n] \in AndTypes \cup {"PHRASE"} =>
            (d \in H[n] <=> /\ query.type[n] = "PHRASE" => d \in query.near[n]
                           /\ \A c \in Parts(query, n) : d \in H[c])
  BY <1>1, <1>2, <1>3, NodeDocsFacts
<1> QED BY <1>4 DEF H

LEMMA WantedAt ==
    ASSUME QueryOK, NEW n \in Nodes, NEW d \in Docs
    PROVE  /\ query.type[n] \in TermTypes => (d \in Wanted(query)[n] <=> d \in query.post[n])
           /\ query.type[n] \in OrTypes =>
                (d \in Wanted(query)[n] <=> \E c \in Needed(query, n) : d \in Wanted(query)[c])
           /\ query.type[n] \in AndTypes \cup {"PHRASE"} =>
                (d \in Wanted(query)[n] <=>
                    /\ query.type[n] \in Conditions => d \in query.near[n]
                    /\ \A c \in Needed(query, n) : d \in Wanted(query)[c])
<1> DEFINE part == [m \in Nodes |-> Needed(query, m)]
           W == Wanted(query)
<1>1. part[n] = Needed(query, n)
  OBVIOUS
<1>2. W[n] = NodeDocs(query, part, Conditions, W, n)
  BY WantedFacts DEF QueryOK, WantedOf
<1> HIDE DEF part, W
<1>4. /\ query.type[n] \in TermTypes => (d \in W[n] <=> d \in query.post[n])
      /\ query.type[n] \in OrTypes => (d \in W[n] <=> \E c \in Needed(query, n) : d \in W[c])
      /\ query.type[n] \in AndTypes \cup {"PHRASE"} =>
            (d \in W[n] <=> /\ query.type[n] \in Conditions => d \in query.near[n]
                           /\ \A c \in Needed(query, n) : d \in W[c])
  BY <1>1, <1>2, NodeDocsFacts
<1> QED BY <1>4 DEF W

-----------------------------------------------------------------------------
\* The query stays what it was.
LEMMA QueryStep == ASSUME QueryOK, [Next]_vars PROVE query' = query /\ QueryOK'
<1>1. query' = query
  BY DEF Next, vars, tree, merge_and_or, lookup_index, merge_and, merge_phrase, merge_or,
         MakeIndex, Collected, search, Finished, walk_and_or, WalkTerm, Reject, walk_and, walk_or,
         GoWild, Return
<1>2. QED
  BY <1>1 DEF QueryOK

\* The index a term is read from.
LEMMA ReadFacts ==
    ASSUME TypeOK, QueryOK, NEW n \in Nodes, query.type[n] \in TermTypes
    PROVE  /\ read_dids_with_feature(n) \subseteq query.post[n]
           /\ read_dids_with_feature(n) \subseteq Docs
           /\ \A d \in query.post[n] : Fits(n, d) => d \in read_dids_with_feature(n)
  BY DEF read_dids_with_feature, QueryOK, Fits

\* Every step keeps the types.
LEMMA TypeStep == ASSUME IInv, [Next]_vars PROVE TypeOK'
<1>0. TypeOK /\ QueryOK /\ query' = query
  BY QueryStep DEF IInv
<1>1. \A n \in Nodes : Len(query.kids[n]) \in Nat
  BY <1>0, KidFacts
<1>2. stack # << >> => Top \in Nodes /\ (AtChild => Child \in Nodes) /\ Pop(stack) \in Seq(Nodes)
  BY <1>0, TopFacts
<1>3. ASSUME stack # << >>, AtChild, k' = [k EXCEPT ![Top] = @ + 1]
      PROVE  k' \in [Nodes -> Nat] /\ \A n \in Nodes : k'[n] \in 1 .. Len(query'.kids[n]) + 1
  <2>1. Top \in Nodes /\ k[Top] \in 1 .. Len(query.kids[Top])
    BY <1>0, <1>3, TopFacts
  <2>2. k \in [Nodes -> Nat] /\ \A n \in Nodes : k[n] \in 1 .. Len(query.kids[n]) + 1
    BY <1>0 DEF TypeOK
  <2>3. QED
    BY <1>0, <1>1, <1>3, <2>1, <2>2
<1>4. ASSUME k' = [n \in Nodes |-> 1]
      PROVE  k' \in [Nodes -> Nat] /\ \A n \in Nodes : k'[n] \in 1 .. Len(query'.kids[n]) + 1
  BY <1>0, <1>1, <1>4
<1>5. CASE merge_and_or
  <2>1. stack' \in Seq(Nodes)
    BY <1>0, <1>2, <1>5 DEF merge_and_or, TypeOK
  <2>2. arg' \in [Nodes -> (SUBSET Docs) \cup {NULL}]
    BY <1>0, <1>2, <1>5 DEF merge_and_or, TypeOK
  <2>3. QED
    BY <1>0, <1>5, <2>1, <2>2 DEF merge_and_or, TypeOK
<1>6. CASE lookup_index
  <2>1. phase = "merge" /\ stack # << >> /\ type[Top] \in TermTypes
    BY <1>6 DEF lookup_index
  <2>2. query.type[Top] \in TermTypes
    BY <1>2, <2>1 DEF IInv, MergeInv, TypesInv, TermTypes
  <2>3. read_dids_with_feature(Top) \subseteq Docs
    BY <1>0, <1>2, <2>1, <2>2, ReadFacts
  <2> HIDE DEF read_dids_with_feature
  <2>4. QED
    BY <1>0, <1>2, <1>6, <2>1, <2>3 DEF lookup_index, TypeOK
<1>7. CASE merge_and
  <2>1. stack # << >> /\ AtChild /\ Top \in Nodes /\ Child \in Nodes
    BY <1>2, <1>7 DEF merge_and, Returned
  <2>2. k' \in [Nodes -> Nat] /\ \A n \in Nodes : k'[n] \in 1 .. Len(query'.kids[n]) + 1
    BY <1>3, <1>7, <2>1 DEF merge_and
  <2>3. /\ s_documents' \in [Nodes -> SUBSET Docs]
        /\ already_retrieved_docs' \in [Nodes -> (SUBSET Docs) \cup {NULL}]
    <3>1. /\ (IF arg[Top] = NULL THEN ids[Child] ELSE arg[Top]) \in (SUBSET Docs) \cup {NULL}
          /\ ids[Child] \in SUBSET Docs /\ ids[Child] \in (SUBSET Docs) \cup {NULL}
          /\ s_documents[Top] \cap s_documents[Child] \in SUBSET Docs
          /\ s_documents[Child] \in SUBSET Docs /\ s_documents[Top] \in SUBSET Docs
      BY <1>0, <2>1 DEF TypeOK
    <3>2. \E S \in SUBSET Docs : s_documents' = [s_documents EXCEPT ![Top] = S] \/ s_documents' = s_documents
      BY <1>7, <3>1, Zenon DEF merge_and
    <3>3. \E A \in (SUBSET Docs) \cup {NULL} :
            \/ already_retrieved_docs' = [already_retrieved_docs EXCEPT ![Top] = A]
            \/ already_retrieved_docs' = already_retrieved_docs
      BY <1>7, <3>1, Zenon DEF merge_and
    <3>4. /\ s_documents \in [Nodes -> SUBSET Docs]
          /\ already_retrieved_docs \in [Nodes -> (SUBSET Docs) \cup {NULL}]
      BY <1>0 DEF TypeOK
    <3>5. s_documents' \in [Nodes -> SUBSET Docs]
      BY <3>2, <3>4
    <3>6. already_retrieved_docs' \in [Nodes -> (SUBSET Docs) \cup {NULL}]
      BY <3>3, <3>4
    <3>7. QED
      BY <3>5, <3>6
  <2>4. type' \in [Nodes -> TermTypes \cup AndTypes \cup OrTypes \cup {"PHRASE", "NONE", "OR_OPTIONAL"}]
    BY <1>0, <1>7, <2>1 DEF merge_and, TypeOK
  <2>5. QED
    BY <1>0, <1>7, <2>2, <2>3, <2>4 DEF merge_and, TypeOK
<1>8. CASE merge_phrase
  <2>1. stack # << >> /\ AtChild /\ Top \in Nodes /\ Child \in Nodes
    BY <1>2, <1>8 DEF merge_phrase, Returned
  <2>2. k' \in [Nodes -> Nat] /\ \A n \in Nodes : k'[n] \in 1 .. Len(query'.kids[n]) + 1
    BY <1>3, <1>8, <2>1 DEF merge_phrase
  <2>3. /\ s_documents' \in [Nodes -> SUBSET Docs]
        /\ already_retrieved_docs' \in [Nodes -> (SUBSET Docs) \cup {NULL}]
    BY <1>0, <1>8, <2>1 DEF merge_phrase, TypeOK
  <2>4. QED
    BY <1>0, <1>8, <2>2, <2>3 DEF merge_phrase, TypeOK
<1>9. CASE merge_or
  <2>1. stack # << >> /\ AtChild /\ Top \in Nodes /\ Child \in Nodes
    BY <1>2, <1>9 DEF merge_or, Returned
  <2>2. k' \in [Nodes -> Nat] /\ \A n \in Nodes : k'[n] \in 1 .. Len(query'.kids[n]) + 1
    BY <1>3, <1>9, <2>1 DEF merge_or
  <2>3. s_documents' \in [Nodes -> SUBSET Docs]
    BY <1>0, <1>9, <2>1 DEF merge_or, TypeOK
  <2>4. QED
    BY <1>0, <1>9, <2>2, <2>3 DEF merge_or, TypeOK
<1>10. CASE MakeIndex
  BY <1>0, <1>2, <1>10 DEF MakeIndex, TypeOK
<1>11. CASE Collected \/ Finished \/ GoWild
  BY <1>0, <1>11, QueriesAssumption DEF Collected, Finished, GoWild, TypeOK, tree
<1>12. CASE search
  <2>1. Min(todo) \in todo
    BY <1>0, <1>12, Smallest DEF search, TypeOK
  <2>2. Root \in Nodes
    BY QueriesAssumption
  <2>3. k' \in [Nodes -> Nat] /\ \A n \in Nodes : k'[n] \in 1 .. Len(query'.kids[n]) + 1
    BY <1>0, <1>4, <1>12 DEF search, TypeOK
  <2>4. todo' \subseteq Docs /\ doc' \in Docs
    BY <1>0, <1>12, <2>1 DEF search, TypeOK
  <2>5. stack' \in Seq(Nodes) /\ val' \in [Nodes -> {"none", "true", "false"}]
    <3>1. stack \in Seq(Nodes) /\ <<Root>> \in Seq(Nodes)
      BY <1>0, <2>2 DEF TypeOK
    <3>2. val \in [Nodes -> {"none", "true", "false"}]
      BY <1>0 DEF TypeOK
    <3>3. \/ stack' = stack /\ val' = val
          \/ stack' = <<Root>> /\ val' = [n \in Nodes |-> "none"]
      BY <1>12 DEF search
    <3>4. QED
      BY <3>1, <3>2, <3>3
  <2>6. UNCHANGED <<tree, type, phase, s_documents_index, docs>>
    BY <1>12 DEF search
  <2>7. QED
    BY <1>0, <2>3, <2>4, <2>5, <2>6 DEF TypeOK, tree
<1>13. CASE walk_and_or
  <2>1. stack # << >> /\ AtChild /\ Top \in Nodes /\ Child \in Nodes
    BY <1>2, <1>13 DEF walk_and_or
  <2>2. k' \in [Nodes -> Nat] /\ \A n \in Nodes : k'[n] \in 1 .. Len(query'.kids[n]) + 1
    <3>1. CASE UNCHANGED k
      BY <1>0, <3>1 DEF TypeOK
    <3>2. QED
      BY <1>3, <1>13, <2>1, <3>1 DEF walk_and_or
  <2>3. stack' \in Seq(Nodes)
    <3>1. stack \in Seq(Nodes) /\ Append(stack, Child) \in Seq(Nodes)
      BY <1>0, <2>1 DEF TypeOK
    <3>2. stack' = stack \/ stack' = Append(stack, Child)
      BY <1>13 DEF walk_and_or
    <3>3. QED
      BY <3>1, <3>2
  <2>4. QED
    BY <1>0, <1>13, <2>2, <2>3 DEF walk_and_or, TypeOK, tree
<1>14. ASSUME NEW ret \in {"true", "false"}, Return(ret), stack # << >>,
             phase' \in {"merge", "walk", "end", "wild"},
             s_documents_index' = s_documents_index \/ remove_doc, doc \in Docs
       PROVE TypeOK'
  <2>1. val' \in [Nodes -> {"none", "true", "false"}] /\ stack' \in Seq(Nodes) /\ docs' \subseteq Docs
    BY <1>0, <1>2, <1>14 DEF Return, TypeOK
  <2>2. s_documents_index' \in [Nodes -> SUBSET Docs]
    <3>1. s_documents_index \in [Nodes -> SUBSET Docs] /\ s_documents_index[Top] \ {doc} \in SUBSET Docs
      BY <1>0, <1>2, <1>14 DEF TypeOK
    <3>2. \/ s_documents_index' = s_documents_index
          \/ s_documents_index' = [s_documents_index EXCEPT ![Top] = s_documents_index[Top] \ {doc}]
      BY <1>14 DEF remove_doc
    <3>3. QED
      BY <3>1, <3>2
  <2>3. UNCHANGED <<query, type, k, arg, already_retrieved_docs, s_documents, ids, merged, todo, doc>>
    BY <1>14 DEF Return, tree
  <2>4. phase' \in {"merge", "walk", "end", "wild"}
    BY <1>14
  <2>5. QED
    BY <1>0, <2>1, <2>2, <2>3, <2>4 DEF TypeOK
<1>15. CASE UNCHANGED vars
  BY <1>0, <1>15 DEF vars, tree, TypeOK
<1>16. CASE WalkTerm
  <2>1. doc \in Docs /\ stack # << >>
    BY <1>16 DEF WalkTerm, IInv, DocInv
  <2>2. Bool(type[Top] = "STRICT" => doc \in s_documents_index[Top]) \in {"true", "false"}
    BY DEF Bool
  <2>3. QED
    BY <1>0, <1>14, <1>16, <2>1, <2>2 DEF WalkTerm, TypeOK
<1>17. CASE Reject
  <2>1. doc \in Docs /\ stack # << >>
    BY <1>17 DEF Reject, Walked, IInv, DocInv
  <2>2. QED
    BY <1>0, <1>14, <1>17, <2>1 DEF Reject, TypeOK
<1>18. CASE walk_and
  <2>1. doc \in Docs /\ stack # << >>
    BY <1>18 DEF walk_and, Walked, IInv, DocInv
  <2>2. PICK ret \in {"true", "false"} : Return(ret)
    BY <1>18 DEF walk_and, Bool
  <2>3. s_documents_index' = s_documents_index \/ remove_doc
    BY <1>18 DEF walk_and
  <2>4. phase' = phase
    BY <1>18 DEF walk_and
  <2>5. QED
    BY <1>0, <1>14, <2>1, <2>2, <2>3, <2>4 DEF TypeOK
<1>19. CASE walk_or
  <2>1. doc \in Docs /\ stack # << >>
    BY <1>19 DEF walk_or, Walked, IInv, DocInv
  <2>2. PICK ret \in {"true", "false"} : Return(ret)
    BY <1>19 DEF walk_or, Bool
  <2>3. QED
    BY <1>0, <1>14, <1>19, <2>1, <2>2 DEF walk_or, TypeOK
<1>20. QED
  BY <1>5, <1>6, <1>7, <1>8, <1>9, <1>10, <1>11, <1>12, <1>13, <1>15, <1>16, <1>17, <1>18, <1>19
     DEF Next

-----------------------------------------------------------------------------
\* A child that is called is called from its own parent.
LEMMA CalledFromParent ==
    ASSUME TypeOK, QueryOK, Chain, NEW n \in Nodes, NEW i \in 1 .. Len(query.kids[n]),
           Active(query.kids[n][i])
    PROVE  Active(n) /\ i = k[n] /\ (stack # << >> => n # Top)
<1>1. PICK j \in 1 .. Len(stack) : stack[j] = query.kids[n][i]
  BY DEF Active
<1>2. stack \in Seq(Nodes) /\ Len(stack) \in Nat
  BY DEF TypeOK
<1>3. query.kids[n][i] # Root
  BY KidFacts
<1>4. j # 1 /\ j \in Int
  BY <1>1, <1>2, <1>3 DEF Chain
<1>5. PICK l \in 1 .. Len(stack) - 1 : j = l + 1
  <2>1. j - 1 \in 1 .. Len(stack) - 1 /\ j = (j - 1) + 1
    BY <1>2, <1>4
  <2>2. QED
    BY <2>1
<1>6. stack[l] \in Nodes /\ k[stack[l]] \in Nat /\ k[stack[l]] \in 1 .. Len(query.kids[stack[l]])
  <2>1. stack[l] \in Nodes
    BY <1>2
  <2>2. k[stack[l]] \in 1 .. Len(query.kids[stack[l]]) + 1 /\ Len(query.kids[stack[l]]) \in Nat
    BY <2>1, KidFacts DEF TypeOK
  <2>3. k[stack[l]] <= Len(query.kids[stack[l]])
    BY DEF Chain
  <2>4. QED
    BY <2>1, <2>2, <2>3
<1>7. query.kids[stack[l]][k[stack[l]]] = query.kids[n][i]
  BY <1>1, <1>5 DEF Chain
<1>8. stack[l] = n /\ k[stack[l]] = i
  BY <1>6, <1>7, KidFacts
<1>9. l \in 1 .. Len(stack) /\ Active(n)
  BY <1>2, <1>8 DEF Active
<1>10. ASSUME stack # << >>, n = Top PROVE FALSE
  <2>1. Len(stack) \in 1 .. Len(stack)
    BY <1>2, <1>10
  <2>2. l = Len(stack)
    BY <1>8, <1>9, <1>10, <2>1 DEF Top, Chain
  <2>3. QED
    BY <1>2, <2>2
<1>11. QED
  BY <1>8, <1>9, <1>10

\* The top of the stack is active, and no child of it is.
LEMMA TopOfChain ==
    ASSUME TypeOK, QueryOK, Chain, stack # << >>
    PROVE  /\ Active(Top)
           /\ \A i \in 1 .. Len(query.kids[Top]) : ~ Active(query.kids[Top][i])
<1>1. Len(stack) \in 1 .. Len(stack)
  BY TopFacts
<1>2. Active(Top)
  BY <1>1 DEF Active, Top
<1>3. Top \in Nodes
  BY TopFacts
<1>4. \A i \in 1 .. Len(query.kids[Top]) : ~ Active(query.kids[Top][i])
  BY <1>3, CalledFromParent
<1>5. QED
  BY <1>2, <1>4

LEMMA TopActive ==
    ASSUME TypeOK, QueryOK, StackInv, stack # << >>
    PROVE  /\ Active(Top) /\ Top \notin merged /\ query.type[Top] # "NONE"
           /\ \A i \in 1 .. Len(query.kids[Top]) : ~ Active(query.kids[Top][i])
<1>1. Len(stack) \in 1 .. Len(stack)
  BY TopFacts
<1>2. Top \notin merged /\ query.type[Top] # "NONE"
  BY <1>1 DEF Top, StackInv
<1>3. QED
  BY <1>2, TopOfChain DEF StackInv

\* A call of a child.
LEMMA PushChain ==
    ASSUME TypeOK, QueryOK, Chain, stack # << >>, AtChild,
           stack' = Append(stack, Child), UNCHANGED <<query, k>>
    PROVE  Chain' /\ \A n : Active(n)' <=> Active(n) \/ n = Child
<1>1. stack \in Seq(Nodes) /\ Len(stack) \in Nat \ {0}
  BY TopFacts DEF TypeOK
<1>2. Child \in Nodes /\ Top \in Nodes /\ k[Top] \in 1 .. Len(query.kids[Top])
  BY TopFacts
<1>3. /\ Len(stack') = Len(stack) + 1
      /\ \A i \in 1 .. Len(stack) : stack'[i] = stack[i]
      /\ stack'[Len(stack) + 1] = Child
  BY <1>1, <1>2
<1>4. ~ Active(Child)
  BY <1>2, TopOfChain DEF Child
<1>5. \A n : Active(n)' <=> Active(n) \/ n = Child
  <2>1. ASSUME NEW n, Active(n)' PROVE Active(n) \/ n = Child
    <3>1. PICK i \in 1 .. Len(stack') : stack'[i] = n
      BY <2>1 DEF Active
    <3>2. CASE i = Len(stack) + 1
      BY <1>3, <3>1, <3>2
    <3>3. CASE i # Len(stack) + 1
      <4>1. i \in 1 .. Len(stack)
        BY <1>1, <1>3, <3>3
      <4>2. QED
        BY <1>3, <3>1, <4>1 DEF Active
    <3>4. QED
      BY <3>2, <3>3
  <2>2. ASSUME NEW n, Active(n) \/ n = Child PROVE Active(n)'
    <3>1. CASE n = Child
      <4>1. Len(stack) + 1 \in 1 .. Len(stack')
        BY <1>1, <1>3
      <4>2. QED
        BY <1>3, <3>1, <4>1 DEF Active
    <3>2. CASE Active(n)
      <4>1. PICK i \in 1 .. Len(stack) : stack[i] = n
        BY <3>2 DEF Active
      <4>2. i \in 1 .. Len(stack')
        BY <1>1, <1>3
      <4>3. QED
        BY <1>3, <4>1, <4>2 DEF Active
    <3>3. QED
      BY <2>2, <3>1, <3>2
  <2>3. QED
    BY <2>1, <2>2
<1>6. Chain'
  <2>1. stack'[1] = Root
    BY <1>1, <1>3 DEF Chain
  <2>2. ASSUME NEW i \in 1 .. Len(stack') - 1
        PROVE  /\ k'[stack'[i]] <= Len(query'.kids[stack'[i]])
               /\ stack'[i + 1] = query'.kids[stack'[i]][k'[stack'[i]]]
    <3>1. i \in 1 .. Len(stack)
      BY <1>1, <1>3
    <3>2. CASE i = Len(stack)
      <4>1. stack'[i] = Top /\ stack'[i + 1] = Child
        BY <1>3, <3>1, <3>2 DEF Top
      <4>2. QED
        BY <4>1 DEF AtChild, Child
    <3>3. CASE i # Len(stack)
      <4>1. i \in 1 .. Len(stack) - 1 /\ i + 1 \in 1 .. Len(stack)
        BY <1>1, <3>1, <3>3
      <4>2. stack'[i] = stack[i] /\ stack'[i + 1] = stack[i + 1]
        BY <1>3, <3>1, <4>1
      <4>3. QED
        BY <4>1, <4>2 DEF Chain
    <3>4. QED
      BY <3>2, <3>3
  <2>3. ASSUME NEW i \in 1 .. Len(stack'), NEW j \in 1 .. Len(stack'), stack'[i] = stack'[j]
        PROVE  i = j
    <3>1. \A x \in 1 .. Len(stack') : x \in 1 .. Len(stack) \/ x = Len(stack) + 1
      BY <1>1, <1>3
    <3>2. \A x \in 1 .. Len(stack) : stack'[x] # Child
      BY <1>3, <1>4 DEF Active
    <3>3. QED
      BY <1>3, <2>3, <3>1, <3>2 DEF Chain
  <2>4. QED
    BY <2>1, <2>2, <2>3 DEF Chain
<1>7. QED
  BY <1>5, <1>6

LEMMA PushStack ==
    ASSUME TypeOK, QueryOK, StackInv, stack # << >>, AtChild, Child \notin merged,
           stack' = Append(stack, Child), UNCHANGED <<query, k, merged>>
    PROVE  StackInv' /\ \A n : Active(n)' <=> Active(n) \/ n = Child
<1>1. Chain' /\ \A n : Active(n)' <=> Active(n) \/ n = Child
  BY PushChain DEF StackInv
<1>2. query.type[Child] # "NONE"
  BY TopFacts, KidFacts DEF Child
<1>3. ASSUME NEW i \in 1 .. Len(stack')
      PROVE  stack'[i] \notin merged' /\ query'.type[stack'[i]] # "NONE"
  <2>0. PICK x : x = stack'[i]
    OBVIOUS
  <2>1. Active(x)'
    BY <2>0 DEF Active
  <2>2. Active(x) \/ x = Child
    BY <1>1, <2>1
  <2>3. QED
    BY <2>0, <1>2, <2>2 DEF StackInv, Active
<1>4. QED
  BY <1>1, <1>3 DEF StackInv

\* The return of a call.
LEMMA PopChain ==
    ASSUME TypeOK, QueryOK, Chain, stack # << >>, stack' = Pop(stack), UNCHANGED <<query, k>>
    PROVE  Chain' /\ \A n : Active(n)' <=> Active(n) /\ n # Top
<1>1. /\ Len(stack) \in Nat \ {0}
      /\ Len(stack') = Len(stack) - 1
      /\ \A i \in 1 .. Len(stack) - 1 : stack'[i] = stack[i]
  BY TopFacts
<1>2. \A i \in 1 .. Len(stack) - 1 : stack[i] # Top
  <2>1. ASSUME NEW i \in 1 .. Len(stack) - 1 PROVE stack[i] # Top
    <3>1. i \in 1 .. Len(stack) /\ Len(stack) \in 1 .. Len(stack) /\ i # Len(stack)
      BY <1>1
    <3>2. QED
      BY <3>1 DEF Top, Chain
  <2>2. QED
    BY <2>1
<1>3. \A n : Active(n)' <=> Active(n) /\ n # Top
  <2>1. ASSUME NEW n, Active(n)' PROVE Active(n) /\ n # Top
    <3>1. PICK i \in 1 .. Len(stack) - 1 : stack[i] = n
      BY <1>1, <2>1 DEF Active
    <3>2. i \in 1 .. Len(stack)
      BY <1>1
    <3>3. QED
      BY <1>2, <3>1, <3>2 DEF Active
  <2>2. ASSUME NEW n, Active(n), n # Top PROVE Active(n)'
    <3>1. PICK i \in 1 .. Len(stack) : stack[i] = n
      BY <2>2 DEF Active
    <3>2. i # Len(stack)
      BY <2>2, <3>1 DEF Top
    <3>3. i \in 1 .. Len(stack) - 1
      BY <1>1, <3>2
    <3>4. QED
      BY <1>1, <3>1, <3>3 DEF Active
  <2>3. QED
    BY <2>1, <2>2
<1>4. Chain'
  <2>1. Len(stack') > 0 => stack'[1] = Root
    BY <1>1 DEF Chain
  <2>2. ASSUME NEW i \in 1 .. Len(stack') - 1
        PROVE  /\ k'[stack'[i]] <= Len(query'.kids[stack'[i]])
               /\ stack'[i + 1] = query'.kids[stack'[i]][k'[stack'[i]]]
    <3>1. i \in 1 .. Len(stack) - 1 /\ i + 1 \in 1 .. Len(stack) - 1
      BY <1>1
    <3>2. QED
      BY <1>1, <3>1 DEF Chain
  <2>3. \A i \in 1 .. Len(stack') : i \in 1 .. Len(stack) /\ stack'[i] = stack[i] /\ stack[i] # Top
    BY <1>1, <1>2
  <2>4. \A i, j \in 1 .. Len(stack') : stack'[i] = stack'[j] => i = j
    BY <2>3 DEF Chain
  <2>5. QED
    BY <2>1, <2>2, <2>4 DEF Chain
<1>5. QED
  BY <1>3, <1>4

LEMMA PopStack ==
    ASSUME TypeOK, QueryOK, StackInv, stack # << >>,
           stack' = Pop(stack), merged' = merged \cup {Top}, UNCHANGED <<query, k>>
    PROVE  StackInv' /\ \A n : Active(n)' <=> Active(n) /\ n # Top
<1>1. Chain' /\ \A n : Active(n)' <=> Active(n) /\ n # Top
  BY PopChain DEF StackInv
<1>2. ASSUME NEW i \in 1 .. Len(stack')
      PROVE  stack'[i] \notin merged' /\ query'.type[stack'[i]] # "NONE"
  <2>0. PICK x : x = stack'[i]
    OBVIOUS
  <2>1. Active(x)'
    BY <2>0 DEF Active
  <2>2. Active(x) /\ x # Top
    BY <1>1, <2>1
  <2>3. QED
    BY <2>0, <2>2 DEF StackInv, Active
<1>3. QED
  BY <1>1, <1>2 DEF StackInv

\* A node goes on to its next child.
LEMMA AdvanceChain ==
    ASSUME TypeOK, QueryOK, Chain, stack # << >>, k' = [k EXCEPT ![Top] = @ + 1],
           UNCHANGED <<query, stack>>
    PROVE  Chain'
<1>1. \A i \in 1 .. Len(stack) - 1 : stack[i] # Top /\ stack[i] \in Nodes
  <2>1. ASSUME NEW i \in 1 .. Len(stack) - 1 PROVE stack[i] # Top /\ stack[i] \in Nodes
    <3>1. Len(stack) \in Nat \ {0} /\ stack \in Seq(Nodes)
      BY TopFacts DEF TypeOK
    <3>2. i \in 1 .. Len(stack) /\ Len(stack) \in 1 .. Len(stack) /\ i # Len(stack)
      BY <3>1
    <3>3. QED
      BY <3>1, <3>2 DEF Top, Chain
  <2>2. QED
    BY <2>1
<1>2. \A i \in 1 .. Len(stack) - 1 : k'[stack[i]] = k[stack[i]]
  BY <1>1 DEF TypeOK
<1>3. QED
  BY <1>2 DEF Chain

-----------------------------------------------------------------------------
\* Nothing but the place in a node matters for what it has collected so far.
LEMMA SoFarSame ==
    ASSUME query' = query, NEW n, k'[n] = k[n], NEW d
    PROVE  InSoFar(n, d)' <=> InSoFar(n, d)
  BY DEF InSoFar, IsPart

\* A call hands on a set of documents that is large enough.
LEMMA PushInv ==
    ASSUME IInv, merge_and_or
    PROVE  MergeInv'
<1>1. /\ TypeOK /\ QueryOK /\ phase = "merge" /\ MergeInv /\ stack # << >> /\ AtChild
      /\ Child \notin merged /\ stack' = Append(stack, Child)
      /\ UNCHANGED <<query, k, merged, type, s_documents, already_retrieved_docs>>
  BY DEF IInv, merge_and_or
<1>2. /\ StackInv /\ KidsInv /\ TypesInv /\ SoFarInv /\ HandInv /\ ArgInv
  BY <1>1 DEF MergeInv
<1>3. StackInv' /\ \A n : Active(n)' <=> Active(n) \/ n = Child
  BY <1>1, <1>2, PushStack
<1>4. /\ Top \in Nodes /\ Child \in Nodes /\ k[Top] \in 1 .. Len(query.kids[Top])
      /\ Child = query.kids[Top][k[Top]] /\ k[Top] \in Nat /\ k[Top] >= 1
  BY <1>1, TopFacts DEF Child
<1>5. Active(Top) /\ Top \notin merged /\ ~ Active(Child)
  BY <1>1, <1>2, <1>4, TopActive
<1>6. k[Child] = 1 /\ \A i \in 1 .. Len(query.kids[Child]) : query.kids[Child][i] \notin merged
  BY <1>1, <1>2, <1>4, <1>5 DEF KidsInv
<1>7. \A n \in Nodes : \A d : InSoFar(n, d)' <=> InSoFar(n, d)
  BY <1>1, SoFarSame
<1>8. arg' = [arg EXCEPT ![Child] =
                IF k[Top] = 1 \/ type[Top] \in OrTypes THEN arg[Top]
                ELSE already_retrieved_docs[Top]] /\ arg \in [Nodes -> (SUBSET Docs) \cup {NULL}]
  BY <1>1 DEF merge_and_or, TypeOK
<1>9. \A n \in Nodes \ {Child} : \A d : Fits(n, d)' <=> Fits(n, d)
  BY <1>8 DEF Fits
<1>10. KidsInv'
  BY <1>1, <1>2, <1>3 DEF KidsInv
<1>11. TypesInv'
  BY <1>1, <1>2 DEF TypesInv
<1>12. SoFarInv' /\ HandInv'
  <2>1. \A n \in Nodes \ merged : k[n] > 1 => n # Child
    BY <1>6
  <2>2. QED
    BY <1>1, <1>2, <1>7, <1>9, <2>1 DEF SoFarInv, HandInv
<1>13. ArgInv'
  <2> SUFFICES ASSUME NEW n \in Nodes \ merged, k[n] <= Len(query.kids[n]),
                      NEW c, c = query.kids[n][k[n]], c \in merged \/ Active(c)',
                      NEW d \in Docs, Fits(n, d)', query.type[n] \in OrTypes \/ InSoFar(n, d)
               PROVE  Fits(c, d)'
    BY <1>1, <1>7 DEF ArgInv
  <2>1. k[n] \in 1 .. Len(query.kids[n]) /\ Len(query.kids[n]) \in Nat
    BY <1>1, KidFacts DEF TypeOK
  <2>2. CASE n = Top
    <3>1. Fits(Top, d)
      BY <1>4, <1>5, <1>9, <2>2
    <3>2. c = Child
      BY <1>4, <2>2
    <3>3. type[Top] = query.type[Top]
      BY <1>2, <1>4, <1>5 DEF TypesInv
    <3>4. CASE k[Top] = 1 \/ type[Top] \in OrTypes
      BY <1>4, <1>8, <3>1, <3>2, <3>4 DEF Fits
    <3>5. CASE ~ (k[Top] = 1 \/ type[Top] \in OrTypes)
      <4>1. already_retrieved_docs[Top] = NULL \/ d \in already_retrieved_docs[Top]
        BY <1>2, <1>4, <1>5, <2>2, <3>1, <3>3, <3>5 DEF HandInv
      <4>2. QED
        BY <1>4, <1>8, <3>2, <3>5, <4>1 DEF Fits
    <3>6. QED
      BY <3>4, <3>5
  <2>3. CASE n = Child
    <3>1. c \notin merged
      BY <1>6, <2>1, <2>3
    <3>a. Child # Top
      BY <1>5
    <3>b. \A i \in 1 .. Len(query.kids[Child]) : query.kids[Child][i] # query.kids[Top][k[Top]]
      BY <1>1, <1>4, <3>a, KidFacts
    <3>2. c # Child
      BY <1>4, <2>1, <2>3, <3>b
    <3>3. Active(c)
      BY <1>3, <3>1, <3>2
    <3>4. Active(Child)
      BY <1>1, <1>2, <1>4, <2>1, <2>3, <3>3, CalledFromParent DEF StackInv
    <3>5. QED
      BY <1>5, <3>4
  <2>4. CASE n # Top /\ n # Child
    <3>1. c # Child /\ c \in Nodes
      BY <1>1, <1>4, <2>1, <2>4, KidFacts
    <3>2. c \in merged \/ Active(c)
      BY <1>3, <3>1
    <3>3. Fits(n, d)
      BY <1>9, <2>4
    <3>4. Fits(c, d)
      BY <1>2, <3>2, <3>3 DEF ArgInv
    <3>5. QED
      BY <1>9, <3>1, <3>4
  <2>5. QED
    BY <2>2, <2>3, <2>4
<1>14. QED
  BY <1>3, <1>10, <1>11, <1>12, <1>13 DEF MergeInv

\* The return of a call: the node joins the evaluated ones.
LEMMA PopInv ==
    ASSUME IInv, phase = "merge", stack # << >>,
           stack' = Pop(stack), merged' = merged \cup {Top},
           UNCHANGED <<query, k, arg, type, already_retrieved_docs>>,
           NEW S, s_documents' = [s_documents EXCEPT ![Top] = S]
    PROVE  MergeInv'
<1>1. TypeOK /\ QueryOK /\ StackInv /\ KidsInv /\ TypesInv /\ SoFarInv /\ HandInv /\ ArgInv
  BY DEF IInv, MergeInv
<1>2. StackInv' /\ \A n : Active(n)' <=> Active(n) /\ n # Top
  BY <1>1, PopStack
<1>3. Active(Top) /\ Top \in Nodes
  BY <1>1, TopActive, TopFacts
<1>4. \A n \in Nodes : \A d : (InSoFar(n, d)' <=> InSoFar(n, d)) /\ (Fits(n, d)' <=> Fits(n, d))
  BY SoFarSame DEF Fits
<1>5. KidsInv'
  <2> SUFFICES ASSUME NEW n \in Nodes
               PROVE  /\ \A i \in 1 .. k[n] - 1 : query.kids[n][i] \in merged'
                      /\ \A i \in k[n] + 1 .. Len(query.kids[n]) : query.kids[n][i] \notin merged'
                      /\ n \notin merged' /\ ~ Active(n)' =>
                          k[n] = 1 /\ \A i \in 1 .. Len(query.kids[n]) : query.kids[n][i] \notin merged'
    BY DEF KidsInv
  <2>1. k[n] \in Nat /\ k[n] >= 1 /\ Len(query.kids[n]) \in Nat
    BY <1>1, KidFacts DEF TypeOK
  <2>2. \A i \in 1 .. Len(query.kids[n]) : query.kids[n][i] = Top => Active(n) /\ i = k[n] /\ n # Top
    BY <1>1, <1>3, CalledFromParent DEF StackInv
  <2>3. \A i \in k[n] + 1 .. Len(query.kids[n]) : i \in 1 .. Len(query.kids[n]) /\ i # k[n]
    BY <2>1
  <2>4. \A i \in 1 .. k[n] - 1 : query.kids[n][i] \in merged'
    BY <1>1 DEF KidsInv
  <2>5. \A i \in k[n] + 1 .. Len(query.kids[n]) : query.kids[n][i] \notin merged'
    BY <1>1, <2>2, <2>3 DEF KidsInv
  <2>6. ASSUME n \notin merged', ~ Active(n)'
        PROVE  k[n] = 1 /\ \A i \in 1 .. Len(query.kids[n]) : query.kids[n][i] \notin merged'
    <3>1. n \notin merged /\ ~ Active(n)
      BY <1>2, <2>6
    <3>2. k[n] = 1 /\ \A i \in 1 .. Len(query.kids[n]) : query.kids[n][i] \notin merged
      BY <1>1, <3>1 DEF KidsInv
    <3>3. QED
      BY <2>2, <3>1, <3>2
  <2>7. QED
    BY <2>4, <2>5, <2>6
<1>6. TypesInv'
  BY <1>1 DEF TypesInv
<1>7. SoFarInv' /\ HandInv'
  <2>1. \A n \in Nodes \ merged' : n \in Nodes \ merged /\ s_documents'[n] = s_documents[n]
    BY <1>1 DEF TypeOK
  <2>2. QED
    BY <1>1, <1>4, <2>1 DEF SoFarInv, HandInv
<1>8. ArgInv'
  <2> SUFFICES ASSUME NEW n \in Nodes \ merged', k[n] <= Len(query.kids[n]),
                      NEW c, c = query.kids[n][k[n]], c \in merged' \/ Active(c)',
                      NEW d \in Docs, Fits(n, d), query.type[n] \in OrTypes \/ InSoFar(n, d)
               PROVE  Fits(c, d)'
    BY <1>4 DEF ArgInv
  <2>1. c \in merged \/ Active(c)
    BY <1>2, <1>3
  <2>2. k[n] \in 1 .. Len(query.kids[n])
    BY <1>1, KidFacts DEF TypeOK
  <2>3. c \in Nodes
    BY <1>1, <2>2, KidFacts
  <2>4. Fits(c, d)
    BY <1>1, <2>1 DEF ArgInv
  <2>5. QED
    BY <1>4, <2>3, <2>4
<1>9. QED
  BY <1>2, <1>5, <1>6, <1>7, <1>8 DEF MergeInv

\* One child more: a document must be a hit of it too, or may be.
LEMMA SoFarNext ==
    ASSUME IInv, Returned, query' = query, k' = [k EXCEPT ![Top] = @ + 1], NEW d, NEW n, n = Top
    PROVE  /\ query.type[n] \in OrTypes =>
                (InSoFar(n, d)' <=> (InSoFar(n, d) \/ (IsPart(n, k[n]) /\ d \in Hits(query)[Child])))
           /\ query.type[n] \notin OrTypes =>
                (InSoFar(n, d)' <=> (InSoFar(n, d) /\ (IsPart(n, k[n]) => d \in Hits(query)[Child])))
           /\ k[n] = 1 => (InSoFar(n, d) <=> query.type[n] \notin OrTypes)
<1>1. n \in Nodes /\ k[n] \in Nat /\ k[n] >= 1 /\ Child = query.kids[n][k[n]]
  BY TopFacts DEF IInv, Returned, Child
<1>2. k'[n] = k[n] + 1
  BY <1>1 DEF IInv, TypeOK
<1>3. \A i : i \in 1 .. k'[n] - 1 <=> (i \in 1 .. k[n] - 1 \/ i = k[n])
  BY <1>1, <1>2
<1> DEFINE P(i) == d \in Hits(query)[query.kids[n][i]]
<1>4. ASSUME query.type[n] \in OrTypes
      PROVE  InSoFar(n, d)' <=> (InSoFar(n, d) \/ (IsPart(n, k[n]) /\ P(k[n])))
  <2>1. InSoFar(n, d)' <=> \E i \in 1 .. k'[n] - 1 : IsPart(n, i) /\ P(i)
    BY <1>4 DEF InSoFar, IsPart
  <2>2. InSoFar(n, d) <=> \E i \in 1 .. k[n] - 1 : IsPart(n, i) /\ P(i)
    BY <1>4 DEF InSoFar
  <2> HIDE DEF P
  <2>3. QED
    BY <1>3, <2>1, <2>2
<1>5. ASSUME query.type[n] \notin OrTypes
      PROVE  InSoFar(n, d)' <=> (InSoFar(n, d) /\ (IsPart(n, k[n]) => P(k[n])))
  <2>1. InSoFar(n, d)' <=> \A i \in 1 .. k'[n] - 1 : IsPart(n, i) => P(i)
    BY <1>5 DEF InSoFar, IsPart
  <2>2. InSoFar(n, d) <=> \A i \in 1 .. k[n] - 1 : IsPart(n, i) => P(i)
    BY <1>5 DEF InSoFar
  <2> HIDE DEF P
  <2>3. QED
    BY <1>3, <2>1, <2>2
<1>6. k[n] = 1 => (InSoFar(n, d) <=> query.type[n] \notin OrTypes)
  BY DEF InSoFar
<1>7. QED
  BY <1>1, <1>4, <1>5, <1>6

\* What an operator knows of the child whose result it takes.
LEMMA ChildFacts ==
    ASSUME IInv, Returned
    PROVE  /\ Top \in Nodes /\ Child \in Nodes /\ Top \notin merged /\ Child \in merged
           /\ k[Top] \in Nat /\ k[Top] >= 1 /\ Child = query.kids[Top][k[Top]]
           /\ type[Top] = query.type[Top]
           /\ (type[Child] = "OPTIONAL" <=> query.type[Child] = "OPTIONAL")
           /\ s_documents[Child] \subseteq ids[Child]
           /\ \A d \in s_documents[Child] : d \in Hits(query)[Child]
           /\ \A d \in Docs :
                (/\ d \in Hits(query)[Child] /\ Fits(Top, d)
                 /\ (query.type[Top] \in OrTypes \/ InSoFar(Top, d))) => d \in s_documents[Child]
<1>1. TypeOK /\ QueryOK /\ MergeInv /\ stack # << >> /\ AtChild /\ Child \in merged
  BY DEF IInv, Returned
<1>2. /\ Top \in Nodes /\ Child \in Nodes /\ k[Top] \in Nat /\ k[Top] >= 1
      /\ Child = query.kids[Top][k[Top]] /\ k[Top] <= Len(query.kids[Top])
  BY <1>1, TopFacts DEF Child, AtChild
<1>3. Top \notin merged
  BY <1>1, TopActive DEF MergeInv
<1>4. type[Top] = query.type[Top] /\ (type[Child] = "OPTIONAL" <=> query.type[Child] = "OPTIONAL")
  BY <1>1, <1>2, <1>3 DEF MergeInv, TypesInv, OrTypes
<1>5. s_documents[Child] \subseteq ids[Child]
  BY <1>1 DEF IInv, IdsInv
<1>6. \A d \in s_documents[Child] : d \in Hits(query)[Child]
  BY <1>1 DEF IInv, PruningExact
<1>7. ASSUME NEW d \in Docs, d \in Hits(query)[Child], Fits(Top, d),
             query.type[Top] \in OrTypes \/ InSoFar(Top, d)
      PROVE  d \in s_documents[Child]
  <2>1. Fits(Child, d)
    BY <1>1, <1>2, <1>3, <1>7 DEF MergeInv, ArgInv
  <2>2. QED
    BY <1>1, <1>7, <2>1 DEF IInv, PruningExact, Fits
<1>8. QED
  BY <1>1, <1>2, <1>3, <1>4, <1>5, <1>6, <1>7

\* The documents S that node t has collected when it took the result of a child,
\* and the documents A it hands to the next child, are large enough.
Took(t, S, A) ==
    /\ s_documents' = [s_documents EXCEPT ![Top] = S]
    /\ already_retrieved_docs' = [already_retrieved_docs EXCEPT ![Top] = A]
    /\ \A d \in S : InSoFar(t, d)'
    /\ \A d \in Docs : Fits(t, d) /\ InSoFar(t, d)' => d \in S
    /\ query.type[t] \notin OrTypes =>
          \A d \in Docs : Fits(t, d) /\ InSoFar(t, d)' => A = NULL \/ d \in A

\* What every step of this phase establishes.
Keeps == MergeInv' /\ PruningExact' /\ IdsInv'

\* An operator takes the result of a child, and goes on to the next one.
LEMMA AdvanceInv ==
    ASSUME IInv, Returned, NEW t, t = Top, k' = [k EXCEPT ![Top] = @ + 1], TypesInv',
           UNCHANGED <<query, arg, ids, merged, phase, stack>>,
           NEW S, NEW A, Took(t, S, A)
    PROVE  Keeps
<1>0. /\ s_documents' = [s_documents EXCEPT ![Top] = S]
      /\ already_retrieved_docs' = [already_retrieved_docs EXCEPT ![Top] = A]
      /\ \A d \in S : InSoFar(t, d)'
      /\ \A d \in Docs : Fits(t, d) /\ InSoFar(t, d)' => d \in S
      /\ query.type[t] \notin OrTypes =>
            \A d \in Docs : Fits(t, d) /\ InSoFar(t, d)' => A = NULL \/ d \in A
  BY DEF Took
<1>1. /\ TypeOK /\ QueryOK /\ StackInv /\ KidsInv /\ SoFarInv /\ HandInv /\ ArgInv
      /\ stack # << >> /\ AtChild /\ phase = "merge"
  BY DEF IInv, MergeInv, Returned
<1>2. /\ Top \in Nodes /\ Top \notin merged /\ Child \in merged
      /\ k[Top] \in Nat /\ k[Top] >= 1 /\ Child = query.kids[Top][k[Top]]
  BY ChildFacts
<1>3. Active(Top) /\ \A i \in 1 .. Len(query.kids[Top]) : ~ Active(query.kids[Top][i])
  BY <1>1, TopActive
<1>4. /\ k'[Top] = k[Top] + 1 /\ s_documents'[Top] = S /\ already_retrieved_docs'[Top] = A
      /\ \A n \in Nodes \ {Top} : /\ k'[n] = k[n] /\ s_documents'[n] = s_documents[n]
                                /\ already_retrieved_docs'[n] = already_retrieved_docs[n]
  BY <1>0, <1>1, <1>2 DEF TypeOK
<1>5. /\ \A n : Active(n)' <=> Active(n)
      /\ \A n, d : Fits(n, d)' <=> Fits(n, d)
      /\ \A n \in Nodes \ {Top} : \A d : InSoFar(n, d)' <=> InSoFar(n, d)
  BY <1>4, SoFarSame DEF Active, Fits
<1>6. StackInv'
  <2>1. Chain'
    BY <1>1, AdvanceChain DEF StackInv
  <2>2. QED
    BY <1>1, <2>1 DEF StackInv
<1>7. KidsInv'
  <2>1. \A n \in Nodes \ {Top} :
          /\ \A i \in 1 .. k'[n] - 1 : query.kids[n][i] \in merged
          /\ \A i \in k'[n] + 1 .. Len(query.kids[n]) : query.kids[n][i] \notin merged
          /\ n \notin merged /\ ~ Active(n)' =>
              k'[n] = 1 /\ \A i \in 1 .. Len(query.kids[n]) : query.kids[n][i] \notin merged
    BY <1>1, <1>4, <1>5 DEF KidsInv
  <2>2. \A i \in 1 .. k'[Top] - 1 : i \in 1 .. k[Top] - 1 \/ i = k[Top]
    BY <1>2, <1>4
  <2>3. \A i \in 1 .. k'[Top] - 1 : query.kids[Top][i] \in merged
    BY <1>1, <1>2, <2>2 DEF KidsInv
  <2>4. \A i \in k'[Top] + 1 .. Len(query.kids[Top]) : i \in k[Top] + 1 .. Len(query.kids[Top])
    BY <1>1, <1>2, <1>4, KidFacts
  <2>5. \A i \in k'[Top] + 1 .. Len(query.kids[Top]) : query.kids[Top][i] \notin merged
    BY <1>1, <1>2, <2>4 DEF KidsInv
  <2>6. QED
    BY <1>3, <1>5, <2>1, <2>3, <2>5 DEF KidsInv
<1>8. SoFarInv' /\ HandInv'
  <2>1. /\ \A d \in S : InSoFar(t, d)'
        /\ \A d \in Docs : Fits(t, d)' /\ InSoFar(t, d)' => d \in S
        /\ query.type[t] \notin OrTypes =>
              \A d \in Docs : Fits(t, d)' /\ InSoFar(t, d)' => A = NULL \/ d \in A
    BY <1>0, <1>5
  <2>2. SoFarInv'
    BY <1>1, <1>4, <1>5, <2>1 DEF SoFarInv
  <2>3. HandInv'
    BY <1>1, <1>4, <1>5, <2>1 DEF HandInv
  <2>4. QED
    BY <2>2, <2>3
<1>9. ArgInv'
  <2> SUFFICES ASSUME NEW n \in Nodes \ merged, k'[n] <= Len(query.kids[n]),
                      NEW c, c = query.kids[n][k'[n]], c \in merged \/ Active(c),
                      NEW d \in Docs, Fits(n, d), query.type[n] \in OrTypes \/ InSoFar(n, d)'
               PROVE  Fits(c, d)
    BY <1>5 DEF ArgInv
  <2>1. CASE n = Top
    <3>1. k'[Top] \in k[Top] + 1 .. Len(query.kids[Top]) /\ k'[Top] \in 1 .. Len(query.kids[Top])
      BY <1>1, <1>2, <1>4, <2>1, KidFacts
    <3>2. c \notin merged /\ ~ Active(c)
      BY <1>1, <1>2, <1>3, <2>1, <3>1 DEF KidsInv
    <3>3. QED
      BY <3>2
  <2>2. CASE n # Top
    BY <1>1, <1>4, <1>5, <2>2 DEF ArgInv
  <2>3. QED
    BY <2>1, <2>2
<1>10. PruningExact' /\ IdsInv'
  <2>1. \A n \in merged : s_documents'[n] = s_documents[n]
    BY <1>1, <1>2, <1>4 DEF TypeOK
  <2>2. QED
    BY <2>1 DEF IInv, PruningExact, IdsInv
<1>11. QED
  BY <1>6, <1>7, <1>8, <1>9, <1>10 DEF MergeInv, Keeps

-----------------------------------------------------------------------------
(* The steps that evaluate the nodes. *)

\* merge_and takes the result of a child: ROOT and optional terms change nothing.
LEMMA AndInv == ASSUME IInv, merge_and PROVE Keeps
<1>0. PICK t : t = Top
  OBVIOUS
<1>1. /\ Returned /\ k' = [k EXCEPT ![Top] = @ + 1] /\ type[Top] \in AndTypes
      /\ UNCHANGED <<query, arg, ids, merged, phase, stack>>
  BY <1>0 DEF merge_and
<1>2. /\ t \in Nodes /\ t \notin merged /\ k[t] \in Nat /\ k[t] >= 1
      /\ Child \in Nodes /\ Child \in merged /\ Child = query.kids[t][k[t]]
      /\ query.type[t] = type[t] /\ query.type[t] \notin OrTypes /\ query.type[t] # "PHRASE"
      /\ (type[Child] = "OPTIONAL" <=> query.type[Child] = "OPTIONAL")
      /\ s_documents[Child] \subseteq ids[Child]
      /\ \A d \in s_documents[Child] : d \in Hits(query)[Child]
      /\ \A d \in Docs : d \in Hits(query)[Child] /\ Fits(t, d) /\ InSoFar(t, d)
                          => d \in s_documents[Child]
  BY <1>0, <1>1, ChildFacts DEF AndTypes, OrTypes
<1>3. \A d : /\ InSoFar(t, d)' <=> (InSoFar(t, d) /\ (IsPart(t, k[t]) => d \in Hits(query)[Child]))
             /\ k[t] = 1 => InSoFar(t, d)
  BY <1>0, <1>1, <1>2, SoFarNext
<1>4. s_documents \in [Nodes -> SUBSET Docs]
      /\ already_retrieved_docs \in [Nodes -> (SUBSET Docs) \cup {NULL}]
  BY DEF IInv, TypeOK
<1>5. k[t] > 1 => /\ \A d \in s_documents[t] : InSoFar(t, d)
                  /\ \A d \in Docs : Fits(t, d) /\ InSoFar(t, d) => d \in s_documents[t]
                  /\ \A d \in Docs : Fits(t, d) /\ InSoFar(t, d) =>
                        (already_retrieved_docs[t] = NULL \/ d \in already_retrieved_docs[t])
  BY <1>0, <1>1, <1>2 DEF IInv, MergeInv, SoFarInv, HandInv, Returned
<1>a. k[Top] = 1 <=> ~ (k[Top] > 1)
  BY <1>0, <1>2
<1>b. /\ k[Top] = 1 =>
          /\ s_documents' = [s_documents EXCEPT ![Top] = s_documents[Child]]
          /\ already_retrieved_docs' =
                [already_retrieved_docs EXCEPT ![Top] = IF arg[Top] = NULL THEN ids[Child] ELSE arg[Top]]
      /\ k[Top] > 1 /\ (type[Child] = "OPTIONAL" \/ type[Top] = "ROOT") =>
          s_documents' = s_documents /\ already_retrieved_docs' = already_retrieved_docs
      /\ k[Top] > 1 /\ ~ (type[Child] = "OPTIONAL" \/ type[Top] = "ROOT") =>
          /\ s_documents' = [s_documents EXCEPT ![Top] = s_documents[Top] \cap s_documents[Child]]
          /\ already_retrieved_docs' = [already_retrieved_docs EXCEPT ![Top] = ids[Child]]
  BY <1>a, Zenon DEF merge_and
<1>6. TypesInv'
  <2>1. TypesInv
    BY <1>0, <1>1 DEF IInv, MergeInv, Returned
  <2>2. type' = type \/ (type' = [type EXCEPT ![Child] = "OR_OPTIONAL"] /\ type[Child] \in OrTypes)
    BY <1>0 DEF merge_and
  <2>3. type \in [Nodes -> TermTypes \cup AndTypes \cup OrTypes \cup {"PHRASE", "NONE", "OR_OPTIONAL"}]
    BY DEF IInv, TypeOK
  <2>4. ASSUME NEW n \in Nodes
        PROVE  \/ type'[n] = query.type[n]
               \/ n \in merged /\ type'[n] = "OR_OPTIONAL" /\ query.type[n] \in OrTypes
    <3>1. CASE type'[n] = type[n]
      BY <2>1, <3>1 DEF TypesInv
    <3>2. CASE type'[n] # type[n]
      <4>1. n = Child /\ type'[n] = "OR_OPTIONAL" /\ type[n] \in OrTypes
        BY <2>2, <2>3, <3>2
      <4>2. QED
        BY <1>0, <1>2, <2>1, <4>1 DEF TypesInv, OrTypes
    <3>3. QED
      BY <3>1, <3>2
  <2>5. QED
    BY <1>0, <1>1, <2>4 DEF TypesInv
<1>7. CASE k[t] = 1
  <2> DEFINE A == IF arg[t] = NULL THEN ids[Child] ELSE arg[t]
  <2>1. /\ s_documents' = [s_documents EXCEPT ![Top] = s_documents[Child]]
        /\ already_retrieved_docs' = [already_retrieved_docs EXCEPT ![Top] = A]
    BY <1>0, <1>b, <1>7
  <2>2. IsPart(t, k[t])
    BY <1>0, <1>7 DEF IsPart
  <2>3. \A d \in s_documents[Child] : InSoFar(t, d)'
    BY <1>0, <1>2, <1>3, <1>7
  <2>4. \A d \in Docs : Fits(t, d) /\ InSoFar(t, d)' => d \in s_documents[Child]
    BY <1>0, <1>2, <1>3, <2>2
  <2>5. \A d \in Docs : Fits(t, d) /\ InSoFar(t, d)' => (A = NULL \/ d \in A)
    BY <1>0, <1>2, <2>4 DEF Fits
  <2> HIDE DEF A
  <2>6. Took(t, s_documents[Child], A)
    BY <2>1, <2>3, <2>4, <2>5 DEF Took
  <2>7. QED
    BY <1>0, <1>1, <1>6, <2>6, AdvanceInv
<1>8. CASE k[t] > 1 /\ (type[Child] = "OPTIONAL" \/ type[t] = "ROOT")
  <2>1. s_documents' = s_documents /\ already_retrieved_docs' = already_retrieved_docs
    BY <1>0, <1>b, <1>8
  <2>2. /\ s_documents' = [s_documents EXCEPT ![Top] = s_documents[t]]
        /\ already_retrieved_docs' = [already_retrieved_docs EXCEPT ![Top] = already_retrieved_docs[t]]
    BY <1>0, <1>2, <1>4, <2>1
  <2>3. ~ IsPart(t, k[t])
    BY <1>0, <1>2, <1>8 DEF IsPart
  <2>4. \A d : InSoFar(t, d)' <=> InSoFar(t, d)
    BY <1>3, <2>3
  <2>5. Took(t, s_documents[t], already_retrieved_docs[t])
    BY <1>5, <1>8, <2>2, <2>4 DEF Took
  <2>6. QED
    BY <1>0, <1>1, <1>6, <2>5, AdvanceInv
<1>9. CASE k[t] > 1 /\ ~ (type[Child] = "OPTIONAL" \/ type[t] = "ROOT")
  <2> DEFINE S == s_documents[t] \cap s_documents[Child]
  <2>1. /\ s_documents' = [s_documents EXCEPT ![Top] = S]
        /\ already_retrieved_docs' = [already_retrieved_docs EXCEPT ![Top] = ids[Child]]
    BY <1>0, <1>b, <1>9
  <2>2. IsPart(t, k[t])
    BY <1>0, <1>2, <1>9 DEF IsPart
  <2>3. \A d \in S : InSoFar(t, d)'
    BY <1>0, <1>2, <1>3, <1>5, <1>9
  <2>4. \A d \in Docs : Fits(t, d) /\ InSoFar(t, d)' => d \in S /\ d \in ids[Child]
    BY <1>0, <1>2, <1>3, <1>5, <1>9, <2>2
  <2> HIDE DEF S
  <2>5. Took(t, S, ids[Child])
    BY <2>1, <2>3, <2>4 DEF Took
  <2>6. QED
    BY <1>0, <1>1, <1>6, <2>5, AdvanceInv
<1>10. QED
  BY <1>0, <1>2, <1>7, <1>8, <1>9

\* merge_phrase takes the result of a child.
LEMMA PhraseInv == ASSUME IInv, merge_phrase PROVE Keeps
<1>0. PICK t : t = Top
  OBVIOUS
<1> DEFINE S == IF k[t] = 1 THEN s_documents[Child] ELSE s_documents[t] \cap s_documents[Child]
           A == IF k[t] = 1 /\ arg[t] # NULL THEN arg[t] ELSE ids[Child]
<1>1. /\ Returned /\ k' = [k EXCEPT ![Top] = @ + 1] /\ type[Top] = "PHRASE"
      /\ UNCHANGED <<query, arg, ids, merged, phase, stack, type>>
      /\ s_documents' = [s_documents EXCEPT ![Top] = S]
      /\ already_retrieved_docs' = [already_retrieved_docs EXCEPT ![Top] = A]
  BY <1>0 DEF merge_phrase
<1>2. /\ t \in Nodes /\ t \notin merged /\ k[t] \in Nat /\ k[t] >= 1
      /\ query.type[t] = "PHRASE" /\ query.type[t] \notin OrTypes
      /\ s_documents[Child] \subseteq ids[Child]
      /\ \A d \in s_documents[Child] : d \in Hits(query)[Child]
      /\ \A d \in Docs : d \in Hits(query)[Child] /\ Fits(t, d) /\ InSoFar(t, d)
                          => d \in s_documents[Child]
  BY <1>0, <1>1, ChildFacts DEF OrTypes
<1>3. \A d : /\ InSoFar(t, d)' <=> (InSoFar(t, d) /\ (IsPart(t, k[t]) => d \in Hits(query)[Child]))
             /\ k[t] = 1 => InSoFar(t, d)
  BY <1>0, <1>1, <1>2, SoFarNext
<1>4. k[t] > 1 => /\ \A d \in s_documents[t] : InSoFar(t, d)
                  /\ \A d \in Docs : Fits(t, d) /\ InSoFar(t, d) => d \in s_documents[t]
  BY <1>0, <1>1, <1>2 DEF IInv, MergeInv, SoFarInv, Returned
<1>5. TypesInv'
  BY <1>0, <1>1 DEF IInv, MergeInv, TypesInv, Returned
<1>6. IsPart(t, k[t]) /\ (k[t] = 1 \/ k[t] > 1)
  BY <1>0, <1>2 DEF IsPart
<1>7. \A d \in S : InSoFar(t, d)'
  BY <1>0, <1>2, <1>3, <1>4, <1>6
<1>8. \A d \in Docs : Fits(t, d) /\ InSoFar(t, d)' => d \in S /\ d \in ids[Child]
  BY <1>0, <1>2, <1>3, <1>4, <1>6
<1>9. \A d \in Docs : Fits(t, d) /\ InSoFar(t, d)' => (A = NULL \/ d \in A)
  BY <1>0, <1>8 DEF Fits
<1> HIDE DEF S, A
<1>10. Took(t, S, A)
  BY <1>1, <1>7, <1>8, <1>9 DEF Took
<1>11. QED
  BY <1>0, <1>1, <1>5, <1>10, AdvanceInv

\* merge_or takes the result of a child, which was evaluated as if it were alone.
LEMMA OrInv == ASSUME IInv, merge_or PROVE Keeps
<1>0. PICK t : t = Top
  OBVIOUS
<1> DEFINE S == IF k[t] = 1 THEN s_documents[Child]
                ELSE IF type[Child] = "OPTIONAL" THEN s_documents[t]
                ELSE s_documents[t] \cup s_documents[Child]
<1>1. /\ Returned /\ k' = [k EXCEPT ![Top] = @ + 1] /\ type[Top] \in OrTypes
      /\ UNCHANGED <<query, arg, ids, merged, phase, stack, type, already_retrieved_docs>>
      /\ s_documents' = [s_documents EXCEPT ![Top] = S]
  BY <1>0 DEF merge_or
<1>2. /\ t \in Nodes /\ t \notin merged /\ k[t] \in Nat /\ k[t] >= 1
      /\ query.type[t] \in OrTypes /\ query.type[t] # "ROOT" /\ query.type[t] # "PHRASE"
      /\ Child = query.kids[t][k[t]]
      /\ (type[Child] = "OPTIONAL" <=> query.type[Child] = "OPTIONAL")
      /\ \A d \in s_documents[Child] : d \in Hits(query)[Child]
      /\ \A d \in Docs : d \in Hits(query)[Child] /\ Fits(t, d) => d \in s_documents[Child]
  BY <1>0, <1>1, ChildFacts DEF OrTypes
<1>3. \A d : /\ InSoFar(t, d)' <=> (InSoFar(t, d) \/ (IsPart(t, k[t]) /\ d \in Hits(query)[Child]))
             /\ k[t] = 1 => ~ InSoFar(t, d)
  BY <1>0, <1>1, <1>2, SoFarNext
<1>4. k[t] > 1 => /\ \A d \in s_documents[t] : InSoFar(t, d)
                  /\ \A d \in Docs : Fits(t, d) /\ InSoFar(t, d) => d \in s_documents[t]
  BY <1>0, <1>1, <1>2 DEF IInv, MergeInv, SoFarInv, Returned
<1>5. TypesInv'
  BY <1>0, <1>1 DEF IInv, MergeInv, TypesInv, Returned
<1>6. (k[t] = 1 \/ k[t] > 1) /\ (IsPart(t, k[t]) <=> (k[t] = 1 \/ type[Child] # "OPTIONAL"))
  BY <1>0, <1>2 DEF IsPart
<1>7. already_retrieved_docs' = [already_retrieved_docs EXCEPT ![Top] = already_retrieved_docs[t]]
  BY <1>0, <1>1, <1>2 DEF IInv, TypeOK
<1>8. \A d \in S : InSoFar(t, d)'
  BY <1>0, <1>2, <1>3, <1>4, <1>6
<1>9. \A d \in Docs : Fits(t, d) /\ InSoFar(t, d)' => d \in S
  BY <1>0, <1>2, <1>3, <1>4, <1>6
<1> HIDE DEF S
<1>10. Took(t, S, already_retrieved_docs[t])
  BY <1>1, <1>2, <1>7, <1>8, <1>9 DEF Took
<1>11. QED
  BY <1>0, <1>1, <1>5, <1>10, AdvanceInv

\* The node on top of the stack gets the documents S.
LEMMA EvaluatedInv ==
    ASSUME IInv, phase = "merge", stack # << >>,
           stack' = Pop(stack), merged' = merged \cup {Top},
           UNCHANGED <<query, k, arg, type, already_retrieved_docs>>,
           NEW S, s_documents' = [s_documents EXCEPT ![Top] = S],
           NEW I, ids' = [ids EXCEPT ![Top] = I], S \subseteq I,
           \A d \in S : d \in Hits(query)[Top],
           \A d \in Hits(query)[Top] : Fits(Top, d) => d \in S
    PROVE  Keeps
<1>1. MergeInv'
  BY PopInv
<1>2. Top \in Nodes /\ Top \notin merged
  BY TopFacts, TopActive DEF IInv, MergeInv
<1>3. /\ s_documents'[Top] = S /\ ids'[Top] = I
      /\ \A n \in merged : s_documents'[n] = s_documents[n] /\ ids'[n] = ids[n]
  BY <1>2 DEF IInv, TypeOK
<1>4. PruningExact'
  BY <1>3 DEF IInv, PruningExact, Fits
<1>5. IdsInv'
  BY <1>3 DEF IInv, IdsInv
<1>6. QED
  BY <1>1, <1>4, <1>5 DEF Keeps

\* A term is read from the index.
LEMMA LookupInv == ASSUME IInv, lookup_index PROVE Keeps
<1> DEFINE R == read_dids_with_feature(Top)
<1>1. /\ phase = "merge" /\ stack # << >> /\ type[Top] \in TermTypes
      /\ stack' = Pop(stack) /\ merged' = merged \cup {Top}
      /\ UNCHANGED <<query, k, arg, type, already_retrieved_docs>>
      /\ s_documents' = [s_documents EXCEPT ![Top] = R]
      /\ ids' = [ids EXCEPT ![Top] = R]
  BY DEF lookup_index
<1>2. Top \in Nodes
  BY <1>1, TopFacts DEF IInv
<1>3. query.type[Top] \in TermTypes
  BY <1>1, <1>2 DEF IInv, MergeInv, TypesInv, TermTypes
<1>4. R \subseteq query.post[Top] /\ \A d \in query.post[Top] : Fits(Top, d) => d \in R
  BY <1>2, <1>3, ReadFacts DEF IInv
<1>5. Hits(query)[Top] = query.post[Top]
  <2>1. Hits(query)[Top] \subseteq Docs /\ query.post[Top] \subseteq Docs
    BY <1>2, <1>3 DEF IInv, QueryOK
  <2>2. \A d \in Docs : d \in Hits(query)[Top] <=> d \in query.post[Top]
    BY <1>2, <1>3, HitsAt DEF IInv
  <2> QED BY <2>1, <2>2
<1> HIDE DEF R
<1>6. QED
  BY <1>1, <1>4, <1>5, EvaluatedInv

\* An operator that has taken all its children has its hits.
LEMMA MakeIndexInv == ASSUME IInv, MakeIndex PROVE Keeps
<1>0. PICK t : t = Top
  OBVIOUS
<1> DEFINE S == IF type[t] = "PHRASE" THEN s_documents[t] \cap query.near[t] ELSE s_documents[t]
<1>1. /\ phase = "merge" /\ stack # << >> /\ type[t] \notin TermTypes /\ ~ AtChild
      /\ stack' = Pop(stack) /\ merged' = merged \cup {Top}
      /\ UNCHANGED <<query, k, arg, type, already_retrieved_docs>>
      /\ ids' = [ids EXCEPT ![Top] = s_documents[t]]
  BY <1>0 DEF MakeIndex
<1>2. TypeOK /\ QueryOK /\ MergeInv
  BY <1>1 DEF IInv
<1>3. t \in Nodes /\ t \notin merged /\ query.type[t] # "NONE"
  BY <1>0, <1>1, <1>2, TopFacts, TopActive DEF MergeInv
<1>4. s_documents' = [s_documents EXCEPT ![Top] = S]
  BY <1>0, <1>2, <1>3 DEF MakeIndex, TypeOK
<1>5. query.type[t] = type[t]
  BY <1>2, <1>3 DEF MergeInv, TypesInv
<1>6. k[t] = Len(query.kids[t]) + 1 /\ Len(query.kids[t]) \in Nat /\ k[t] > 1
  <2>1. k[t] \in 1 .. Len(query.kids[t]) + 1 /\ Len(query.kids[t]) \in Nat
    BY <1>2, <1>3, KidFacts DEF TypeOK
  <2>2. ~ (k[t] <= Len(query.kids[t]))
    BY <1>0, <1>1 DEF AtChild
  <2>3. Len(query.kids[t]) # 0
    BY <1>1, <1>2, <1>3, <1>5, KidFacts
  <2>4. QED
    BY <2>1, <2>2, <2>3
<1>7. /\ \A d \in s_documents[t] : d \in Docs /\ InSoFar(t, d)
      /\ \A d \in Docs : Fits(t, d) /\ InSoFar(t, d) => d \in s_documents[t]
  BY <1>2, <1>3, <1>6 DEF MergeInv, SoFarInv, TypeOK
<1>8. \A c : c \in Parts(query, t) <=> \E i \in 1 .. k[t] - 1 : IsPart(t, i) /\ c = query.kids[t][i]
  <2>1. 1 .. k[t] - 1 = 1 .. Len(query.kids[t])
    BY <1>6
  <2>2. QED
    BY <2>1 DEF Parts, IsPart
<1> DEFINE H == Hits(query)
<1>9. H[t] \subseteq Docs
  BY <1>2, <1>3 DEF QueryOK
<1>10. query.type[t] \in AndTypes \cup OrTypes \cup {"PHRASE"}
  BY <1>1, <1>2, <1>3, <1>5 DEF QueryOK, IsTree
<1>11. ASSUME NEW d \in Docs
       PROVE  d \in H[t] <=> (InSoFar(t, d) /\ (type[t] = "PHRASE" => d \in query.near[t]))
  <2>1. CASE query.type[t] \in OrTypes
    <3>1. d \in H[t] <=> \E c \in Parts(query, t) : d \in H[c]
      BY <1>2, <1>3, <2>1, HitsAt
    <3>2. InSoFar(t, d) <=> \E c \in Parts(query, t) : d \in H[c]
      BY <1>8, <2>1 DEF InSoFar
    <3>3. query.type[t] # "PHRASE"
      BY <2>1 DEF OrTypes
    <3>4. QED
      BY <1>5, <3>1, <3>2, <3>3
  <2>2. CASE query.type[t] \in AndTypes \cup {"PHRASE"}
    <3>1. d \in H[t] <=> /\ query.type[t] = "PHRASE" => d \in query.near[t]
                         /\ \A c \in Parts(query, t) : d \in H[c]
      BY <1>2, <1>3, <2>2, HitsAt
    <3>2. query.type[t] \notin OrTypes
      BY <2>2 DEF AndTypes, OrTypes
    <3>3. InSoFar(t, d) <=> \A c \in Parts(query, t) : d \in H[c]
      BY <1>8, <3>2 DEF InSoFar
    <3>4. QED
      BY <1>5, <3>1, <3>3
  <2>3. QED
    BY <1>10, <2>1, <2>2
<1> HIDE DEF H
<1>12. S \subseteq s_documents[t]
  OBVIOUS
<1>13. \A d \in S : d \in Hits(query)[Top]
  BY <1>0, <1>7, <1>11 DEF H
<1>14. \A d \in Hits(query)[Top] : Fits(Top, d) => d \in S
  BY <1>0, <1>7, <1>9, <1>11 DEF H
<1> HIDE DEF S
<1>15. QED
  BY <1>1, <1>4, <1>12, <1>13, <1>14, EvaluatedInv

-----------------------------------------------------------------------------
\* The steps of the walk leave the documents of the nodes alone.
LEMMA WalkInv ==
    ASSUME IInv,
           \/ Collected \/ search \/ Finished \/ walk_and_or \/ WalkTerm \/ Reject
           \/ walk_and \/ walk_or \/ GoWild \/ UNCHANGED vars
    PROVE  PruningExact' /\ IdsInv' /\ (phase' = "merge" => MergeInv')
<1>1. UNCHANGED <<query, arg, merged, s_documents, ids, already_retrieved_docs>>
  BY DEF Collected, search, Finished, walk_and_or, WalkTerm, Reject, walk_and, walk_or, GoWild,
         Return, vars, tree
<1>2. PruningExact' /\ IdsInv'
  BY <1>1 DEF IInv, PruningExact, IdsInv
<1>3. phase' # "merge" \/ UNCHANGED vars
  BY DEF Collected, search, Finished, walk_and_or, WalkTerm, Reject, walk_and, walk_or, GoWild,
         Walked
<1>4. ASSUME UNCHANGED vars, MergeInv PROVE MergeInv'
  <2>1. StackInv' /\ KidsInv' /\ TypesInv'
    BY <1>4 DEF vars, tree, MergeInv, StackInv, Chain, KidsInv, TypesInv, Active
  <2>2. /\ \A n, d : (Fits(n, d)' <=> Fits(n, d)) /\ (InSoFar(n, d)' <=> InSoFar(n, d))
        /\ \A n : Active(n)' <=> Active(n)
        /\ UNCHANGED <<query, k, merged, s_documents, already_retrieved_docs>>
    BY <1>4, SoFarSame DEF vars, tree, Fits, Active
  <2>4. SoFarInv' /\ HandInv'
    BY <1>4, <2>2 DEF MergeInv, SoFarInv, HandInv
  <2>5. ArgInv'
    BY <1>4, <2>2 DEF MergeInv, ArgInv
  <2>3. QED
    BY <2>1, <2>4, <2>5 DEF MergeInv
<1>5. QED
  BY <1>2, <1>3, <1>4 DEF IInv, vars

\* The document that is walked.
LEMMA DocStep == ASSUME IInv, [Next]_vars PROVE DocInv'
<1>1. CASE merge_and_or \/ lookup_index \/ merge_and \/ merge_phrase \/ merge_or \/ MakeIndex
  <2>1. phase' = "merge"
    BY <1>1 DEF merge_and_or, lookup_index, merge_and, merge_phrase, merge_or, MakeIndex, Returned
  <2>2. QED
    BY <2>1 DEF DocInv
<1>2. CASE Collected \/ Finished
  BY <1>2 DEF Collected, Finished, DocInv
<1>3. CASE search
  <2>1. doc' \in todo
    BY <1>3, Smallest DEF search, IInv, TypeOK
  <2>2. QED
    BY <2>1 DEF IInv, TypeOK, DocInv
<1>4. CASE walk_and_or \/ WalkTerm \/ Reject \/ walk_and \/ walk_or \/ GoWild
  <2>1. phase # "merge" /\ stack # << >> /\ doc' = doc
    BY <1>4 DEF walk_and_or, WalkTerm, Reject, walk_and, walk_or, GoWild, Walked, Return
  <2>2. QED
    BY <2>1 DEF IInv, DocInv
<1>5. CASE UNCHANGED vars
  BY <1>5 DEF vars, IInv, DocInv
<1>6. QED
  BY <1>1, <1>2, <1>3, <1>4, <1>5 DEF Next

\* The invariant is inductive.
LEMMA StepInv == ASSUME IInv, [Next]_vars PROVE IInv'
<1>1. TypeOK' /\ QueryOK' /\ DocInv'
  BY TypeStep, QueryStep, DocStep DEF IInv
<1>2. PruningExact' /\ IdsInv' /\ (phase' = "merge" => MergeInv')
  <2>1. CASE merge_and_or
    <3>1. MergeInv'
      BY <2>1, PushInv
    <3>2. UNCHANGED <<query, s_documents, ids, merged>>
      BY <2>1 DEF merge_and_or
    <3>3. \A n \in merged : arg'[n] = arg[n]
      <4>1. Child \notin merged /\ arg' = [arg EXCEPT ![Child] = arg'[Child]]
        BY <2>1 DEF merge_and_or, IInv, TypeOK
      <4>2. QED
        BY <4>1 DEF IInv, TypeOK
    <3>4. QED
      BY <3>1, <3>2, <3>3 DEF IInv, PruningExact, IdsInv
  <2>2. CASE lookup_index \/ merge_and \/ merge_phrase \/ merge_or \/ MakeIndex
    BY <2>2, LookupInv, AndInv, PhraseInv, OrInv, MakeIndexInv DEF Keeps
  <2>3. CASE Collected \/ search \/ Finished \/ walk_and_or \/ WalkTerm \/ Reject
             \/ walk_and \/ walk_or \/ GoWild \/ UNCHANGED vars
    BY <2>3, WalkInv
  <2>4. QED
    BY <2>1, <2>2, <2>3 DEF Next
<1>3. QED
  BY <1>1, <1>2 DEF IInv

-----------------------------------------------------------------------------
\* The invariant holds throughout a search.
LEMMA Invariant == Spec => []IInv
  BY InitInv, StepInv, PTL DEF Spec

\* The state of a search has its type: in particular no node goes past its last child,
\* and the documents found are documents of the index.
THEOREM Typing == Spec => []TypeOK
<1>1. IInv => TypeOK
  BY DEF IInv
<1>2. QED
  BY <1>1, Invariant, PTL

\* Restricting what a term reads to the documents that were already retrieved loses no
\* document and adds none (merge_and_or, merge_and, merge_phrase, merge_or,
\* read_dids_with_feature): for every query tree and every index.
THEOREM PruningIsExact == Spec => []PruningExact
<1>1. IInv => PruningExact
  BY DEF IInv
<1>2. QED
  BY <1>1, Invariant, PTL

-----------------------------------------------------------------------------
(* The documents a search returns. *)

\* What child i of a node got leaves out no document that is a hit of the node as far as
\* the children before it tell.
Handed(n, i) ==
    \A d \in Docs :
        (/\ Fits(n, d)
         /\ \/ query.type[n] \in OrTypes
            \/ \A j \in 1 .. i - 1 : IsPart(n, j) => d \in Hits(query)[query.kids[n][j]])
        => Fits(query.kids[n][i], d)

\* Child i was evaluated and taken: n has no document that a child it combines does not
\* have, and an OR behind the body of a ROOT is not walked.
Done(n, i) ==
    LET c == query.kids[n][i]
    IN  /\ c \in merged /\ Handed(n, i)
        /\ query.type[n] \notin OrTypes /\ IsPart(n, i) => s_documents[n] \subseteq s_documents[c]
        /\ query.type[n] = "ROOT" /\ i > 1 /\ query.type[c] \in OrTypes => type[c] = "OR_OPTIONAL"

DoneInv == \A n \in Nodes : \A i \in 1 .. Len(query.kids[n]) :
    n \in merged \/ (phase = "merge" /\ i < k[n]) => Done(n, i)

\* Only what stands behind the body of a ROOT changes its type.
RetypedInv == \A n \in Nodes : type[n] # query.type[n] =>
    /\ type[n] = "OR_OPTIONAL"
    /\ \E m \in Nodes : \E i \in 2 .. Len(query.kids[m]) :
        query.type[m] = "ROOT" /\ query.kids[m][i] = n

\* The indexes when they are made, and the top node.
MadeInv ==
    /\ \A n \in merged : ids[n] = s_documents[n] \/ query.type[n] = "PHRASE"
    /\ phase = "merge" => \A n \in merged : s_documents_index[n] = ids[n]
    /\ arg[Root] = NULL
    /\ Root \in merged \/ (phase = "merge" /\ stack # << >>)
    /\ phase = "merge" => docs = {}

EvalInv == DoneInv /\ RetypedInv /\ MadeInv

\* The invariant holds when search() starts.
LEMMA InitEval == ASSUME Init PROVE EvalInv
<1>1. DoneInv
  BY DEF Init, DoneInv
<1>2. RetypedInv
  BY DEF Init, RetypedInv
<1>3. MadeInv
  BY QueriesAssumption DEF Init, MadeInv
<1>4. QED
  BY <1>1, <1>2, <1>3 DEF EvalInv

\* What was true of a child that was taken stays true.
LEMMA DoneKept ==
    ASSUME NEW n, NEW i, NEW c, c = query.kids[n][i], Done(n, i), query' = query,
           merged \subseteq merged', arg'[n] = arg[n], arg'[c] = arg[c],
           s_documents'[n] \subseteq s_documents[n], s_documents'[c] = s_documents[c],
           type[c] = "OR_OPTIONAL" => type'[c] = "OR_OPTIONAL"
    PROVE  Done(n, i)'
<1>1. \A d : (Fits(n, d)' <=> Fits(n, d)) /\ (Fits(c, d)' <=> Fits(c, d))
  BY DEF Fits
<1>2. \A j : IsPart(n, j)' <=> IsPart(n, j)
  BY DEF IsPart
<1>3. Handed(n, i)'
  BY <1>1, <1>2 DEF Done, Handed
<1>4. QED
  BY <1>2, <1>3 DEF Done

\* A step that calls a child.
LEMMA CallEval == ASSUME IInv, EvalInv, merge_and_or PROVE EvalInv'
<1>1. /\ phase = "merge" /\ stack # << >> /\ AtChild /\ Child \notin merged
      /\ stack' = Append(stack, Child)
      /\ UNCHANGED <<query, s_documents, ids, merged, type, phase, k, s_documents_index, docs>>
  BY DEF merge_and_or
<1>2. TypeOK /\ QueryOK /\ MergeInv
  BY <1>1 DEF IInv
<1>3. Child \in Nodes /\ Child # Root /\ ~ Active(Child)
  BY <1>1, <1>2, TopFacts, KidFacts, TopActive DEF MergeInv, Child
<1>4. \A n \in Nodes : n # Child => arg'[n] = arg[n]
  BY <1>2, <1>3 DEF merge_and_or, TypeOK
<1>5. DoneInv'
  <2> SUFFICES ASSUME NEW n \in Nodes, NEW i \in 1 .. Len(query.kids[n]),
                      n \in merged \/ i < k[n]
               PROVE  Done(n, i)'
    BY <1>1 DEF DoneInv
  <2>1. Done(n, i)
    BY <1>1 DEF EvalInv, DoneInv
  <2>2. n # Child
    <3>1. k[Child] = 1
      BY <1>1, <1>2, <1>3 DEF MergeInv, KidsInv
    <3>2. QED
      BY <1>1, <3>1
  <2>3. PICK c \in Nodes : c = query.kids[n][i]
    BY <1>2, KidFacts
  <2>4. c # Child
    BY <1>1, <2>1, <2>3 DEF Done
  <2>5. QED
    BY <1>1, <1>4, <2>1, <2>2, <2>3, <2>4, DoneKept
<1>6. RetypedInv'
  BY <1>1 DEF EvalInv, RetypedInv
<1>7. MadeInv'
  <2>1. arg'[Root] = arg[Root] /\ Root \in Nodes
    BY <1>2, <1>3, <1>4, KidFacts
  <2>2. stack' # << >>
    <3>1. stack \in Seq(Nodes)
      BY <1>2 DEF TypeOK
    <3>2. QED
      BY <1>1, <1>3, <3>1
  <2>3. QED
    BY <1>1, <2>1, <2>2 DEF EvalInv, MadeInv
<1>8. QED
  BY <1>5, <1>6, <1>7 DEF EvalInv

\* A step that takes the result of a child.
LEMMA TakeEval ==
    ASSUME IInv, EvalInv, Returned, NEW t, t = Top, k' = [k EXCEPT ![Top] = @ + 1],
           UNCHANGED <<query, arg, ids, merged, phase, stack, s_documents_index, docs>>,
           NEW S, s_documents' = [s_documents EXCEPT ![Top] = S],
           query.type[t] \notin OrTypes =>
                /\ k[t] > 1 => S \subseteq s_documents[t]
                /\ IsPart(t, k[t]) => S \subseteq s_documents[Child],
           \/ type' = type
           \/ /\ type' = [type EXCEPT ![Child] = "OR_OPTIONAL"]
              /\ query.type[t] = "ROOT" /\ k[t] > 1,
           query.type[t] = "ROOT" /\ k[t] > 1 /\ query.type[Child] \in OrTypes
                => type'[Child] = "OR_OPTIONAL"
    PROVE  EvalInv'
<1>1. TypeOK /\ QueryOK /\ MergeInv /\ phase = "merge" /\ stack # << >> /\ AtChild
  BY DEF IInv, Returned
<1>2. /\ t \in Nodes /\ Child \in Nodes /\ t \notin merged /\ Child \in merged
      /\ k[t] \in Nat /\ k[t] >= 1 /\ Child = query.kids[t][k[t]]
      /\ k[t] \in 1 .. Len(query.kids[t])
  BY <1>1, ChildFacts, TopFacts
<1>3. /\ k'[t] = k[t] + 1 /\ s_documents'[t] = S
      /\ \A n \in Nodes \ {t} : k'[n] = k[n] /\ s_documents'[n] = s_documents[n]
  BY <1>1, <1>2 DEF TypeOK
<1>4. \A n \in Nodes : type[n] = "OR_OPTIONAL" => type'[n] = "OR_OPTIONAL"
  BY <1>1, <1>2 DEF TypeOK
<1>5. DoneInv'
  <2> SUFFICES ASSUME NEW n \in Nodes, NEW i \in 1 .. Len(query.kids[n]),
                      n \in merged \/ i < k'[n]
               PROVE  Done(n, i)'
    BY <1>1 DEF DoneInv
  <2>0. PICK c \in Nodes : c = query.kids[n][i]
    BY <1>1, KidFacts
  <2>1. CASE n # t
    <3>1. Done(n, i)
      BY <1>1, <1>3, <2>1 DEF EvalInv, DoneInv
    <3>2. c # t
      BY <1>2, <2>0, <3>1 DEF Done
    <3>3. QED
      BY <1>3, <1>4, <2>0, <2>1, <3>1, <3>2, DoneKept
  <2>2. CASE n = t /\ i < k[t]
    <3>1. Done(n, i)
      BY <1>1, <2>2 DEF EvalInv, DoneInv
    <3>2. c # t
      BY <1>2, <2>0, <3>1 DEF Done
    <3>3. CASE query.type[t] \notin OrTypes
      <4>1. S \subseteq s_documents[t]
        BY <1>2, <2>2, <3>3
      <4>2. s_documents'[n] \subseteq s_documents[n] /\ s_documents'[c] = s_documents[c]
        BY <1>3, <2>0, <2>2, <3>2, <4>1
      <4>3. QED
        BY <1>4, <2>0, <3>1, <4>2, DoneKept
    <3>4. CASE query.type[t] \in OrTypes
      <4>1. Handed(n, i)'
        BY <3>1 DEF Done, Handed, Fits, IsPart
      <4>2. query.type[t] # "ROOT"
        BY <3>4 DEF OrTypes
      <4>3. c \in merged
        BY <2>0, <3>1 DEF Done
      <4>4. QED
        BY <2>0, <2>2, <3>4, <4>1, <4>2, <4>3 DEF Done
    <3>5. QED
      BY <3>3, <3>4
  <2>3. CASE n = t /\ i = k[t]
    <3>1. c = Child /\ c # t
      BY <1>2, <2>0, <2>3
    <3>2. Handed(t, i)
      <4> SUFFICES ASSUME NEW d \in Docs, Fits(t, d),
                          \/ query.type[t] \in OrTypes
                          \/ \A j \in 1 .. i - 1 :
                                IsPart(t, j) => d \in Hits(query)[query.kids[t][j]]
                   PROVE  Fits(c, d)
        BY <2>0, <2>3 DEF Handed
      <4>1. query.type[t] \in OrTypes \/ InSoFar(t, d)
        BY <2>3 DEF InSoFar
      <4>2. QED
        BY <1>1, <1>2, <3>1, <4>1 DEF MergeInv, ArgInv, AtChild
    <3>3. Handed(t, i)'
      BY <3>2 DEF Handed, Fits, IsPart
    <3>4. IsPart(t, i)' <=> IsPart(t, i)
      BY DEF IsPart
    <3>5. s_documents'[c] = s_documents[c]
      BY <1>3, <2>0, <3>1
    <3>6. QED
      BY <1>2, <1>3, <2>0, <2>3, <3>1, <3>3, <3>4, <3>5 DEF Done
  <2>4. n = t => i < k[t] \/ i = k[t]
    BY <1>2, <1>3
  <2>5. QED
    BY <2>1, <2>2, <2>3, <2>4
<1>6. RetypedInv'
  <2> SUFFICES ASSUME NEW n \in Nodes, type'[n] # query.type[n]
               PROVE  /\ type'[n] = "OR_OPTIONAL"
                      /\ \E m \in Nodes : \E i \in 2 .. Len(query.kids[m]) :
                            query.type[m] = "ROOT" /\ query.kids[m][i] = n
    BY DEF RetypedInv
  <2>1. CASE type'[n] = type[n]
    BY <2>1 DEF EvalInv, RetypedInv
  <2>2. CASE type'[n] # type[n]
    <3>1. n = Child /\ type'[n] = "OR_OPTIONAL" /\ query.type[t] = "ROOT" /\ k[t] > 1
      BY <1>1, <1>2, <2>2 DEF TypeOK
    <3>2. k[t] \in 2 .. Len(query.kids[t])
      BY <1>2, <3>1
    <3>3. QED
      BY <1>2, <3>1, <3>2
  <2>3. QED
    BY <2>1, <2>2
<1>7. MadeInv'
  <2>1. \A n \in merged : s_documents'[n] = s_documents[n]
    BY <1>1, <1>2, <1>3 DEF TypeOK
  <2>2. QED
    BY <1>1, <2>1 DEF EvalInv, MadeInv
<1>8. QED
  BY <1>5, <1>6, <1>7 DEF EvalInv

LEMMA AndEval == ASSUME IInv, EvalInv, merge_and PROVE EvalInv'
<1>0. PICK t : t = Top
  OBVIOUS
<1>1. /\ Returned /\ k' = [k EXCEPT ![Top] = @ + 1] /\ type[Top] \in AndTypes
      /\ UNCHANGED <<query, arg, ids, merged, phase, stack, s_documents_index, docs>>
  BY DEF merge_and
<1>2. /\ t \in Nodes /\ Child \in Nodes /\ k[t] \in Nat /\ k[t] >= 1
      /\ Child \in merged /\ Child = query.kids[t][k[t]] /\ query.type[t] = type[t]
      /\ query.type[t] \notin OrTypes /\ query.type[t] # "PHRASE"
      /\ (type[Child] = "OPTIONAL" <=> query.type[Child] = "OPTIONAL")
  BY <1>0, <1>1, ChildFacts DEF AndTypes, OrTypes
<1>3. TypeOK /\ TypesInv
  BY <1>1 DEF IInv, MergeInv, Returned
<1>a. k[Top] = 1 <=> ~ (k[Top] > 1)
  BY <1>0, <1>2
<1>b. /\ k[Top] = 1 =>
          s_documents' = [s_documents EXCEPT ![Top] = s_documents[Child]] /\ type' = type
      /\ k[Top] > 1 /\ type[Child] = "OPTIONAL" => s_documents' = s_documents /\ type' = type
      /\ k[Top] > 1 /\ type[Child] # "OPTIONAL" /\ type[Top] = "ROOT" =>
          /\ s_documents' = s_documents
          /\ type' = IF type[Child] \in OrTypes
                     THEN [type EXCEPT ![Child] = "OR_OPTIONAL"] ELSE type
      /\ k[Top] > 1 /\ type[Child] # "OPTIONAL" /\ type[Top] # "ROOT" =>
          /\ s_documents' = [s_documents EXCEPT ![Top] = s_documents[Top] \cap s_documents[Child]]
          /\ type' = type
  BY <1>a, Zenon DEF merge_and
<1>4. /\ type[Child] = query.type[Child] \/ type[Child] = "OR_OPTIONAL"
      /\ query.type[Child] \in OrTypes => query.type[Child] # "OPTIONAL"
  BY <1>2, <1>3 DEF TypesInv, OrTypes
<1> DEFINE S == s_documents'[t]
<1>5. s_documents' = [s_documents EXCEPT ![Top] = S]
  BY <1>0, <1>2, <1>3, <1>a, <1>b DEF TypeOK
<1>6. /\ k[t] > 1 => S \subseteq s_documents[t]
      /\ IsPart(t, k[t]) => S \subseteq s_documents[Child]
  <2>1. CASE k[t] = 1
    BY <1>0, <1>2, <1>3, <1>b, <2>1 DEF TypeOK
  <2>2. CASE k[t] > 1 /\ (type[Child] = "OPTIONAL" \/ type[t] = "ROOT")
    <3>1. s_documents' = s_documents
      BY <1>0, <1>b, <2>2
    <3>2. ~ IsPart(t, k[t])
      BY <1>2, <2>2 DEF IsPart
    <3>3. QED
      BY <3>1, <3>2
  <2>3. CASE k[t] > 1 /\ ~ (type[Child] = "OPTIONAL" \/ type[t] = "ROOT")
    BY <1>0, <1>2, <1>3, <1>b, <2>3 DEF TypeOK
  <2>4. QED
    BY <1>2, <2>1, <2>2, <2>3
<1>7. \/ type' = type
      \/ /\ type' = [type EXCEPT ![Child] = "OR_OPTIONAL"]
         /\ query.type[t] = "ROOT" /\ k[t] > 1
  BY <1>0, <1>2, <1>a, <1>b
<1>8. query.type[t] = "ROOT" /\ k[t] > 1 /\ query.type[Child] \in OrTypes
        => type'[Child] = "OR_OPTIONAL"
  BY <1>0, <1>2, <1>3, <1>4, <1>b DEF TypeOK
<1> HIDE DEF S
<1>9. QED
  BY <1>0, <1>1, <1>5, <1>6, <1>7, <1>8, TakeEval

LEMMA PhraseOrEval == ASSUME IInv, EvalInv, merge_phrase \/ merge_or PROVE EvalInv'
<1>0. PICK t : t = Top
  OBVIOUS
<1>1. /\ Returned /\ k' = [k EXCEPT ![Top] = @ + 1] /\ type' = type
      /\ type[Top] = "PHRASE" \/ type[Top] \in OrTypes
      /\ UNCHANGED <<query, arg, ids, merged, phase, stack, s_documents_index, docs>>
  BY DEF merge_phrase, merge_or
<1>2. /\ t \in Nodes /\ k[t] \in Nat /\ k[t] >= 1 /\ query.type[t] = type[t]
      /\ query.type[t] # "ROOT"
  BY <1>0, <1>1, ChildFacts DEF OrTypes
<1>3. TypeOK
  BY DEF IInv
<1> DEFINE S == s_documents'[t]
<1>4. s_documents' = [s_documents EXCEPT ![Top] = S]
  BY <1>0, <1>2, <1>3 DEF merge_phrase, merge_or, TypeOK
<1>5. query.type[t] \notin OrTypes =>
            /\ k[t] > 1 => S \subseteq s_documents[t]
            /\ IsPart(t, k[t]) => S \subseteq s_documents[Child]
  <2> HAVE query.type[t] \notin OrTypes
  <2>1. s_documents' = [s_documents EXCEPT ![Top] =
            IF k[Top] = 1 THEN s_documents[Child] ELSE s_documents[Top] \cap s_documents[Child]]
    BY <1>0, <1>1, <1>2 DEF merge_phrase, merge_or
  <2>2. QED
    BY <1>0, <1>2, <1>3, <2>1 DEF TypeOK
<1> HIDE DEF S
<1>6. QED
  BY <1>0, <1>1, <1>2, <1>4, <1>5, TakeEval

\* A step that makes the documents and the indexes of a node: the node has taken all its
\* children.
LEMMA MadeEval ==
    ASSUME IInv, EvalInv, phase = "merge", stack # << >>, ~ AtChild,
           NEW t, t = Top, merged' = merged \cup {Top},
           UNCHANGED <<query, arg, type, phase, k, docs>>,
           NEW S, s_documents' = [s_documents EXCEPT ![Top] = S],
           NEW I, ids' = [ids EXCEPT ![Top] = I],
           s_documents_index' = [s_documents_index EXCEPT ![Top] = I],
           I = S \/ query.type[t] = "PHRASE",
           query.type[t] \in TermTypes \/ S \subseteq s_documents[t],
           stack' = Pop(stack)
    PROVE  EvalInv'
<1>1. TypeOK /\ QueryOK /\ MergeInv
  BY DEF IInv
<1>2. t \in Nodes /\ t \notin merged /\ k[t] \in Nat /\ Len(query.kids[t]) \in Nat
  BY <1>1, TopFacts, TopActive, KidFacts DEF MergeInv
<1>3. /\ s_documents'[t] = S /\ ids'[t] = I /\ s_documents_index'[t] = I
      /\ \A n \in Nodes \ {t} : /\ s_documents'[n] = s_documents[n] /\ ids'[n] = ids[n]
                                /\ s_documents_index'[n] = s_documents_index[n]
  BY <1>1, <1>2 DEF TypeOK
<1>4. DoneInv'
  <2> SUFFICES ASSUME NEW n \in Nodes, NEW i \in 1 .. Len(query.kids[n]),
                      n \in merged' \/ i < k[n]
               PROVE  Done(n, i)'
    BY DEF DoneInv
  <2>0. PICK c \in Nodes : c = query.kids[n][i]
    BY <1>1, KidFacts
  <2>1. n = t => i < k[n] /\ query.type[t] \notin TermTypes
    <3>1. ~ (k[t] <= Len(query.kids[t]))
      BY DEF AtChild
    <3>2. n = t => i < k[n]
      BY <1>2, <3>1
    <3>3. query.type[t] \in TermTypes => Len(query.kids[t]) = 0
      BY <1>1, <1>2, KidFacts
    <3>4. n = t => query.type[t] \notin TermTypes
      BY <3>3
    <3>5. QED
      BY <3>2, <3>4
  <2>2. Done(n, i)
    BY <2>1 DEF EvalInv, DoneInv
  <2>3. c # t
    BY <1>2, <2>0, <2>2 DEF Done
  <2>4. s_documents'[n] \subseteq s_documents[n] /\ s_documents'[c] = s_documents[c]
    BY <1>3, <2>0, <2>1, <2>3
  <2>5. QED
    BY <2>0, <2>2, <2>4, DoneKept
<1>5. RetypedInv'
  BY DEF EvalInv, RetypedInv
<1>6. MadeInv'
  <2>1. \A n \in merged : n \in Nodes \ {t}
    BY <1>1, <1>2 DEF TypeOK
  <2>2. \A n \in merged' : ids'[n] = s_documents'[n] \/ query.type[n] = "PHRASE"
    BY <1>3, <2>1 DEF EvalInv, MadeInv
  <2>3. \A n \in merged' : s_documents_index'[n] = ids'[n]
    BY <1>3, <2>1 DEF EvalInv, MadeInv
  <2>4. Root \in merged' \/ stack' # << >>
    <3>1. CASE Len(stack) = 1
      <4>1. Top = Root
        BY <1>1, <3>1 DEF Top, MergeInv, StackInv, Chain
      <4>2. QED
        BY <4>1
    <3>2. CASE Len(stack) # 1
      <4>1. Len(stack) \in Nat \ {0} /\ Len(stack') = Len(stack) - 1
        BY <1>1, TopFacts
      <4>2. Len(stack') > 0
        BY <3>2, <4>1
      <4>3. QED
        BY <4>2
    <3>3. QED
      BY <3>1, <3>2
  <2>5. QED
    BY <2>2, <2>3, <2>4 DEF EvalInv, MadeInv
<1>7. QED
  BY <1>4, <1>5, <1>6 DEF EvalInv

LEMMA LookupEval == ASSUME IInv, EvalInv, lookup_index PROVE EvalInv'
<1>0. PICK t : t = Top
  OBVIOUS
<1> DEFINE S == read_dids_with_feature(Top)
<1>1. /\ phase = "merge" /\ stack # << >> /\ type[t] \in TermTypes
      /\ stack' = Pop(stack) /\ merged' = merged \cup {Top}
      /\ UNCHANGED <<query, arg, type, phase, k, docs>>
      /\ s_documents' = [s_documents EXCEPT ![Top] = S]
      /\ ids' = [ids EXCEPT ![Top] = S]
      /\ s_documents_index' = [s_documents_index EXCEPT ![Top] = S]
  BY <1>0 DEF lookup_index
<1>2. TypeOK /\ QueryOK /\ MergeInv /\ t \in Nodes
  BY <1>0, <1>1, TopFacts DEF IInv
<1>3. query.type[t] \in TermTypes
  BY <1>1, <1>2 DEF MergeInv, TypesInv, TermTypes
<1>4. ~ AtChild
  <2>1. Len(query.kids[t]) = 0 /\ k[t] \in Nat /\ k[t] >= 1
    BY <1>0, <1>1, <1>2, <1>3, KidFacts, TopFacts
  <2>2. QED
    BY <1>0, <2>1 DEF AtChild
<1> HIDE DEF S
<1>5. QED
  BY <1>0, <1>1, <1>3, <1>4, MadeEval

LEMMA MakeIndexEval == ASSUME IInv, EvalInv, MakeIndex PROVE EvalInv'
<1>0. PICK t : t = Top
  OBVIOUS
<1> DEFINE S == s_documents'[t]
           I == s_documents[t]
<1>1. /\ phase = "merge" /\ stack # << >> /\ ~ AtChild
      /\ stack' = Pop(stack) /\ merged' = merged \cup {Top}
      /\ UNCHANGED <<query, arg, type, phase, k, docs>>
      /\ ids' = [ids EXCEPT ![Top] = I]
      /\ s_documents_index' = [s_documents_index EXCEPT ![Top] = I]
  BY <1>0 DEF MakeIndex
<1>2. TypeOK /\ QueryOK /\ MergeInv /\ t \in Nodes /\ t \notin merged
  BY <1>0, <1>1, TopFacts, TopActive DEF IInv, MergeInv
<1>3. query.type[t] = type[t]
  BY <1>2 DEF MergeInv, TypesInv
<1>4. /\ s_documents' = [s_documents EXCEPT ![Top] = S]
      /\ I = S \/ query.type[t] = "PHRASE"
      /\ S \subseteq s_documents[t]
  BY <1>0, <1>2, <1>3 DEF MakeIndex, TypeOK
<1> HIDE DEF S, I
<1>5. QED
  BY <1>0, <1>1, <1>4, MadeEval

\* The walk changes none of this.
LEMMA WalkEval ==
    ASSUME IInv, EvalInv,
           \/ Collected \/ search \/ Finished \/ walk_and_or \/ WalkTerm \/ Reject
           \/ walk_and \/ walk_or \/ GoWild \/ UNCHANGED vars
    PROVE  EvalInv'
<1>1. UNCHANGED <<query, arg, merged, s_documents, ids, type>>
  BY DEF Collected, search, Finished, walk_and_or, WalkTerm, Reject, walk_and, walk_or, GoWild,
         Return, vars, tree
<1>2. \/ phase' # "merge" /\ (phase = "merge" => stack = << >>)
      \/ UNCHANGED <<phase, k, stack, s_documents_index, docs>>
  BY DEF Collected, search, Finished, walk_and_or, WalkTerm, Reject, walk_and, walk_or, GoWild,
         Walked, vars
<1>3. \A n \in Nodes : \A i \in 1 .. Len(query.kids[n]) : Done(n, i) => Done(n, i)'
  BY <1>1, DoneKept
<1>4. DoneInv'
  BY <1>1, <1>2, <1>3 DEF EvalInv, DoneInv
<1>5. RetypedInv'
  BY <1>1 DEF EvalInv, RetypedInv
<1>6. MadeInv'
  BY <1>1, <1>2 DEF EvalInv, MadeInv
<1>7. QED
  BY <1>4, <1>5, <1>6 DEF EvalInv

LEMMA StepEval == ASSUME IInv, EvalInv, [Next]_vars PROVE EvalInv'
  BY CallEval, AndEval, PhraseOrEval, LookupEval, MakeIndexEval, WalkEval DEF Next

-----------------------------------------------------------------------------
\* The nodes a document has to satisfy.
IsBody(S) ==
    /\ Root \in S
    /\ \A n \in S : query.type[n] # "OPTIONAL" /\ Needed(query, n) \subseteq S
Body == CHOOSE S \in SUBSET Nodes : IsBody(S)

LEMMA BodyFacts ==
    ASSUME QueryOK, HasBody(query)
    PROVE  /\ Body \subseteq Nodes /\ Root \in Body
           /\ \A n \in Body : query.type[n] # "OPTIONAL" /\ Needed(query, n) \subseteq Body
<1>1. \E S \in SUBSET Nodes : IsBody(S)
  BY DEF HasBody, IsBody
<1>2. Body \in SUBSET Nodes /\ IsBody(Body)
  BY <1>1 DEF Body
<1>3. QED
  BY <1>2 DEF IsBody

\* The children of a node, by place.
LEMMA Places ==
    ASSUME QueryOK, NEW n \in Nodes, query.type[n] \notin TermTypes \cup {"NONE"}
    PROVE  /\ 1 \in 1 .. Len(query.kids[n])
           /\ \A c : c \in Kids(query, n) <=> \E i \in 1 .. Len(query.kids[n]) : c = query.kids[n][i]
           /\ \A c : c \in Parts(query, n) <=>
                \E i \in 1 .. Len(query.kids[n]) : IsPart(n, i) /\ c = query.kids[n][i]
           /\ query.kids[n][1] \in Needed(query, n)
           /\ \A i \in 1 .. Len(query.kids[n]) :
                query.type[n] # "ROOT" \/ i = 1 => query.kids[n][i] \in Needed(query, n)
           /\ query.type[n] # "ROOT" => Needed(query, n) = Kids(query, n)
           /\ Needed(query, n) \subseteq Kids(query, n)
<1>1. Len(query.kids[n]) \in Nat /\ Len(query.kids[n]) # 0
  BY KidFacts
<1>2. 1 \in 1 .. Len(query.kids[n])
  BY <1>1
<1>3. \A c : c \in Kids(query, n) <=> \E i \in 1 .. Len(query.kids[n]) : c = query.kids[n][i]
  BY DEF Kids
<1>4. \A c : c \in Parts(query, n) <=>
        \E i \in 1 .. Len(query.kids[n]) : IsPart(n, i) /\ c = query.kids[n][i]
  BY DEF Parts, IsPart
<1>5. QED
  BY <1>2, <1>3, <1>4 DEF Needed

\* What a query stands for is among the hits.
LEMMA Among ==
    ASSUME QueryOK, HasBody(query)
    PROVE  \A n \in Body : \A d \in Docs : d \in Wanted(query)[n] => d \in Hits(query)[n]
<1> DEFINE W == Wanted(query)
           H == Hits(query)
           Bad == {n \in Body : \E d \in Docs : d \in W[n] /\ d \notin H[n]}
<1>1. Body \subseteq Nodes /\ \A n \in Body : query.type[n] # "OPTIONAL" /\ Needed(query, n) \subseteq Body
  BY BodyFacts
<1>2. SUFFICES ASSUME Bad # {} PROVE FALSE
  OBVIOUS
<1>3. Bad \in SUBSET Nodes
  BY <1>1
<1>4. \A S \in SUBSET Nodes : S # {} => \E n \in S : Kids(query, n) \cap S = {}
  BY DEF QueryOK, IsTree
<1>5. PICK n \in Bad : Kids(query, n) \cap Bad = {}
  BY <1>2, <1>3, <1>4
<1>6. PICK d \in Docs : d \in W[n] /\ d \notin H[n]
  OBVIOUS
<1>7. n \in Nodes /\ n \in Body /\ query.type[n] # "OPTIONAL"
  BY <1>1
<1>8. \A c \in Kids(query, n) \cap Body : d \in W[c] => d \in H[c]
  BY <1>5
<1> HIDE DEF W, H, Bad
<1>9. query.type[n] \in TermTypes \cup AndTypes \cup OrTypes \cup {"PHRASE", "NONE"}
  BY <1>7 DEF QueryOK, IsTree
<1>10. CASE query.type[n] \in TermTypes
  BY <1>6, <1>7, <1>10, HitsAt, WantedAt DEF W, H
<1>11. CASE query.type[n] \in OrTypes
  <2>0. query.type[n] \notin TermTypes \cup {"NONE"} /\ query.type[n] # "ROOT"
    BY <1>11 DEF OrTypes, TermTypes
  <2>1. PICK c \in Needed(query, n) : d \in W[c]
    BY <1>6, <1>7, <1>11, WantedAt DEF W
  <2>2. c \in Kids(query, n) /\ c \in Body
    BY <1>1, <1>7, <2>0, Places
  <2>3. d \in H[c] /\ query.type[c] # "OPTIONAL"
    BY <1>1, <1>8, <2>1, <2>2
  <2>4. PICK i \in 1 .. Len(query.kids[n]) : c = query.kids[n][i]
    BY <1>7, <2>0, <2>2, Places
  <2>5. c \in Parts(query, n)
    BY <1>7, <2>0, <2>3, <2>4, Places DEF IsPart
  <2>6. QED
    BY <1>6, <1>7, <1>11, <2>3, <2>5, HitsAt DEF H
<1>12. CASE query.type[n] \in AndTypes \cup {"PHRASE"}
  <2>0. query.type[n] \notin TermTypes \cup {"NONE"}
    BY <1>12 DEF AndTypes, TermTypes
  <2>1. /\ query.type[n] \in Conditions => d \in query.near[n]
        /\ \A c \in Needed(query, n) : d \in W[c]
    BY <1>6, <1>7, <1>12, WantedAt DEF W
  <2>2. query.type[n] = "PHRASE" => d \in query.near[n]
    BY <2>1 DEF Conditions
  <2>3. ASSUME NEW c \in Parts(query, n) PROVE d \in H[c]
    <3>1. PICK i \in 1 .. Len(query.kids[n]) : IsPart(n, i) /\ c = query.kids[n][i]
      BY <1>7, <2>0, Places
    <3>2. c \in Needed(query, n)
      BY <1>7, <2>0, <3>1, Places DEF IsPart
    <3>3. c \in Kids(query, n) /\ c \in Body
      BY <1>1, <1>7, <2>0, <3>2, Places
    <3>4. QED
      BY <1>8, <2>1, <3>2, <3>3
  <2>4. QED
    BY <1>6, <1>7, <1>12, <2>2, <2>3, HitsAt DEF H
<1>13. CASE query.type[n] = "NONE"
  <2>1. W[n] = NodeDocs(query, [m \in Nodes |-> Needed(query, m)], Conditions, W, n)
    BY <1>7, WantedFacts DEF QueryOK, WantedOf, W
  <2>2. W[n] = {}
    BY <1>13, <2>1 DEF NodeDocs, TermTypes, AndTypes, OrTypes
  <2>3. QED
    BY <1>6, <2>2
<1>14. QED
  BY <1>9, <1>10, <1>11, <1>12, <1>13

-----------------------------------------------------------------------------
(* The walk. *)

\* The active calls of walk_and_or.
CallsInv ==
    /\ Chain
    /\ \A i \in 1 .. Len(stack) :
        LET n == stack[i]
        IN  /\ n \in merged /\ val[n] = "none"
            /\ n \in Body \/ type[n] \in {"OPTIONAL", "OR_OPTIONAL"}
    /\ stack # << >> => \A n \in Nodes : \A i \in 1 .. k[n] - 1 : val[query.kids[n][i]] # "none"

\* What the indexes still hold: the documents to come, and the one that is being walked
\* in the nodes that were not asked yet.
KeptInv ==
    /\ \A n \in merged : s_documents_index[n] \subseteq ids[n]
    /\ \A n \in merged : \A d \in todo : d \in ids[n] => d \in s_documents_index[n]
    /\ todo \subseteq s_documents[Root]
    /\ stack # << >> =>
        /\ doc \in s_documents[Root] /\ doc \notin todo /\ doc \notin rmsids
        /\ \A n \in merged : val[n] = "none" /\ doc \in ids[n] => doc \in s_documents_index[n]

\* What a node has answered.
Answered(n) ==
    /\ type[n] \in {"OPTIONAL", "OR_OPTIONAL"} => val[n] = "true"
    /\ n \in Body /\ type[n] # "OR_OPTIONAL" =>
        /\ val[n] = "true" => doc \in Wanted(query)[n] /\ doc \in s_documents_index[n]
        /\ doc \in Wanted(query)[n] /\ Fits(n, doc) => val[n] = "true"
AnsweredInv == stack # << >> => \A n \in merged : val[n] # "none" => Answered(n)

\* The result so far.
ResultInv == \A d \in Docs : d \in docs <=>
    d \in Wanted(query)[Root] \ rmsids /\ d \notin todo /\ (stack # << >> => d # doc)

WalkedInv == CallsInv /\ KeptInv /\ AnsweredInv

FoundInv == HasBody(query) =>
    /\ phase = "walk" => WalkedInv
    /\ phase # "merge" => ResultInv
    /\ phase = "end" => todo = {} /\ stack = << >>
    /\ phase # "wild"

\* A child of a node that is walked: it has to be satisfied, or need not.
LEMMA WalkedChild ==
    ASSUME IInv, EvalInv, HasBody(query), NEW n \in Body, n \in merged,
           query.type[n] \notin TermTypes \cup {"NONE"},
           NEW i \in 1 .. Len(query.kids[n]), NEW c, c = query.kids[n][i]
    PROVE  /\ c \in Nodes /\ c \in merged /\ Handed(n, i)
           /\ query.type[n] # "ROOT" \/ i = 1 =>
                /\ c \in Body /\ c \in Needed(query, n)
                /\ type[c] = query.type[c] /\ type[c] # "OPTIONAL" /\ type[c] # "OR_OPTIONAL"
           /\ query.type[n] = "ROOT" /\ i # 1 => type[c] \in {"OPTIONAL", "OR_OPTIONAL"}
<1>1. QueryOK
  BY DEF IInv
<1>2. Body \subseteq Nodes /\ n \in Nodes /\ query.type[n] # "OPTIONAL" /\ Needed(query, n) \subseteq Body
  BY <1>1, BodyFacts
<1>3. c \in Nodes /\ c \in merged /\ Handed(n, i) /\ Done(n, i)
  BY <1>1, <1>2, KidFacts DEF EvalInv, DoneInv, Done
<1>4. ASSUME query.type[n] # "ROOT" \/ i = 1
      PROVE  /\ c \in Body /\ c \in Needed(query, n)
             /\ type[c] = query.type[c] /\ type[c] # "OPTIONAL" /\ type[c] # "OR_OPTIONAL"
  <2>1. c \in Needed(query, n) /\ c \in Body
    BY <1>1, <1>2, <1>4, Places
  <2>2. query.type[c] # "OPTIONAL"
    BY <1>1, <2>1, BodyFacts
  <2>3. query.type[c] # "OR_OPTIONAL"
    <3>1. query.type[c] \in TermTypes \cup AndTypes \cup OrTypes \cup {"PHRASE", "NONE"}
      BY <1>1, <1>3 DEF QueryOK, IsTree
    <3>2. QED
      BY <3>1 DEF TermTypes, AndTypes, OrTypes
  <2>4. type[c] = query.type[c]
    <3>1. SUFFICES ASSUME type[c] # query.type[c] PROVE FALSE
      OBVIOUS
    <3>2. PICK m \in Nodes : \E j \in 2 .. Len(query.kids[m]) :
                query.type[m] = "ROOT" /\ query.kids[m][j] = c
      BY <1>3, <3>1 DEF EvalInv, RetypedInv
    <3>3. PICK j \in 2 .. Len(query.kids[m]) : query.type[m] = "ROOT" /\ query.kids[m][j] = c
      BY <3>2
    <3>4. j \in 1 .. Len(query.kids[m]) /\ j # 1
      BY <1>1, KidFacts
    <3>5. m = n /\ j = i
      BY <1>1, <1>2, <3>3, <3>4, KidFacts
    <3>6. QED
      BY <1>4, <3>3, <3>4, <3>5
  <2>5. QED
    BY <2>1, <2>2, <2>3, <2>4
<1>5. ASSUME query.type[n] = "ROOT", i # 1
      PROVE  type[c] \in {"OPTIONAL", "OR_OPTIONAL"}
  <2>1. i > 1 /\ query.type[c] \in OrTypes \cup {"OPTIONAL"}
    <3>1. i > 1
      BY <1>5
    <3>2. QED
      BY <1>1, <1>2, <1>5, <3>1 DEF QueryOK, IsQuery
  <2>2. CASE query.type[c] \in OrTypes
    BY <1>3, <1>5, <2>1, <2>2 DEF Done
  <2>3. CASE query.type[c] = "OPTIONAL"
    BY <1>3, <2>3 DEF EvalInv, RetypedInv
  <2>4. QED
    BY <2>1, <2>2, <2>3
<1>6. QED
  BY <1>3, <1>4, <1>5

\* A call that is not the first one was made by the call before it.
LEMMA Caller ==
    ASSUME TypeOK, QueryOK, Chain, NEW l \in 1 .. Len(stack), l # 1
    PROVE  \E j \in 1 .. Len(stack) - 1 :
             /\ j = l - 1 /\ j \in 1 .. Len(stack) /\ stack[j] \in Nodes
             /\ k[stack[j]] \in 1 .. Len(query.kids[stack[j]])
             /\ stack[l] = query.kids[stack[j]][k[stack[j]]]
<1>1. stack \in Seq(Nodes) /\ Len(stack) \in Nat
  BY DEF TypeOK
<1>2. PICK j \in 1 .. Len(stack) - 1 : j = l - 1
  BY <1>1
<1>3. j \in 1 .. Len(stack) /\ stack[j] \in Nodes /\ j + 1 = l
  BY <1>1, <1>2
<1>4. k[stack[j]] \in 1 .. Len(query.kids[stack[j]]) + 1 /\ Len(query.kids[stack[j]]) \in Nat
  BY <1>3, KidFacts DEF TypeOK
<1>5. k[stack[j]] <= Len(query.kids[stack[j]]) /\ stack[l] = query.kids[stack[j]][k[stack[j]]]
  BY <1>3 DEF Chain
<1>6. QED
  BY <1>2, <1>3, <1>4, <1>5

\* The hypotheses of the lemmas on the walk.
Walking == IInv /\ EvalInv /\ HasBody(query) /\ phase = "walk" /\ WalkedInv /\ stack # << >>

LEMMA WalkingFacts ==
    ASSUME Walking
    PROVE  /\ TypeOK /\ QueryOK /\ Chain /\ doc \in Docs /\ Len(stack) \in Nat \ {0}
           /\ Body \subseteq Nodes /\ merged \subseteq Nodes
           /\ Len(stack) \in 1 .. Len(stack) /\ Top = stack[Len(stack)]
           /\ Top \in Nodes /\ Top \in merged /\ val[Top] = "none"
           /\ Top \in Body \/ type[Top] \in {"OPTIONAL", "OR_OPTIONAL"}
           /\ query.type[Top] # "NONE"
<1>1. TypeOK /\ QueryOK /\ Chain /\ doc \in Docs /\ CallsInv
  BY DEF Walking, WalkedInv, CallsInv, IInv, DocInv
<1>2. Len(stack) \in Nat \ {0} /\ Top \in Nodes
  BY <1>1, TopFacts DEF Walking
<1>3. Len(stack) \in 1 .. Len(stack) /\ Top = stack[Len(stack)]
  BY <1>2 DEF Top
<1>4. /\ Top \in merged /\ val[Top] = "none"
      /\ Top \in Body \/ type[Top] \in {"OPTIONAL", "OR_OPTIONAL"}
  BY <1>1, <1>3 DEF CallsInv
<1>5. query.type[Top] # "NONE"
  <2>1. CASE Len(stack) = 1
    BY <1>1, <1>3, <2>1, KidFacts DEF Chain
  <2>2. CASE Len(stack) # 1
    <3>1. PICK j \in 1 .. Len(stack) - 1 :
            /\ stack[j] \in Nodes /\ k[stack[j]] \in 1 .. Len(query.kids[stack[j]])
            /\ stack[Len(stack)] = query.kids[stack[j]][k[stack[j]]]
      BY <1>1, <1>3, <2>2, Caller
    <3>2. QED
      BY <1>1, <1>3, <3>1, KidFacts
  <2>3. QED
    BY <2>1, <2>2
<1>6. Body \subseteq Nodes /\ merged \subseteq Nodes
  BY <1>1, BodyFacts DEF Walking, TypeOK
<1>7. QED
  BY <1>1, <1>2, <1>3, <1>4, <1>5, <1>6

\* A node with children that is walked has to be satisfied.
LEMMA OperatorFacts ==
    ASSUME Walking, type[Top] \notin NotWalked
    PROVE  /\ Top \in Body /\ type[Top] = query.type[Top]
           /\ query.type[Top] \notin TermTypes \cup {"NONE"}
           /\ query.type[Top] \in AndTypes \cup OrTypes \cup {"PHRASE"}
<1>1. Top \in Body /\ Top \in Nodes /\ query.type[Top] # "NONE" /\ type[Top] # "OR_OPTIONAL"
  BY WalkingFacts DEF NotWalked, TermTypes
<1>2. type[Top] = query.type[Top]
  BY <1>1 DEF Walking, EvalInv, RetypedInv
<1>3. query.type[Top] \in TermTypes \cup AndTypes \cup OrTypes \cup {"PHRASE", "NONE"}
  BY <1>1, WalkingFacts DEF QueryOK, IsTree
<1>4. QED
  BY <1>1, <1>2, <1>3 DEF NotWalked

\* The expressions of a query, and a phrase in one, have the document that is walked.
LEMMA RootHolds ==
    ASSUME Walking, NEW l \in 1 .. Len(stack), query.type[stack[l]] = "ROOT"
    PROVE  doc \in s_documents[stack[l]]
<1>1. TypeOK /\ QueryOK /\ Chain /\ Len(stack) \in Nat \ {0}
  BY WalkingFacts
<1>2. doc \in s_documents[Root]
  BY DEF Walking, WalkedInv, KeptInv
<1>3. CASE l = 1
  BY <1>1, <1>2, <1>3 DEF Chain
<1>4. CASE l # 1
  <2>1. PICK j \in 1 .. Len(stack) - 1 :
            /\ j \in 1 .. Len(stack) /\ stack[j] \in Nodes
            /\ k[stack[j]] \in 1 .. Len(query.kids[stack[j]])
            /\ stack[l] = query.kids[stack[j]][k[stack[j]]]
    BY <1>1, <1>4, Caller
  <2>2. stack[j] = Root /\ query.type[stack[j]] = "PROX"
    BY <1>1, <2>1 DEF QueryOK, IsQuery
  <2>3. stack[j] \in merged
    BY <2>1 DEF Walking, WalkedInv, CallsInv
  <2>4. Done(stack[j], k[stack[j]])
    BY <2>1, <2>3 DEF Walking, EvalInv, DoneInv
  <2>5. IsPart(stack[j], k[stack[j]]) /\ query.type[stack[j]] \notin OrTypes
    BY <2>1, <2>2 DEF IsPart, OrTypes
  <2>6. s_documents[stack[j]] \subseteq s_documents[stack[l]]
    BY <2>1, <2>4, <2>5 DEF Done
  <2>7. QED
    BY <1>2, <2>2, <2>6
<1>5. QED
  BY <1>3, <1>4

LEMMA PhraseHolds ==
    ASSUME Walking, NEW n \in Nodes, n \in merged, query.type[n] = "ROOT", doc \in s_documents[n],
           NEW i \in 1 .. Len(query.kids[n]), query.type[query.kids[n][i]] = "PHRASE"
    PROVE  doc \in s_documents[query.kids[n][i]]
<1>1. QueryOK
  BY WalkingFacts
<1>2. i = 1
  <2>1. i = 1 \/ i > 1
    OBVIOUS
  <2>2. i > 1 => query.type[query.kids[n][i]] \in OrTypes \cup {"OPTIONAL"}
    BY <1>1 DEF QueryOK, IsQuery
  <2>3. QED
    BY <2>1, <2>2 DEF OrTypes
<1>3. Done(n, i)
  BY DEF Walking, EvalInv, DoneInv
<1>4. IsPart(n, i) /\ query.type[n] \notin OrTypes
  BY <1>2 DEF IsPart, OrTypes
<1>5. QED
  BY <1>3, <1>4 DEF Done

LEMMA NothingStale ==
    ASSUME Walking, type[Top] \notin NotWalked,
           NEW c \in Kids(query, Top) \cup {Top}, doc \in s_documents_index[c]
    PROVE  doc \in s_documents[c]
<1>1. /\ TypeOK /\ QueryOK /\ Chain /\ Top \in Nodes /\ Top \in merged
      /\ Len(stack) \in 1 .. Len(stack) /\ Top = stack[Len(stack)]
  BY WalkingFacts
<1>2. Top \in Body /\ query.type[Top] \notin TermTypes \cup {"NONE"}
  BY OperatorFacts
<1>3. c \in merged
  <2>1. CASE c = Top
    BY <1>1, <2>1
  <2>2. CASE c \in Kids(query, Top)
    <3>1. PICK i \in 1 .. Len(query.kids[Top]) : c = query.kids[Top][i]
      BY <2>2 DEF Kids
    <3>2. QED
      BY <1>1, <1>2, <3>1, WalkedChild DEF Walking
  <2>3. QED
    BY <2>1, <2>2
<1>4. doc \in ids[c]
  BY <1>3 DEF Walking, WalkedInv, KeptInv
<1>5. CASE query.type[c] # "PHRASE"
  BY <1>3, <1>4, <1>5 DEF Walking, EvalInv, MadeInv
<1>6. CASE query.type[c] = "PHRASE" /\ c = Top
  <2>1. CASE Len(stack) = 1
    BY <1>1, <1>6, <2>1 DEF Chain, Walking, WalkedInv, KeptInv
  <2>2. CASE Len(stack) # 1
    <3>1. PICK j \in 1 .. Len(stack) - 1 :
            /\ j \in 1 .. Len(stack) /\ stack[j] \in Nodes
            /\ k[stack[j]] \in 1 .. Len(query.kids[stack[j]])
            /\ stack[Len(stack)] = query.kids[stack[j]][k[stack[j]]]
      BY <1>1, <2>2, Caller
    <3>2. query.type[stack[j]] = "ROOT"
      BY <1>1, <1>6, <3>1 DEF QueryOK, IsQuery
    <3>3. stack[j] \in merged
      BY <3>1 DEF Walking, WalkedInv, CallsInv
    <3>4. doc \in s_documents[stack[j]]
      BY <3>1, <3>2, RootHolds
    <3>5. QED
      BY <1>1, <1>6, <3>1, <3>2, <3>3, <3>4, PhraseHolds
  <2>3. QED
    BY <2>1, <2>2
<1>7. CASE query.type[c] = "PHRASE" /\ c \in Kids(query, Top)
  <2>1. PICK i \in 1 .. Len(query.kids[Top]) : c = query.kids[Top][i]
    BY <1>7 DEF Kids
  <2>2. query.type[Top] = "ROOT"
    BY <1>1, <1>7, <2>1 DEF QueryOK, IsQuery
  <2>3. doc \in s_documents[Top]
    BY <1>1, <2>2, RootHolds
  <2>4. QED
    BY <1>1, <1>7, <2>1, <2>2, <2>3, PhraseHolds
<1>8. QED
  BY <1>5, <1>6, <1>7

-----------------------------------------------------------------------------
\* What the children of the top of the stack have answered.
LEMMA ChildAnswer ==
    ASSUME Walking, Walked, NEW i \in 1 .. Len(query.kids[Top]), NEW c, c = query.kids[Top][i]
    PROVE  /\ c \in Nodes /\ Answered(c) /\ Handed(Top, i)
           /\ query.type[Top] # "ROOT" \/ i = 1 =>
                /\ c \in Body /\ c \in Needed(query, Top)
                /\ type[c] # "OPTIONAL" /\ type[c] # "OR_OPTIONAL"
           /\ query.type[Top] = "ROOT" /\ i # 1 => val[c] = "true"
<1>1. TypeOK /\ QueryOK /\ Top \in Nodes /\ Top \in merged
  BY WalkingFacts
<1>2. Top \in Body /\ query.type[Top] \notin TermTypes \cup {"NONE"}
  BY OperatorFacts DEF Walked
<1>3. /\ c \in Nodes /\ c \in merged /\ Handed(Top, i)
      /\ query.type[Top] # "ROOT" \/ i = 1 =>
            /\ c \in Body /\ c \in Needed(query, Top)
            /\ type[c] # "OPTIONAL" /\ type[c] # "OR_OPTIONAL"
      /\ query.type[Top] = "ROOT" /\ i # 1 => type[c] \in {"OPTIONAL", "OR_OPTIONAL"}
  BY <1>1, <1>2, WalkedChild DEF Walking
<1>4. i \in 1 .. k[Top] - 1
  <2>1. k[Top] \in Nat /\ k[Top] \in 1 .. Len(query.kids[Top]) + 1 /\ Len(query.kids[Top]) \in Nat
    BY <1>1, KidFacts DEF TypeOK
  <2>2. ~ (k[Top] <= Len(query.kids[Top]))
    BY DEF Walked, AtChild
  <2>3. QED
    BY <2>1, <2>2
<1>5. val[c] # "none"
  BY <1>1, <1>4 DEF Walking, WalkedInv, CallsInv
<1>6. Answered(c)
  BY <1>3, <1>5 DEF Walking, WalkedInv, AnsweredInv
<1>7. QED
  BY <1>3, <1>6 DEF Answered

\* The children agree when the document is wanted.
LEMMA WantedAgree ==
    ASSUME Walking, Walked, doc \in Wanted(query)[Top], Fits(Top, doc)
    PROVE  ChildrenAgree
<1>1. TypeOK /\ QueryOK /\ Top \in Nodes /\ doc \in Docs /\ HasBody(query)
  BY WalkingFacts DEF Walking
<1>2. /\ Top \in Body /\ type[Top] = query.type[Top]
      /\ query.type[Top] \notin TermTypes \cup {"NONE"}
      /\ query.type[Top] \in AndTypes \cup OrTypes \cup {"PHRASE"}
  BY OperatorFacts DEF Walked
<1>3. CASE query.type[Top] \in OrTypes
  <2>0. query.type[Top] # "ROOT"
    BY <1>3 DEF OrTypes
  <2>1. PICK c \in Needed(query, Top) : doc \in Wanted(query)[c]
    BY <1>1, <1>3, WantedAt
  <2>2. c \in Kids(query, Top)
    BY <1>1, <1>2, <2>1, Places
  <2>3. PICK i \in 1 .. Len(query.kids[Top]) : c = query.kids[Top][i]
    BY <2>2 DEF Kids
  <2>4. Answered(c) /\ Handed(Top, i) /\ c \in Body /\ type[c] # "OR_OPTIONAL"
    BY <2>0, <2>3, ChildAnswer
  <2>5. Fits(c, doc)
    BY <1>1, <1>3, <2>3, <2>4 DEF Handed
  <2>6. val[c] = "true"
    BY <2>1, <2>4, <2>5 DEF Answered
  <2>7. QED
    BY <1>2, <1>3, <2>2, <2>6 DEF ChildrenAgree
<1>4. CASE query.type[Top] \in AndTypes \cup {"PHRASE"}
  <2>1. \A c \in Needed(query, Top) : doc \in Wanted(query)[c]
    BY <1>1, <1>4, WantedAt
  <2>2. query.type[Top] \notin OrTypes
    BY <1>4 DEF AndTypes, OrTypes
  <2>3. ASSUME NEW i \in 1 .. Len(query.kids[Top]), NEW c, c = query.kids[Top][i]
        PROVE  val[c] = "true"
    <3>1. CASE query.type[Top] = "ROOT" /\ i # 1
      BY <2>3, <3>1, ChildAnswer
    <3>2. CASE query.type[Top] # "ROOT" \/ i = 1
      <4>1. /\ Answered(c) /\ Handed(Top, i) /\ c \in Body /\ c \in Needed(query, Top)
            /\ type[c] # "OR_OPTIONAL"
        BY <2>3, <3>2, ChildAnswer
      <4>2. ASSUME NEW j \in 1 .. i - 1 PROVE doc \in Hits(query)[query.kids[Top][j]]
        <5>1. j \in 1 .. Len(query.kids[Top]) /\ query.type[Top] # "ROOT"
          <6>1. Len(query.kids[Top]) \in Nat
            BY <1>1, KidFacts
          <6>2. i # 1
            OBVIOUS
          <6>3. QED
            BY <3>2, <6>1, <6>2
        <5>2. query.kids[Top][j] \in Body /\ query.kids[Top][j] \in Needed(query, Top)
          BY <5>1, ChildAnswer
        <5>3. QED
          BY <1>1, <2>1, <5>2, Among
      <4>3. Fits(c, doc)
        BY <1>1, <2>3, <4>1, <4>2 DEF Handed
      <4>4. QED
        BY <2>1, <4>1, <4>3 DEF Answered
    <3>3. QED
      BY <3>1, <3>2
  <2>4. \A c \in Kids(query, Top) : val[c] = "true"
    BY <2>3 DEF Kids
  <2>5. QED
    BY <1>2, <2>2, <2>4 DEF ChildrenAgree
<1>5. QED
  BY <1>2, <1>3, <1>4

\* The document is wanted when they agree and the node has it, but for its positions.
LEMMA AgreeWanted ==
    ASSUME Walking, Walked, ChildrenAgree, doc \in s_documents[Top],
           type[Top] \in {"PROX", "ORDERED_PROX"} => doc \in query.near[Top]
    PROVE  doc \in Wanted(query)[Top]
<1>1. TypeOK /\ QueryOK /\ Top \in Nodes /\ doc \in Docs /\ HasBody(query) /\ Top \in merged
  BY WalkingFacts DEF Walking
<1>2. /\ Top \in Body /\ type[Top] = query.type[Top]
      /\ query.type[Top] \notin TermTypes \cup {"NONE"}
      /\ query.type[Top] \in AndTypes \cup OrTypes \cup {"PHRASE"}
  BY OperatorFacts DEF Walked
<1>3. ASSUME NEW c \in Needed(query, Top), val[c] = "true" PROVE doc \in Wanted(query)[c]
  <2>1. CASE query.type[Top] = "ROOT"
    <3>1. c = query.kids[Top][1] /\ 1 \in 1 .. Len(query.kids[Top])
      BY <1>1, <1>2, <1>3, <2>1, Places DEF Needed
    <3>2. Answered(c) /\ c \in Body /\ type[c] # "OR_OPTIONAL"
      BY <3>1, ChildAnswer
    <3>3. QED
      BY <1>3, <3>2 DEF Answered
  <2>2. CASE query.type[Top] # "ROOT"
    <3>1. PICK i \in 1 .. Len(query.kids[Top]) : c = query.kids[Top][i]
      BY <1>1, <1>2, Places
    <3>2. Answered(c) /\ c \in Body /\ type[c] # "OR_OPTIONAL"
      BY <2>2, <3>1, ChildAnswer
    <3>3. QED
      BY <1>3, <3>2 DEF Answered
  <2>3. QED
    BY <2>1, <2>2
<1>4. CASE query.type[Top] \in OrTypes
  <2>1. PICK c \in Kids(query, Top) : val[c] = "true"
    BY <1>2, <1>4 DEF ChildrenAgree
  <2>2. c \in Needed(query, Top)
    BY <1>4, <2>1 DEF Needed, OrTypes
  <2>3. QED
    BY <1>1, <1>3, <1>4, <2>1, <2>2, WantedAt
<1>5. CASE query.type[Top] \in AndTypes \cup {"PHRASE"}
  <2>1. query.type[Top] \notin OrTypes
    BY <1>5 DEF AndTypes, OrTypes
  <2>2. \A c \in Kids(query, Top) : val[c] = "true"
    BY <1>2, <2>1 DEF ChildrenAgree
  <2>3. \A c \in Needed(query, Top) : doc \in Wanted(query)[c]
    BY <1>1, <1>2, <1>3, <2>2, Places
  <2>4. query.type[Top] = "PHRASE" => doc \in query.near[Top]
    <3> HAVE query.type[Top] = "PHRASE"
    <3>1. doc \in Hits(query)[Top]
      BY <1>1 DEF Walking, IInv, PruningExact
    <3>2. QED
      BY <1>1, <1>5, <3>1, HitsAt
  <2>5. query.type[Top] \in Conditions => doc \in query.near[Top]
    BY <1>2, <2>4 DEF Conditions
  <2>6. QED
    BY <1>1, <1>5, <2>3, <2>5, WantedAt
<1>6. QED
  BY <1>2, <1>4, <1>5

\* A wanted document that the node was told to look at is in its index.
LEMMA WantedIndexed ==
    ASSUME Walking, Top \in Body, doc \in Wanted(query)[Top], Fits(Top, doc)
    PROVE  doc \in s_documents_index[Top]
<1>1. QueryOK /\ doc \in Docs /\ Top \in merged /\ val[Top] = "none" /\ HasBody(query)
  BY WalkingFacts DEF Walking
<1>2. doc \in Hits(query)[Top]
  BY <1>1, Among
<1>3. doc \in s_documents[Top]
  BY <1>1, <1>2 DEF Walking, IInv, PruningExact, Fits
<1>4. doc \in ids[Top]
  BY <1>1, <1>3 DEF Walking, IInv, IdsInv
<1>5. QED
  BY <1>1, <1>4 DEF Walking, WalkedInv, KeptInv

\* When the children agree there is a list of positions to look at.
LEMMA ListsThere ==
    ASSUME Walking, Walked, ChildrenAgree
    PROVE  HaveLists # {}
<1>1. TypeOK /\ QueryOK /\ Top \in Nodes
  BY WalkingFacts
<1>2. type[Top] = query.type[Top] /\ query.type[Top] \notin TermTypes \cup {"NONE"}
  BY OperatorFacts DEF Walked
<1>3. CASE query.type[Top] \in OrTypes
  <2>1. PICK c \in Kids(query, Top) : val[c] = "true"
    BY <1>2, <1>3 DEF ChildrenAgree
  <2>2. PICK i \in 1 .. Len(query.kids[Top]) : c = query.kids[Top][i]
    BY <2>1 DEF Kids
  <2>3. query.type[Top] # "ROOT"
    BY <1>3 DEF OrTypes
  <2>4. Answered(c) /\ c \in Body /\ type[c] # "OR_OPTIONAL"
    BY <2>2, <2>3, ChildAnswer
  <2>5. doc \in s_documents_index[c]
    BY <2>1, <2>4 DEF Answered
  <2>6. c \in HaveLists
    BY <1>2, <1>3, <2>1, <2>5 DEF HaveLists
  <2>7. QED
    BY <2>6
<1>4. CASE query.type[Top] \notin OrTypes
  <2>1. 1 \in 1 .. Len(query.kids[Top])
    BY <1>1, <1>2, Places
  <2>2. PICK c : c = query.kids[Top][1]
    OBVIOUS
  <2>3. Answered(c) /\ c \in Body /\ type[c] # "OR_OPTIONAL" /\ type[c] # "OPTIONAL"
    BY <2>1, <2>2, ChildAnswer
  <2>4. c \in Kids(query, Top)
    BY <2>1, <2>2 DEF Kids
  <2>5. val[c] = "true"
    BY <1>2, <1>4, <2>4 DEF ChildrenAgree
  <2>6. doc \in s_documents_index[c]
    BY <2>3, <2>5 DEF Answered
  <2>7. c \in HaveLists
    BY <2>3, <2>4, <2>6 DEF HaveLists
  <2>8. QED
    BY <2>7
<1>5. QED
  BY <1>3, <1>4

\* Nothing undefined is read.
LEMMA NotUndefined ==
    ASSUME Walking, Walked, ChildrenAgree
    PROVE  ~ Undefined
<1>1. type[Top] \notin NotWalked
  BY DEF Walked
<1>2. \A c \in Kids(query, Top) \cup {Top} : doc \in s_documents_index[c] => doc \in s_documents[c]
  BY <1>1, NothingStale
<1>3. HaveLists # {}
  BY ListsThere
<1>4. QED
  BY <1>2, <1>3 DEF Undefined

-----------------------------------------------------------------------------
(* The steps of the walk. *)

\* The invariant of the walk, for a query that has a body.
LEMMA FoundMeans ==
    ASSUME FoundInv, HasBody(query)
    PROVE  /\ phase = "walk" => WalkedInv
           /\ phase # "merge" => ResultInv
           /\ phase = "end" => todo = {} /\ stack = << >>
           /\ phase # "wild"
  BY DEF FoundInv

\* The body is that of the query.
LEMMA SameBody == ASSUME query' = query PROVE Body' = Body
<1>1. \A S : IsBody(S)' <=> IsBody(S)
  BY DEF IsBody
<1>2. QED
  BY <1>1 DEF Body

\* A call returns.
LEMMA ReturnFound ==
    ASSUME Walking, ResultInv, phase' = "walk",
           NEW t, t = Top, NEW ret \in {"true", "false"}, Return(ret),
           \/ s_documents_index' = s_documents_index
           \/ ret = "false" /\ remove_doc,
           type[t] \in {"OPTIONAL", "OR_OPTIONAL"} => ret = "true",
           t \in Body /\ type[t] # "OR_OPTIONAL" =>
                /\ ret = "true" => doc \in Wanted(query)[t] /\ doc \in s_documents_index[t]
                /\ doc \in Wanted(query)[t] /\ Fits(t, doc) => ret = "true"
    PROVE  WalkedInv' /\ ResultInv'
<1>1. /\ TypeOK /\ QueryOK /\ Chain /\ doc \in Docs /\ Len(stack) \in Nat \ {0}
      /\ merged \subseteq Nodes /\ t \in Nodes /\ t \in merged /\ stack # << >>
  BY WalkingFacts DEF Walking
<1>2. /\ val' = [val EXCEPT ![t] = ret] /\ stack' = Pop(stack)
      /\ docs' = IF ret = "true" /\ Len(stack) = 1 THEN docs \cup {doc} ELSE docs
      /\ UNCHANGED <<query, rmsids, arg, s_documents, ids, merged, type, k, todo, doc>>
  BY DEF Return, tree
<1>3. val'[t] = ret /\ \A n \in Nodes \ {t} : val'[n] = val[n]
  BY <1>1, <1>2 DEF TypeOK
<1>4. \A n \in merged : \A d :
        d \in s_documents_index'[n] <=>
            d \in s_documents_index[n] /\ ~ (n = t /\ d = doc /\ s_documents_index' # s_documents_index)
  BY <1>1 DEF remove_doc, TypeOK
<1>5. s_documents_index' # s_documents_index => ret = "false"
  OBVIOUS
<1>6. Chain' /\ \A n : Active(n)' <=> Active(n) /\ n # t
  BY <1>1, <1>2, PopChain
<1>7. Body' = Body
  BY <1>2, SameBody
<1>8. CallsInv /\ KeptInv /\ AnsweredInv
  BY DEF Walking, WalkedInv
<1>9. CallsInv'
  <2>1. ASSUME NEW i \in 1 .. Len(stack'), NEW n, n = stack'[i]
        PROVE  /\ n \in merged' /\ val'[n] = "none"
               /\ n \in Body \/ type'[n] \in {"OPTIONAL", "OR_OPTIONAL"}
    <3>1. Active(n) /\ n # t
      <4>1. Active(n)'
        BY <2>1 DEF Active
      <4>2. QED
        BY <1>6, <4>1
    <3>2. /\ n \in merged /\ val[n] = "none"
          /\ n \in Body \/ type[n] \in {"OPTIONAL", "OR_OPTIONAL"}
      BY <1>8, <3>1 DEF Active, CallsInv
    <3>3. QED
      BY <1>1, <1>2, <1>3, <3>1, <3>2
  <2>2. \A n \in Nodes : \A i \in 1 .. k[n] - 1 : val'[query.kids[n][i]] # "none"
    <3> SUFFICES ASSUME NEW n \in Nodes, NEW i \in 1 .. k[n] - 1
                 PROVE  val'[query.kids[n][i]] # "none"
      OBVIOUS
    <3>1. val[query.kids[n][i]] # "none"
      BY <1>1, <1>8 DEF CallsInv
    <3>2. i \in 1 .. Len(query.kids[n])
      <4>1. k[n] \in Nat /\ k[n] \in 1 .. Len(query.kids[n]) + 1 /\ Len(query.kids[n]) \in Nat
        BY <1>1, KidFacts DEF TypeOK
      <4>2. QED
        BY <4>1
    <3>3. query.kids[n][i] \in Nodes
      BY <1>1, <3>2, KidFacts
    <3>4. QED
      BY <1>3, <3>1, <3>3
  <2>3. QED
    BY <1>2, <1>6, <1>7, <2>1, <2>2 DEF CallsInv
<1>10. KeptInv'
  <2>1. \A n \in merged : s_documents_index'[n] \subseteq ids[n]
    BY <1>4, <1>8 DEF KeptInv
  <2>2. doc \notin todo /\ doc \in s_documents[Root] /\ doc \notin rmsids /\ todo \subseteq s_documents[Root]
    BY <1>1, <1>8 DEF KeptInv
  <2>3. \A n \in merged : \A d \in todo : d \in ids[n] => d \in s_documents_index'[n]
    BY <1>4, <1>8, <2>2 DEF KeptInv
  <2>4. \A n \in merged : val'[n] = "none" /\ doc \in ids[n] => doc \in s_documents_index'[n]
    BY <1>1, <1>3, <1>4, <1>8 DEF KeptInv
  <2>5. QED
    BY <1>2, <2>1, <2>2, <2>3, <2>4 DEF KeptInv
<1>11. AnsweredInv'
  <2> SUFFICES ASSUME NEW n \in merged, val'[n] # "none" PROVE Answered(n)'
    BY <1>2 DEF AnsweredInv
  <2>1. Fits(n, doc)' <=> Fits(n, doc)
    BY <1>2 DEF Fits
  <2>2. CASE n = t
    BY <1>2, <1>3, <1>4, <1>5, <1>7, <2>1, <2>2 DEF Answered
  <2>3. CASE n # t
    <3>1. val'[n] = val[n] /\ Answered(n)
      BY <1>1, <1>3, <1>8, <2>3 DEF AnsweredInv
    <3>2. doc \in s_documents_index[n] => doc \in s_documents_index'[n]
      BY <1>4, <2>3
    <3>3. QED
      BY <1>2, <1>7, <2>1, <3>1, <3>2 DEF Answered
  <2>4. QED
    BY <2>2, <2>3
<1>12. ResultInv'
  <2>1. /\ \A d \in Docs : d \in docs <=>
            (d \in Wanted(query)[Root] \ rmsids /\ d \notin todo /\ d # doc)
    BY <1>1 DEF ResultInv
  <2>2. CASE Len(stack) = 1
    <3>1. t = Root
      BY <1>1, <2>2 DEF Top, Chain
    <3>2. stack' = << >>
      BY <1>1, <1>2, <2>2, TopFacts
    <3>3. Root \in Body
      BY <1>1, BodyFacts DEF Walking
    <3>4. type[Root] # "OR_OPTIONAL"
      <4>1. SUFFICES ASSUME type[Root] = "OR_OPTIONAL" PROVE FALSE
        OBVIOUS
      <4>2. query.type[Root] \in TermTypes \cup AndTypes \cup OrTypes \cup {"PHRASE", "NONE"}
        BY <1>1, <3>1 DEF QueryOK, IsTree
      <4>3. type[Root] # query.type[Root]
        BY <4>1, <4>2 DEF TermTypes, AndTypes, OrTypes
      <4>4. PICK m \in Nodes : \E i \in 2 .. Len(query.kids[m]) : query.kids[m][i] = Root
        BY <1>1, <3>1, <4>3 DEF Walking, EvalInv, RetypedInv
      <4>5. PICK i \in 2 .. Len(query.kids[m]) : query.kids[m][i] = Root
        BY <4>4
      <4>6. i \in 1 .. Len(query.kids[m])
        BY <1>1, KidFacts
      <4>7. QED
        BY <1>1, <4>5, <4>6, KidFacts
    <3>5. Fits(Root, doc)
      BY DEF Walking, EvalInv, MadeInv, Fits
    <3>6. ret = "true" <=> doc \in Wanted(query)[Root]
      BY <3>1, <3>3, <3>4, <3>5
    <3>7. doc \notin todo /\ doc \notin rmsids
      BY <1>1, <1>8 DEF KeptInv
    <3>8. \A d \in Docs : d \in docs' <=> (d \in Wanted(query)[Root] \ rmsids /\ d \notin todo)
      BY <1>2, <2>1, <2>2, <3>6, <3>7
    <3>9. QED
      BY <1>2, <3>2, <3>8 DEF ResultInv
  <2>3. CASE Len(stack) # 1
    <3>1. stack' # << >>
      <4>1. Len(stack') = Len(stack) - 1
        BY <1>1, <1>2, TopFacts
      <4>2. Len(stack') # 0
        BY <1>1, <2>3, <4>1
      <4>3. QED
        BY <4>2
    <3>2. docs' = docs
      BY <1>2, <2>3
    <3>3. QED
      BY <1>2, <2>1, <3>1, <3>2 DEF ResultInv
  <2>4. QED
    BY <2>2, <2>3
<1>13. QED
  BY <1>9, <1>10, <1>11, <1>12 DEF WalkedInv

\* A term, or a group of words behind the body, is asked.
LEMMA TermFound ==
    ASSUME Walking, ResultInv, WalkTerm PROVE WalkedInv' /\ ResultInv'
<1>0. PICK t : t = Top
  OBVIOUS
<1> DEFINE ret == Bool(type[Top] = "STRICT" => doc \in s_documents_index[Top])
<1>1. /\ type[t] \in NotWalked /\ Return(ret) /\ phase' = "walk"
      /\ s_documents_index' = s_documents_index
  BY <1>0 DEF WalkTerm
<1>2. /\ QueryOK /\ doc \in Docs /\ t \in Nodes /\ t \in merged /\ HasBody(query)
  BY <1>0, WalkingFacts DEF Walking
<1>3. ret \in {"true", "false"}
  BY DEF Bool
<1>4. type[t] \in {"OPTIONAL", "OR_OPTIONAL"} => ret = "true"
  BY <1>0 DEF Bool
<1>5. ASSUME t \in Body, type[t] # "OR_OPTIONAL"
      PROVE  /\ ret = "true" => doc \in Wanted(query)[t] /\ doc \in s_documents_index[t]
             /\ doc \in Wanted(query)[t] /\ Fits(t, doc) => ret = "true"
  <2>1. type[t] = query.type[t]
    BY <1>2, <1>5 DEF Walking, EvalInv, RetypedInv
  <2>2. query.type[t] # "OPTIONAL"
    BY <1>2, <1>5, BodyFacts
  <2>3. type[t] = "STRICT" /\ query.type[t] = "STRICT"
    BY <1>1, <1>5, <2>1, <2>2 DEF NotWalked, TermTypes
  <2>4. ret = "true" <=> doc \in s_documents_index[t]
    BY <1>0, <2>3 DEF Bool
  <2>5. ASSUME doc \in s_documents_index[t] PROVE doc \in Wanted(query)[t]
    <3>1. doc \in ids[t]
      BY <1>2, <2>5 DEF Walking, WalkedInv, KeptInv
    <3>2. doc \in s_documents[t]
      BY <1>2, <2>3, <3>1 DEF Walking, EvalInv, MadeInv
    <3>3. doc \in Hits(query)[t]
      BY <1>2, <3>2 DEF Walking, IInv, PruningExact
    <3>4. query.type[t] \in TermTypes
      BY <2>3 DEF TermTypes
    <3>5. QED
      BY <1>2, <3>3, <3>4, HitsAt, WantedAt
  <2>6. doc \in Wanted(query)[t] /\ Fits(t, doc) => doc \in s_documents_index[t]
    BY <1>0, <1>5, WantedIndexed
  <2>7. QED
    BY <2>4, <2>5, <2>6
<1> HIDE DEF ret
<1>6. QED
  BY <1>0, <1>1, <1>3, <1>4, <1>5, ReturnFound

\* An operator has walked its children.
LEMMA OperatorFound ==
    ASSUME Walking, ResultInv, Reject \/ walk_and \/ walk_or
    PROVE  WalkedInv' /\ ResultInv'
<1>0. PICK t : t = Top
  OBVIOUS
<1>1. Walked /\ phase' = "walk"
  BY DEF Reject, walk_and, walk_or, Walking
<1>2. QueryOK /\ t \in Nodes /\ doc \in Docs
  BY <1>0, WalkingFacts
<1>3. /\ t \in Body /\ type[t] = query.type[t] /\ type[t] \notin {"OPTIONAL", "OR_OPTIONAL"}
      /\ query.type[t] \in AndTypes \cup OrTypes \cup {"PHRASE"}
  BY <1>0, <1>1, OperatorFacts DEF Walked, NotWalked, TermTypes
<1>4. CASE Reject
  <2>1. Return("false") /\ remove_doc /\ ~ ChildrenAgree
    BY <1>4 DEF Reject
  <2>2. ~ (doc \in Wanted(query)[t] /\ Fits(t, doc))
    BY <1>0, <1>1, <2>1, WantedAgree
  <2>3. QED
    BY <1>0, <1>1, <1>3, <2>1, <2>2, ReturnFound
<1>5. CASE walk_and \/ walk_or
  <2> DEFINE near == type[t] \in {"PROX", "ORDERED_PROX"} => doc \in query.near[t]
             found == doc \in s_documents_index[t]
             ret == Bool(found /\ near)
  <2>1. ChildrenAgree /\ ~ Undefined
    BY <1>5 DEF walk_and, walk_or
  <2>2. type[t] \in OrTypes => near
    BY DEF OrTypes
  <2>3. /\ Return(ret)
        /\ s_documents_index' = s_documents_index \/ (ret = "false" /\ remove_doc)
    <3>1. CASE walk_and
      BY <1>0, <3>1 DEF walk_and, Bool
    <3>2. CASE walk_or
      <4>1. ret = Bool(found)
        BY <1>0, <2>2, <3>2 DEF walk_or, Bool
      <4>2. QED
        BY <1>0, <3>2, <4>1 DEF walk_or
    <3>3. QED
      BY <1>5, <3>1, <3>2
  <2>4. ret \in {"true", "false"} /\ (ret = "true" <=> found /\ near)
    BY DEF Bool
  <2>5. ASSUME found, near PROVE doc \in Wanted(query)[t]
    <3>1. type[Top] \notin NotWalked
      BY <1>1 DEF Walked
    <3>2. doc \in s_documents[t]
      BY <1>0, <2>5, <3>1, NothingStale
    <3>3. QED
      BY <1>0, <1>1, <2>1, <2>5, <3>2, AgreeWanted
  <2>6. ASSUME doc \in Wanted(query)[t], Fits(t, doc) PROVE found /\ near
    <3>1. found
      BY <1>0, <1>3, <2>6, WantedIndexed
    <3>2. near
      <4> SUFFICES ASSUME type[t] \in {"PROX", "ORDERED_PROX"} PROVE doc \in query.near[t]
        OBVIOUS
      <4>1. query.type[t] \in Conditions /\ query.type[t] \in AndTypes \cup {"PHRASE"}
        BY <1>3 DEF Conditions, AndTypes
      <4>2. QED
        BY <1>2, <2>6, <4>1, WantedAt
    <3>3. QED
      BY <3>1, <3>2
  <2>7. /\ ret = "true" => doc \in Wanted(query)[t] /\ doc \in s_documents_index[t]
        /\ doc \in Wanted(query)[t] /\ Fits(t, doc) => ret = "true"
    BY <2>4, <2>5, <2>6
  <2> HIDE DEF ret
  <2>8. QED
    BY <1>0, <1>1, <1>3, <2>3, <2>4, <2>7, ReturnFound
<1>6. QED
  BY <1>4, <1>5

\* A child is called, or has answered.
LEMMA DownFound ==
    ASSUME Walking, ResultInv, walk_and_or PROVE WalkedInv' /\ ResultInv'
<1>1. /\ type[Top] \notin NotWalked /\ AtChild /\ stack # << >>
      /\ UNCHANGED <<query, rmsids, arg, s_documents, ids, merged, type, s_documents_index, todo,
                     doc, val, docs>>
      /\ \/ val[Child] = "none" /\ stack' = Append(stack, Child) /\ k' = k
         \/ val[Child] # "none" /\ k' = [k EXCEPT ![Top] = @ + 1] /\ stack' = stack
  BY DEF walk_and_or, tree
<1>2. /\ TypeOK /\ QueryOK /\ Chain /\ Len(stack) \in Nat \ {0} /\ Top \in Nodes
      /\ Top \in merged
  BY WalkingFacts
<1>3. k[Top] \in 1 .. Len(query.kids[Top]) /\ Child = query.kids[Top][k[Top]] /\ Child \in Nodes
  BY <1>1, <1>2, TopFacts DEF Child
<1>4. Body' = Body
  BY <1>1, SameBody
<1>5. CallsInv /\ KeptInv /\ AnsweredInv
  BY DEF Walking, WalkedInv
<1>6. stack' # << >>
  <2>1. stack \in Seq(Nodes)
    BY <1>2 DEF TypeOK
  <2>2. QED
    BY <1>1, <1>3, <2>1
<1>7. KeptInv' /\ AnsweredInv' /\ ResultInv'
  <2>1. KeptInv'
    BY <1>1, <1>5 DEF KeptInv
  <2>2. \A n : Answered(n) => Answered(n)'
    BY <1>1, <1>4 DEF Answered, Fits
  <2>3. AnsweredInv'
    BY <1>1, <1>5, <2>2 DEF AnsweredInv
  <2>4. ResultInv'
    BY <1>1, <1>6 DEF ResultInv
  <2>5. QED
    BY <2>1, <2>3, <2>4
<1>8. CASE val[Child] = "none" /\ stack' = Append(stack, Child) /\ k' = k
  <2>1. Chain' /\ \A n : Active(n)' <=> Active(n) \/ n = Child
    BY <1>1, <1>2, <1>8, PushChain
  <2>2. Top \in Body /\ query.type[Top] \notin TermTypes \cup {"NONE"}
    BY <1>1, OperatorFacts
  <2>3. Child \in merged /\ (Child \in Body \/ type[Child] \in {"OPTIONAL", "OR_OPTIONAL"})
    BY <1>2, <1>3, <2>2, WalkedChild DEF Walking
  <2>4. ASSUME NEW i \in 1 .. Len(stack'), NEW n, n = stack'[i]
        PROVE  /\ n \in merged' /\ val'[n] = "none"
               /\ n \in Body \/ type'[n] \in {"OPTIONAL", "OR_OPTIONAL"}
    <3>1. Active(n) \/ n = Child
      <4>1. Active(n)'
        BY <2>4 DEF Active
      <4>2. QED
        BY <2>1, <4>1
    <3>2. CASE n = Child
      BY <1>1, <1>8, <2>3, <3>2
    <3>3. CASE Active(n)
      BY <1>1, <1>5, <3>3 DEF Active, CallsInv
    <3>4. QED
      BY <3>1, <3>2, <3>3
  <2>5. \A n \in Nodes : \A i \in 1 .. k[n] - 1 : val[query.kids[n][i]] # "none"
    BY <1>1, <1>5 DEF CallsInv
  <2>6. CallsInv'
    BY <1>1, <1>4, <1>8, <2>1, <2>4, <2>5 DEF CallsInv
  <2>7. QED
    BY <1>7, <2>6 DEF WalkedInv
<1>9. CASE val[Child] # "none" /\ k' = [k EXCEPT ![Top] = @ + 1] /\ stack' = stack
  <2>1. Chain'
    BY <1>1, <1>2, <1>9, AdvanceChain
  <2>2. k'[Top] = k[Top] + 1 /\ \A n \in Nodes \ {Top} : k'[n] = k[n]
    BY <1>2, <1>9 DEF TypeOK
  <2>3. ASSUME NEW n \in Nodes, NEW i \in 1 .. k'[n] - 1 PROVE val[query.kids[n][i]] # "none"
    <3>1. CASE n = Top /\ i = k[Top]
      BY <1>3, <1>9, <3>1
    <3>2. CASE ~ (n = Top /\ i = k[Top])
      <4>1. i \in 1 .. k[n] - 1
        BY <1>3, <2>2, <3>2
      <4>2. QED
        BY <1>1, <1>5, <4>1 DEF CallsInv
    <3>3. QED
      BY <3>1, <3>2
  <2>4. CallsInv'
    BY <1>1, <1>4, <1>5, <1>9, <2>1, <2>3 DEF CallsInv
  <2>5. QED
    BY <1>7, <2>4 DEF WalkedInv
<1>10. QED
  BY <1>1, <1>8, <1>9

\* The next candidate.
LEMMA SearchFound ==
    ASSUME IInv, EvalInv, HasBody(query), WalkedInv, ResultInv, search
    PROVE  WalkedInv' /\ ResultInv'
<1>0. PICK x : x = Min(todo)
  OBVIOUS
<1>1. /\ phase = "walk" /\ stack = << >> /\ todo # {} /\ todo' = todo \ {x} /\ doc' = x
      /\ UNCHANGED <<query, rmsids, arg, s_documents, ids, merged, type, s_documents_index, docs>>
      /\ \/ x \in rmsids /\ UNCHANGED <<stack, k, val>>
         \/ /\ x \notin rmsids /\ stack' = <<Root>>
            /\ k' = [n \in Nodes |-> 1] /\ val' = [n \in Nodes |-> "none"]
  BY <1>0 DEF search, tree
<1>2. TypeOK /\ QueryOK
  BY DEF IInv
<1>3. x \in todo /\ x \in Docs
  BY <1>0, <1>1, <1>2, Smallest DEF TypeOK
<1>4. CallsInv /\ KeptInv
  BY DEF WalkedInv
<1>5. Body' = Body
  BY <1>1, SameBody
<1>6. CASE x \in rmsids /\ UNCHANGED <<stack, k, val>>
  <2>1. CallsInv'
    BY <1>1, <1>4, <1>5, <1>6 DEF CallsInv, Chain
  <2>2. KeptInv'
    BY <1>1, <1>4, <1>6 DEF KeptInv
  <2>3. AnsweredInv'
    BY <1>1, <1>6 DEF AnsweredInv
  <2>4. ResultInv'
    BY <1>1, <1>6 DEF ResultInv
  <2>5. QED
    BY <2>1, <2>2, <2>3, <2>4 DEF WalkedInv
<1>7. CASE /\ x \notin rmsids /\ stack' = <<Root>>
           /\ k' = [n \in Nodes |-> 1] /\ val' = [n \in Nodes |-> "none"]
  <2>0. Root \in Nodes /\ Root \in merged /\ Root \in Body /\ merged \subseteq Nodes
    BY <1>1, <1>2, KidFacts, BodyFacts DEF EvalInv, MadeInv, TypeOK
  <2>1. Len(stack') = 1 /\ stack'[1] = Root /\ stack' # << >>
    BY <1>7
  <2>2. Chain'
    BY <2>1 DEF Chain
  <2>3. CallsInv'
    BY <1>1, <1>5, <1>7, <2>0, <2>1, <2>2 DEF CallsInv
  <2>4. KeptInv'
    BY <1>1, <1>3, <1>4, <1>7 DEF KeptInv
  <2>5. AnsweredInv'
    BY <1>1, <1>7, <2>0 DEF AnsweredInv
  <2>6. ResultInv'
    BY <1>1, <1>3, <1>7, <2>1 DEF ResultInv
  <2>7. QED
    BY <2>3, <2>4, <2>5, <2>6 DEF WalkedInv
<1>8. QED
  BY <1>1, <1>6, <1>7

\* The documents of the top node are the candidates: none that is wanted is missing.
LEMMA CollectedFound ==
    ASSUME IInv, EvalInv, HasBody(query), Collected
    PROVE  WalkedInv' /\ ResultInv'
<1>1. /\ phase = "merge" /\ stack = << >> /\ todo' = s_documents[Root]
      /\ UNCHANGED <<query, rmsids, arg, s_documents, ids, merged, type, s_documents_index, docs,
                     stack, k, val, doc>>
  BY DEF Collected, tree
<1>2. TypeOK /\ QueryOK /\ Root \in merged /\ arg[Root] = NULL /\ docs = {}
  BY <1>1 DEF IInv, EvalInv, MadeInv
<1>3. \A n \in merged : s_documents_index[n] = ids[n]
  BY <1>1 DEF EvalInv, MadeInv
<1>4. Root \in Body
  BY <1>2, BodyFacts
<1>5. \A d \in Docs : d \in Wanted(query)[Root] => d \in s_documents[Root]
  <2>1. \A d \in Docs : d \in Wanted(query)[Root] => d \in Hits(query)[Root]
    BY <1>2, <1>4, Among
  <2>2. QED
    BY <1>2, <2>1 DEF IInv, PruningExact
<1>6. CallsInv'
  BY <1>1 DEF CallsInv, Chain
<1>7. KeptInv'
  BY <1>1, <1>3 DEF KeptInv
<1>8. AnsweredInv'
  BY <1>1 DEF AnsweredInv
<1>9. ResultInv'
  BY <1>1, <1>2, <1>5 DEF ResultInv
<1>10. QED
  BY <1>6, <1>7, <1>8, <1>9 DEF WalkedInv

LEMMA StepFound == ASSUME IInv, EvalInv, FoundInv, [Next]_vars PROVE FoundInv'
<1>0. query' = query
  BY QueryStep DEF IInv
<1>1. SUFFICES ASSUME HasBody(query)
               PROVE  /\ phase' = "walk" => WalkedInv'
                      /\ phase' # "merge" => ResultInv'
                      /\ phase' = "end" => todo' = {} /\ stack' = << >>
                      /\ phase' # "wild"
  BY <1>0 DEF FoundInv
<1>2. /\ phase = "walk" => WalkedInv
      /\ phase # "merge" => ResultInv
      /\ phase = "end" => todo = {} /\ stack = << >>
      /\ phase # "wild"
  BY <1>1, FoundMeans
<1>3. CASE merge_and_or \/ lookup_index \/ merge_and \/ merge_phrase \/ merge_or \/ MakeIndex
  <2>1. phase' = "merge"
    BY <1>3 DEF merge_and_or, lookup_index, merge_and, merge_phrase, merge_or, MakeIndex, Returned
  <2>2. QED
    BY <2>1
<1>4. CASE Collected
  <2>1. phase' = "walk"
    BY <1>4 DEF Collected
  <2>2. QED
    BY <1>1, <1>4, <2>1, CollectedFound
<1>5. CASE search
  <2>1. phase = "walk" /\ phase' = "walk"
    BY <1>5 DEF search
  <2>2. QED
    BY <1>1, <1>2, <1>5, <2>1, SearchFound
<1>6. CASE Finished
  <2>1. phase = "walk" /\ phase' = "end" /\ stack = << >> /\ todo = {}
        /\ UNCHANGED <<query, rmsids, stack, todo, doc, docs>>
    BY <1>6 DEF Finished, tree
  <2>2. ResultInv'
    BY <1>2, <2>1 DEF ResultInv
  <2>3. QED
    BY <2>1, <2>2
<1>7. CASE walk_and_or \/ WalkTerm \/ Reject \/ walk_and \/ walk_or \/ GoWild
  <2>1. phase = "walk" /\ stack # << >>
    BY <1>7 DEF walk_and_or, WalkTerm, Reject, walk_and, walk_or, GoWild, Walked
  <2>2. Walking /\ ResultInv
    BY <1>1, <1>2, <2>1 DEF Walking
  <2>3. CASE GoWild
    <3>1. Walked /\ ChildrenAgree /\ Undefined
      BY <2>3 DEF GoWild
    <3>2. QED
      BY <2>2, <3>1, NotUndefined
  <2>4. CASE walk_and_or \/ WalkTerm \/ Reject \/ walk_and \/ walk_or
    <3>1. phase' = "walk"
      BY <2>1, <2>4 DEF walk_and_or, WalkTerm, Reject, walk_and, walk_or
    <3>2. QED
      BY <2>2, <2>4, <3>1, DownFound, TermFound, OperatorFound
  <2>5. QED
    BY <1>7, <2>3, <2>4
<1>8. CASE UNCHANGED vars
  <2>1. UNCHANGED <<query, rmsids, arg, s_documents, ids, merged, type, phase, stack, k,
                    s_documents_index, todo, doc, val, docs>>
    BY <1>8 DEF vars, tree
  <2>2. Body' = Body
    BY <2>1, SameBody
  <2>3. phase = "walk" => CallsInv' /\ KeptInv'
    BY <1>2, <2>1, <2>2 DEF WalkedInv, CallsInv, Chain, KeptInv
  <2>4. phase = "walk" => AnsweredInv'
    BY <1>2, <2>1, <2>2 DEF WalkedInv, AnsweredInv, Answered, Fits
  <2>5. phase # "merge" => ResultInv'
    BY <1>2, <2>1 DEF ResultInv
  <2>6. QED
    BY <1>2, <2>1, <2>3, <2>4, <2>5 DEF WalkedInv
<1>9. QED
  BY <1>3, <1>4, <1>5, <1>6, <1>7, <1>8 DEF Next

\* Both invariants hold throughout a search.
LEMMA SearchInvariant == Spec => [](IInv /\ EvalInv /\ FoundInv)
<1>1. Init => IInv /\ EvalInv /\ FoundInv
  <2>1. Init => FoundInv
    BY DEF Init, FoundInv
  <2>2. QED
    BY <2>1, InitInv, InitEval
<1>2. IInv /\ EvalInv /\ FoundInv /\ [Next]_vars => (IInv /\ EvalInv /\ FoundInv)'
  BY StepInv, StepEval, StepFound
<1>3. QED
  BY <1>1, <1>2, PTL DEF Spec

\* When search() has ended, its result is the documents the query stands for, less those
\* of the rmfiles (merge_and_or, walk_and_or, search): for every query with a body, over
\* every index.
THEOREM ResultIsRight == Spec => []ResultRight
<1>1. IInv /\ EvalInv /\ FoundInv => ResultRight
  <2> SUFFICES ASSUME IInv, FoundInv, phase = "end", HasBody(query)
               PROVE  docs = Wanted(query)[Root] \ rmsids
    BY DEF ResultRight
  <2>1. ResultInv /\ todo = {} /\ stack = << >>
    BY FoundMeans
  <2>2. QueryOK /\ docs \subseteq Docs
    BY DEF IInv, TypeOK
  <2>3. Wanted(query)[Root] \subseteq Docs
    BY <2>2, KidFacts, WantedFacts DEF QueryOK
  <2>4. \A d \in Docs : d \in docs <=> d \in Wanted(query)[Root] \ rmsids
    BY <2>1 DEF ResultInv
  <2>5. QED
    BY <2>2, <2>3, <2>4
<1>2. QED
  BY <1>1, SearchInvariant, PTL

\* walk_and and walk_or never follow a stale entry of an index that merge_phrase left
\* behind, and never loop over no position list, for a query with a body.
THEOREM NeverUndefined == Spec => []AlwaysDefined
<1>1. IInv /\ EvalInv /\ FoundInv => AlwaysDefined
  BY FoundMeans DEF AlwaysDefined
<1>2. QED
  BY <1>1, SearchInvariant, PTL
=============================================================================
