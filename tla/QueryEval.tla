----------------------------- MODULE QueryEval -----------------------------
(***************************************************************************)
(* The evaluation of one query in a slave server (search/documents.cc and   *)
(* search() of search/slave_server.cc).  A query is a tree of terms and      *)
(* operators.  merge_and_or first collects the candidate documents of every  *)
(* node, and hands the documents already retrieved from one part of the      *)
(* query to the next one, which then reads no other document from the index. *)
(* walk_and_or afterwards checks every candidate of the top node, and takes  *)
(* a document out of the index of a node whose condition it fails.           *)
(*                                                                           *)
(* The tree is walked depth first, in both phases: stack holds the nodes     *)
(* whose call is active, k the child a node is at.  The lists of documents    *)
(* are sets here (and_operation and or_operation compute the intersection     *)
(* and the union of sorted lists: ListMerge).  Whether the positions of a     *)
(* document satisfy a node is part of the input (PositionMatch).              *)
(* Lenient terms (term type 2) are left out: TYPE2INT of Tsubaki/Term.pm has  *)
(* none, and without them l_documents stays empty.                           *)
(***************************************************************************)
EXTENDS Integers, Sequences, FiniteSetsExt

CONSTANTS
    Nodes,    \* nodes of query trees
    Docs,     \* document ids
    Root,     \* the top node
    NULL,     \* no documents were retrieved yet
    Trees,    \* the forms of queries: t.type and t.kids of every node
    RmFiles   \* the sets of documents the rmfiles may name

TermTypes == {"STRICT", "OPTIONAL"}
AndTypes == {"ROOT", "AND", "PROX", "ORDERED_PROX"}
OrTypes == {"OR", "OR_MAX"}
Conditions == {"PHRASE", "PROX", "ORDERED_PROX"}

Terms(t) == {n \in Nodes : t.type[n] \in TermTypes}
Conditioned(t) == {n \in Nodes : t.type[n] \in Conditions}
Kids(t, n) == {t.kids[n][i] : i \in 1 .. Len(t.kids[n])}

\* The children of n that merge_and, merge_phrase and merge_or combine: the first one
\* always, the others unless they are optional terms; ROOT takes only the first.
Parts(t, n) ==
    {t.kids[n][i] : i \in {i \in 1 .. Len(t.kids[n]) :
        \/ i = 1
        \/ t.type[n] = "PHRASE"
        \/ t.type[n] # "ROOT" /\ t.type[t.kids[n][i]] # "OPTIONAL"}}

\* The children a document has to satisfy.  Of ROOT's children the first one is the
\* query; the others, optional terms and anchors, only add to the score.
Needed(t, n) == IF t.type[n] = "ROOT" THEN {t.kids[n][1]} ELSE Kids(t, n)

\* The documents of a node, given those of the children that count (part) and the types
\* of nodes that look at positions (conds).
NodeDocs(q, part, conds, found, n) ==
    CASE q.type[n] \in TermTypes -> q.post[n]
      [] q.type[n] \in OrTypes -> {d \in Docs : \E c \in part[n] : d \in found[c]}
      [] q.type[n] \in AndTypes \cup {"PHRASE"} ->
            {d \in Docs : /\ q.type[n] \in conds => d \in q.near[n]
                          /\ \A c \in part[n] : d \in found[c]}
      [] OTHER -> {}

Evaluate(q, part, conds) ==
    LET f[n \in Nodes] == NodeDocs(q, part, conds, [c \in part[n] |-> f[c]], n) IN f

\* The documents of the nodes when every term is read from the whole index, and the
\* documents the nodes stand for.
Hits(q) == Evaluate(q, [n \in Nodes |-> Parts(q, n)], {"PHRASE"})
Wanted(q) == Evaluate(q, [n \in Nodes |-> Needed(q, n)], Conditions)

\* A query: post, the documents the index has for a term, after the feature bits were
\* compared; near, the documents whose positions satisfy a condition.
Query(t, post, near) == [type |-> t.type, kids |-> t.kids, post |-> post, near |-> near]

\* Every node but the top one has one place in the tree, and none is below itself.
IsTree(t) ==
    /\ t.type \in [Nodes -> TermTypes \cup AndTypes \cup OrTypes \cup {"PHRASE", "NONE"}]
    /\ t.kids \in [Nodes -> Seq(Nodes \ {Root})]
    /\ \A n \in Nodes : t.type[n] \in TermTypes \cup {"NONE"} <=> t.kids[n] = << >>
    /\ \A n, m \in Nodes : \A i \in 1 .. Len(t.kids[n]) : \A l \in 1 .. Len(t.kids[m]) :
        /\ t.kids[n][i] = t.kids[m][l] => n = m /\ i = l
        /\ t.type[t.kids[n][i]] # "NONE"
    /\ t.type[Root] # "NONE"
    /\ \A S \in SUBSET Nodes : S # {} => \E n \in S : Kids(t, n) \cap S = {}

\* QueryParser.pm joins the expressions of a query, each a ROOT, by PROX.  The words of a
\* phrase are put together in the body of a ROOT, and what follows the body is an
\* optional word or a group of them (TermGroup.pm).
IsQuery(t) == \A n \in Nodes : \A i \in 1 .. Len(t.kids[n]) :
    LET child == t.type[t.kids[n][i]]
    IN  /\ child = "ROOT" => n = Root /\ t.type[n] = "PROX"
        /\ child = "PHRASE" => t.type[n] = "ROOT"
        /\ t.type[n] = "ROOT" /\ i > 1 => child \in OrTypes \cup {"OPTIONAL"}

ASSUME QueriesAssumption ==
    /\ Docs \subseteq Nat
    /\ Root \in Nodes
    /\ \A rm \in RmFiles : rm \subseteq Docs
    /\ \A t \in Trees : IsTree(t) /\ IsQuery(t)

VARIABLES
    query, rmsids,             \* the query, the documents of the rmfiles
    type,                      \* the types of the nodes
    phase,                     \* "merge", "walk", "end", or "wild" (undefined)
    stack, k,                  \* the active calls
    arg,                       \* _already_retrieved_docs of a node's call
    already_retrieved_docs,    \* what it hands to its next child
    s_documents,               \* the documents of a node
    ids,                       \* its __documents_index
    s_documents_index,         \* the documents it finds with get_doc
    merged,                    \* the nodes whose merge_and_or returned
    todo, doc,                 \* the candidates not yet walked, the one being walked
    val,                       \* what walk_and_or returned, node by node
    docs                       \* the result

tree == <<query, rmsids, arg, already_retrieved_docs, s_documents, ids, merged>>
vars == <<tree, type, phase, stack, k, s_documents_index, todo, doc, val, docs>>

Top == stack[Len(stack)]
Child == query.kids[Top][k[Top]]
AtChild == k[Top] <= Len(query.kids[Top])
Pop(st) == SubSeq(st, 1, Len(st) - 1)

Init ==
    /\ \E t \in Trees : \E post \in [Terms(t) -> SUBSET Docs] :
        \E near \in [Conditioned(t) -> SUBSET Docs] : query = Query(t, post, near)
    /\ rmsids \in RmFiles
    /\ type = query.type
    /\ phase = "merge"
    /\ stack = <<Root>>
    /\ k = [n \in Nodes |-> 1]
    /\ arg = [n \in Nodes |-> NULL]
    /\ already_retrieved_docs = [n \in Nodes |-> NULL]
    /\ s_documents = [n \in Nodes |-> {}]
    /\ ids = [n \in Nodes |-> {}]
    /\ s_documents_index = [n \in Nodes |-> {}]
    /\ merged = {}
    /\ todo = {} /\ doc = -1
    /\ val = [n \in Nodes |-> "none"]
    /\ docs = {}

-----------------------------------------------------------------------------
(* Collecting the documents: merge_and_or. *)

\* Mutant: OR too hands the documents of its children to the next one.
merge_and_orHands ==
    /\ phase = "merge" /\ stack # << >>
    /\ AtChild /\ Child \notin merged
    /\ stack' = Append(stack, Child)
    /\ arg' = [arg EXCEPT ![Child] =
                  IF k[Top] = 1 THEN arg[Top]
                  ELSE IF type[Top] \in OrTypes THEN s_documents[Top]
                  ELSE already_retrieved_docs[Top]]
    /\ UNCHANGED <<query, rmsids, already_retrieved_docs, s_documents, ids, merged, type, phase, k,
                   s_documents_index, todo, doc, val, docs>>

\* The call of a node: an operator starts with its first child.
merge_and_or ==
    /\ phase = "merge" /\ stack # << >>
    /\ AtChild /\ Child \notin merged
    /\ stack' = Append(stack, Child)
    /\ arg' = [arg EXCEPT ![Child] =
                  IF k[Top] = 1 \/ type[Top] \in OrTypes THEN arg[Top]
                  ELSE already_retrieved_docs[Top]]
    /\ UNCHANGED <<query, rmsids, already_retrieved_docs, s_documents, ids, merged, type, phase, k,
                   s_documents_index, todo, doc, val, docs>>

\* What read_dids_with_feature loads: a strict term is looked up among the
\* documents already retrieved only.
read_dids_with_feature(n) ==
    IF type[n] = "STRICT" /\ arg[n] # NULL THEN query.post[n] \cap arg[n] ELSE query.post[n]

lookup_index ==
    /\ phase = "merge" /\ stack # << >>
    /\ type[Top] \in TermTypes
    /\ s_documents' = [s_documents EXCEPT ![Top] = read_dids_with_feature(Top)]
    /\ ids' = [ids EXCEPT ![Top] = read_dids_with_feature(Top)]
    /\ s_documents_index' = [s_documents_index EXCEPT ![Top] = read_dids_with_feature(Top)]
    /\ merged' = merged \cup {Top}
    /\ stack' = Pop(stack)
    /\ UNCHANGED <<query, rmsids, arg, already_retrieved_docs, type, phase, k, todo, doc, val, docs>>

\* The child that has just been evaluated, when an operator takes its result.
Returned == phase = "merge" /\ stack # << >> /\ AtChild /\ Child \in merged

\* Mutant: the documents of the later children are not intersected.
merge_andFirst ==
    /\ Returned /\ type[Top] \in AndTypes
    /\ k' = [k EXCEPT ![Top] = @ + 1]
    /\ already_retrieved_docs' =
        [already_retrieved_docs EXCEPT ![Top] =
            IF k[Top] = 1 /\ arg[Top] # NULL THEN arg[Top] ELSE ids[Child]]
    /\ s_documents' = [s_documents EXCEPT ![Top] = IF k[Top] = 1 THEN s_documents[Child] ELSE @]
    /\ UNCHANGED <<query, rmsids, arg, ids, merged, type, phase, stack, s_documents_index, todo,
                   doc, val, docs>>

\* Mutant: the loop moves on by two cells.
merge_andSkips ==
    /\ Returned /\ type[Top] \in AndTypes
    /\ k' = [k EXCEPT ![Top] = @ + 2]
    /\ s_documents' = [s_documents EXCEPT ![Top] = s_documents[Child]]
    /\ UNCHANGED <<query, rmsids, arg, already_retrieved_docs, ids, merged, type, phase, stack,
                   s_documents_index, todo, doc, val, docs>>

\* A child of ROOT other than the first one is optional or an anchor: it is only
\* kept, and an OR among them becomes OR_OPTIONAL.
merge_and ==
    /\ Returned /\ type[Top] \in AndTypes
    /\ k' = [k EXCEPT ![Top] = @ + 1]
    /\ \/ /\ k[Top] = 1
          /\ s_documents' = [s_documents EXCEPT ![Top] = s_documents[Child]]
          /\ already_retrieved_docs' =
                [already_retrieved_docs EXCEPT ![Top] =
                    IF arg[Top] = NULL THEN ids[Child] ELSE arg[Top]]
          /\ UNCHANGED type
       \/ /\ k[Top] > 1
          /\ type[Child] = "OPTIONAL"
          /\ UNCHANGED <<s_documents, already_retrieved_docs, type>>
       \/ /\ k[Top] > 1
          /\ type[Child] # "OPTIONAL" /\ type[Top] = "ROOT"
          /\ type' = IF type[Child] \in OrTypes
                     THEN [type EXCEPT ![Child] = "OR_OPTIONAL"] ELSE type
          /\ UNCHANGED <<s_documents, already_retrieved_docs>>
       \/ /\ k[Top] > 1
          /\ type[Child] # "OPTIONAL" /\ type[Top] # "ROOT"
          /\ already_retrieved_docs' = [already_retrieved_docs EXCEPT ![Top] = ids[Child]]
          /\ s_documents' = [s_documents EXCEPT ![Top] = @ \cap s_documents[Child]]
          /\ UNCHANGED type
    /\ UNCHANGED <<query, rmsids, arg, ids, merged, phase, stack, s_documents_index, todo, doc, val, docs>>

merge_phrase ==
    /\ Returned /\ type[Top] = "PHRASE"
    /\ k' = [k EXCEPT ![Top] = @ + 1]
    /\ s_documents' = [s_documents EXCEPT ![Top] =
                          IF k[Top] = 1 THEN s_documents[Child] ELSE @ \cap s_documents[Child]]
    /\ already_retrieved_docs' =
          [already_retrieved_docs EXCEPT ![Top] =
              IF k[Top] = 1 /\ arg[Top] # NULL THEN arg[Top] ELSE ids[Child]]
    /\ UNCHANGED <<query, rmsids, arg, ids, merged, type, phase, stack, s_documents_index, todo, doc,
                   val, docs>>

merge_or ==
    /\ Returned /\ type[Top] \in OrTypes
    /\ k' = [k EXCEPT ![Top] = @ + 1]
    /\ s_documents' =
          [s_documents EXCEPT ![Top] =
              IF k[Top] = 1 THEN s_documents[Child]
              ELSE IF type[Child] = "OPTIONAL" THEN @ ELSE @ \cup s_documents[Child]]
    /\ UNCHANGED <<query, rmsids, arg, already_retrieved_docs, ids, merged, type, phase, stack,
                   s_documents_index, todo, doc, val, docs>>

\* After the last child the indexes are made.  merge_phrase makes them first and then
\* keeps the documents with the phrase; the others stay in its index, where they lead
\* to a place of s_documents that holds another document, or none.
MakeIndex ==
    /\ phase = "merge" /\ stack # << >>
    /\ type[Top] \notin TermTypes /\ ~ AtChild
    /\ ids' = [ids EXCEPT ![Top] = s_documents[Top]]
    /\ s_documents_index' = [s_documents_index EXCEPT ![Top] = s_documents[Top]]
    /\ s_documents' = IF type[Top] = "PHRASE"
                      THEN [s_documents EXCEPT ![Top] = @ \cap query.near[Top]] ELSE s_documents
    /\ merged' = merged \cup {Top}
    /\ stack' = Pop(stack)
    /\ UNCHANGED <<query, rmsids, arg, already_retrieved_docs, type, phase, k, todo, doc, val, docs>>

-----------------------------------------------------------------------------
(* Checking the candidates: search() and walk_and_or. *)

\* search() turns to the s_documents of the top node.
Collected ==
    /\ phase = "merge" /\ stack = << >>
    /\ phase' = "walk"
    /\ todo' = s_documents[Root]
    /\ UNCHANGED <<tree, type, stack, k, s_documents_index, doc, val, docs>>

\* Mutant: the loop does not move on from a document of the rmfiles.
searchStuck ==
    /\ phase = "walk" /\ stack = << >> /\ todo # {}
    /\ todo' = IF Min(todo) \in rmsids THEN todo ELSE todo \ {Min(todo)}
    /\ doc' = Min(todo)
    /\ IF Min(todo) \in rmsids
       THEN UNCHANGED <<stack, k, val>>
       ELSE /\ stack' = <<Root>>
            /\ k' = [n \in Nodes |-> 1]
            /\ val' = [n \in Nodes |-> "none"]
    /\ UNCHANGED <<tree, type, phase, s_documents_index, docs>>

\* The next candidate in ascending order; one of the rmfiles is passed over.
search ==
    /\ phase = "walk" /\ stack = << >> /\ todo # {}
    /\ todo' = todo \ {Min(todo)}
    /\ doc' = Min(todo)
    /\ IF Min(todo) \in rmsids
       THEN UNCHANGED <<stack, k, val>>
       ELSE /\ stack' = <<Root>>
            /\ k' = [n \in Nodes |-> 1]
            /\ val' = [n \in Nodes |-> "none"]
    /\ UNCHANGED <<tree, type, phase, s_documents_index, docs>>

Finished ==
    /\ phase = "walk" /\ stack = << >> /\ todo = {}
    /\ phase' = "end"
    /\ UNCHANGED <<tree, type, stack, k, s_documents_index, todo, doc, val, docs>>

\* Types whose nodes are not walked further.
NotWalked == TermTypes \cup {"OR_OPTIONAL"}

\* The children are walked one after the other, whatever they return.
walk_and_or ==
    /\ phase = "walk" /\ stack # << >>
    /\ type[Top] \notin NotWalked /\ AtChild
    /\ IF val[Child] = "none"
       THEN stack' = Append(stack, Child) /\ UNCHANGED k
       ELSE k' = [k EXCEPT ![Top] = @ + 1] /\ UNCHANGED stack
    /\ UNCHANGED <<tree, type, phase, s_documents_index, todo, doc, val, docs>>

\* The call of walk_and_or for the top of the stack returns ret.  A document that the
\* top node of the query accepts goes into the result.
Return(ret) ==
    /\ val' = [val EXCEPT ![Top] = ret]
    /\ stack' = Pop(stack)
    /\ docs' = IF ret = "true" /\ Len(stack) = 1 THEN docs \cup {doc} ELSE docs
    /\ UNCHANGED <<tree, type, k, todo, doc>>

Bool(b) == IF b THEN "true" ELSE "false"

\* A strict term is checked, an optional one need not be there.
WalkTerm ==
    /\ phase = "walk" /\ stack # << >>
    /\ type[Top] \in NotWalked
    /\ Return(Bool(type[Top] = "STRICT" => doc \in s_documents_index[Top]))
    /\ UNCHANGED <<phase, s_documents_index>>

Walked == phase = "walk" /\ stack # << >> /\ type[Top] \notin NotWalked /\ ~ AtChild

ChildrenAgree ==
    IF type[Top] \in OrTypes THEN \E c \in Kids(query, Top) : val[c] = "true"
    ELSE \A c \in Kids(query, Top) : val[c] = "true"

\* The children whose position lists are merged for the document.
HaveLists == {c \in Kids(query, Top) :
    /\ doc \in s_documents_index[c]
    /\ type[Top] \in OrTypes \/ type[c] # "OPTIONAL"}

\* A look-up that finds an entry of the index merge_phrase left behind, or a loop over
\* no position list at all: the code reads what it must not.
Undefined ==
    /\ doc \in s_documents_index[Top]
    /\ \/ \E c \in Kids(query, Top) \cup {Top} : doc \in s_documents_index[c] \ s_documents[c]
       \/ HaveLists = {}

remove_doc == s_documents_index' = [s_documents_index EXCEPT ![Top] = @ \ {doc}]

\* The children do not allow the document.
Reject ==
    /\ Walked /\ ~ ChildrenAgree
    /\ remove_doc
    /\ Return("false")
    /\ UNCHANGED phase

\* Mutant: a document is accepted whatever its positions.
walk_andAccept ==
    /\ Walked /\ ChildrenAgree /\ ~ Undefined
    /\ type[Top] \notin OrTypes
    /\ UNCHANGED s_documents_index
    /\ Return(Bool(doc \in s_documents_index[Top]))
    /\ UNCHANGED phase

\* walk_and rejects a document only for the positions in it.
walk_and ==
    /\ Walked /\ ChildrenAgree /\ ~ Undefined
    /\ type[Top] \notin OrTypes
    /\ LET found == doc \in s_documents_index[Top]
           near == type[Top] \in {"PROX", "ORDERED_PROX"} => doc \in query.near[Top]
       IN  /\ IF found /\ ~ near THEN remove_doc ELSE UNCHANGED s_documents_index
           /\ Return(Bool(found /\ near))
    /\ UNCHANGED phase

walk_or ==
    /\ Walked /\ ChildrenAgree /\ ~ Undefined
    /\ type[Top] \in OrTypes
    /\ Return(Bool(doc \in s_documents_index[Top]))
    /\ UNCHANGED <<phase, s_documents_index>>

\* The outcome is then undefined; the call is not followed further.
GoWild ==
    /\ Walked /\ ChildrenAgree /\ Undefined
    /\ phase' = "wild"
    /\ UNCHANGED <<tree, type, stack, k, s_documents_index, todo, doc, val, docs>>

Next == \/ merge_and_or \/ lookup_index \/ merge_and \/ merge_phrase \/ merge_or \/ MakeIndex
        \/ Collected \/ search \/ Finished
        \/ walk_and_or \/ WalkTerm \/ Reject \/ walk_and \/ walk_or \/ GoWild

Spec == Init /\ [][Next]_vars /\ WF_vars(Next)

-----------------------------------------------------------------------------
\* The state of a search.
TypeOK ==
    /\ type \in [Nodes -> TermTypes \cup AndTypes \cup OrTypes
                            \cup {"PHRASE", "NONE", "OR_OPTIONAL"}]
    /\ phase \in {"merge", "walk", "end", "wild"}
    /\ stack \in Seq(Nodes)
    /\ k \in [Nodes -> Nat] /\ \A n \in Nodes : k[n] \in 1 .. Len(query.kids[n]) + 1
    /\ arg \in [Nodes -> (SUBSET Docs) \cup {NULL}]
    /\ already_retrieved_docs \in [Nodes -> (SUBSET Docs) \cup {NULL}]
    /\ s_documents \in [Nodes -> SUBSET Docs] /\ ids \in [Nodes -> SUBSET Docs]
    /\ s_documents_index \in [Nodes -> SUBSET Docs]
    /\ merged \subseteq Nodes
    /\ todo \subseteq Docs /\ doc \in Docs \cup {-1} /\ docs \subseteq Docs
    /\ val \in [Nodes -> {"none", "true", "false"}]

\* Reading a term only among the documents already retrieved loses none of them, and
\* adds none: a node evaluated with a set of documents gets those of its documents that
\* are in the set, and the top node exactly the ones of an evaluation without it.
PruningExact == \A n \in merged :
    /\ s_documents[n] \subseteq Hits(query)[n]
    /\ \A d \in Hits(query)[n] : arg[n] = NULL \/ d \in arg[n] => d \in s_documents[n]

\* The query has a body: nothing that a document has to satisfy is an optional term.  A
\* query has none when a user has made every word of an expression optional.
HasBody(t) == \E S \in SUBSET Nodes :
    Root \in S /\ \A n \in S : t.type[n] # "OPTIONAL" /\ Needed(t, n) \subseteq S

\* The search returns the documents the query stands for, less those of the rmfiles: a
\* document removed from one node for its positions is still found by another one.
ResultRight == phase = "end" /\ HasBody(query) => docs = Wanted(query)[Root] \ rmsids

\* No stale entry of an index is used, and no loop runs over no position list.
AlwaysDefined == phase = "wild" => ~ HasBody(query)

\* The search comes to an end.
Ends == <>(phase \in {"end", "wild"})
=============================================================================
