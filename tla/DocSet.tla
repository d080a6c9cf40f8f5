------------------------------- MODULE DocSet -------------------------------
(***************************************************************************)
(* What the rest of the evaluator expects of the document indexes of a node: *)
(* asked for a document, the node gives that document or says that it does   *)
(* not have it; documents are put in one by one and can be taken out.        *)
(***************************************************************************)
EXTENDS Integers

CONSTANT DocIds

VARIABLE found   \* what the node answers for every document; -1 for nothing

Init == found = [d \in DocIds |-> -1]

Put(d) == found' = [found EXCEPT ![d] = d]
TakeOut(d) == found' = [found EXCEPT ![d] = -1]

Next == \E d \in DocIds : Put(d) \/ TakeOut(d)

Spec == Init /\ [][Next]_found
=============================================================================
