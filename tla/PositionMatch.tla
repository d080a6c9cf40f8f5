--------------------------- MODULE PositionMatch ---------------------------
(***************************************************************************)
(* How search/documents.cc decides, for one document, whether the positions *)
(* of the words of a query satisfy the condition of a node of the query:    *)
(* the loop of merge_phrase (PHRASE), of walk_and (PROX, ORDERED_PROX and   *)
(* AND) and of walk_or (OR).  All of them merge the position lists of the    *)
(* children: sorted_int orders the children by the position that is next in  *)
(* their lists, the smallest one is taken, and one pass of exchanges puts     *)
(* the child it was taken from in its place again.                           *)
(*                                                                           *)
(* Children and list entries are numbered from 1, a position list ends with  *)
(* -1.  merge_phrase erases what it takes and the others move an index       *)
(* (tid2idx); here both move the index.  Scores and terms that travel with    *)
(* the positions are left out.                                               *)
(***************************************************************************)
EXTENDS Integers, Sequences, FiniteSetsExt

CONSTANTS
    ProxDists,   \* the distances a query may ask for
    Queries      \* the position lists of the children, for one document

End == -1
Unset == -2
PROXIMATE_LENGTH == 100
MAX_LENGTH_OF_DOCUMENT == 10000

\* Positions in ascending order, then the end mark.
PosList(list) ==
    /\ list \in Seq(Nat \cup {End})
    /\ Len(list) > 0
    /\ \A i \in 1 .. Len(list) : list[i] = End <=> i = Len(list)
    /\ \A i, j \in 1 .. Len(list) - 1 : i <= j => list[i] <= list[j]

ASSUME QueriesAssumption ==
    /\ ProxDists \subseteq 1 .. MAX_LENGTH_OF_DOCUMENT - 1
    /\ \A q \in Queries :
        q \in Seq(Seq(Int)) /\ Len(q) > 0 /\ \A t \in 1 .. Len(q) : PosList(q[t])

VARIABLES
    type,            \* the type of the node
    prox_dist,
    pos_list_list,   \* the position lists of the children that have the document
    sorted_int,      \* the children, ordered by their next position
    tid2idx,         \* child -> index of its next position
    pos_record,      \* child -> the position last taken from it
    backup_tid2idx,  \* the indexes ORDERED_PROX restores; << >> until it is set
    skip_first,
    region,          \* length of the last region found
    pos_list,        \* the positions the node gets in this document
    phrasal_flag,
    walked,          \* the walk of a PHRASE node that merge_phrase has accepted
    pass, j,         \* where the loops over sorted_int are
    pc

inputs == <<type, prox_dist, pos_list_list>>
vars == <<inputs, sorted_int, tid2idx, pos_record, backup_tid2idx, skip_first, region,
          pos_list, phrasal_flag, walked, pass, j, pc>>

target_num == Len(pos_list_list)
Children == 1 .. target_num

\* The position that is next in the list of child t.
NextPos(t) == pos_list_list[t][tid2idx[t]]

\* A condition joins two children or more; those that do not have the document,
\* and optional terms, bring no list to walk_and and walk_or.
Init ==
    /\ pos_list_list \in Queries
    /\ \/ type = "PHRASE" /\ target_num > 1 /\ prox_dist = PROXIMATE_LENGTH
       \/ type \in {"PROX", "ORDERED_PROX"} /\ prox_dist \in ProxDists
       \/ type \in {"AND", "OR"} /\ prox_dist = PROXIMATE_LENGTH
    /\ sorted_int = [t \in Children |-> t]
    /\ tid2idx = [t \in Children |-> 1]
    /\ pos_record = [t \in Children |-> Unset]
    /\ backup_tid2idx = << >>
    /\ skip_first = FALSE
    /\ region = MAX_LENGTH_OF_DOCUMENT
    /\ pos_list = << >>
    /\ phrasal_flag = FALSE
    /\ walked = FALSE
    /\ pass = 1 /\ j = 1
    /\ pc = IF target_num > 1 THEN "sort" ELSE "loop"

-----------------------------------------------------------------------------
(* The order of the children. *)

\* Mutant: a list that is used up stays in front.
MisplacedKeepsEnd(a, b) == NextPos(a) > NextPos(b)

\* Child a, which is in front of b, has to go behind it.
Misplaced(a, b) == NextPos(a) = End \/ (NextPos(b) # End /\ NextPos(a) > NextPos(b))

\* The exchange of the children at j and j + 1, if they have to be.
Exchange ==
    IF Misplaced(sorted_int[j], sorted_int[j + 1])
    THEN [sorted_int EXCEPT ![j] = sorted_int[j + 1], ![j + 1] = sorted_int[j]]
    ELSE sorted_int

\* Mutant: one pass of exchanges instead of a bubble sort.
BubbleSortOnce ==
    /\ pc = "sort"
    /\ sorted_int' = Exchange
    /\ IF j < target_num - 1 THEN j' = j + 1 /\ UNCHANGED <<pass, pc>>
       ELSE pass' = 1 /\ j' = 1 /\ pc' = "loop"
    /\ UNCHANGED <<inputs, tid2idx, pos_record, backup_tid2idx, skip_first, region,
                   pos_list, phrasal_flag, walked>>

BubbleSort ==
    /\ pc = "sort"
    /\ sorted_int' = Exchange
    /\ \/ j < target_num - pass /\ j' = j + 1 /\ UNCHANGED <<pass, pc>>
       \/ j = target_num - pass /\ pass < target_num - 1
             /\ pass' = pass + 1 /\ j' = 1 /\ UNCHANGED pc
       \/ j = target_num - pass /\ pass = target_num - 1
             /\ pass' = 1 /\ j' = 1 /\ pc' = "loop"
    /\ UNCHANGED <<inputs, tid2idx, pos_record, backup_tid2idx, skip_first, region,
                   pos_list, phrasal_flag, walked>>

\* Mutant: the first child is passed over without a look at the end of its list.
update_sorted_intUnchecked ==
    /\ pc = "update"
    /\ sorted_int' = Exchange
    /\ IF j < target_num - 1
       THEN j' = j + 1 /\ UNCHANGED <<tid2idx, pc>>
       ELSE /\ j' = 1
            /\ IF skip_first /\ sorted_int'[1] = 1
               THEN tid2idx' = [tid2idx EXCEPT ![1] = @ + 1] /\ UNCHANGED pc
               ELSE pc' = "loop" /\ UNCHANGED tid2idx
    /\ UNCHANGED <<inputs, pos_record, backup_tid2idx, skip_first, region, pos_list,
                   phrasal_flag, walked, pass>>

\* The pass after a position was taken.  With skip_first it is made again as long
\* as it brings the first child to the front, whose positions are then passed over.
update_sorted_int ==
    /\ pc = "update"
    /\ sorted_int' = Exchange
    /\ IF j < target_num - 1
       THEN j' = j + 1 /\ UNCHANGED <<tid2idx, pc>>
       ELSE /\ j' = 1
            /\ IF skip_first /\ sorted_int'[1] = 1 /\ tid2idx[1] < Len(pos_list_list[1])
               THEN tid2idx' = [tid2idx EXCEPT ![1] = @ + 1] /\ UNCHANGED pc
               ELSE pc' = "loop" /\ UNCHANGED tid2idx
    /\ UNCHANGED <<inputs, pos_record, backup_tid2idx, skip_first, region, pos_list,
                   phrasal_flag, walked, pass>>

-----------------------------------------------------------------------------
(* Taking the next position: one pass of the while loop. *)

Lead == sorted_int[1]
Taken == [pos_record EXCEPT ![Lead] = NextPos(Lead)]
Moved == [tid2idx EXCEPT ![Lead] = @ + 1]
Complete(rec) == \A t \in Children : rec[t] >= 0
Again == IF target_num > 1 THEN "update" ELSE "loop"

\* No list has a position left.
Exhausted ==
    /\ pc = "loop"
    /\ NextPos(Lead) = End
    /\ pc' = "done"
    /\ UNCHANGED <<inputs, sorted_int, tid2idx, pos_record, backup_tid2idx, skip_first,
                   region, pos_list, phrasal_flag, walked, pass, j>>

\* Mutant: only the order of the words is compared, not that they are adjacent.
ConsecutiveLoose(rec) == \A t \in Children : t < target_num => rec[t + 1] - rec[t] > 0

Consecutive(rec) == \A t \in Children : t < target_num => rec[t + 1] - rec[t] = 1

\* Mutant: the position that was looked at is not erased.
PhraseStepStays ==
    /\ pc = "loop" /\ type = "PHRASE" /\ ~ walked
    /\ NextPos(Lead) # End
    /\ pos_record' = Taken
    /\ phrasal_flag' = (Complete(Taken) /\ Consecutive(Taken))
    /\ pc' = IF phrasal_flag' THEN "done" ELSE Again
    /\ UNCHANGED <<inputs, sorted_int, tid2idx, backup_tid2idx, skip_first, region,
                   pos_list, walked, pass, j>>

PhraseStep ==
    /\ pc = "loop" /\ type = "PHRASE" /\ ~ walked
    /\ NextPos(Lead) # End
    /\ tid2idx' = Moved
    /\ pos_record' = Taken
    /\ phrasal_flag' = (Complete(Taken) /\ Consecutive(Taken))
    /\ pc' = IF phrasal_flag' THEN "done" ELSE Again
    /\ UNCHANGED <<inputs, sorted_int, backup_tid2idx, skip_first, region, pos_list,
                   walked, pass, j>>

\* Later walk_and walks the PHRASE node of a document that was kept, to give it its
\* positions.  The lists of the children are the ones merge_phrase has erased from:
\* get_pos makes them only once.
WalkPhrase ==
    /\ pc = "done" /\ type = "PHRASE" /\ phrasal_flag /\ ~ walked
    /\ walked' = TRUE
    /\ sorted_int' = [t \in Children |-> t]
    /\ pos_record' = [t \in Children |-> Unset]
    /\ pc' = "sort"
    /\ UNCHANGED <<inputs, tid2idx, backup_tid2idx, skip_first, region, pos_list,
                   phrasal_flag, pass, j>>

\* The middle of a region, which is the position the node gets.
Ave(begin, end) == (begin + end) \div 2

Records(rec) == {rec[t] : t \in Children}

\* A region is found whenever the positions last taken are close enough.
ProxStep ==
    /\ pc = "loop" /\ (type \in {"PROX", "AND"} \/ walked)
    /\ NextPos(Lead) # End
    /\ tid2idx' = Moved
    /\ pos_record' = Taken
    /\ LET begin == Min(Records(Taken))
           end == Max(Records(Taken))
       IN  IF Complete(Taken) /\ end - begin <= prox_dist
           THEN region' = end - begin /\ pos_list' = Append(pos_list, Ave(begin, end))
           ELSE UNCHANGED <<region, pos_list>>
    /\ pc' = Again
    /\ UNCHANGED <<inputs, sorted_int, backup_tid2idx, skip_first, phrasal_flag, walked,
                   pass, j>>

InOrder(rec) == \A t \in Children : t < target_num => rec[t] <= rec[t + 1]

\* Once the first child has a position and another one is taken, the first child
\* is passed over, and the indexes are kept to come back to.
OrderedProxStep ==
    /\ pc = "loop" /\ type = "ORDERED_PROX"
    /\ NextPos(Lead) # End
    /\ LET follow == pos_record[1] # Unset /\ Lead # 1
           backup == IF follow THEN [tid2idx EXCEPT ![1] = @ + 1] ELSE backup_tid2idx
           flag == Complete(Taken) /\ InOrder(Taken)
           begin == Taken[1]
           end == Taken[target_num]
       IN  /\ backup_tid2idx' = backup
           /\ IF flag /\ end - begin <= prox_dist
              THEN region' = end - begin /\ pos_list' = Append(pos_list, Ave(begin, end))
              ELSE UNCHANGED <<region, pos_list>>
           /\ \/ /\ ~ flag
                 /\ tid2idx' = Moved
                 /\ pos_record' = Taken
                 /\ skip_first' = (skip_first \/ follow)
                 /\ pc' = Again
              \/ /\ flag /\ backup # << >>
                 /\ tid2idx' = backup
                 /\ pos_record' = [t \in Children |-> Unset]
                 /\ skip_first' = FALSE
                 /\ pc' = IF Len(pos_list_list[1]) >= backup[1] - 1 THEN "done" ELSE Again
              \/ \* The indexes restored were never set: the comparison with them
                 \* ends the loop, or the next use of them is out of range.
                 /\ flag /\ backup = << >>
                 /\ UNCHANGED <<tid2idx>>
                 /\ pos_record' = [t \in Children |-> Unset]
                 /\ skip_first' = FALSE
                 /\ pc' \in {"done", "aborted"}
    /\ UNCHANGED <<inputs, sorted_int, phrasal_flag, walked, pass, j>>

\* walk_or keeps every position once.
OrStep ==
    /\ pc = "loop" /\ type = "OR"
    /\ NextPos(Lead) # End
    /\ tid2idx' = Moved
    /\ LET prev_pos == IF pos_list = << >> THEN -1 ELSE pos_list[Len(pos_list)]
       IN  pos_list' = IF NextPos(Lead) > prev_pos THEN Append(pos_list, NextPos(Lead))
                       ELSE pos_list
    /\ pc' = Again
    /\ UNCHANGED <<inputs, sorted_int, pos_record, backup_tid2idx, skip_first, region,
                   phrasal_flag, walked, pass, j>>

Next == \/ BubbleSort \/ update_sorted_int \/ Exhausted
        \/ PhraseStep \/ WalkPhrase \/ ProxStep \/ OrderedProxStep \/ OrStep

Spec == Init /\ [][Next]_vars /\ WF_vars(Next)

-----------------------------------------------------------------------------
(* The result of a call: merge_phrase keeps the document in s_documents when    *)
(* the phrase was found, walk_and removes it when no region was.                *)

Accepted ==
    CASE type = "PHRASE" -> phrasal_flag
      [] type \in {"PROX", "ORDERED_PROX"} -> region # MAX_LENGTH_OF_DOCUMENT
      [] OTHER -> TRUE

(* What the conditions mean. *)

Occurs(t) == {pos_list_list[t][i] : i \in 1 .. Len(pos_list_list[t]) - 1}

\* One occurrence of every child.
Placements == {f \in [Children -> UNION {Occurs(t) : t \in Children}] :
               \A t \in Children : f[t] \in Occurs(t)}

\* The occurrences that a condition asks for.
Wanted(f) ==
    CASE type = "PHRASE" -> \A t, u \in Children : f[u] - f[t] = u - t
      [] type = "PROX" -> \A t, u \in Children : f[t] - f[u] <= prox_dist
      [] type = "ORDERED_PROX" ->
            \A t, u \in Children : t <= u => f[t] <= f[u] /\ f[u] - f[t] <= prox_dist
      [] OTHER -> TRUE

-----------------------------------------------------------------------------
\* The state of a call; the indexes stay inside the lists and sorted_int keeps
\* every child.
TypeOK ==
    /\ target_num > 0 /\ \A t \in Children : PosList(pos_list_list[t])
    /\ type \in {"PHRASE", "PROX", "ORDERED_PROX", "AND", "OR"}
    /\ prox_dist \in ProxDists \cup {PROXIMATE_LENGTH}
    /\ sorted_int \in [Children -> Children]
    /\ \A t \in Children : \E i \in Children : sorted_int[i] = t
    /\ pos_record \in [Children -> Nat \cup {Unset}]
    /\ backup_tid2idx = << >> \/ backup_tid2idx \in [Children -> Nat]
    /\ skip_first \in BOOLEAN /\ phrasal_flag \in BOOLEAN /\ walked \in BOOLEAN
    /\ region \in Nat
    /\ pos_list \in Seq(Nat)
    /\ pass \in Nat /\ j \in Nat
    /\ pc \in {"sort", "loop", "update", "done", "aborted"}
    /\ tid2idx \in [Children -> Nat]
    /\ pc \notin {"done", "aborted"} =>
        \A t \in Children : tid2idx[t] \in 1 .. Len(pos_list_list[t])

\* A document is accepted only if it has the words where the condition of the
\* node wants them.
Sound == pc = "done" /\ type \in {"PHRASE", "PROX", "ORDERED_PROX"} /\ Accepted =>
    \E f \in Placements : Wanted(f)

\* No two words of the phrase are at the same position.
WordsApart == \A t, u \in Children : t # u => Occurs(t) \cap Occurs(u) = {}

\* Every word is in the document once.
WordsOnce == \A t \in Children : Len(pos_list_list[t]) = 2

\* A document that satisfies the condition is accepted: always for PROX, for a
\* phrase if its words are all different, for ORDERED_PROX if each word is in the
\* document once.
NothingMissed == pc = "done" /\ ~ Accepted =>
    /\ type = "PROX" => ~ \E f \in Placements : Wanted(f)
    /\ type = "PHRASE" /\ WordsApart => ~ \E f \in Placements : Wanted(f)
    /\ type = "ORDERED_PROX" /\ WordsOnce => ~ \E f \in Placements : Wanted(f)

\* The positions a node gets are in ascending order, as the loop of its parent
\* needs them; those of an OR node are the positions of its children, each once.
PositionsAscend ==
    /\ \A i \in 1 .. Len(pos_list) - 1 :
        pos_list[i] <= pos_list[i + 1] /\ (type = "OR" => pos_list[i] # pos_list[i + 1])
    /\ pc = "done" /\ type = "OR" =>
        {pos_list[i] : i \in 1 .. Len(pos_list)} = UNION {Occurs(t) : t \in Children}

\* Every loop ends.
Returns == <>[](pc \in {"done", "aborted"})

\* A text has one word at a position: two words of a query are the same word, with
\* the same positions, or share none.
OneWordPerPosition == \A t, u \in Children :
    pos_list_list[t] = pos_list_list[u] \/ Occurs(t) \cap Occurs(u) = {}

\* The phrase condition is the phrase search of other search engines: a document in
\* which the words follow each other is accepted.
PhraseFound ==
    pc = "done" /\ type = "PHRASE" /\ OneWordPerPosition =>
        (Accepted <=> \E f \in Placements : Wanted(f))

\* A phrase may be combined with other conditions: a document kept for a phrase has the
\* position of an occurrence of it, with which the condition above it is checked.
PhraseHasPosition ==
    pc = "done" /\ walked =>
        \E f \in Placements : \E i \in 1 .. Len(pos_list) :
            Wanted(f) /\ pos_list[i] = Ave(f[1], f[target_num])

\* A document in which the words appear in the order of the query within the
\* distance is accepted.
OrderedProxFound ==
    pc = "done" /\ type = "ORDERED_PROX" /\ OneWordPerPosition =>
        (Accepted <=> \E f \in Placements : Wanted(f))
=============================================================================
