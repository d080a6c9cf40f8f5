----------------------- MODULE PositionMatch_proofs -----------------------
(***************************************************************************)
(* What the walk over the positions of a document decides, for any number    *)
(* of words, any position lists and any distance: a document is accepted     *)
(* only if it has the words as the condition wants them, it is not missed in *)
(* the cases in which the walk looks at every combination that matters, and  *)
(* the positions handed to the parent node ascend.                           *)
(*                                                                           *)
(* The walk is one sweep over the merged lists.  Its inductive invariant      *)
(* says where sorted_int is sorted while the exchanges run (OrderInv), that   *)
(* what was taken is not greater than what is left (SweepInv), that the       *)
(* records are the positions last taken (RecordInv), that a combination that  *)
(* is wanted and was not found has a position that is still to be taken        *)
(* (MissInv), and what pos_list holds (ListInv).                              *)
(***************************************************************************)
EXTENDS PositionMatch, WellFoundedInduction, SequenceTheorems, TLAPS

\* Child a may stand in front of b.
InFront(a, b) == NextPos(b) = End \/ (NextPos(a) # End /\ NextPos(a) <= NextPos(b))

\* The position x of child t was taken.
Passed(t, x) == \E i \in 1 .. tid2idx[t] - 1 : pos_list_list[t][i] = x

Inside(idx) == \A t \in Children : idx[t] \in 1 .. Len(pos_list_list[t])

TypeInv ==
    /\ TypeOK /\ pos_list_list \in Queries
    /\ pc \in {"sort", "update"} \/ type = "PHRASE" => target_num > 1
    /\ pc = "sort" => pass \in 1 .. target_num - 1 /\ j \in 1 .. target_num - pass
    /\ pc = "update" => j \in 1 .. target_num - 1
    /\ pc # "sort" => pass = 1
    /\ pc \notin {"sort", "update"} => j = 1
    /\ type # "ORDERED_PROX" => ~ skip_first /\ pc # "aborted" /\ Inside(tid2idx)
    /\ backup_tid2idx # << >> =>
        \A t \in Children : backup_tid2idx[t] \in 1 .. Len(pos_list_list[t]) + 1
    /\ walked => type = "PHRASE" /\ phrasal_flag
    /\ phrasal_flag /\ ~ walked => pc = "done"

\* The children at i and k, in this order.
Placed(i, k) == InFront(sorted_int[i], sorted_int[k])

\* The bubble sort has the last pass - 1 children in place and the greatest of the
\* first j at j; the pass after a position was taken has all of them in order but
\* the one at j, which may have to go further back.
OrderInv ==
    /\ \A i, k \in Children : sorted_int[i] = sorted_int[k] => i = k
    /\ pc = "sort" =>
        /\ \A i, k \in Children : i < k /\ k > target_num - pass + 1 => Placed(i, k)
        /\ \A i \in Children : i < j => Placed(i, j)
    /\ pc = "update" =>
        /\ \A i, k \in Children : i < k /\ i # j /\ k # j => Placed(i, k)
        /\ \A i \in Children : i < j => Placed(i, j)
    /\ pc = "loop" => \A i, k \in Children : i < k => Placed(i, k)

\* What was taken is not greater than what is left.
SweepInv ==
    type # "ORDERED_PROX" => \A t, u \in Children :
        \A i \in 1 .. tid2idx[t] - 1, k \in tid2idx[u] .. Len(pos_list_list[u]) - 1 :
            pos_list_list[t][i] <= pos_list_list[u][k]

\* The records are positions of the children; outside of ORDERED_PROX, the ones that
\* were taken last, and until a phrase is walked a second time there is a record of
\* every child that has been taken from.
RecordInv ==
    \A t \in Children :
        /\ pos_record[t] # Unset => pos_record[t] \in Occurs(t) /\ type # "OR"
        /\ type # "ORDERED_PROX" /\ pos_record[t] # Unset =>
            tid2idx[t] > 1 /\ pos_record[t] = pos_list_list[t][tid2idx[t] - 1]
        /\ type \in {"PROX", "PHRASE"} /\ ~ walked /\ tid2idx[t] > 1 => pos_record[t] # Unset
        /\ type = "ORDERED_PROX" /\ WordsOnce /\ pc \notin {"done", "aborted"} =>
            (tid2idx[t] = 1 <=> pos_record[t] = Unset)

\* A child is passed over only after it was taken from.
SkipInv == skip_first /\ pc \notin {"done", "aborted"} => pos_record[1] # Unset

\* Whoever is accepted has the words in place.
FoundInv ==
    type \in {"PHRASE", "PROX", "ORDERED_PROX"} /\ Accepted => \E f \in Placements : Wanted(f)

\* The condition under which nothing is missed.
Exact ==
    \/ type = "PROX"
    \/ type = "PHRASE" /\ WordsApart
    \/ type = "ORDERED_PROX" /\ WordsOnce

\* A placement that is wanted and was not found has a position that is not taken yet.
MissInv ==
    ~ Accepted /\ Exact /\ pc # "aborted" =>
        \A f \in Placements : Wanted(f) =>
            pc # "done" /\ \E t \in Children : ~ Passed(t, f[t])

AscendsBy(list) == \A i \in 1 .. Len(list) - 1 :
    list[i] <= list[i + 1] /\ (type = "OR" => list[i] # list[i + 1])

\* What the node has as its positions.
ListInv ==
    /\ AscendsBy(pos_list)
    /\ type = "PHRASE" /\ ~ walked => pos_list = << >>
    /\ type = "ORDERED_PROX" /\ pc \notin {"done", "aborted"} => pos_list = << >>
    /\ type \in {"PROX", "AND", "PHRASE"} /\ pos_list # << >> =>
        /\ Complete(pos_record)
        /\ pos_list[Len(pos_list)] <= Ave(Min(Records(pos_record)), Max(Records(pos_record)))
    /\ type = "OR" => \A x \in Nat :
        (\E i \in 1 .. Len(pos_list) : pos_list[i] = x) <=> \E t \in Children : Passed(t, x)
    /\ type = "OR" /\ pc = "done" => \A t \in Children : tid2idx[t] = Len(pos_list_list[t])

IInv == TypeInv /\ OrderInv /\ SweepInv /\ RecordInv /\ SkipInv /\ FoundInv /\ MissInv /\ ListInv

-----------------------------------------------------------------------------
(* Facts about numbers and lists. *)

\* A nonempty set of natural numbers has a least one: what induction is for here.
LEMMA LeastNumber ==
    ASSUME NEW T, T \subseteq Nat, T # {}
    PROVE  \E x \in T : \A y \in T : x <= y
<1> DEFINE R == {ss \in Nat \X Nat : ss[1] < ss[2]}
<1>1. IsWellFoundedOn(R, Nat)
  BY NatLessThanWellFounded DEF OpToRel
<1>2. \A x, y \in Nat : x < y => <<x, y>> \in R
  OBVIOUS
<1> HIDE DEF R
<1>3. PICK x \in T : \A y \in T : ~ (<<y, x>> \in R)
  BY <1>1, WFMin
<1>4. \A y \in T : ~ (y < x)
  BY <1>2, <1>3
<1>5. \A y \in T : x <= y
  BY <1>4
<1> QED BY <1>5

\* What the walk relies on of the position lists.
Lists ==
    /\ target_num \in Nat /\ target_num >= 1
    /\ \A t \in Children :
        /\ Len(pos_list_list[t]) \in Nat /\ Len(pos_list_list[t]) >= 1
        /\ pos_list_list[t][Len(pos_list_list[t])] = -1
        /\ \A i \in 1 .. Len(pos_list_list[t]) - 1 :
            pos_list_list[t][i] \in Nat
        /\ \A i, k \in 1 .. Len(pos_list_list[t]) - 1 :
            i <= k => pos_list_list[t][i] <= pos_list_list[t][k]

LEMMA ListFacts == ASSUME pos_list_list \in Queries PROVE Lists
<1>1. /\ pos_list_list \in Seq(Seq(Int)) /\ Len(pos_list_list) > 0
      /\ \A t \in 1 .. Len(pos_list_list) : PosList(pos_list_list[t])
  BY QueriesAssumption
<1>2. target_num \in Nat /\ target_num >= 1
  BY <1>1 DEF target_num
<1>3. ASSUME NEW t \in Children
      PROVE  /\ Len(pos_list_list[t]) \in Nat /\ Len(pos_list_list[t]) >= 1
             /\ pos_list_list[t][Len(pos_list_list[t])] = -1
             /\ \A i \in 1 .. Len(pos_list_list[t]) - 1 : pos_list_list[t][i] \in Nat
             /\ \A i, k \in 1 .. Len(pos_list_list[t]) - 1 :
                i <= k => pos_list_list[t][i] <= pos_list_list[t][k]
  <2>1. PosList(pos_list_list[t])
    BY <1>1 DEF Children, target_num
  <2> DEFINE list == pos_list_list[t]
  <2>2. list \in Seq(Nat \cup {End}) /\ Len(list) > 0
    BY <2>1 DEF PosList
  <2>3. \A i \in 1 .. Len(list) : list[i] = End <=> i = Len(list)
    BY <2>1 DEF PosList
  <2>4. \A i, k \in 1 .. Len(list) - 1 : i <= k => list[i] <= list[k]
    BY <2>1 DEF PosList
  <2> HIDE DEF list
  <2>5. Len(list) \in Nat /\ Len(list) >= 1 /\ \A i \in 1 .. Len(list) : list[i] \in Nat \cup {End}
    BY <2>2
  <2>6. list[Len(list)] = -1
    BY <2>3, <2>5 DEF End
  <2>7. \A i \in 1 .. Len(list) - 1 : list[i] \in Nat
    BY <2>3, <2>5
  <2> QED BY <2>4, <2>5, <2>6, <2>7 DEF list
<1> QED BY <1>2, <1>3 DEF Lists

\* The lists do not change.
LEMMA SameLists ==
    ASSUME UNCHANGED pos_list_list
    PROVE  /\ target_num' = target_num /\ Children' = Children
           /\ Lists' = Lists
           /\ \A t : Occurs(t)' = Occurs(t)
           /\ Placements' = Placements
           /\ WordsOnce' = WordsOnce /\ WordsApart' = WordsApart
<1> QED BY DEF target_num, Children, Lists, Occurs, Placements, WordsOnce, WordsApart

\* Positions that can be next.
LEMMA NextFacts ==
    ASSUME Lists, NEW t \in Children, tid2idx[t] \in 1 .. Len(pos_list_list[t])
    PROVE  /\ NextPos(t) \in Int /\ NextPos(t) >= -1
           /\ NextPos(t) = -1 <=> tid2idx[t] = Len(pos_list_list[t])
           /\ NextPos(t) # -1 => NextPos(t) \in Nat /\ tid2idx[t] \in 1 .. Len(pos_list_list[t]) - 1
<1> QED BY DEF Lists, NextPos

-----------------------------------------------------------------------------
(* The types. *)

\* An exchange leaves every child in sorted_int.
LEMMA ExchangeFacts ==
    ASSUME Lists, sorted_int \in [Children -> Children],
           \A t \in Children : \E i \in Children : sorted_int[i] = t,
           j \in 1 .. target_num - 1
    PROVE  /\ Exchange \in [Children -> Children]
           /\ \A t \in Children : \E i \in Children : Exchange[i] = t
           /\ \A i \in Children : i # j /\ i # j + 1 => Exchange[i] = sorted_int[i]
           /\ \/ /\ Misplaced(sorted_int[j], sorted_int[j + 1])
                 /\ Exchange[j] = sorted_int[j + 1] /\ Exchange[j + 1] = sorted_int[j]
              \/ /\ ~ Misplaced(sorted_int[j], sorted_int[j + 1])
                 /\ Exchange[j] = sorted_int[j] /\ Exchange[j + 1] = sorted_int[j + 1]
<1>1. j \in Children /\ j + 1 \in Children /\ j # j + 1 /\ target_num \in Nat
  BY DEF Lists, Children
<1> DEFINE a == sorted_int[j]
           b == sorted_int[j + 1]
           s == [sorted_int EXCEPT ![j] = b, ![j + 1] = a]
<1>2. s \in [Children -> Children] /\ s[j] = b /\ s[j + 1] = a
      /\ \A i \in Children : i # j /\ i # j + 1 => s[i] = sorted_int[i]
  BY <1>1
<1>3. \A t \in Children : \E i \in Children : s[i] = t
  <2> SUFFICES ASSUME NEW t \in Children PROVE \E i \in Children : s[i] = t
    OBVIOUS
  <2>1. PICK i \in Children : sorted_int[i] = t
    OBVIOUS
  <2>2. CASE i = j
    BY <1>1, <1>2, <2>1, <2>2
  <2>3. CASE i = j + 1
    BY <1>1, <1>2, <2>1, <2>3
  <2>4. CASE i # j /\ i # j + 1
    BY <1>2, <2>1, <2>4
  <2> QED BY <2>2, <2>3, <2>4
<1>4. CASE Misplaced(a, b)
  <2>1. Exchange = s
    BY <1>4 DEF Exchange
  <2> HIDE DEF s
  <2> QED BY <1>2, <1>3, <1>4, <2>1
<1>5. CASE ~ Misplaced(a, b)
  <2>1. Exchange = sorted_int
    BY <1>5 DEF Exchange
  <2> QED BY <1>5, <2>1
<1> QED BY <1>4, <1>5

LEMMA TypeInit == Init => TypeInv
<1> SUFFICES ASSUME Init PROVE TypeInv
  OBVIOUS
<1> USE DEF Init
<1>1. pos_list_list \in Queries /\ Lists
  BY ListFacts
<1>2. \A t \in Children : PosList(pos_list_list[t])
  BY QueriesAssumption DEF Children, target_num
<1>3. \A t \in Children : tid2idx[t] \in 1 .. Len(pos_list_list[t])
  BY <1>1 DEF Lists
<1>4. target_num \in Nat /\ target_num > 0
  BY <1>1 DEF Lists
<1>5. /\ sorted_int \in [Children -> Children]
      /\ \A t \in Children : \E i \in Children : sorted_int[i] = t
  OBVIOUS
<1>6. TypeOK
  <2>1. /\ type \in {"PHRASE", "PROX", "ORDERED_PROX", "AND", "OR"}
        /\ prox_dist \in ProxDists \cup {PROXIMATE_LENGTH}
    OBVIOUS
  <2>2. /\ pos_record \in [Children -> Nat \cup {Unset}] /\ tid2idx \in [Children -> Nat]
        /\ pos_list \in Seq(Nat) /\ pass \in Nat /\ j \in Nat
    OBVIOUS
  <2>3. region \in Nat
    BY DEF MAX_LENGTH_OF_DOCUMENT
  <2>4. pc \in {"sort", "loop", "update", "done", "aborted"}
    OBVIOUS
  <2> QED BY <1>2, <1>3, <1>4, <1>5, <2>1, <2>2, <2>3, <2>4 DEF TypeOK
<1>7. pc \in {"sort", "update"} \/ type = "PHRASE" => target_num > 1
  OBVIOUS
<1>8. pc = "sort" => pass \in 1 .. target_num - 1 /\ j \in 1 .. target_num - pass
  BY <1>4
<1> QED BY <1>1, <1>3, <1>6, <1>7, <1>8 DEF TypeInv, Inside

\* The facts that are used of TypeInv in a state of a loop.
LEMMA TypeFacts ==
    ASSUME TypeInv
    PROVE  /\ Lists
           /\ sorted_int \in [Children -> Children]
           /\ \A t \in Children : \E i \in Children : sorted_int[i] = t
           /\ tid2idx \in [Children -> Nat]
           /\ pos_record \in [Children -> Nat \cup {Unset}]
           /\ pos_list \in Seq(Nat)
           /\ prox_dist \in 1 .. MAX_LENGTH_OF_DOCUMENT - 1
           /\ 1 \in Children /\ target_num \in Children /\ Lead \in Children
<1>1. Lists
  BY ListFacts DEF TypeInv
<1>2. 1 \in Children /\ target_num \in Children
  BY <1>1 DEF Lists, Children
<1>3. prox_dist \in 1 .. MAX_LENGTH_OF_DOCUMENT - 1
  BY QueriesAssumption DEF TypeInv, TypeOK, PROXIMATE_LENGTH, MAX_LENGTH_OF_DOCUMENT
<1> QED BY <1>1, <1>2, <1>3 DEF TypeInv, TypeOK, Lead

\* The step that takes a position: the index of the first child moves inside of its list.
LEMMA TakeFacts ==
    ASSUME TypeInv, pc = "loop", NextPos(Lead) # End
    PROVE  /\ NextPos(Lead) \in Nat /\ NextPos(Lead) \in Occurs(Lead)
           /\ tid2idx[Lead] \in 1 .. Len(pos_list_list[Lead]) - 1
           /\ Taken \in [Children -> Nat \cup {Unset}]
           /\ Taken[Lead] = NextPos(Lead)
           /\ \A t \in Children : t # Lead => Taken[t] = pos_record[t]
           /\ Moved \in [Children -> Nat] /\ Inside(Moved)
           /\ Moved[Lead] = tid2idx[Lead] + 1
           /\ \A t \in Children : t # Lead => Moved[t] = tid2idx[t]
           /\ Inside(tid2idx)
<1>0. /\ tid2idx \in [Children -> Nat] /\ pos_record \in [Children -> Nat \cup {Unset}]
      /\ Lead \in Children /\ Lists
  BY TypeFacts
<1>1. Inside(tid2idx)
  BY DEF TypeInv, TypeOK, Inside
<1>2. NextPos(Lead) \in Nat /\ tid2idx[Lead] \in 1 .. Len(pos_list_list[Lead]) - 1
  BY <1>0, <1>1, NextFacts DEF Inside, End
<1>3. NextPos(Lead) \in Occurs(Lead)
  BY <1>2 DEF Occurs, NextPos
<1>4. /\ Taken \in [Children -> Nat \cup {Unset}]
      /\ Taken[Lead] = NextPos(Lead)
      /\ \A t \in Children : t # Lead => Taken[t] = pos_record[t]
  BY <1>0, <1>2 DEF Taken
<1>5. /\ Moved \in [Children -> Nat]
      /\ Moved[Lead] = tid2idx[Lead] + 1
      /\ \A t \in Children : t # Lead => Moved[t] = tid2idx[t]
  <2>1. tid2idx[Lead] + 1 \in Nat
    BY <1>0
  <2> QED BY <1>0, <2>1 DEF Moved
<1>6. Inside(Moved)
  <2> SUFFICES ASSUME NEW t \in Children
               PROVE  Moved[t] \in 1 .. Len(pos_list_list[t])
    BY DEF Inside
  <2>1. Len(pos_list_list[t]) \in Nat
    BY <1>0 DEF Lists
  <2>2. CASE t = Lead
    BY <1>2, <1>5, <2>1, <2>2
  <2>3. CASE t # Lead
    BY <1>1, <1>5, <2>3 DEF Inside
  <2> QED BY <2>2, <2>3
<1> QED BY <1>1, <1>2, <1>3, <1>4, <1>5, <1>6

\* The variables that keep their types when the loop is left or a pass begins.
LEMMA TypeKept ==
    ASSUME TypeInv, UNCHANGED inputs,
           sorted_int' \in [Children -> Children],
           \A t \in Children : \E i \in Children : sorted_int'[i] = t,
           pos_record' \in [Children -> Nat \cup {Unset}],
           backup_tid2idx' = << >> \/
             (backup_tid2idx' \in [Children -> Nat] /\
              \A t \in Children : backup_tid2idx'[t] \in 1 .. Len(pos_list_list[t]) + 1),
           skip_first' \in BOOLEAN, phrasal_flag' \in BOOLEAN, walked' \in BOOLEAN,
           region' \in Nat, pos_list' \in Seq(Nat), pass' \in Nat, j' \in Nat,
           pc' \in {"sort", "loop", "update", "done", "aborted"},
           tid2idx' \in [Children -> Nat],
           (pc' \in {"done", "aborted"} /\ type = "ORDERED_PROX") \/ Inside(tid2idx'),
           pc' \in {"sort", "update"} => target_num > 1,
           pc' = "sort" => pass' \in 1 .. target_num - 1 /\ j' \in 1 .. target_num - pass',
           pc' = "update" => j' \in 1 .. target_num - 1,
           pc' # "sort" => pass' = 1,
           pc' \notin {"sort", "update"} => j' = 1,
           type # "ORDERED_PROX" => ~ skip_first' /\ pc' # "aborted",
           walked' => type = "PHRASE" /\ phrasal_flag',
           phrasal_flag' /\ ~ walked' => pc' = "done"
    PROVE  TypeInv'
<1>1. /\ type' = type /\ prox_dist' = prox_dist /\ pos_list_list' = pos_list_list
      /\ target_num' = target_num /\ Children' = Children
  BY SameLists DEF inputs
<1>2. Inside(tid2idx)' <=> Inside(tid2idx')
  BY <1>1 DEF Inside
<1>3. /\ target_num > 0 /\ (\A t \in Children : PosList(pos_list_list[t]))
      /\ type \in {"PHRASE", "PROX", "ORDERED_PROX", "AND", "OR"}
      /\ prox_dist \in ProxDists \cup {PROXIMATE_LENGTH}
      /\ pos_list_list \in Queries
      /\ (type = "PHRASE" => target_num > 1)
  BY DEF TypeInv, TypeOK
<1>4. TypeOK'
  <2>1. (target_num > 0 /\ \A t \in Children : PosList(pos_list_list[t]))'
    BY <1>1, <1>3
  <2>2. (\A t \in Children : \E i \in Children : sorted_int[i] = t)'
    BY <1>1
  <2>3. (backup_tid2idx = << >> \/ backup_tid2idx \in [Children -> Nat])'
    BY <1>1
  <2>4. (pc \notin {"done", "aborted"} =>
            \A t \in Children : tid2idx[t] \in 1 .. Len(pos_list_list[t]))'
    BY <1>1 DEF Inside
  <2>5. (/\ type \in {"PHRASE", "PROX", "ORDERED_PROX", "AND", "OR"}
         /\ prox_dist \in ProxDists \cup {PROXIMATE_LENGTH}
         /\ sorted_int \in [Children -> Children]
         /\ pos_record \in [Children -> Nat \cup {Unset}]
         /\ tid2idx \in [Children -> Nat])'
    BY <1>1, <1>3
  <2> QED BY <2>1, <2>2, <2>3, <2>4, <2>5 DEF TypeOK
<1>5. (backup_tid2idx # << >> =>
        \A t \in Children : backup_tid2idx[t] \in 1 .. Len(pos_list_list[t]) + 1)'
  BY <1>1
<1>6. (type # "ORDERED_PROX" => ~ skip_first /\ pc # "aborted" /\ Inside(tid2idx))'
  BY <1>1, <1>2
<1>7. (pc \in {"sort", "update"} \/ type = "PHRASE" => target_num > 1)'
  BY <1>1, <1>3
<1>8. (/\ pc = "sort" => pass \in 1 .. target_num - 1 /\ j \in 1 .. target_num - pass
       /\ pc = "update" => j \in 1 .. target_num - 1)'
  BY <1>1
<1>9. (walked => type = "PHRASE" /\ phrasal_flag)'
  BY <1>1
<1> QED BY <1>1, <1>3, <1>4, <1>5, <1>6, <1>7, <1>8, <1>9 DEF TypeInv

\* The least and the greatest of the positions last taken.
LEMMA RecordFacts ==
    ASSUME Lists, NEW rec \in [Children -> Nat \cup {Unset}], Complete(rec)
    PROVE  /\ Min(Records(rec)) \in Nat /\ Max(Records(rec)) \in Nat
           /\ \A t \in Children : Min(Records(rec)) <= rec[t] /\ rec[t] <= Max(Records(rec))
           /\ \E t \in Children : rec[t] = Min(Records(rec))
           /\ \E t \in Children : rec[t] = Max(Records(rec))
<1>n. target_num \in Nat /\ target_num >= 1 /\ 1 \in Children /\ Children = 1 .. target_num
  BY DEF Lists, Children
<1>r. \A t \in Children : rec[t] \in Nat
  BY DEF Complete, Unset
<1> DEFINE S == Records(rec)
<1>s. S \subseteq Nat /\ S # {} /\ (\A t \in Children : rec[t] \in S)
      /\ (\A x \in S : \E t \in Children : rec[t] = x)
  BY <1>n, <1>r DEF Records
<1>1. Min(S) \in S /\ \A y \in S : Min(S) <= y
  <2>1. \E x \in S : \A y \in S : x <= y
    BY <1>s, LeastNumber
  <2> QED BY <2>1 DEF Min
<1>2. \E b \in Nat : \A t \in Children : rec[t] <= b
  <2> DEFINE Bounded(m) == \E b \in Nat : \A t \in 1 .. m : rec[t] <= b
             T == {m \in Children : ~ Bounded(m)}
  <2>1. T = {}
    <3> SUFFICES ASSUME T # {} PROVE FALSE
      OBVIOUS
    <3>1. T \subseteq Nat
      BY <1>n
    <3>2. PICK m \in T : \A y \in T : m <= y
      <4> HIDE DEF T
      <4> QED BY <3>1, LeastNumber
    <3>3. CASE m = 1
      <4>1. rec[1] \in Nat /\ \A t \in 1 .. 1 : rec[t] <= rec[1]
        BY <1>n, <1>r
      <4> QED BY <3>2, <3>3, <4>1
    <3>4. CASE m # 1
      <4>1. m - 1 \in Children /\ m \in Children /\ m \in Nat
        BY <1>n, <3>2, <3>4
      <4>2. m - 1 \notin T
        <5> HIDE DEF T
        <5> QED BY <3>2, <4>1
      <4>3. PICK b \in Nat : \A t \in 1 .. m - 1 : rec[t] <= b
        BY <4>1, <4>2
      <4>4. rec[m] \in Nat
        BY <1>r, <4>1
      <4>5. \A t \in 1 .. m : rec[t] <= b + rec[m]
        <5> TAKE t \in 1 .. m
        <5>1. CASE t = m
          BY <4>4, <5>1
        <5>2. CASE t \in 1 .. m - 1
          <6>1. t \in Children
            BY <1>n, <4>1, <5>2
          <6>2. rec[t] \in Nat /\ rec[t] <= b
            BY <1>r, <4>3, <5>2, <6>1
          <6> QED BY <4>4, <6>2
        <5> QED BY <4>1, <5>1, <5>2
      <4>6. b + rec[m] \in Nat
        BY <4>4
      <4>7. Bounded(m)
        BY <4>5, <4>6
      <4> QED BY <3>2, <4>7
    <3> QED BY <3>3, <3>4
  <2>2. target_num \in Children
    BY <1>n
  <2>3. Bounded(target_num)
    BY <2>1, <2>2
  <2> QED BY <1>n, <2>3
<1>3. \E x \in S : \A y \in S : y <= x
  <2> DEFINE U == {b \in Nat : \A t \in Children : rec[t] <= b}
  <2>1. U \subseteq Nat /\ U # {}
    BY <1>2
  <2>2. PICK b \in U : \A y \in U : b <= y
    <3> HIDE DEF U
    <3> QED BY <2>1, LeastNumber
  <2>3. b \in Nat /\ \A t \in Children : rec[t] <= b
    BY <2>2
  <2>4. b \in S
    <3> SUFFICES ASSUME b \notin S PROVE FALSE
      OBVIOUS
    <3>1. \A t \in Children : rec[t] <= b - 1
      <4> TAKE t \in Children
      <4>1. rec[t] # b /\ rec[t] <= b /\ rec[t] \in Nat
        BY <1>s, <1>r, <2>3
      <4> QED BY <2>3, <4>1
    <3>2. b - 1 \in Nat
      <4>1. rec[1] \in Nat /\ rec[1] <= b - 1
        BY <1>n, <1>r, <3>1
      <4> QED BY <2>3, <4>1
    <3>3. b - 1 \in U
      BY <3>1, <3>2
    <3>4. b <= b - 1
      BY <2>2, <3>3
    <3> QED BY <2>3, <3>4
  <2>5. \A y \in S : y <= b
    BY <1>s, <2>3
  <2> QED BY <2>4, <2>5
<1>4. Max(S) \in S /\ \A y \in S : Max(S) >= y
  <2>1. \E x \in S : \A y \in S : x >= y
    <3>1. PICK x \in S : \A y \in S : y <= x
      BY <1>3
    <3>2. \A y \in S : x >= y
      BY <1>s, <3>1
    <3> QED BY <3>2
  <2> QED BY <2>1 DEF Max
<1> HIDE DEF S
<1>5. Min(S) \in Nat /\ Max(S) \in Nat
  BY <1>s, <1>1, <1>4
<1>6. \A t \in Children : Min(S) <= rec[t] /\ rec[t] <= Max(S)
  BY <1>s, <1>r, <1>1, <1>4, <1>5
<1>7. (\E t \in Children : rec[t] = Min(S)) /\ \E t \in Children : rec[t] = Max(S)
  BY <1>s, <1>1, <1>4
<1> QED BY <1>5, <1>6, <1>7 DEF S

\* Positions that ascend from each child to the next ascend.
LEMMA RecordsOrdered ==
    ASSUME Lists, NEW rec \in [Children -> Nat \cup {Unset}], Complete(rec), InOrder(rec)
    PROVE  /\ \A t \in Children : rec[t] \in Nat
           /\ \A t, u \in Children : t <= u => rec[t] <= rec[u]
<1>n. target_num \in Nat /\ target_num >= 1 /\ Children = 1 .. target_num
  BY DEF Lists, Children
<1>r. \A t \in Children : rec[t] \in Nat
  BY DEF Complete, Unset
<1> SUFFICES ASSUME NEW t \in Children, NEW u \in Children, t <= u, ~ (rec[t] <= rec[u])
             PROVE  FALSE
  BY <1>r
<1> DEFINE T == {m \in Children : t <= m /\ ~ (rec[t] <= rec[m])}
<1>1. T \subseteq Nat /\ T # {}
  BY <1>n
<1>2. PICK m \in T : \A y \in T : m <= y
  <2> HIDE DEF T
  <2> QED BY <1>1, LeastNumber
<1>3. m \in Children /\ t <= m /\ ~ (rec[t] <= rec[m])
  BY <1>2
<1>4. m - 1 \in Children /\ t <= m - 1
  BY <1>n, <1>r, <1>3
<1>5. m - 1 \notin T
  <2> HIDE DEF T
  <2> QED BY <1>2, <1>n, <1>3
<1>6. rec[t] <= rec[m - 1]
  BY <1>4, <1>5
<1>7. rec[m - 1] <= rec[m]
  <2>1. m - 1 < target_num /\ (m - 1) + 1 = m
    BY <1>n, <1>3
  <2> QED BY <1>4, <2>1 DEF InOrder
<1> QED BY <1>r, <1>3, <1>4, <1>6, <1>7

\* The definitions of OrderedProxStep.
Follow == pos_record[1] # Unset /\ Lead # 1
Backup == IF Follow THEN [tid2idx EXCEPT ![1] = @ + 1] ELSE backup_tid2idx
Flag == Complete(Taken) /\ InOrder(Taken)
Region == Taken[target_num] - Taken[1]

\* ORDERED_PROX goes on, or ends with the first combination that is in order: the
\* indexes that are restored never leave the list of the first child by more than one.
LEMMA OrderedCases ==
    ASSUME TypeInv, OrderedProxStep
    PROVE  /\ pc = "loop" /\ NextPos(Lead) # End /\ type = "ORDERED_PROX"
           /\ UNCHANGED <<inputs, sorted_int, phrasal_flag, walked, pass, j>>
           /\ \/ backup_tid2idx' = << >>
              \/ /\ backup_tid2idx' \in [Children -> Nat]
                 /\ \A t \in Children : backup_tid2idx'[t] \in 1 .. Len(pos_list_list[t]) + 1
           /\ \/ /\ ~ Flag
                 /\ tid2idx' = Moved /\ pos_record' = Taken
                 /\ skip_first' = (skip_first \/ Follow)
                 /\ pc' = Again
                 /\ UNCHANGED <<region, pos_list>>
              \/ /\ Flag
                 /\ tid2idx' \in [Children -> Nat]
                 /\ pos_record' = [t \in Children |-> Unset]
                 /\ skip_first' = FALSE
                 /\ pc' \in {"done", "aborted"}
                 /\ Region \in Nat /\ Ave(Taken[1], Taken[target_num]) \in Nat
                 /\ IF Region <= prox_dist
                    THEN region' = Region
                         /\ pos_list' = Append(pos_list, Ave(Taken[1], Taken[target_num]))
                    ELSE UNCHANGED <<region, pos_list>>
<1>1. /\ pc = "loop" /\ NextPos(Lead) # End /\ type = "ORDERED_PROX"
      /\ UNCHANGED <<inputs, sorted_int, phrasal_flag, walked, pass, j>>
      /\ backup_tid2idx' = Backup
      /\ IF Flag /\ Region <= prox_dist
         THEN region' = Region /\ pos_list' = Append(pos_list, Ave(Taken[1], Taken[target_num]))
         ELSE UNCHANGED <<region, pos_list>>
      /\ \/ /\ ~ Flag
            /\ tid2idx' = Moved
            /\ pos_record' = Taken
            /\ skip_first' = (skip_first \/ Follow)
            /\ pc' = Again
         \/ /\ Flag /\ Backup # << >>
            /\ tid2idx' = Backup
            /\ pos_record' = [t \in Children |-> Unset]
            /\ skip_first' = FALSE
            /\ pc' = IF Len(pos_list_list[1]) >= Backup[1] - 1 THEN "done" ELSE Again
         \/ /\ Flag /\ Backup = << >>
            /\ UNCHANGED <<tid2idx>>
            /\ pos_record' = [t \in Children |-> Unset]
            /\ skip_first' = FALSE
            /\ pc' \in {"done", "aborted"}
  BY DEF OrderedProxStep, Follow, Backup, Flag, Region
<1>f. /\ Lists /\ tid2idx \in [Children -> Nat] /\ 1 \in Children /\ target_num \in Children
      /\ Taken \in [Children -> Nat \cup {Unset}] /\ Inside(tid2idx)
  BY <1>1, TypeFacts, TakeFacts
<1>2. Backup # << >> =>
        /\ Backup \in [Children -> Nat]
        /\ \A t \in Children : Backup[t] \in 1 .. Len(pos_list_list[t]) + 1
  <2>1. CASE Follow
    <3> DEFINE b == [tid2idx EXCEPT ![1] = @ + 1]
    <3>1. tid2idx[1] + 1 \in Nat /\ tid2idx[1] \in Nat
      BY <1>f
    <3>2. b \in [Children -> Nat] /\ b[1] = tid2idx[1] + 1
          /\ \A t \in Children : t # 1 => b[t] = tid2idx[t]
      BY <1>f, <3>1
    <3>3. Backup = b
      BY <2>1 DEF Backup
    <3> HIDE DEF b
    <3>4. ASSUME NEW t \in Children PROVE b[t] \in 1 .. Len(pos_list_list[t]) + 1
      <4>1. tid2idx[t] \in 1 .. Len(pos_list_list[t]) /\ Len(pos_list_list[t]) \in Nat
        BY <1>f DEF Inside, Lists
      <4>2. b[t] \in {tid2idx[t], tid2idx[t] + 1}
        BY <3>2
      <4> QED BY <4>1, <4>2
    <3> QED BY <3>2, <3>3, <3>4
  <2>2. CASE ~ Follow
    BY <2>2 DEF Backup, TypeInv, TypeOK
  <2> QED BY <2>1, <2>2
<1>3. Backup # << >> => Len(pos_list_list[1]) >= Backup[1] - 1
  <2>1. Len(pos_list_list[1]) \in Nat
    BY <1>f DEF Lists
  <2> QED BY <1>f, <1>2, <2>1
<1>4. Flag => Region \in Nat /\ Ave(Taken[1], Taken[target_num]) \in Nat
  <2> SUFFICES ASSUME Flag PROVE Region \in Nat /\ Ave(Taken[1], Taken[target_num]) \in Nat
    OBVIOUS
  <2>1. Complete(Taken) /\ InOrder(Taken)
    BY DEF Flag
  <2>2. Taken[1] \in Nat /\ Taken[target_num] \in Nat /\ Taken[1] <= Taken[target_num]
    <3>1. 1 <= target_num
      BY <1>f DEF Lists
    <3> QED BY <1>f, <2>1, <3>1, RecordsOrdered
  <2> QED BY <2>2 DEF Region, Ave
<1> QED BY <1>1, <1>2, <1>3, <1>4, <1>f

LEMMA TypeStep == TypeInv /\ [Next]_vars => TypeInv'
<1> SUFFICES ASSUME TypeInv, [Next]_vars PROVE TypeInv'
  OBVIOUS
<1>f. /\ Lists /\ sorted_int \in [Children -> Children]
      /\ (\A t \in Children : \E i \in Children : sorted_int[i] = t)
      /\ tid2idx \in [Children -> Nat] /\ pos_record \in [Children -> Nat \cup {Unset}]
      /\ 1 \in Children /\ pos_list \in Seq(Nat)
  BY TypeFacts
<1>n. target_num \in Nat /\ target_num >= 1
  BY <1>f DEF Lists
<1>t. /\ type \in {"PHRASE", "PROX", "ORDERED_PROX", "AND", "OR"}
      /\ skip_first \in BOOLEAN /\ phrasal_flag \in BOOLEAN /\ walked \in BOOLEAN
      /\ region \in Nat /\ pass \in Nat /\ j \in Nat
      /\ pc \in {"sort", "loop", "update", "done", "aborted"}
      /\ (pc \in {"sort", "update"} \/ type = "PHRASE" => target_num > 1)
      /\ (pc = "sort" => pass \in 1 .. target_num - 1 /\ j \in 1 .. target_num - pass)
      /\ (pc = "update" => j \in 1 .. target_num - 1)
      /\ (pc # "sort" => pass = 1)
      /\ (pc \notin {"sort", "update"} => j = 1)
      /\ (type # "ORDERED_PROX" => ~ skip_first /\ pc # "aborted" /\ Inside(tid2idx))
      /\ (walked => type = "PHRASE" /\ phrasal_flag)
      /\ (phrasal_flag /\ ~ walked => pc = "done")
  BY DEF TypeInv, TypeOK
<1>b. backup_tid2idx = << >> \/
        (backup_tid2idx \in [Children -> Nat] /\
         \A t \in Children : backup_tid2idx[t] \in 1 .. Len(pos_list_list[t]) + 1)
  BY DEF TypeInv, TypeOK
<1>i. pc \notin {"done", "aborted"} => Inside(tid2idx)
  BY DEF TypeInv, TypeOK, Inside
<1>1. CASE BubbleSort
  <2>1. UNCHANGED <<inputs, tid2idx, pos_record, backup_tid2idx, skip_first, region,
                    pos_list, phrasal_flag, walked>> /\ pc = "sort"
    BY <1>1 DEF BubbleSort
  <2>2. j \in 1 .. target_num - 1
    BY <1>n, <1>t, <2>1
  <2>3. sorted_int' \in [Children -> Children]
        /\ \A t \in Children : \E i \in Children : sorted_int'[i] = t
    BY <1>1, <1>f, <2>2, ExchangeFacts DEF BubbleSort
  <2>4. /\ pass' \in Nat /\ j' \in Nat /\ pc' \in {"sort", "loop"}
        /\ (pc' = "sort" => pass' \in 1 .. target_num - 1 /\ j' \in 1 .. target_num - pass')
        /\ (pc' # "sort" => pass' = 1 /\ j' = 1)
    BY <1>1, <1>n, <1>t, <2>1 DEF BubbleSort
  <2> QED BY <1>f, <1>t, <1>b, <1>i, <2>1, <2>3, <2>4, TypeKept
<1>2. CASE update_sorted_int
  <2>1. UNCHANGED <<inputs, pos_record, backup_tid2idx, skip_first, region, pos_list,
                    phrasal_flag, walked, pass>> /\ pc = "update"
    BY <1>2 DEF update_sorted_int
  <2>2. j \in 1 .. target_num - 1
    BY <1>t, <2>1
  <2>3. sorted_int' \in [Children -> Children]
        /\ \A t \in Children : \E i \in Children : sorted_int'[i] = t
    BY <1>2, <1>f, <2>2, ExchangeFacts DEF update_sorted_int
  <2>4. /\ j' \in Nat /\ pc' \in {"update", "loop"}
        /\ (pc' = "update" => j' \in 1 .. target_num - 1)
        /\ (pc' # "update" => j' = 1)
    BY <1>2, <1>n, <1>t, <2>1 DEF update_sorted_int
  <2>5. tid2idx' \in [Children -> Nat] /\ Inside(tid2idx')
    <3>1. CASE UNCHANGED tid2idx
      BY <1>f, <1>i, <2>1, <3>1
    <3>2. CASE tid2idx' = [tid2idx EXCEPT ![1] = @ + 1] /\ tid2idx[1] < Len(pos_list_list[1])
      <4>1. tid2idx[1] + 1 \in Nat /\ tid2idx[1] \in Nat
        BY <1>f
      <4>2. /\ tid2idx' \in [Children -> Nat] /\ tid2idx'[1] = tid2idx[1] + 1
            /\ \A t \in Children : t # 1 => tid2idx'[t] = tid2idx[t]
        BY <1>f, <3>2, <4>1
      <4>3. Inside(tid2idx) /\ Len(pos_list_list[1]) \in Nat
        BY <1>i, <1>f, <2>1 DEF Lists
      <4>4. ASSUME NEW t \in Children PROVE tid2idx'[t] \in 1 .. Len(pos_list_list[t])
        <5>1. CASE t = 1
          BY <3>2, <4>1, <4>2, <4>3, <5>1
        <5>2. CASE t # 1
          BY <4>2, <4>3, <5>2 DEF Inside
        <5> QED BY <5>1, <5>2
      <4> QED BY <4>2, <4>4 DEF Inside
    <3> QED BY <1>2, <3>1, <3>2 DEF update_sorted_int
  <2> QED BY <1>f, <1>t, <1>b, <2>1, <2>3, <2>4, <2>5, TypeKept
<1>3. CASE Exhausted
  BY <1>3, <1>f, <1>t, <1>b, <1>i, TypeKept DEF Exhausted
<1>a. Again \in {"update", "loop"} /\ (Again = "update" => target_num > 1)
  BY DEF Again
<1>u. Again = "update" => 1 \in 1 .. target_num - 1
  BY <1>a, <1>n
<1>4. CASE PhraseStep
  <2>1. /\ pc = "loop" /\ NextPos(Lead) # End /\ ~ walked /\ type = "PHRASE"
        /\ tid2idx' = Moved /\ pos_record' = Taken /\ phrasal_flag' \in BOOLEAN
        /\ pc' = IF phrasal_flag' THEN "done" ELSE Again
        /\ UNCHANGED <<inputs, sorted_int, backup_tid2idx, skip_first, region, pos_list,
                       walked, pass, j>>
    BY <1>4 DEF PhraseStep
  <2>2. Moved \in [Children -> Nat] /\ Inside(Moved) /\ Taken \in [Children -> Nat \cup {Unset}]
    BY <2>1, TakeFacts
  <2> QED BY <1>f, <1>t, <1>b, <1>a, <1>u, <2>1, <2>2, TypeKept
<1>5. CASE WalkPhrase
  <2>1. /\ pc = "done" /\ type = "PHRASE" /\ phrasal_flag /\ walked' = TRUE
        /\ sorted_int' = [t \in Children |-> t] /\ pos_record' = [t \in Children |-> Unset]
        /\ pc' = "sort"
        /\ UNCHANGED <<inputs, tid2idx, backup_tid2idx, skip_first, region, pos_list,
                       phrasal_flag, pass, j>>
    BY <1>5 DEF WalkPhrase
  <2>2. /\ sorted_int' \in [Children -> Children]
        /\ (\A t \in Children : \E i \in Children : sorted_int'[i] = t)
        /\ pos_record' \in [Children -> Nat \cup {Unset}]
    BY <2>1
  <2>3. pass' \in 1 .. target_num - 1 /\ j' \in 1 .. target_num - pass' /\ target_num > 1
    BY <1>n, <1>t, <2>1
  <2> QED BY <1>f, <1>t, <1>b, <2>1, <2>2, <2>3, TypeKept
<1>6. CASE ProxStep
  <2> DEFINE begin == Min(Records(Taken))
             end == Max(Records(Taken))
             found == Complete(Taken) /\ end - begin <= prox_dist
  <2>1. /\ pc = "loop" /\ NextPos(Lead) # End /\ (type \in {"PROX", "AND"} \/ walked)
        /\ tid2idx' = Moved /\ pos_record' = Taken
        /\ (found => region' = end - begin /\ pos_list' = Append(pos_list, Ave(begin, end)))
        /\ (~ found => UNCHANGED <<region, pos_list>>)
        /\ pc' = Again
        /\ UNCHANGED <<inputs, sorted_int, backup_tid2idx, skip_first, phrasal_flag, walked,
                       pass, j>>
    BY <1>6 DEF ProxStep
  <2>2. Moved \in [Children -> Nat] /\ Inside(Moved) /\ Taken \in [Children -> Nat \cup {Unset}]
    BY <2>1, TakeFacts
  <2>3. region' \in Nat /\ pos_list' \in Seq(Nat)
    <3>1. CASE found
      <4>1. begin \in Nat /\ end \in Nat /\ begin <= end
        BY <1>f, <2>2, <3>1, RecordFacts
      <4> HIDE DEF begin, end
      <4>2. end - begin \in Nat /\ Ave(begin, end) \in Nat
        BY <4>1 DEF Ave
      <4>3. pos_list \in Seq(Nat)
        BY <1>f
      <4>4. Append(pos_list, Ave(begin, end)) \in Seq(Nat)
        BY <4>2, <4>3
      <4>5. region' = end - begin /\ pos_list' = Append(pos_list, Ave(begin, end))
        BY <2>1, <3>1 DEF begin, end
      <4> QED BY <4>2, <4>4, <4>5
    <3>2. CASE ~ found
      BY <1>f, <1>t, <2>1, <3>2
    <3> QED BY <3>1, <3>2
  <2> QED BY <1>f, <1>t, <1>b, <1>a, <1>u, <2>1, <2>2, <2>3, TypeKept
<1>7. CASE OrderedProxStep
  <2>1. /\ pc = "loop" /\ NextPos(Lead) # End /\ type = "ORDERED_PROX"
        /\ UNCHANGED <<inputs, sorted_int, phrasal_flag, walked, pass, j>>
        /\ \/ backup_tid2idx' = << >>
           \/ /\ backup_tid2idx' \in [Children -> Nat]
              /\ \A t \in Children : backup_tid2idx'[t] \in 1 .. Len(pos_list_list[t]) + 1
    BY <1>7, OrderedCases
  <2>2. Moved \in [Children -> Nat] /\ Inside(Moved) /\ Taken \in [Children -> Nat \cup {Unset}]
    BY <2>1, TakeFacts
  <2>3. CASE /\ tid2idx' = Moved /\ pos_record' = Taken /\ pc' = Again
             /\ skip_first' = (skip_first \/ Follow) /\ UNCHANGED <<region, pos_list>>
    <3>1. skip_first' \in BOOLEAN
      BY <1>t, <2>3 DEF Follow
    <3> QED BY <1>f, <1>t, <1>a, <1>u, <2>1, <2>2, <2>3, <3>1, TypeKept
  <2>4. CASE /\ tid2idx' \in [Children -> Nat]
             /\ pos_record' = [t \in Children |-> Unset] /\ skip_first' = FALSE
             /\ pc' \in {"done", "aborted"}
             /\ Region \in Nat /\ Ave(Taken[1], Taken[target_num]) \in Nat
             /\ IF Region <= prox_dist
                THEN region' = Region
                     /\ pos_list' = Append(pos_list, Ave(Taken[1], Taken[target_num]))
                ELSE UNCHANGED <<region, pos_list>>
    <3>1. region' \in Nat
      BY <1>t, <2>4
    <3>2. pos_list' \in Seq(Nat)
      <4>1. Append(pos_list, Ave(Taken[1], Taken[target_num])) \in Seq(Nat)
        BY <1>f, <2>4
      <4> QED BY <1>f, <2>4, <4>1
    <3>3. pos_record' \in [Children -> Nat \cup {Unset}]
      BY <2>4
    <3> QED BY <1>f, <1>t, <2>1, <2>4, <3>1, <3>2, <3>3, TypeKept
  <2> QED BY <1>7, <2>3, <2>4, OrderedCases
<1>8. CASE OrStep
  <2>1. /\ pc = "loop" /\ NextPos(Lead) # End /\ type = "OR"
        /\ tid2idx' = Moved /\ pc' = Again
        /\ pos_list' \in {pos_list, Append(pos_list, NextPos(Lead))}
        /\ UNCHANGED <<inputs, sorted_int, pos_record, backup_tid2idx, skip_first, region,
                       phrasal_flag, walked, pass, j>>
    BY <1>8 DEF OrStep
  <2>2. Moved \in [Children -> Nat] /\ Inside(Moved) /\ NextPos(Lead) \in Nat
    BY <2>1, TakeFacts
  <2>3. pos_list' \in Seq(Nat)
    <3>1. pos_list \in Seq(Nat)
      BY <1>f
    <3>2. Append(pos_list, NextPos(Lead)) \in Seq(Nat)
      BY <2>2, <3>1
    <3> QED BY <2>1, <3>1, <3>2
  <2> QED BY <1>f, <1>t, <1>b, <1>a, <1>u, <2>1, <2>2, <2>3, TypeKept
<1>9. CASE UNCHANGED vars
  BY <1>9, <1>f, <1>t, <1>b, <1>i, TypeKept DEF vars
<1> QED BY <1>1, <1>2, <1>3, <1>4, <1>5, <1>6, <1>7, <1>8, <1>9 DEF Next

-----------------------------------------------------------------------------
(* The order of the children. *)

\* InFront is total and transitive, and the exchange goes by it.
LEMMA FrontFacts ==
    ASSUME Lists, Inside(tid2idx)
    PROVE  /\ \A a, b \in Children : Misplaced(a, b) => InFront(b, a)
           /\ \A a, b \in Children : ~ Misplaced(a, b) => InFront(a, b)
           /\ \A a, b, c \in Children : InFront(a, b) /\ InFront(b, c) => InFront(a, c)
<1>1. \A t \in Children : NextPos(t) \in Int
  BY NextFacts DEF Inside
<1>2. \A a, b \in Children : Misplaced(a, b) => InFront(b, a)
  BY <1>1 DEF Misplaced, InFront
<1>3. \A a, b \in Children : ~ Misplaced(a, b) => InFront(a, b)
  BY <1>1 DEF Misplaced, InFront
<1>4. \A a, b, c \in Children : InFront(a, b) /\ InFront(b, c) => InFront(a, c)
  BY <1>1 DEF InFront
<1> QED BY <1>2, <1>3, <1>4

\* What an exchange at j does to the order of any two places.
LEMMA ExchangeOrder ==
    ASSUME TypeInv, pc \in {"sort", "update"}, j \in 1 .. target_num - 1,
           \A i \in Children : i < j => Placed(i, j)
    PROVE  /\ \A i \in Children : i < j + 1 => InFront(Exchange[i], Exchange[j + 1])
           /\ \A i, k \in Children :
                i < k /\ k > j + 1 /\ (\A h \in Children : h < k => Placed(h, k)) =>
                    InFront(Exchange[i], Exchange[k])
           /\ (\A i, k \in Children : i < k /\ i # j /\ k # j => Placed(i, k)) =>
                \A i, k \in Children : i < k /\ i # j + 1 /\ k # j + 1 =>
                    InFront(Exchange[i], Exchange[k])
<1>f. /\ Lists /\ Inside(tid2idx) /\ sorted_int \in [Children -> Children]
      /\ \A t \in Children : \E i \in Children : sorted_int[i] = t
  <2>1. pc \notin {"done", "aborted"}
    OBVIOUS
  <2> QED BY <2>1, TypeFacts DEF TypeInv, TypeOK, Inside
<1>n. target_num \in Nat /\ Children = 1 .. target_num /\ j \in Children /\ j + 1 \in Children
  BY <1>f DEF Lists, Children
<1>e. /\ Exchange \in [Children -> Children]
      /\ \A i \in Children : i # j /\ i # j + 1 => Exchange[i] = sorted_int[i]
      /\ \/ /\ Misplaced(sorted_int[j], sorted_int[j + 1])
            /\ Exchange[j] = sorted_int[j + 1] /\ Exchange[j + 1] = sorted_int[j]
         \/ /\ ~ Misplaced(sorted_int[j], sorted_int[j + 1])
            /\ Exchange[j] = sorted_int[j] /\ Exchange[j + 1] = sorted_int[j + 1]
  BY <1>f, ExchangeFacts
<1>o. /\ \A a, b \in Children : Misplaced(a, b) => InFront(b, a)
      /\ \A a, b \in Children : ~ Misplaced(a, b) => InFront(a, b)
      /\ \A a, b, c \in Children : InFront(a, b) /\ InFront(b, c) => InFront(a, c)
  BY <1>f, FrontFacts
<1>c. sorted_int[j] \in Children /\ sorted_int[j + 1] \in Children
      /\ \A i \in Children : sorted_int[i] \in Children
  BY <1>f, <1>n
<1>1. InFront(Exchange[j], Exchange[j + 1])
  BY <1>e, <1>o, <1>c
<1>2. ASSUME NEW i \in Children, i < j PROVE InFront(Exchange[i], Exchange[j + 1])
  <2>1. Exchange[i] = sorted_int[i]
    BY <1>e, <1>n, <1>2
  <2>2. InFront(sorted_int[i], sorted_int[j])
    BY <1>2 DEF Placed
  <2> QED BY <1>e, <1>o, <1>c, <2>1, <2>2
<1>3. \A i \in Children : i < j + 1 => InFront(Exchange[i], Exchange[j + 1])
  <2> TAKE i \in Children
  <2>1. i < j + 1 => i < j \/ i = j
    BY <1>n
  <2> QED BY <1>1, <1>2, <2>1
<1>4. ASSUME NEW i \in Children, NEW k \in Children, i < k, k > j + 1,
             \A h \in Children : h < k => Placed(h, k)
      PROVE  InFront(Exchange[i], Exchange[k])
  <2>1. Exchange[k] = sorted_int[k] /\ j < k /\ j + 1 < k
    BY <1>e, <1>n, <1>4
  <2>2. PICK h \in Children : h < k /\ Exchange[i] = sorted_int[h]
    BY <1>e, <1>n, <1>4, <2>1
  <2> QED BY <1>4, <2>1, <2>2 DEF Placed
<1>5. ASSUME \A i, k \in Children : i < k /\ i # j /\ k # j => Placed(i, k),
             NEW i \in Children, NEW k \in Children, i < k, i # j + 1, k # j + 1
      PROVE  InFront(Exchange[i], Exchange[k])
  <2>1. CASE i # j /\ k # j
    <3>1. Exchange[i] = sorted_int[i] /\ Exchange[k] = sorted_int[k]
      BY <1>e, <1>5, <2>1
    <3>2. Placed(i, k)
      BY <1>5, <2>1
    <3> QED BY <3>1, <3>2 DEF Placed
  <2>2. CASE i = j
    <3>0. k # j /\ j + 1 < k
      BY <1>n, <1>5, <2>2
    <3>1. Exchange[k] = sorted_int[k] /\ k # j /\ j + 1 < k
      BY <1>e, <1>5, <3>0
    <3>2. Placed(j + 1, k)
      <4>1. j + 1 # j
        BY <1>n
      <4> QED BY <1>5, <1>n, <3>1, <4>1
    <3>3. InFront(sorted_int[j + 1], sorted_int[k])
      BY <3>2 DEF Placed
    <3>4. CASE Exchange[j] = sorted_int[j + 1]
      BY <2>2, <3>1, <3>3, <3>4
    <3>5. CASE Exchange[j] = sorted_int[j] /\ ~ Misplaced(sorted_int[j], sorted_int[j + 1])
      <4>1. InFront(sorted_int[j], sorted_int[j + 1])
        BY <1>o, <1>c, <3>5
      <4>2. InFront(sorted_int[j], sorted_int[k])
        BY <1>o, <1>c, <3>3, <4>1
      <4> QED BY <2>2, <3>1, <3>5, <4>2
    <3> QED BY <1>e, <3>4, <3>5
  <2>3. CASE k = j
    <3>1. Exchange[i] = sorted_int[i] /\ i # j
      BY <1>e, <1>n, <1>5, <2>3
    <3>2. Placed(i, j) /\ Placed(i, j + 1)
      <4>1. i < j /\ i < j + 1 /\ j + 1 # j
        BY <1>n, <1>5, <2>3
      <4> QED BY <1>5, <1>n, <3>1, <4>1
    <3>3. InFront(sorted_int[i], sorted_int[j]) /\ InFront(sorted_int[i], sorted_int[j + 1])
      BY <3>2 DEF Placed
    <3> QED BY <1>e, <2>3, <3>1, <3>3
  <2> QED BY <2>1, <2>2, <2>3
<1> QED BY <1>3, <1>4, <1>5

LEMMA OrderInit == Init => OrderInv
<1> SUFFICES ASSUME Init PROVE OrderInv
  OBVIOUS
<1>1. pass = 1 /\ j = 1 /\ sorted_int = [t \in Children |-> t] /\ pc \in {"sort", "loop"}
      /\ (pc = "loop" => ~ (target_num > 1))
  BY DEF Init
<1>2. target_num \in Nat /\ Children = 1 .. target_num
  BY ListFacts DEF Init, Lists, Children
<1> QED BY <1>1, <1>2 DEF OrderInv

\* When one child moves on, the order of the others stays.
LEMMA MoveOrder ==
    ASSUME TypeInv, UNCHANGED pos_list_list, NEW c \in Children,
           sorted_int' \in [Children -> Children], sorted_int'[1] = c,
           \A i, k \in Children : sorted_int'[i] = sorted_int'[k] => i = k,
           \A t \in Children : t # c => tid2idx'[t] = tid2idx[t],
           NEW i \in Children, NEW k \in Children, i # 1, k # 1,
           InFront(sorted_int'[i], sorted_int'[k])
    PROVE  Placed(i, k)'
<1>1. 1 \in Children
  BY TypeFacts
<1>2. sorted_int'[i] \in Children /\ sorted_int'[k] \in Children
      /\ sorted_int'[i] # c /\ sorted_int'[k] # c
  BY <1>1
<1>3. tid2idx'[sorted_int'[i]] = tid2idx[sorted_int'[i]]
      /\ tid2idx'[sorted_int'[k]] = tid2idx[sorted_int'[k]]
  BY <1>2
<1> QED BY <1>3 DEF Placed, InFront, NextPos

\* No list moves on: the order is the one of sorted_int.
LEMMA SameOrder ==
    ASSUME UNCHANGED <<pos_list_list, tid2idx>>
    PROVE  \A i, k : Placed(i, k)' <=> InFront(sorted_int'[i], sorted_int'[k])
<1> QED BY DEF Placed, InFront, NextPos

LEMMA OrderStep == TypeInv /\ OrderInv /\ [Next]_vars => OrderInv'
<1> SUFFICES ASSUME TypeInv, OrderInv, [Next]_vars PROVE OrderInv'
  OBVIOUS
<1>f. /\ Lists /\ sorted_int \in [Children -> Children] /\ 1 \in Children /\ Lead \in Children
      /\ (\A t \in Children : \E i \in Children : sorted_int[i] = t)
      /\ tid2idx \in [Children -> Nat]
  BY TypeFacts
<1>n. target_num \in Nat /\ target_num >= 1 /\ Children = 1 .. target_num
  BY <1>f DEF Lists, Children
<1>d. \A i, k \in Children : sorted_int[i] = sorted_int[k] => i = k
  BY DEF OrderInv
<1>u. UNCHANGED inputs
  BY DEF Next, BubbleSort, update_sorted_int, Exhausted, PhraseStep, WalkPhrase, ProxStep,
         OrderedProxStep, OrStep, vars
<1>s. target_num' = target_num /\ Children' = Children /\ UNCHANGED pos_list_list
  BY <1>u, SameLists DEF inputs
<1>x. j \in 1 .. target_num - 1 => \A i, k \in Children : Exchange[i] = Exchange[k] => i = k
  <2> SUFFICES ASSUME j \in 1 .. target_num - 1, NEW i \in Children, NEW k \in Children,
                      Exchange[i] = Exchange[k]
               PROVE  i = k
    OBVIOUS
  <2>1. j \in Children /\ j + 1 \in Children
    BY <1>n
  <2>2. /\ \A h \in Children : h # j /\ h # j + 1 => Exchange[h] = sorted_int[h]
        /\ \/ Exchange[j] = sorted_int[j + 1] /\ Exchange[j + 1] = sorted_int[j]
           \/ Exchange[j] = sorted_int[j] /\ Exchange[j + 1] = sorted_int[j + 1]
    BY <1>f, ExchangeFacts
  <2> QED BY <1>d, <2>1, <2>2
<1>1. CASE BubbleSort
  <2>1. UNCHANGED tid2idx /\ sorted_int' = Exchange /\ pc = "sort" /\ pc' \in {"sort", "loop"}
    BY <1>1 DEF BubbleSort
  <2>2. pass \in 1 .. target_num - 1 /\ j \in 1 .. target_num - pass /\ j \in 1 .. target_num - 1
    BY <1>n, <2>1 DEF TypeInv
  <2>3. /\ \A i, k \in Children : i < k /\ k > target_num - pass + 1 => Placed(i, k)
        /\ \A i \in Children : i < j => Placed(i, j)
    BY <2>1 DEF OrderInv
  <2>4. \A i, k : Placed(i, k)' <=> InFront(Exchange[i], Exchange[k])
    BY <1>s, <2>1, SameOrder
  <2>5. \A i \in Children : i < j + 1 => InFront(Exchange[i], Exchange[j + 1])
    BY <2>1, <2>2, <2>3, ExchangeOrder
  <2>6. \A i, k \in Children : i < k /\ k > target_num - pass + 1 => InFront(Exchange[i], Exchange[k])
    <3> SUFFICES ASSUME NEW i \in Children, NEW k \in Children, i < k, k > target_num - pass + 1
                 PROVE  InFront(Exchange[i], Exchange[k])
      OBVIOUS
    <3>1. k > j + 1
      BY <1>n, <2>2
    <3>2. \A h \in Children : h < k => Placed(h, k)
      BY <2>3
    <3> QED BY <2>1, <2>2, <2>3, <3>1, <3>2, ExchangeOrder
  <2>7. CASE j < target_num - pass /\ j' = j + 1 /\ UNCHANGED <<pass, pc>>
    <3>1. \A i, k \in Children : i < k /\ k > target_num - pass' + 1 => Placed(i, k)'
      BY <2>4, <2>6, <2>7
    <3>2. \A i \in Children : i < j' => (Placed(i, j))'
      <4>1. \A i \in Children : i < j' => InFront(sorted_int'[i], sorted_int'[j'])
        BY <2>1, <2>5, <2>7
      <4> QED BY <1>s, <2>1, <4>1 DEF Placed, InFront, NextPos
    <3> QED BY <1>s, <1>x, <2>1, <2>2, <2>7, <3>1, <3>2 DEF OrderInv
  <2>8. CASE j = target_num - pass
    <3>1. \A i, k \in Children : i < k /\ k > target_num - pass => Placed(i, k)'
      <4> SUFFICES ASSUME NEW i \in Children, NEW k \in Children, i < k, k > target_num - pass
                   PROVE  InFront(Exchange[i], Exchange[k])
        BY <2>4
      <4>1. k = j + 1 \/ k > target_num - pass + 1
        BY <1>n, <2>2, <2>8
      <4> QED BY <2>5, <2>6, <4>1
    <3>2. CASE pass' = pass + 1 /\ j' = 1 /\ UNCHANGED pc
      <4>1. target_num - pass' + 1 = target_num - pass
        BY <1>n, <2>2, <3>2
      <4>2. \A i \in Children : ~ (i < j')
        BY <1>n, <3>2
      <4> QED BY <1>s, <1>x, <2>1, <2>2, <3>1, <3>2, <4>1, <4>2 DEF OrderInv
    <3>3. CASE pass = target_num - 1 /\ pc' = "loop"
      <4>1. \A i, k \in Children : i < k => k > target_num - pass
        BY <1>n, <3>3
      <4> QED BY <1>s, <1>x, <2>1, <2>2, <3>1, <3>3, <4>1 DEF OrderInv
    <3> QED BY <1>1, <2>2, <2>8, <3>2, <3>3 DEF BubbleSort
  <2> QED BY <1>1, <2>7, <2>8 DEF BubbleSort
<1>2. CASE update_sorted_int
  <2>1. sorted_int' = Exchange /\ pc = "update" /\ pc' \in {"update", "loop"}
    BY <1>2 DEF update_sorted_int
  <2>2. j \in 1 .. target_num - 1
    BY <2>1 DEF TypeInv
  <2>3. /\ \A i, k \in Children : i < k /\ i # j /\ k # j => Placed(i, k)
        /\ \A i \in Children : i < j => Placed(i, j)
    BY <2>1 DEF OrderInv
  <2>4. \A i \in Children : i < j + 1 => InFront(Exchange[i], Exchange[j + 1])
    BY <2>1, <2>2, <2>3, ExchangeOrder
  <2>5. \A i, k \in Children : i < k /\ i # j + 1 /\ k # j + 1 => InFront(Exchange[i], Exchange[k])
    BY <2>1, <2>2, <2>3, ExchangeOrder
  <2>6. CASE j < target_num - 1
    <3>1. j' = j + 1 /\ UNCHANGED <<tid2idx, pc>>
      BY <1>2, <2>6 DEF update_sorted_int
    <3>2. \A i, k : Placed(i, k)' <=> InFront(Exchange[i], Exchange[k])
      BY <1>s, <2>1, <3>1, SameOrder
    <3>3. \A i \in Children : i < j' => (Placed(i, j))'
      <4>1. \A i \in Children : i < j' => InFront(sorted_int'[i], sorted_int'[j'])
        BY <2>1, <2>4, <3>1
      <4> QED BY <1>s, <3>1, <4>1 DEF Placed, InFront, NextPos
    <3> QED BY <1>s, <1>x, <2>1, <2>2, <2>5, <3>1, <3>2, <3>3 DEF OrderInv
  <2>7. CASE ~ (j < target_num - 1)
    <3>1. j' = 1 /\ j + 1 = target_num
      BY <1>2, <1>n, <2>2, <2>7 DEF update_sorted_int
    <3>2. \A i, k \in Children : i < k => InFront(Exchange[i], Exchange[k])
      <4> SUFFICES ASSUME NEW i \in Children, NEW k \in Children, i < k
                   PROVE  InFront(Exchange[i], Exchange[k])
        OBVIOUS
      <4>1. i # j + 1 /\ (k = j + 1 => i < j + 1)
        BY <1>n, <3>1
      <4> QED BY <2>4, <2>5, <4>1
    <3>3. CASE pc' = "loop" /\ UNCHANGED tid2idx
      <4>1. \A i, k : Placed(i, k)' <=> InFront(Exchange[i], Exchange[k])
        BY <1>s, <2>1, <3>3, SameOrder
      <4> QED BY <1>s, <1>x, <2>1, <2>2, <3>2, <3>3, <4>1 DEF OrderInv
    <3>4. CASE /\ sorted_int'[1] = 1 /\ tid2idx' = [tid2idx EXCEPT ![1] = @ + 1]
               /\ UNCHANGED pc
      <4>1. Exchange \in [Children -> Children]
        BY <1>f, <2>2, ExchangeFacts
      <4>2. \A t \in Children : t # 1 => tid2idx'[t] = tid2idx[t]
        BY <1>f, <3>4
      <4>3. \A i, k \in Children : i < k /\ i # 1 /\ k # 1 => Placed(i, k)'
        <5>1. \A i, k \in Children : sorted_int'[i] = sorted_int'[k] => i = k
          BY <1>x, <2>1, <2>2
        <5>2. sorted_int' \in [Children -> Children]
          BY <2>1, <4>1
        <5>3. \A i, k \in Children : i < k => InFront(sorted_int'[i], sorted_int'[k])
          BY <2>1, <3>2
        <5> SUFFICES ASSUME NEW i \in Children, NEW k \in Children, i < k, i # 1, k # 1
                     PROVE  Placed(i, k)'
          OBVIOUS
        <5>4. InFront(sorted_int'[i], sorted_int'[k])
          BY <5>3
        <5>5. 1 \in Children /\ UNCHANGED pos_list_list /\ sorted_int'[1] = 1
          BY <1>f, <1>s, <3>4
        <5> QED BY <4>2, <5>1, <5>2, <5>4, <5>5, MoveOrder
      <4>4. \A i \in Children : ~ (i < j')
        BY <1>n, <3>1
      <4> QED BY <1>s, <1>x, <2>1, <2>2, <3>1, <3>4, <4>3, <4>4 DEF OrderInv
    <3> QED BY <1>2, <2>7, <3>3, <3>4 DEF update_sorted_int
  <2> QED BY <2>6, <2>7
<1>3. ASSUME pc' = "done" \/ pc' = "aborted", UNCHANGED sorted_int PROVE OrderInv'
  BY <1>3, <1>d, <1>s DEF OrderInv
<1>4. ASSUME pc = "loop", NextPos(Lead) # End, tid2idx' = Moved, pc' = Again, j' = j,
             UNCHANGED sorted_int
      PROVE  OrderInv'
  <2>1. \A t \in Children : t # Lead => tid2idx'[t] = tid2idx[t]
    BY <1>4, TakeFacts
  <2>2. \A i, k \in Children : i < k => InFront(sorted_int'[i], sorted_int'[k])
    BY <1>4 DEF OrderInv, Placed
  <2>3. sorted_int'[1] = Lead
    BY <1>4 DEF Lead
  <2>4. ASSUME NEW i \in Children, NEW k \in Children, i < k, i # 1, k # 1
        PROVE  Placed(i, k)'
    <3>1. InFront(sorted_int'[i], sorted_int'[k])
      BY <2>2, <2>4
    <3>2. /\ sorted_int' \in [Children -> Children] /\ UNCHANGED pos_list_list
          /\ \A h, m \in Children : sorted_int'[h] = sorted_int'[m] => h = m
      BY <1>4, <1>f, <1>d, <1>s
    <3> QED BY <1>f, <2>1, <2>3, <2>4, <3>1, <3>2, MoveOrder
  <2>5. j' = 1 /\ \A i \in Children : ~ (i < j')
    BY <1>4, <1>n DEF TypeInv
  <2>6. CASE target_num > 1
    <3>1. pc' = "update"
      BY <1>4, <2>6 DEF Again
    <3> QED BY <1>4, <1>s, <1>d, <2>4, <2>5, <3>1 DEF OrderInv
  <2>7. CASE ~ (target_num > 1)
    <3>1. pc' = "loop" /\ \A i, k \in Children : ~ (i < k)
      BY <1>4, <1>n, <2>7 DEF Again
    <3> QED BY <1>4, <1>s, <1>d, <3>1 DEF OrderInv
  <2> QED BY <2>6, <2>7
<1>5. CASE Exhausted
  BY <1>3, <1>5 DEF Exhausted
<1>6. CASE PhraseStep
  BY <1>3, <1>4, <1>6 DEF PhraseStep
<1>7. CASE WalkPhrase
  <2>1. pc' = "sort" /\ sorted_int' = [t \in Children |-> t] /\ UNCHANGED <<pass, j>> /\ pc = "done"
    BY <1>7 DEF WalkPhrase
  <2>2. pass' = 1 /\ j' = 1
    BY <2>1 DEF TypeInv
  <2>3. /\ \A i, k \in Children : sorted_int'[i] = sorted_int'[k] => i = k
        /\ \A i \in Children : ~ (i < 1) /\ ~ (i > target_num)
    BY <2>1, <1>n
  <2>4. target_num - pass' + 1 = target_num
    BY <2>2, <1>n
  <2> QED BY <1>s, <2>1, <2>2, <2>3, <2>4 DEF OrderInv
<1>8. CASE ProxStep
  BY <1>4, <1>8 DEF ProxStep
<1>9. CASE OrderedProxStep
  <2>1. UNCHANGED <<sorted_int, j>> /\ pc = "loop" /\ NextPos(Lead) # End
        /\ (pc' \in {"done", "aborted"} \/ (tid2idx' = Moved /\ pc' = Again))
    BY <1>9, OrderedCases
  <2> QED BY <1>3, <1>4, <2>1
<1>10. CASE OrStep
  BY <1>4, <1>10 DEF OrStep
<1>11. CASE UNCHANGED vars
  BY <1>11 DEF OrderInv, Placed, InFront, NextPos, vars, inputs, Children, target_num
<1> QED BY <1>1, <1>2, <1>5, <1>6, <1>7, <1>8, <1>9, <1>10, <1>11 DEF Next

-----------------------------------------------------------------------------
(* The sweep over the lists. *)

LEMMA InputsKept == [Next]_vars => UNCHANGED <<type, prox_dist, pos_list_list>>
<1> QED BY DEF Next, BubbleSort, update_sorted_int, Exhausted, PhraseStep, WalkPhrase,
               ProxStep, OrderedProxStep, OrStep, vars, inputs

\* The first child has the least position that is left, or there is none.
LEMMA LeadFirst ==
    ASSUME TypeInv, OrderInv, pc = "loop"
    PROVE  /\ NextPos(Lead) = End =>
                \A t \in Children : tid2idx[t] = Len(pos_list_list[t])
           /\ NextPos(Lead) # End => \A u \in Children :
                \A k \in tid2idx[u] .. Len(pos_list_list[u]) - 1 :
                    NextPos(Lead) <= pos_list_list[u][k]
<1>f. /\ Lists /\ sorted_int \in [Children -> Children] /\ 1 \in Children /\ Lead \in Children
      /\ (\A t \in Children : \E i \in Children : sorted_int[i] = t)
      /\ tid2idx \in [Children -> Nat]
  BY TypeFacts
<1>i. Inside(tid2idx)
  BY DEF TypeInv, TypeOK, Inside
<1>p. \A t \in Children : /\ NextPos(t) \in Int
                          /\ NextPos(t) = -1 <=> tid2idx[t] = Len(pos_list_list[t])
  BY <1>f, <1>i, NextFacts DEF Inside
<1>1. \A u \in Children : u = Lead \/ InFront(Lead, u)
  <2> TAKE u \in Children
  <2>1. PICK i \in Children : sorted_int[i] = u
    BY <1>f
  <2>2. i = 1 \/ 1 < i
    BY <1>f DEF Children, Lists
  <2> QED BY <1>f, <2>1, <2>2 DEF OrderInv, Placed, Lead
<1>2. ASSUME NextPos(Lead) = End
      PROVE  \A t \in Children : tid2idx[t] = Len(pos_list_list[t])
  <2>1. \A t \in Children : NextPos(t) = End
    BY <1>1, <1>2 DEF InFront
  <2> QED BY <1>p, <2>1 DEF End
<1>3. ASSUME NextPos(Lead) # End, NEW u \in Children
      PROVE  \A k \in tid2idx[u] .. Len(pos_list_list[u]) - 1 :
                NextPos(Lead) <= pos_list_list[u][k]
  <2>1. tid2idx[u] \in 1 .. Len(pos_list_list[u])
    BY <1>i DEF Inside
  <2>2. Len(pos_list_list[u]) \in Nat
    BY <1>f DEF Lists
  <2>3. NextPos(u) \in Int /\ NextPos(Lead) \in Int
    BY <1>f, <1>p
  <2>4. CASE NextPos(u) = End
    <3>1. tid2idx[u] = Len(pos_list_list[u])
      BY <1>p, <2>4 DEF End
    <3> QED BY <2>2, <3>1
  <2>5. CASE NextPos(u) # End
    <3>1. NextPos(Lead) <= NextPos(u)
      BY <1>1, <2>3, <2>5 DEF InFront
    <3>2. tid2idx[u] \in 1 .. Len(pos_list_list[u]) - 1
      BY <1>f, <2>1, <2>5, NextFacts DEF End
    <3>3. ASSUME NEW k \in tid2idx[u] .. Len(pos_list_list[u]) - 1
          PROVE  NextPos(u) <= pos_list_list[u][k] /\ pos_list_list[u][k] \in Nat
      <4>1. k \in 1 .. Len(pos_list_list[u]) - 1 /\ tid2idx[u] <= k
        BY <2>2, <3>2
      <4> QED BY <1>f, <3>2, <4>1 DEF Lists, NextPos
    <3> QED BY <2>3, <3>1, <3>3
  <2> QED BY <2>4, <2>5
<1> QED BY <1>2, <1>3

\* Outside of ORDERED_PROX an index moves only when its position is taken.
LEMMA StepKind ==
    ASSUME TypeInv, [Next]_vars, type # "ORDERED_PROX"
    PROVE  \/ UNCHANGED tid2idx
           \/ pc = "loop" /\ NextPos(Lead) # End /\ tid2idx' = Moved
<1>1. ~ skip_first
  BY DEF TypeInv
<1> QED BY <1>1 DEF Next, BubbleSort, update_sorted_int, Exhausted, PhraseStep, WalkPhrase,
               ProxStep, OrderedProxStep, OrStep, vars

LEMMA SweepStep == TypeInv /\ OrderInv /\ SweepInv /\ [Next]_vars => SweepInv'
<1> SUFFICES ASSUME TypeInv, OrderInv, SweepInv, [Next]_vars, type # "ORDERED_PROX"
             PROVE  SweepInv'
  BY InputsKept DEF SweepInv
<1>s. target_num' = target_num /\ Children' = Children /\ UNCHANGED <<type, pos_list_list>>
  BY InputsKept, SameLists
<1>1. CASE UNCHANGED tid2idx
  BY <1>1, <1>s DEF SweepInv
<1>2. CASE pc = "loop" /\ NextPos(Lead) # End /\ tid2idx' = Moved
  <2>1. /\ Moved[Lead] = tid2idx[Lead] + 1
        /\ \A t \in Children : t # Lead => Moved[t] = tid2idx[t]
        /\ Lead \in Children /\ tid2idx \in [Children -> Nat]
        /\ \A t \in Children : Len(pos_list_list[t]) \in Nat
    BY <1>2, TakeFacts, TypeFacts DEF Lists
  <2> SUFFICES ASSUME NEW t \in Children, NEW u \in Children,
                      NEW i \in 1 .. tid2idx'[t] - 1,
                      NEW k \in tid2idx'[u] .. Len(pos_list_list[u]) - 1
               PROVE  pos_list_list[t][i] <= pos_list_list[u][k]
    BY <1>s DEF SweepInv
  <2>2. k \in tid2idx[u] .. Len(pos_list_list[u]) - 1
    <3>1. tid2idx[u] \in Nat /\ tid2idx'[u] \in {tid2idx[u], tid2idx[u] + 1}
      BY <1>2, <2>1
    <3> QED BY <2>1, <3>1
  <2>3. CASE i \in 1 .. tid2idx[t] - 1
    BY <2>2, <2>3 DEF SweepInv
  <2>4. CASE t = Lead /\ i = tid2idx[t]
    <3>1. pos_list_list[t][i] = NextPos(Lead)
      BY <2>4 DEF NextPos
    <3> QED BY <1>2, <2>2, <3>1, LeadFirst
  <2>5. i \in 1 .. tid2idx[t] - 1 \/ (t = Lead /\ i = tid2idx[t])
    BY <1>2, <2>1
  <2> QED BY <2>3, <2>4, <2>5
<1> QED BY <1>1, <1>2, StepKind

LEMMA SweepInit == Init => SweepInv
<1> SUFFICES ASSUME Init PROVE SweepInv
  OBVIOUS
<1>1. \A t \in Children : tid2idx[t] = 1
  BY DEF Init
<1> QED BY <1>1 DEF SweepInv

-----------------------------------------------------------------------------
(* The positions last taken. *)

LEMMA RecordInit == Init => RecordInv /\ SkipInv
<1> SUFFICES ASSUME Init PROVE RecordInv /\ SkipInv
  OBVIOUS
<1>1. \A t \in Children : pos_record[t] = Unset /\ tid2idx[t] = 1
  BY DEF Init
<1>2. ~ skip_first
  BY DEF Init
<1> QED BY <1>1, <1>2 DEF RecordInv, SkipInv

\* If every word is in the document once, no position is passed over.
LEMMA NoSkip ==
    ASSUME TypeInv, RecordInv, SkipInv, pc = "update", skip_first,
           tid2idx[1] < Len(pos_list_list[1])
    PROVE  ~ WordsOnce
<1> SUFFICES ASSUME WordsOnce PROVE FALSE
  OBVIOUS
<1>1. 1 \in Children /\ type = "ORDERED_PROX"
  BY TypeFacts DEF TypeInv
<1>2. Len(pos_list_list[1]) = 2 /\ tid2idx[1] \in 1 .. Len(pos_list_list[1])
  BY <1>1 DEF WordsOnce, TypeInv, TypeOK
<1>3. tid2idx[1] = 1
  BY <1>2
<1>4. pos_record[1] = Unset
  BY <1>1, <1>3 DEF RecordInv
<1> QED BY <1>4 DEF SkipInv

LEMMA RecordStep ==
    TypeInv /\ OrderInv /\ RecordInv /\ SkipInv /\ [Next]_vars => RecordInv' /\ SkipInv'
<1> SUFFICES ASSUME TypeInv, OrderInv, RecordInv, SkipInv, [Next]_vars
             PROVE  RecordInv' /\ SkipInv'
  OBVIOUS
<1>s. /\ target_num' = target_num /\ Children' = Children
      /\ UNCHANGED <<type, pos_list_list>> /\ WordsOnce' = WordsOnce
      /\ \A t : Occurs(t)' = Occurs(t)
  BY InputsKept, SameLists
<1>f. /\ Lists /\ tid2idx \in [Children -> Nat] /\ 1 \in Children /\ Lead \in Children
      /\ pos_record \in [Children -> Nat \cup {Unset}]
  BY TypeFacts
<1>0. ASSUME UNCHANGED <<tid2idx, pos_record, walked, skip_first>>,
             pc \notin {"done", "aborted"} \/ pc' \in {"done", "aborted"}
      PROVE  RecordInv' /\ SkipInv'
  BY <1>0, <1>s DEF RecordInv, SkipInv
<1>1. ASSUME pc = "loop", NextPos(Lead) # End, tid2idx' = Moved, pos_record' = Taken,
             UNCHANGED walked, type # "OR", skip_first' => (skip_first \/ Follow)
      PROVE  RecordInv' /\ SkipInv'
  <2>1. /\ NextPos(Lead) \in Nat /\ NextPos(Lead) \in Occurs(Lead)
        /\ tid2idx[Lead] \in 1 .. Len(pos_list_list[Lead]) - 1
        /\ Taken[Lead] = NextPos(Lead)
        /\ \A t \in Children : t # Lead => Taken[t] = pos_record[t]
        /\ Moved[Lead] = tid2idx[Lead] + 1
        /\ \A t \in Children : t # Lead => Moved[t] = tid2idx[t]
    BY <1>1, TakeFacts
  <2>2. tid2idx[Lead] \in Nat /\ tid2idx[Lead] >= 1 /\ Len(pos_list_list[Lead]) \in Nat
    BY <1>f, <2>1 DEF Lists
  <2>3. pos_record'[Lead] # Unset
    BY <1>1, <2>1 DEF Unset
  <2>4. ASSUME NEW t \in Children
        PROVE  /\ pos_record'[t] # Unset => pos_record'[t] \in Occurs(t) /\ type # "OR"
               /\ type # "ORDERED_PROX" /\ pos_record'[t] # Unset =>
                    tid2idx'[t] > 1 /\ pos_record'[t] = pos_list_list[t][tid2idx'[t] - 1]
               /\ type \in {"PROX", "PHRASE"} /\ ~ walked' /\ tid2idx'[t] > 1 =>
                    pos_record'[t] # Unset
               /\ type = "ORDERED_PROX" /\ WordsOnce => (tid2idx'[t] = 1 <=> pos_record'[t] = Unset)
    <3>1. CASE t = Lead
      <4>1. tid2idx'[t] - 1 = tid2idx[Lead] /\ tid2idx'[t] > 1 /\ tid2idx'[t] # 1
        BY <1>1, <2>1, <2>2, <3>1
      <4>2. pos_record'[t] = pos_list_list[t][tid2idx'[t] - 1]
        BY <1>1, <2>1, <3>1, <4>1 DEF NextPos
      <4> QED BY <1>1, <2>1, <2>3, <3>1, <4>1, <4>2
    <3>2. CASE t # Lead
      <4>1. pos_record'[t] = pos_record[t] /\ tid2idx'[t] = tid2idx[t]
        BY <1>1, <2>1, <3>2
      <4> QED BY <1>1, <4>1 DEF RecordInv
    <3> QED BY <3>1, <3>2
  <2>5. RecordInv'
    BY <1>s, <2>4 DEF RecordInv
  <2>6. skip_first \/ Follow => pos_record[1] # Unset
    BY <1>1 DEF SkipInv, Follow
  <2>7. pos_record[1] # Unset => pos_record'[1] # Unset
    BY <1>1, <1>f, <2>1, <2>3
  <2> QED BY <1>1, <2>5, <2>6, <2>7 DEF SkipInv
<1>2. ASSUME pos_record' = [t \in Children |-> Unset], ~ skip_first',
             type = "ORDERED_PROX" => pc' \in {"done", "aborted"},
             type = "PHRASE" => walked', type # "PROX"
      PROVE  RecordInv' /\ SkipInv'
  <2>1. \A t \in Children : pos_record'[t] = Unset
    BY <1>2
  <2> QED BY <1>2, <1>s, <2>1 DEF RecordInv, SkipInv
<1>3. CASE BubbleSort
  BY <1>0, <1>3 DEF BubbleSort
<1>4. CASE update_sorted_int
  <2>1. pc = "update" /\ UNCHANGED <<pos_record, walked, skip_first>>
    BY <1>4 DEF update_sorted_int
  <2>2. CASE UNCHANGED tid2idx
    BY <1>0, <2>1, <2>2
  <2>3. CASE /\ skip_first /\ tid2idx[1] < Len(pos_list_list[1])
             /\ tid2idx' = [tid2idx EXCEPT ![1] = @ + 1]
    <3>1. type = "ORDERED_PROX"
      BY <2>3 DEF TypeInv
    <3>2. ~ WordsOnce
      BY <2>1, <2>3, NoSkip
    <3> QED BY <1>s, <2>1, <3>1, <3>2 DEF RecordInv, SkipInv
  <2> QED BY <1>4, <2>2, <2>3 DEF update_sorted_int
<1>5. CASE Exhausted
  BY <1>0, <1>5 DEF Exhausted
<1>6. CASE PhraseStep
  BY <1>1, <1>6 DEF PhraseStep
<1>7. CASE WalkPhrase
  <2>1. ~ skip_first
    BY <1>7 DEF WalkPhrase, TypeInv
  <2> QED BY <1>2, <1>7, <2>1 DEF WalkPhrase
<1>8. CASE ProxStep
  <2>1. type # "OR"
    BY <1>8 DEF ProxStep, TypeInv
  <2> QED BY <1>1, <1>8, <2>1 DEF ProxStep
<1>9. CASE OrderedProxStep
  BY <1>1, <1>2, <1>9, OrderedCases
<1>10. CASE OrStep
  <2>1. type = "OR" /\ UNCHANGED <<pos_record, skip_first>>
    BY <1>10 DEF OrStep
  <2>2. ~ skip_first /\ \A t \in Children : pos_record[t] = Unset
    BY <2>1 DEF RecordInv, TypeInv
  <2> QED BY <1>s, <2>1, <2>2 DEF RecordInv, SkipInv
<1>11. CASE UNCHANGED vars
  BY <1>0, <1>11 DEF vars
<1> QED BY <1>3, <1>4, <1>5, <1>6, <1>7, <1>8, <1>9, <1>10, <1>11 DEF Next

-----------------------------------------------------------------------------
(* Acceptance. *)

\* Words each of which follows the one before are as far apart as in the query.
LEMMA RecordsConsecutive ==
    ASSUME Lists, NEW rec \in [Children -> Nat \cup {Unset}], Complete(rec), Consecutive(rec)
    PROVE  \A t, u \in Children : rec[u] - rec[t] = u - t
<1>n. target_num \in Nat /\ target_num >= 1 /\ Children = 1 .. target_num /\ 1 \in Children
  BY DEF Lists, Children
<1>r. \A t \in Children : rec[t] \in Nat
  BY DEF Complete, Unset
<1> DEFINE T == {m \in Children : rec[m] - rec[1] # m - 1}
<1>1. T = {}
  <2> SUFFICES ASSUME T # {} PROVE FALSE
    OBVIOUS
  <2>1. T \subseteq Nat
    BY <1>n
  <2>2. PICK m \in T : \A y \in T : m <= y
    <3> HIDE DEF T
    <3> QED BY <2>1, LeastNumber
  <2>3. m \in Children /\ rec[m] - rec[1] # m - 1
    BY <2>2
  <2>4. m # 1
    BY <1>n, <1>r, <2>3
  <2>5. m - 1 \in Children /\ m - 1 < target_num /\ (m - 1) + 1 = m
    BY <1>n, <2>3, <2>4
  <2>6. m - 1 \notin T
    <3> HIDE DEF T
    <3> QED BY <1>n, <2>2, <2>3
  <2>7. rec[m - 1] - rec[1] = (m - 1) - 1
    BY <2>5, <2>6
  <2>8. rec[m] - rec[m - 1] = 1
    BY <2>5 DEF Consecutive
  <2>9. rec[m] \in Nat /\ rec[m - 1] \in Nat /\ rec[1] \in Nat
    BY <1>n, <1>r, <2>3, <2>5
  <2> QED BY <1>n, <2>3, <2>7, <2>8, <2>9
<1>2. \A m \in Children : rec[m] - rec[1] = m - 1
  BY <1>1
<1> SUFFICES ASSUME NEW t \in Children, NEW u \in Children
             PROVE  rec[u] - rec[t] = u - t
  OBVIOUS
<1>3. rec[u] - rec[1] = u - 1 /\ rec[t] - rec[1] = t - 1
  BY <1>2
<1>4. rec[u] \in Nat /\ rec[t] \in Nat /\ rec[1] \in Nat /\ t \in Nat /\ u \in Nat
  BY <1>r, <1>n
<1> QED BY <1>3, <1>4

\* Records of all children are a placement.
LEMMA TakenPlaced ==
    ASSUME TypeInv, RecordInv, pc = "loop", NextPos(Lead) # End, Complete(Taken)
    PROVE  Taken \in Placements /\ \A t \in Children : Taken[t] \in Nat
<1>1. /\ NextPos(Lead) \in Occurs(Lead) /\ Lead \in Children
      /\ Taken \in [Children -> Nat \cup {Unset}]
      /\ Taken[Lead] = NextPos(Lead)
      /\ \A t \in Children : t # Lead => Taken[t] = pos_record[t]
  BY TakeFacts, TypeFacts
<1>2. \A t \in Children : Taken[t] \in Nat /\ Taken[t] # Unset
  BY <1>1 DEF Complete, Unset
<1>3. \A t \in Children : Taken[t] \in Occurs(t)
  BY <1>1, <1>2 DEF RecordInv
<1>4. Taken \in [Children -> UNION {Occurs(t) : t \in Children}]
  BY <1>1, <1>3
<1> QED BY <1>2, <1>3, <1>4 DEF Placements

LEMMA SameWanted ==
    ASSUME UNCHANGED <<type, prox_dist, pos_list_list>>
    PROVE  \A f : Wanted(f)' <=> Wanted(f)
<1> QED BY SameLists DEF Wanted

LEMMA FoundInit == Init => FoundInv
<1> QED BY DEF Init, FoundInv, Accepted, MAX_LENGTH_OF_DOCUMENT

LEMMA FoundStep == TypeInv /\ RecordInv /\ FoundInv /\ [Next]_vars => FoundInv'
<1> SUFFICES ASSUME TypeInv, RecordInv, FoundInv, [Next]_vars
             PROVE  FoundInv'
  OBVIOUS
<1>s. /\ UNCHANGED <<type, prox_dist, pos_list_list>> /\ Placements' = Placements
      /\ \A f : Wanted(f)' <=> Wanted(f)
  BY InputsKept, SameLists, SameWanted
<1>f. Lists /\ 1 \in Children /\ target_num \in Children
      /\ prox_dist \in 1 .. MAX_LENGTH_OF_DOCUMENT - 1
      /\ target_num \in Nat /\ Children = 1 .. target_num
  BY TypeFacts DEF Lists, Children
<1>0. ASSUME Accepted' => Accepted PROVE FoundInv'
  BY <1>0, <1>s DEF FoundInv
<1>1. ASSUME UNCHANGED <<region, phrasal_flag>> PROVE FoundInv'
  BY <1>0, <1>1, <1>s DEF Accepted
<1>2. ASSUME NEW f \in Placements, Wanted(f) PROVE FoundInv'
  BY <1>2, <1>s DEF FoundInv
<1>3. CASE PhraseStep
  <2>1. pc = "loop" /\ NextPos(Lead) # End /\ type = "PHRASE"
        /\ phrasal_flag' = (Complete(Taken) /\ Consecutive(Taken))
    BY <1>3 DEF PhraseStep
  <2>2. CASE Complete(Taken) /\ Consecutive(Taken)
    <3>1. Taken \in Placements /\ Taken \in [Children -> Nat \cup {Unset}]
      BY <2>1, <2>2, TakenPlaced, TakeFacts
    <3>2. Wanted(Taken)
      BY <1>f, <2>1, <2>2, <3>1, RecordsConsecutive DEF Wanted
    <3> QED BY <1>2, <3>1, <3>2
  <2>3. CASE ~ (Complete(Taken) /\ Consecutive(Taken))
    BY <1>s, <2>1, <2>3 DEF FoundInv, Accepted
  <2> QED BY <2>2, <2>3
<1>4. CASE ProxStep
  <2> DEFINE begin == Min(Records(Taken))
             end == Max(Records(Taken))
             found == Complete(Taken) /\ end - begin <= prox_dist
  <2>1. /\ pc = "loop" /\ NextPos(Lead) # End /\ UNCHANGED phrasal_flag
        /\ (~ found => UNCHANGED region)
    BY <1>4 DEF ProxStep
  <2>2. CASE ~ found
    BY <1>1, <2>1, <2>2
  <2>3. CASE found /\ type = "PROX"
    <3>1. /\ Taken \in Placements /\ Taken \in [Children -> Nat \cup {Unset}]
          /\ \A t \in Children : Taken[t] \in Nat
      BY <2>1, <2>3, TakenPlaced, TakeFacts
    <3>2. begin \in Nat /\ end \in Nat /\ \A t \in Children : begin <= Taken[t] /\ Taken[t] <= end
      BY <1>f, <2>3, <3>1, RecordFacts
    <3>3. prox_dist \in Int /\ end - begin <= prox_dist
      BY <1>f, <2>3
    <3> HIDE DEF begin, end
    <3>4. \A t, u \in Children : Taken[t] - Taken[u] <= prox_dist
      BY <3>1, <3>2, <3>3
    <3>5. Wanted(Taken)
      BY <2>3, <3>4 DEF Wanted
    <3> QED BY <1>2, <3>1, <3>5
  <2>4. CASE type # "PROX"
    <3>1. type # "ORDERED_PROX"
      BY <1>4 DEF ProxStep, TypeInv
    <3> QED BY <1>s, <2>1, <2>4, <3>1 DEF FoundInv, Accepted
  <2> QED BY <2>2, <2>3, <2>4
<1>5. CASE OrderedProxStep
  <2>1. pc = "loop" /\ NextPos(Lead) # End /\ type = "ORDERED_PROX"
        /\ UNCHANGED phrasal_flag
    BY <1>5, OrderedCases
  <2>2. UNCHANGED region \/ (Flag /\ Region <= prox_dist)
    BY <1>5, OrderedCases
  <2>3. CASE Flag /\ Region <= prox_dist
    <3>0. Complete(Taken) /\ InOrder(Taken)
      BY <2>3 DEF Flag
    <3>1. /\ Taken \in Placements /\ Taken \in [Children -> Nat \cup {Unset}]
          /\ \A t \in Children : Taken[t] \in Nat
      BY <2>1, <3>0, TakenPlaced, TakeFacts
    <3>2. \A t, u \in Children : t <= u => Taken[t] <= Taken[u]
      BY <1>f, <3>0, <3>1, RecordsOrdered
    <3>3. prox_dist \in Int /\ Taken[target_num] - Taken[1] <= prox_dist
      BY <1>f, <2>3 DEF Region
    <3>4. ASSUME NEW t \in Children, NEW u \in Children, t <= u
          PROVE  Taken[t] <= Taken[u] /\ Taken[u] - Taken[t] <= prox_dist
      <4>1. Taken[1] <= Taken[t] /\ Taken[u] <= Taken[target_num]
        BY <1>f, <3>2
      <4>2. Taken[1] \in Nat /\ Taken[t] \in Nat /\ Taken[u] \in Nat /\ Taken[target_num] \in Nat
        BY <1>f, <3>1
      <4>3. Taken[u] - Taken[t] <= prox_dist
        BY <3>3, <4>1, <4>2
      <4> QED BY <3>2, <3>4, <4>3
    <3>5. Wanted(Taken)
      BY <2>1, <3>4 DEF Wanted
    <3> QED BY <1>2, <3>1, <3>5
  <2> QED BY <1>1, <2>1, <2>2, <2>3
<1>6. CASE BubbleSort \/ update_sorted_int \/ Exhausted \/ WalkPhrase \/ OrStep \/ UNCHANGED vars
  <2>1. UNCHANGED <<region, phrasal_flag>>
    BY <1>6 DEF BubbleSort, update_sorted_int, Exhausted, WalkPhrase, OrStep, vars
  <2> QED BY <1>1, <2>1
<1> QED BY <1>3, <1>4, <1>5, <1>6 DEF Next

-----------------------------------------------------------------------------
(* What is not missed. *)

\* When the last position of a placement is taken, the records lie between the
\* placement and that position.
LEMMA LastTaken ==
    ASSUME TypeInv, OrderInv, SweepInv, RecordInv, pc = "loop", NextPos(Lead) # End,
           type \in {"PROX", "PHRASE"}, ~ walked,
           NEW f \in Placements,
           \E t \in Children : ~ Passed(t, f[t]),
           \A t \in Children : \E i \in 1 .. Moved[t] - 1 : pos_list_list[t][i] = f[t]
    PROVE  /\ f[Lead] = NextPos(Lead) /\ Complete(Taken)
           /\ \A t \in Children : /\ f[t] \in Nat /\ Taken[t] \in Nat
                                  /\ f[t] <= Taken[t] /\ Taken[t] <= NextPos(Lead)
<1>f. /\ Lists /\ tid2idx \in [Children -> Nat] /\ Lead \in Children /\ Inside(tid2idx)
      /\ NextPos(Lead) \in Nat
      /\ tid2idx[Lead] \in 1 .. Len(pos_list_list[Lead]) - 1
      /\ Taken \in [Children -> Nat \cup {Unset}]
      /\ Taken[Lead] = NextPos(Lead)
      /\ (\A t \in Children : t # Lead => Taken[t] = pos_record[t])
      /\ Moved[Lead] = tid2idx[Lead] + 1
      /\ (\A t \in Children : t # Lead => Moved[t] = tid2idx[t])
  BY TypeFacts, TakeFacts
<1>1. \A t \in Children : t # Lead => Passed(t, f[t])
  BY <1>f DEF Passed
<1>2. f[Lead] = NextPos(Lead)
  <2>1. ~ Passed(Lead, f[Lead])
    BY <1>1
  <2>2. PICK i \in 1 .. Moved[Lead] - 1 : pos_list_list[Lead][i] = f[Lead]
    BY <1>f
  <2>3. i = tid2idx[Lead] \/ i \in 1 .. tid2idx[Lead] - 1
    BY <1>f, <2>2
  <2> QED BY <2>1, <2>2, <2>3 DEF Passed, NextPos
<1>3. ASSUME NEW t \in Children, t # Lead
      PROVE  /\ f[t] \in Nat /\ Taken[t] \in Nat
             /\ f[t] <= Taken[t] /\ Taken[t] <= NextPos(Lead)
  <2>1. PICK i \in 1 .. tid2idx[t] - 1 : pos_list_list[t][i] = f[t]
    BY <1>1, <1>3 DEF Passed
  <2>2. tid2idx[t] \in 1 .. Len(pos_list_list[t]) /\ Len(pos_list_list[t]) \in Nat
        /\ Len(pos_list_list[Lead]) \in Nat
    BY <1>f DEF Inside, Lists
  <2>3. i \in 1 .. Len(pos_list_list[t]) - 1 /\ tid2idx[t] - 1 \in 1 .. Len(pos_list_list[t]) - 1
        /\ i <= tid2idx[t] - 1 /\ tid2idx[t] > 1 /\ tid2idx[t] - 1 \in 1 .. tid2idx[t] - 1
    BY <2>1, <2>2
  <2>4. Taken[t] = pos_list_list[t][tid2idx[t] - 1]
    BY <1>f, <1>3, <2>3 DEF RecordInv
  <2>5. f[t] <= Taken[t] /\ f[t] \in Nat /\ Taken[t] \in Nat
    BY <1>f, <2>1, <2>3, <2>4 DEF Lists
  <2>6. tid2idx[Lead] \in tid2idx[Lead] .. Len(pos_list_list[Lead]) - 1
    BY <1>f, <2>2
  <2>7. pos_list_list[t][tid2idx[t] - 1] <= pos_list_list[Lead][tid2idx[Lead]]
    BY <1>f, <2>3, <2>6 DEF SweepInv
  <2> QED BY <2>4, <2>5, <2>7 DEF NextPos
<1>4. \A t \in Children : /\ f[t] \in Nat /\ Taken[t] \in Nat
                          /\ f[t] <= Taken[t] /\ Taken[t] <= NextPos(Lead)
  BY <1>f, <1>2, <1>3
<1>5. Complete(Taken)
  BY <1>4 DEF Complete
<1> QED BY <1>2, <1>4, <1>5

\* A single position for every child: the records are the only placement.
LEMMA OnlyPlacement ==
    ASSUME TypeInv, RecordInv, WordsOnce, pc = "loop", NextPos(Lead) # End, Complete(Taken),
           NEW f \in Placements
    PROVE  \A t \in Children : Taken[t] = f[t]
<1>1. Taken \in Placements
  BY TakenPlaced
<1>2. \A g \in Placements : \A t \in Children : g[t] \in Occurs(t)
  BY DEF Placements
<1>3. ASSUME NEW t \in Children, NEW x \in Occurs(t) PROVE x = pos_list_list[t][1]
  <2>1. Len(pos_list_list[t]) = 2
    BY DEF WordsOnce
  <2>2. PICK i \in 1 .. Len(pos_list_list[t]) - 1 : x = pos_list_list[t][i]
    BY DEF Occurs
  <2> QED BY <2>1, <2>2
<1> QED BY <1>1, <1>2, <1>3

LEMMA MissInit == Init => MissInv
<1> SUFFICES ASSUME Init PROVE MissInv
  OBVIOUS
<1>1. 1 \in Children /\ tid2idx[1] = 1 /\ pc # "done"
  BY TypeInit, TypeFacts DEF Init
<1>2. \A x : ~ Passed(1, x)
  BY <1>1 DEF Passed
<1> QED BY <1>1, <1>2 DEF MissInv

LEMMA MissStep ==
    TypeInv /\ OrderInv /\ SweepInv /\ RecordInv /\ SkipInv /\ MissInv /\ [Next]_vars => MissInv'
<1> SUFFICES ASSUME TypeInv, OrderInv, SweepInv, RecordInv, SkipInv, MissInv, [Next]_vars
             PROVE  MissInv'
  OBVIOUS
<1>s. /\ UNCHANGED <<type, prox_dist, pos_list_list>> /\ Placements' = Placements
      /\ target_num' = target_num /\ Children' = Children
      /\ WordsOnce' = WordsOnce /\ WordsApart' = WordsApart
      /\ \A f : Wanted(f)' <=> Wanted(f)
  BY InputsKept, SameLists, SameWanted
<1>e. Exact' <=> Exact
  BY <1>s DEF Exact
<1>f. /\ Lists /\ 1 \in Children /\ target_num \in Children /\ Lead \in Children
      /\ prox_dist \in 1 .. MAX_LENGTH_OF_DOCUMENT - 1
      /\ target_num \in Nat /\ Children = 1 .. target_num
  BY TypeFacts DEF Lists, Children
<1> SUFFICES ASSUME ~ Accepted', Exact, pc' # "aborted", NEW f \in Placements, Wanted(f)
             PROVE  pc' # "done" /\ \E t \in Children : ~ Passed(t, f[t])'
  BY <1>s, <1>e DEF MissInv
<1>t. type \in {"PROX", "PHRASE", "ORDERED_PROX"}
  BY DEF Exact
<1>0. ASSUME ~ Accepted, pc # "aborted"
      PROVE  pc # "done" /\ \E t \in Children : ~ Passed(t, f[t])
  BY <1>0 DEF MissInv
<1>p. ASSUME UNCHANGED tid2idx PROVE \A t : Passed(t, f[t])' <=> Passed(t, f[t])
  BY <1>p, <1>s DEF Passed
<1>a. ASSUME UNCHANGED <<region, phrasal_flag>> PROVE ~ Accepted
  BY <1>a, <1>s DEF Accepted
<1>1. CASE BubbleSort
  <2>1. UNCHANGED <<tid2idx, region, phrasal_flag>> /\ pc = "sort" /\ pc' # "done"
    BY <1>1 DEF BubbleSort
  <2> QED BY <1>0, <1>p, <1>a, <2>1
<1>2. CASE update_sorted_int
  <2>1. UNCHANGED <<region, phrasal_flag>> /\ pc = "update" /\ pc' # "done"
    BY <1>2 DEF update_sorted_int
  <2>2. UNCHANGED tid2idx
    <3> SUFFICES ASSUME ~ UNCHANGED tid2idx PROVE FALSE
      OBVIOUS
    <3>1. skip_first /\ tid2idx[1] < Len(pos_list_list[1])
      BY <1>2 DEF update_sorted_int
    <3>2. WordsOnce
      BY <3>1 DEF Exact, TypeInv
    <3> QED BY <2>1, <3>1, <3>2, NoSkip
  <2> QED BY <1>0, <1>p, <1>a, <2>1, <2>2
<1>3. CASE Exhausted
  <2>1. pc = "loop" /\ NextPos(Lead) = End /\ UNCHANGED <<region, phrasal_flag>>
    BY <1>3 DEF Exhausted
  <2>2. PICK t \in Children : ~ Passed(t, f[t])
    BY <1>0, <1>a, <2>1
  <2>3. tid2idx[t] = Len(pos_list_list[t])
    BY <2>1, LeadFirst
  <2>4. f[t] \in Occurs(t)
    BY DEF Placements
  <2> QED BY <2>2, <2>3, <2>4 DEF Occurs, Passed
<1>4. CASE WalkPhrase
  BY <1>4, <1>s DEF WalkPhrase, Accepted
<1>5. ASSUME ~ Accepted, pc = "loop", NextPos(Lead) # End, tid2idx' = Moved,
             type \in {"PROX", "PHRASE"}, ~ walked, ~ \E t \in Children : ~ Passed(t, f[t])'
      PROVE  /\ f[Lead] = NextPos(Lead) /\ Complete(Taken)
             /\ \A t \in Children : /\ f[t] \in Nat /\ Taken[t] \in Nat
                                    /\ f[t] <= Taken[t] /\ Taken[t] <= NextPos(Lead)
  <2>1. \E t \in Children : ~ Passed(t, f[t])
    BY <1>0, <1>5
  <2>2. \A t \in Children : \E i \in 1 .. Moved[t] - 1 : pos_list_list[t][i] = f[t]
    BY <1>5, <1>s DEF Passed
  <2> QED BY <1>5, <2>1, <2>2, LastTaken
<1>m. Again # "done"
  BY DEF Again
<1>6. CASE PhraseStep
  <2>1. /\ pc = "loop" /\ NextPos(Lead) # End /\ tid2idx' = Moved /\ type = "PHRASE" /\ ~ walked
        /\ phrasal_flag' = (Complete(Taken) /\ Consecutive(Taken))
        /\ pc' = IF phrasal_flag' THEN "done" ELSE Again
    BY <1>6 DEF PhraseStep
  <2>2. ~ phrasal_flag' /\ pc' = Again
    BY <1>s, <2>1 DEF Accepted
  <2>3. ~ Accepted
    BY <2>1 DEF Accepted, TypeInv
  <2>4. WordsApart
    BY <2>1 DEF Exact
  <2>5. ASSUME ~ \E t \in Children : ~ Passed(t, f[t])' PROVE FALSE
    <3>1. /\ f[Lead] = NextPos(Lead) /\ Complete(Taken)
          /\ \A t \in Children : /\ f[t] \in Nat /\ Taken[t] \in Nat
                                 /\ f[t] <= Taken[t] /\ Taken[t] <= NextPos(Lead)
      BY <1>5, <2>1, <2>3, <2>5
    <3>2. \A t, u \in Children : f[u] - f[t] = u - t
      BY <2>1 DEF Wanted
    <3>3. Taken \in Placements
      BY <2>1, <3>1, TakenPlaced
    <3>4. ASSUME NEW t \in Children PROVE Taken[t] = f[t]
      <4> SUFFICES ASSUME Taken[t] # f[t] PROVE FALSE
        OBVIOUS
      <4> DEFINE u == t + (Taken[t] - f[t])
      <4>1. f[t] \in Nat /\ Taken[t] \in Nat /\ f[t] < Taken[t] /\ Taken[t] <= f[Lead]
            /\ f[Lead] - f[t] = Lead - t /\ f[Lead] \in Nat
        <5>1. f[t] \in Nat /\ Taken[t] \in Nat /\ f[t] <= Taken[t] /\ Taken[t] <= f[Lead]
          BY <3>1
        <5>2. f[Lead] - f[t] = Lead - t /\ f[Lead] \in Nat
          BY <1>f, <3>1, <3>2
        <5> QED BY <5>1, <5>2
      <4>2. u \in Children /\ u # t /\ u - t = Taken[t] - f[t]
        BY <1>f, <4>1
      <4> HIDE DEF u
      <4>3. f[u] - f[t] = Taken[t] - f[t] /\ f[u] \in Nat
        BY <3>1, <3>2, <4>2
      <4>4. f[u] = Taken[t]
        BY <4>1, <4>3
      <4>5. f[u] \in Occurs(u) /\ Taken[t] \in Occurs(t)
        BY <3>3, <4>2 DEF Placements
      <4> QED BY <2>4, <4>2, <4>4, <4>5 DEF WordsApart
    <3>5. Consecutive(Taken)
      <4> SUFFICES ASSUME NEW t \in Children, t < target_num
                   PROVE  Taken[t + 1] - Taken[t] = 1
        BY DEF Consecutive
      <4>1. t + 1 \in Children /\ (t + 1) - t = 1
        BY <1>f
      <4>2. f[t + 1] - f[t] = 1
        BY <3>2, <4>1
      <4> QED BY <3>4, <4>1, <4>2
    <3> QED BY <2>1, <2>2, <3>1, <3>5
  <2> QED BY <1>m, <2>2, <2>5
<1>7. CASE ProxStep
  <2> DEFINE begin == Min(Records(Taken))
             end == Max(Records(Taken))
             found == Complete(Taken) /\ end - begin <= prox_dist
  <2>1. /\ pc = "loop" /\ NextPos(Lead) # End /\ tid2idx' = Moved /\ pc' = Again
        /\ UNCHANGED phrasal_flag
        /\ (type \in {"PROX", "AND"} \/ walked)
        /\ (found => region' = end - begin)
        /\ (~ found => UNCHANGED region)
    BY <1>7 DEF ProxStep
  <2>2. type = "PROX" /\ ~ walked
    <3>1. CASE walked
      <4>1. phrasal_flag' /\ type = "PHRASE"
        BY <2>1, <3>1 DEF TypeInv
      <4> QED BY <1>s, <4>1 DEF Accepted
    <3>2. CASE ~ walked
      BY <1>t, <2>1, <3>2
    <3> QED BY <3>1, <3>2
  <2>3. ~ found
    <3> SUFFICES ASSUME found PROVE FALSE
      OBVIOUS
    <3>1. region' = end - begin /\ end - begin <= prox_dist
      BY <2>1
    <3>2. begin \in Nat /\ end \in Nat
      BY <1>f, <2>1, TakeFacts, RecordFacts
    <3>3. region' = MAX_LENGTH_OF_DOCUMENT
      BY <1>s, <2>2 DEF Accepted
    <3> HIDE DEF begin, end
    <3> QED BY <1>f, <3>1, <3>2, <3>3 DEF MAX_LENGTH_OF_DOCUMENT
  <2>4. ~ Accepted
    BY <1>a, <2>1, <2>3
  <2>5. ASSUME ~ \E t \in Children : ~ Passed(t, f[t])' PROVE FALSE
    <3>1. /\ f[Lead] = NextPos(Lead) /\ Complete(Taken)
          /\ \A t \in Children : /\ f[t] \in Nat /\ Taken[t] \in Nat
                                 /\ f[t] <= Taken[t] /\ Taken[t] <= NextPos(Lead)
      BY <1>5, <2>1, <2>2, <2>4, <2>5
    <3>2. \A t, u \in Children : f[t] - f[u] <= prox_dist
      BY <2>2 DEF Wanted
    <3>3. Taken \in [Children -> Nat \cup {Unset}]
      BY <2>1, TakeFacts
    <3>4. PICK t \in Children : Taken[t] = end
      BY <1>f, <3>1, <3>3, RecordFacts
    <3>5. PICK u \in Children : Taken[u] = begin
      BY <1>f, <3>1, <3>3, RecordFacts
    <3> HIDE DEF begin, end
    <3>6. end <= f[Lead] /\ f[u] <= begin /\ f[Lead] - f[u] <= prox_dist
      BY <1>f, <3>1, <3>2, <3>4, <3>5
    <3>7. end \in Nat /\ begin \in Nat /\ f[Lead] \in Nat /\ f[u] \in Nat /\ prox_dist \in Int
      BY <1>f, <3>1, <3>4, <3>5
    <3>8. end - begin <= prox_dist
      BY <3>6, <3>7
    <3> QED BY <2>3, <3>1, <3>8 DEF begin, end
  <2> QED BY <1>m, <2>1, <2>5
<1>8. CASE OrderedProxStep
  <2>1. /\ pc = "loop" /\ NextPos(Lead) # End /\ type = "ORDERED_PROX" /\ UNCHANGED phrasal_flag
    BY <1>8, OrderedCases
  <2>2. WordsOnce
    BY <2>1 DEF Exact
  <2>3. \A t, u \in Children : t <= u => f[t] <= f[u] /\ f[u] - f[t] <= prox_dist
    BY <2>1 DEF Wanted
  <2>4. Complete(Taken) => Flag /\ Region <= prox_dist
    <3> SUFFICES ASSUME Complete(Taken) PROVE Flag /\ Region <= prox_dist
      OBVIOUS
    <3>1. \A t \in Children : Taken[t] = f[t]
      BY <2>1, <2>2, OnlyPlacement
    <3>2. InOrder(Taken)
      BY <1>f, <2>3, <3>1 DEF InOrder
    <3>3. 1 <= target_num
      BY <1>f
    <3> QED BY <1>f, <2>3, <3>1, <3>2, <3>3 DEF Flag, Region
  <2>5. CASE /\ ~ Flag /\ tid2idx' = Moved /\ pc' = Again
    <3>1. ASSUME ~ \E t \in Children : ~ Passed(t, f[t])' PROVE Complete(Taken)
      <4>1. /\ Taken \in [Children -> Nat \cup {Unset}] /\ Taken[Lead] \in Nat
            /\ \A t \in Children : t # Lead => Taken[t] = pos_record[t] /\ Moved[t] = tid2idx[t]
        BY <2>1, TakeFacts
      <4>2. \A t \in Children : Moved[t] # 1
        BY <1>s, <2>5, <3>1 DEF Passed
      <4>3. \A t \in Children : t # Lead => pos_record[t] # Unset
        BY <2>1, <2>2, <4>1, <4>2 DEF RecordInv
      <4>4. \A t \in Children : Taken[t] \in Nat
        BY <4>1, <4>3
      <4> QED BY <4>4 DEF Complete
    <3> QED BY <1>m, <2>4, <2>5, <3>1
  <2>6. CASE /\ Flag /\ Region \in Nat
             /\ IF Region <= prox_dist THEN region' = Region ELSE UNCHANGED region
    <3>1. Region <= prox_dist /\ region' = Region
      BY <2>4, <2>6 DEF Flag
    <3>2. region' = MAX_LENGTH_OF_DOCUMENT
      BY <1>s, <2>1 DEF Accepted
    <3>3. prox_dist \in Int /\ prox_dist < MAX_LENGTH_OF_DOCUMENT
      BY <1>f DEF MAX_LENGTH_OF_DOCUMENT
    <3>4. ~ (MAX_LENGTH_OF_DOCUMENT <= prox_dist)
      BY <3>3 DEF MAX_LENGTH_OF_DOCUMENT
    <3> QED BY <3>1, <3>2, <3>4
  <2> QED BY <1>8, <2>5, <2>6, OrderedCases
<1>9. CASE OrStep
  BY <1>9, <1>t DEF OrStep
<1>10. CASE UNCHANGED vars
  BY <1>0, <1>p, <1>a, <1>10 DEF vars
<1> QED BY <1>1, <1>2, <1>3, <1>4, <1>6, <1>7, <1>8, <1>9, <1>10 DEF Next

-----------------------------------------------------------------------------
(* The positions of the node. *)

LEMMA AppendAscends ==
    ASSUME NEW list \in Seq(Nat), AscendsBy(list), NEW x \in Nat,
           list # << >> => list[Len(list)] <= x /\ (type = "OR" => list[Len(list)] # x)
    PROVE  /\ AscendsBy(Append(list, x)) /\ Append(list, x) # << >>
           /\ Append(list, x)[Len(Append(list, x))] = x
           /\ \A y : (\E i \in 1 .. Len(Append(list, x)) : Append(list, x)[i] = y) <=>
                     y = x \/ \E i \in 1 .. Len(list) : list[i] = y
<1> DEFINE l == Append(list, x)
<1>1. /\ Len(l) = Len(list) + 1 /\ l[Len(list) + 1] = x
      /\ \A i \in 1 .. Len(list) : l[i] = list[i]
  OBVIOUS
<1>2. Len(list) \in Nat /\ (Len(list) > 0 => list # << >>)
  OBVIOUS
<1>3. l # << >>
  BY <1>1, <1>2
<1> HIDE DEF l
<1>4. AscendsBy(l)
  <2> SUFFICES ASSUME NEW i \in 1 .. Len(l) - 1
               PROVE  l[i] <= l[i + 1] /\ (type = "OR" => l[i] # l[i + 1])
    BY DEF AscendsBy
  <2>1. CASE i < Len(list)
    <3>1. i \in 1 .. Len(list) - 1 /\ i + 1 \in 1 .. Len(list) /\ i \in 1 .. Len(list)
      BY <1>1, <1>2, <2>1
    <3> QED BY <1>1, <3>1 DEF AscendsBy
  <2>2. CASE i = Len(list)
    <3>1. i \in 1 .. Len(list) /\ list # << >>
      BY <1>1, <1>2, <2>2
    <3> QED BY <1>1, <2>2, <3>1
  <2> QED BY <1>1, <1>2, <2>1, <2>2
<1>5. l[Len(l)] = x
  BY <1>1
<1>6. ASSUME NEW y
      PROVE  (\E i \in 1 .. Len(l) : l[i] = y) <=> y = x \/ \E i \in 1 .. Len(list) : list[i] = y
  <2>1. \A i \in 1 .. Len(l) : i = Len(list) + 1 \/ i \in 1 .. Len(list)
    BY <1>1, <1>2
  <2>2. Len(list) + 1 \in 1 .. Len(l) /\ \A i \in 1 .. Len(list) : i \in 1 .. Len(l)
    BY <1>1, <1>2
  <2>3. ASSUME NEW i \in 1 .. Len(l), l[i] = y
        PROVE  y = x \/ \E k \in 1 .. Len(list) : list[k] = y
    BY <1>1, <2>1, <2>3
  <2>4. ASSUME NEW i \in 1 .. Len(list), list[i] = y
        PROVE  \E k \in 1 .. Len(l) : l[k] = y
    BY <1>1, <2>2, <2>4
  <2>5. ASSUME y = x PROVE \E k \in 1 .. Len(l) : l[k] = y
    BY <1>1, <2>2, <2>5
  <2> QED BY <2>3, <2>4, <2>5
<1> QED BY <1>3, <1>4, <1>5, <1>6 DEF l

\* The region moves forward with the records.
LEMMA AveAscends ==
    ASSUME Lists, NEW rec \in [Children -> Nat \cup {Unset}], Complete(rec),
           NEW rec2 \in [Children -> Nat \cup {Unset}],
           \A t \in Children : rec[t] <= rec2[t]
    PROVE  /\ Complete(rec2)
           /\ Ave(Min(Records(rec)), Max(Records(rec))) <= Ave(Min(Records(rec2)), Max(Records(rec2)))
<1>1. Complete(rec2)
  BY DEF Complete, Unset
<1> DEFINE a == Min(Records(rec))
           b == Max(Records(rec))
           c == Min(Records(rec2))
           d == Max(Records(rec2))
<1>2. a \in Nat /\ b \in Nat /\ c \in Nat /\ d \in Nat
  BY <1>1, RecordFacts
<1>r. \A t \in Children : rec[t] \in Nat /\ rec2[t] \in Nat
  BY <1>1 DEF Complete, Unset
<1>3. PICK t \in Children : rec2[t] = c
  BY <1>1, RecordFacts
<1>4. a <= rec[t]
  BY RecordFacts
<1>5. PICK u \in Children : rec[u] = b
  BY RecordFacts
<1>6. rec2[u] <= d
  BY <1>1, RecordFacts
<1> HIDE DEF a, b, c, d
<1>7. a <= c /\ b <= d
  BY <1>2, <1>r, <1>3, <1>4, <1>5, <1>6
<1>8. Ave(a, b) <= Ave(c, d)
  BY <1>2, <1>7 DEF Ave
<1> QED BY <1>1, <1>8 DEF a, b, c, d

LEMMA ListInit == Init => ListInv
<1> SUFFICES ASSUME Init PROVE ListInv
  OBVIOUS
<1>1. pos_list = << >> /\ Len(pos_list) = 0 /\ pc # "done"
      /\ \A t \in Children : tid2idx[t] = 1
  BY DEF Init
<1> QED BY <1>1 DEF ListInv, Passed, AscendsBy

LEMMA ListStep ==
    TypeInv /\ OrderInv /\ SweepInv /\ RecordInv /\ ListInv /\ [Next]_vars => ListInv'
<1> SUFFICES ASSUME TypeInv, OrderInv, SweepInv, RecordInv, ListInv, [Next]_vars
             PROVE  ListInv'
  OBVIOUS
<1>s. /\ UNCHANGED <<type, prox_dist, pos_list_list>>
      /\ target_num' = target_num /\ Children' = Children
  BY InputsKept, SameLists
<1>r. \A rec : (Complete(rec) <=> Complete(rec)') /\ Records(rec)' = Records(rec)
  BY <1>s DEF Complete, Records
<1>f. /\ Lists /\ Lead \in Children /\ pos_list \in Seq(Nat) /\ tid2idx \in [Children -> Nat]
      /\ pos_record \in [Children -> Nat \cup {Unset}]
      /\ type \in {"PHRASE", "PROX", "ORDERED_PROX", "AND", "OR"}
  BY TypeFacts DEF TypeInv, TypeOK
<1>l. AscendsBy(pos_list)
  BY DEF ListInv
<1>0. ASSUME UNCHANGED <<pos_list, pos_record, tid2idx, walked>>,
             pc' = "done" => pc = "done",
             pc \notin {"done", "aborted"} \/ pc' \in {"done", "aborted"}
      PROVE  ListInv'
  <2>1. \A t, x : Passed(t, x)' <=> Passed(t, x)
    BY <1>0, <1>s DEF Passed
  <2>2. AscendsBy(pos_list)' /\ (Complete(pos_record) <=> Complete(pos_record)')
        /\ Records(pos_record)' = Records(pos_record)
    BY <1>0, <1>l, <1>s DEF AscendsBy, Complete, Records
  <2> QED BY <1>0, <1>s, <2>1, <2>2 DEF ListInv
<1>1. ASSUME pos_list' = << >>, type # "OR" PROVE ListInv'
  <2>1. AscendsBy(pos_list)'
    BY <1>1 DEF AscendsBy
  <2> QED BY <1>1, <1>s, <2>1 DEF ListInv
<1>2. CASE BubbleSort
  BY <1>0, <1>2 DEF BubbleSort
<1>3. CASE update_sorted_int
  <2>1. pc = "update" /\ UNCHANGED <<pos_list, pos_record, walked>> /\ pc' \in {"update", "loop"}
    BY <1>3 DEF update_sorted_int
  <2>2. CASE UNCHANGED tid2idx
    BY <1>0, <2>1, <2>2
  <2>3. CASE skip_first
    <3>1. type = "ORDERED_PROX"
      BY <2>3 DEF TypeInv
    <3>2. pos_list = << >>
      BY <2>1, <3>1 DEF ListInv
    <3> QED BY <1>1, <2>1, <3>1, <3>2
  <2> QED BY <1>3, <2>2, <2>3 DEF update_sorted_int
<1>4. CASE Exhausted
  <2>1. /\ UNCHANGED <<pos_list, pos_record, tid2idx, walked>> /\ pc = "loop" /\ pc' = "done"
        /\ NextPos(Lead) = End
    BY <1>4 DEF Exhausted
  <2>2. \A t \in Children : tid2idx'[t] = Len(pos_list_list'[t])
    BY <1>s, <2>1, LeadFirst
  <2>3. \A t, x : Passed(t, x)' <=> Passed(t, x)
    BY <1>s, <2>1 DEF Passed
  <2>4. AscendsBy(pos_list)' /\ (Complete(pos_record) <=> Complete(pos_record)')
        /\ Records(pos_record)' = Records(pos_record)
    BY <1>l, <1>s, <2>1 DEF AscendsBy, Complete, Records
  <2> QED BY <1>s, <2>1, <2>2, <2>3, <2>4 DEF ListInv
<1>5. CASE PhraseStep
  <2>1. type = "PHRASE" /\ ~ walked /\ UNCHANGED pos_list
    BY <1>5 DEF PhraseStep
  <2> QED BY <1>1, <2>1 DEF ListInv
<1>6. CASE WalkPhrase
  <2>1. type = "PHRASE" /\ ~ walked /\ UNCHANGED pos_list
    BY <1>6 DEF WalkPhrase
  <2> QED BY <1>1, <2>1 DEF ListInv
<1>7. CASE ProxStep
  <2> DEFINE begin == Min(Records(Taken))
             end == Max(Records(Taken))
             found == Complete(Taken) /\ end - begin <= prox_dist
  <2>1. /\ pc = "loop" /\ NextPos(Lead) # End /\ (type \in {"PROX", "AND"} \/ walked)
        /\ pos_record' = Taken /\ UNCHANGED walked
        /\ (found => pos_list' = Append(pos_list, Ave(begin, end)))
        /\ (~ found => UNCHANGED pos_list)
    BY <1>7 DEF ProxStep
  <2>2. type \in {"PROX", "AND", "PHRASE"} /\ (type = "PHRASE" => walked)
    BY <2>1 DEF TypeInv
  <2>3. Taken \in [Children -> Nat \cup {Unset}]
    BY <2>1, TakeFacts
  <2>4. Complete(pos_record) => \A t \in Children : pos_record[t] <= Taken[t]
    <3> SUFFICES ASSUME Complete(pos_record), NEW t \in Children
                 PROVE  pos_record[t] <= Taken[t]
      OBVIOUS
    <3>1. pos_record[t] \in Nat /\ pos_record[t] # Unset
      BY <1>f DEF Complete, Unset
    <3>2. CASE t # Lead
      BY <2>1, <3>1, <3>2, TakeFacts
    <3>3. CASE t = Lead
      <4>1. /\ tid2idx[t] \in 1 .. Len(pos_list_list[t]) - 1
            /\ Taken[t] = pos_list_list[t][tid2idx[t]]
        BY <2>1, <3>3, TakeFacts DEF NextPos
      <4>2. tid2idx[t] > 1 /\ pos_record[t] = pos_list_list[t][tid2idx[t] - 1]
        BY <2>2, <3>1 DEF RecordInv
      <4>3. Len(pos_list_list[t]) \in Nat
        BY <1>f DEF Lists
      <4>4. tid2idx[t] - 1 \in 1 .. Len(pos_list_list[t]) - 1 /\ tid2idx[t] - 1 <= tid2idx[t]
        BY <4>1, <4>2, <4>3
      <4> QED BY <1>f, <4>1, <4>2, <4>4 DEF Lists
    <3> QED BY <3>2, <3>3
  <2>5. pos_list # << >> =>
          /\ Complete(Taken) /\ pos_list[Len(pos_list)] <= Ave(begin, end)
    <3> SUFFICES ASSUME pos_list # << >>
                 PROVE  Complete(Taken) /\ pos_list[Len(pos_list)] <= Ave(begin, end)
      OBVIOUS
    <3> DEFINE old == Ave(Min(Records(pos_record)), Max(Records(pos_record)))
    <3>1. Complete(pos_record) /\ pos_list[Len(pos_list)] <= old
      BY <2>2 DEF ListInv
    <3>2. Complete(Taken) /\ old <= Ave(begin, end)
      BY <1>f, <2>3, <2>4, <3>1, AveAscends
    <3>3. begin \in Nat /\ end \in Nat
      BY <1>f, <2>3, <3>2, RecordFacts
    <3>4. Min(Records(pos_record)) \in Nat /\ Max(Records(pos_record)) \in Nat
      BY <1>f, <3>1, RecordFacts
    <3> HIDE DEF begin, end
    <3>5. Ave(begin, end) \in Nat /\ old \in Nat
      BY <3>3, <3>4 DEF Ave
    <3> HIDE DEF old
    <3>6. pos_list[Len(pos_list)] \in Nat
      BY <1>f
    <3> QED BY <3>1, <3>2, <3>5, <3>6
  <2>6. AscendsBy(pos_list') /\
        (pos_list' # << >> => Complete(Taken) /\ pos_list'[Len(pos_list')] <= Ave(begin, end))
    <3>1. CASE ~ found
      BY <1>l, <2>1, <2>5, <3>1
    <3>2. CASE found
      <4>1. begin \in Nat /\ end \in Nat /\ Complete(Taken)
        BY <1>f, <2>3, <3>2, RecordFacts
      <4>2. pos_list' = Append(pos_list, Ave(begin, end))
        BY <2>1, <3>2
      <4> HIDE DEF begin, end
      <4>3. Ave(begin, end) \in Nat
        BY <4>1 DEF Ave
      <4>4. AscendsBy(pos_list') /\ pos_list'[Len(pos_list')] = Ave(begin, end)
        BY <1>f, <1>l, <2>2, <2>5, <4>2, <4>3, AppendAscends
      <4> QED BY <4>1, <4>3, <4>4
    <3> QED BY <3>1, <3>2
  <2>7. AscendsBy(pos_list)'
    BY <1>s, <2>6 DEF AscendsBy
  <2>8. Complete(Taken) => Complete(pos_record)'
    BY <1>s, <2>1 DEF Complete
  <2>9. (Ave(Min(Records(pos_record)), Max(Records(pos_record))))' = Ave(begin, end)
    BY <1>s, <2>1 DEF Records
  <2> HIDE DEF begin, end
  <2> QED BY <1>s, <2>1, <2>2, <2>6, <2>7, <2>8, <2>9 DEF ListInv
<1>8. CASE OrderedProxStep
  <2>1. pc = "loop" /\ type = "ORDERED_PROX" /\ pos_list = << >>
    BY <1>8, OrderedCases DEF ListInv
  <2>2. CASE UNCHANGED pos_list
    BY <1>1, <2>1, <2>2
  <2>3. CASE /\ pc' \in {"done", "aborted"} /\ Ave(Taken[1], Taken[target_num]) \in Nat
             /\ pos_list' = Append(pos_list, Ave(Taken[1], Taken[target_num]))
    <3>1. AscendsBy(pos_list')
      BY <1>f, <1>l, <2>1, <2>3, AppendAscends
    <3>2. AscendsBy(pos_list)'
      BY <1>s, <3>1 DEF AscendsBy
    <3> QED BY <1>s, <2>1, <2>3, <3>2 DEF ListInv
  <2> QED BY <1>8, <2>2, <2>3, OrderedCases
<1>9. CASE OrStep
  <2> DEFINE prev_pos == IF pos_list = << >> THEN -1 ELSE pos_list[Len(pos_list)]
             x == NextPos(Lead)
  <2>1. /\ pc = "loop" /\ type = "OR" /\ NextPos(Lead) # End /\ tid2idx' = Moved /\ pc' = Again
        /\ pos_list' = IF x > prev_pos THEN Append(pos_list, x) ELSE pos_list
    BY <1>9 DEF OrStep
  <2>2. /\ x \in Nat /\ tid2idx[Lead] \in 1 .. Len(pos_list_list[Lead]) - 1
        /\ Moved[Lead] = tid2idx[Lead] + 1
        /\ \A t \in Children : t # Lead => Moved[t] = tid2idx[t]
    BY <2>1, TakeFacts
  <2>3. ASSUME NEW y PROVE (\E t \in Children : Passed(t, y))' <=>
                            y = x \/ \E t \in Children : Passed(t, y)
    <3>1. ASSUME NEW t \in Children
          PROVE  Passed(t, y)' <=> Passed(t, y) \/ (t = Lead /\ y = x)
      <4>1. Passed(t, y)' <=> \E i \in 1 .. Moved[t] - 1 : pos_list_list[t][i] = y
        BY <1>s, <2>1 DEF Passed
      <4>2. CASE t # Lead
        BY <2>2, <4>1, <4>2 DEF Passed
      <4>3. CASE t = Lead
        <5>1. /\ tid2idx[Lead] \in 1 .. Moved[Lead] - 1
              /\ \A i \in 1 .. Moved[Lead] - 1 : i = tid2idx[Lead] \/ i \in 1 .. tid2idx[Lead] - 1
              /\ \A i \in 1 .. tid2idx[Lead] - 1 : i \in 1 .. Moved[Lead] - 1
          BY <2>2
        <5> QED BY <4>1, <4>3, <5>1 DEF Passed, NextPos
      <4> QED BY <4>2, <4>3
    <3> QED BY <1>f, <1>s, <3>1
  <2>4. \A y \in Nat : (\E i \in 1 .. Len(pos_list) : pos_list[i] = y) <=>
                       \E t \in Children : Passed(t, y)
    BY <2>1 DEF ListInv
  <2>5. pc' # "done" /\ pc' # "aborted"
    BY <2>1 DEF Again
  <2>6. CASE x > prev_pos
    <3>1. pos_list # << >> => pos_list[Len(pos_list)] \in Nat
      BY <1>f
    <3>2. pos_list # << >> => pos_list[Len(pos_list)] <= x /\ pos_list[Len(pos_list)] # x
      BY <2>2, <2>6, <3>1
    <3> HIDE DEF prev_pos, x
    <3>3. /\ AscendsBy(pos_list')
          /\ \A y : (\E i \in 1 .. Len(pos_list') : pos_list'[i] = y) <=>
                    y = x \/ \E i \in 1 .. Len(pos_list) : pos_list[i] = y
      BY <1>f, <1>l, <2>1, <2>2, <2>6, <3>2, AppendAscends
    <3>4. AscendsBy(pos_list)'
      BY <1>s, <3>3 DEF AscendsBy
    <3>5. \A y \in Nat : (\E i \in 1 .. Len(pos_list') : pos_list'[i] = y) <=>
                         (\E t \in Children : Passed(t, y))'
      BY <2>3, <2>4, <3>3
    <3> QED BY <1>s, <2>1, <2>5, <3>4, <3>5 DEF ListInv
  <2>7. CASE ~ (x > prev_pos)
    <3>1. pos_list # << >>
      BY <2>2, <2>7
    <3>2. /\ Len(pos_list) \in 1 .. Len(pos_list) /\ pos_list[Len(pos_list)] \in Nat
          /\ prev_pos = pos_list[Len(pos_list)]
      BY <1>f, <3>1
    <3>3. PICK t \in Children : Passed(t, pos_list[Len(pos_list)])
      BY <2>4, <3>2
    <3>4. PICK i \in 1 .. tid2idx[t] - 1 : pos_list_list[t][i] = pos_list[Len(pos_list)]
      BY <3>3 DEF Passed
    <3>5. tid2idx[Lead] \in tid2idx[Lead] .. Len(pos_list_list[Lead]) - 1
      <4>1. Len(pos_list_list[Lead]) \in Nat
        BY <1>f DEF Lists
      <4> QED BY <2>2, <4>1
    <3>6. pos_list[Len(pos_list)] <= x
      BY <1>f, <2>1, <3>4, <3>5 DEF SweepInv, NextPos
    <3>7. x = pos_list[Len(pos_list)]
      <4> HIDE DEF x
      <4> QED BY <2>2, <2>7, <3>2, <3>6
    <3>8. UNCHANGED pos_list
      BY <2>1, <2>7
    <3> HIDE DEF x, prev_pos
    <3>9. \A y \in Nat : (\E k \in 1 .. Len(pos_list') : pos_list'[k] = y) <=>
                         (\E u \in Children : Passed(u, y))'
      <4> SUFFICES ASSUME NEW y \in Nat
                   PROVE  (\E k \in 1 .. Len(pos_list) : pos_list[k] = y) <=>
                          (\E u \in Children : Passed(u, y))'
        BY <3>8
      <4>1. y = x => \E k \in 1 .. Len(pos_list) : pos_list[k] = y
        BY <3>2, <3>7
      <4> QED BY <2>3, <2>4, <4>1
    <3>10. AscendsBy(pos_list)'
      BY <1>l, <1>s, <3>8 DEF AscendsBy
    <3> QED BY <1>s, <2>1, <2>5, <3>9, <3>10 DEF ListInv
  <2> QED BY <2>6, <2>7
<1>10. CASE UNCHANGED vars
  BY <1>0, <1>10 DEF vars
<1> QED BY <1>2, <1>3, <1>4, <1>5, <1>6, <1>7, <1>8, <1>9, <1>10 DEF Next

-----------------------------------------------------------------------------
(* The theorems. *)

LEMMA Inductive == Spec => []IInv
<1>1. Init => IInv
  BY TypeInit, OrderInit, SweepInit, RecordInit, FoundInit, MissInit, ListInit DEF IInv
<1>2. IInv /\ [Next]_vars => IInv'
  BY TypeStep, OrderStep, SweepStep, RecordStep, FoundStep, MissStep, ListStep DEF IInv
<1> QED BY <1>1, <1>2, PTL DEF Spec

\* The loops keep their indexes inside the lists and every child in sorted_int, for
\* lists of any length.
THEOREM TypeCorrect == Spec => []TypeOK
<1>1. IInv => TypeOK
  BY DEF IInv, TypeInv
<1> QED BY <1>1, Inductive, PTL

\* merge_phrase and walk_and accept a document only if it has the words where the
\* condition wants them.
THEOREM AcceptedIsRight == Spec => []Sound
<1>1. IInv => Sound
  BY DEF IInv, FoundInv, Sound
<1> QED BY <1>1, Inductive, PTL

\* One sweep that remembers only the position last taken from each child misses no
\* document for PROX, none for a phrase of words that share no position, and none for
\* ORDERED_PROX if each word is in the document once.
THEOREM NoneIsMissed == Spec => []NothingMissed
<1>1. IInv => NothingMissed
  <2> SUFFICES ASSUME MissInv, pc = "done", ~ Accepted PROVE NothingMissed
    BY DEF IInv, NothingMissed
  <2>1. Exact => ~ \E f \in Placements : Wanted(f)
    BY DEF MissInv
  <2> QED BY <2>1 DEF NothingMissed, Exact
<1> QED BY <1>1, Inductive, PTL

\* The positions handed to the parent node ascend; those of an OR node are the
\* positions of its children, each once.
THEOREM NodePositionsAscend == Spec => []PositionsAscend
<1>1. IInv => PositionsAscend
  <2> SUFFICES ASSUME TypeInv, ListInv PROVE PositionsAscend
    BY DEF IInv
  <2>1. \A i \in 1 .. Len(pos_list) - 1 :
          pos_list[i] <= pos_list[i + 1] /\ (type = "OR" => pos_list[i] # pos_list[i + 1])
    BY DEF ListInv, AscendsBy
  <2>2. ASSUME pc = "done", type = "OR"
        PROVE  {pos_list[i] : i \in 1 .. Len(pos_list)} = UNION {Occurs(t) : t \in Children}
    <3>1. /\ Lists /\ pos_list \in Seq(Nat)
      BY TypeFacts
    <3>2. \A t \in Children : tid2idx[t] = Len(pos_list_list[t])
      BY <2>2 DEF ListInv
    <3>3. \A t \in Children : \A x : Passed(t, x) <=> x \in Occurs(t)
      BY <3>2 DEF Passed, Occurs
    <3>4. \A t \in Children : Occurs(t) \subseteq Nat
      BY <3>1 DEF Lists, Occurs
    <3>5. \A x \in Nat : (\E i \in 1 .. Len(pos_list) : pos_list[i] = x) <=>
                         \E t \in Children : x \in Occurs(t)
      BY <2>2, <3>3 DEF ListInv
    <3>6. \A i \in 1 .. Len(pos_list) : pos_list[i] \in Nat
      BY <3>1
    <3>7. ASSUME NEW x \in {pos_list[i] : i \in 1 .. Len(pos_list)}
          PROVE  x \in UNION {Occurs(t) : t \in Children}
      BY <3>5, <3>6
    <3>8. ASSUME NEW x \in UNION {Occurs(t) : t \in Children}
          PROVE  x \in {pos_list[i] : i \in 1 .. Len(pos_list)}
      <4>1. PICK t \in Children : x \in Occurs(t)
        BY <3>8
      <4> QED BY <3>4, <3>5, <4>1
    <3> QED BY <3>7, <3>8
  <2> QED BY <2>1, <2>2 DEF PositionsAscend
<1> QED BY <1>1, Inductive, PTL
=============================================================================
