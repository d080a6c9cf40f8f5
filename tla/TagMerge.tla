------------------------------ MODULE TagMerge ------------------------------
(***************************************************************************)
(* The commands sort, merge, merge2 and verify of som.  A StandOffManager    *)
(* is its list of tags: sort has one, merge has two (som1 and som2); verify  *)
(* keeps the previous tag only, here the last of som[1].                     *)
(***************************************************************************)
EXTENDS StandOff

VARIABLES
    tagOrder,   \* the names of the tag-order file (-t)
    flags,      \* "i" and "s" of merge
    f,          \* the file being read
    at,         \* the next line of every file
    som,        \* the tags read from the first and the second file
    iter,       \* operator+=: the tag of file 2 to insert
    iter2,      \* operator+=: the next tag of file 1
    same,       \* operator+=: the second inner loop has begun
    queue       \* merge2: the priority queue of the next tag of every file

mergeVars == <<tagOrder, flags, f, at, som, iter, iter2, same, queue>>
mergeRest == <<inputs, outTxt, outXml, tagOrder, flags>>

\* Where the commands begin, and the state they begin in.
MergeEntry(c) == IF c = "merge2" THEN "init" ELSE "read"

MergeReset ==
    /\ f' = 1 /\ iter' = 1 /\ iter2' = 1 /\ same' = FALSE
    /\ at' = [i \in DOMAIN so' |-> 1]
    /\ som' = << << >>, << >> >>
    /\ queue' = {}

-----------------------------------------------------------------------------
ignoreCheck == flags # {}
sortFlag == "s" \in flags

\* Mutant: the tag-order file is not used for the check.
readOrder_None == << >>

\* Whether the loop that reads file f compares each tag with the one before, and
\* by which order: MergeHandler gives the tag-order file to som1 only.
strict == command = "verify" \/ (command = "merge" /\ ~ ignoreCheck)
readOrder == IF f = 1 THEN tagOrder ELSE << >>

\* readDataStrictly and the loop of Verifier::exec: the tag may not come before the
\* one read before it.
outOfOrder(tag) ==
    strict /\ som[f] # << >> /\ AIsLessThanB(readOrder, tag, Last(som[f]))

\* What the exec methods do when file f has been read.
afterRead == CASE command = "sort" -> "sort"
               [] command = "verify" -> "ok"
               [] command = "merge" -> IF f = 1 THEN "read" ELSE "merge"

\* readData: one line.
readData ==
    /\ pc = "read"
    /\ LET n    == NextLine(so[f], at[f])
           line == so[f][n]
           good == line # Bad /\ ~ outOfOrder(line)
       IN  /\ at' = [at EXCEPT ![f] = n + 1]
           /\ \/ /\ n > Len(so[f])
                 /\ f' = IF command = "merge" /\ f = 1 THEN 2 ELSE f
                 /\ pc' = afterRead
                 /\ UNCHANGED som
              \/ /\ n <= Len(so[f]) /\ ~ good
                 /\ pc' = "error"
                 /\ UNCHANGED <<f, som>>
              \/ /\ n <= Len(so[f]) /\ good
                 /\ som' = [som EXCEPT ![f] = Append(@, line)]
                 /\ UNCHANGED <<f, pc>>
    /\ UNCHANGED <<mergeRest, out, iter, iter2, same, queue>>

\* Mutant: the tags of file 1 first where the order leaves a choice.
goesBefore_File1First(a, t) ==
    \/ ~ same /\ a.first < t.first
    \/ /\ a.first = t.first
       /\ \/ a.second > t.second
          \/ /\ a.second = t.second
             /\ getOrderValue(tagOrder, a.name) <= getOrderValue(tagOrder, t.name)

\* operator+=: which tag of file 1 goes before the tag t of file 2.  Once the
\* second inner loop has begun the first one is not entered again.
goesBefore(a, t) ==
    \/ ~ same /\ a.first < t.first
    \/ /\ a.first = t.first
       /\ \/ a.second > t.second
          \/ /\ a.second = t.second
             /\ getOrderValue(tagOrder, a.name) < getOrderValue(tagOrder, t.name)

mergeTags ==
    /\ pc = "merge"
    /\ IF iter > Len(som[2])
       THEN /\ som' = [som EXCEPT ![1] = out \o SubSeq(@, iter2, Len(@))]
            /\ out' = << >>
            /\ pc' = IF sortFlag THEN "sort" ELSE "write"
            /\ UNCHANGED <<iter, iter2, same>>
       ELSE /\ \/ /\ iter2 <= Len(som[1]) /\ goesBefore(som[1][iter2], som[2][iter])
                  /\ out' = Append(out, som[1][iter2])
                  /\ iter2' = iter2 + 1
                  /\ same' = (som[1][iter2].first = som[2][iter].first)
                  /\ UNCHANGED iter
               \/ /\ iter2 <= Len(som[1]) => ~ goesBefore(som[1][iter2], som[2][iter])
                  /\ out' = Append(out, som[2][iter])
                  /\ iter' = iter + 1
                  /\ same' = FALSE
                  /\ UNCHANGED iter2
            /\ UNCHANGED <<som, pc>>
    /\ UNCHANGED <<mergeRest, f, at, queue>>

sort ==
    /\ pc = "sort"
    /\ som' = [som EXCEPT ![1] = StableSort(tagOrder, @)]
    /\ pc' = "write"
    /\ UNCHANGED <<mergeRest, out, f, at, iter, iter2, same, queue>>

writeData ==
    /\ pc = "write"
    /\ out' = som[1]
    /\ pc' = "ok"
    /\ UNCHANGED <<mergeRest, f, at, som, iter, iter2, same, queue>>

-----------------------------------------------------------------------------
\* Mutant: the tag order is asked about empty tags too.
Comp_EmptyTags(t1, t2) ==
    \/ t1.top.first > t2.top.first
    \/ t1.top.first = t2.top.first /\ t1.top.second < t2.top.second
    \/ /\ t1.top.first = t2.top.first /\ t1.top.second = t2.top.second
       /\ LET o1 == getOrderValue(tagOrder, t1.top.name)
              o2 == getOrderValue(tagOrder, t2.top.name)
          IN  IF o1 = o2 THEN t1.fileNo > t2.fileNo ELSE o1 > o2

\* merge2: Comp, whether t1 comes after t2.
Comp(t1, t2) ==
    \/ t1.top.first > t2.top.first
    \/ t1.top.first = t2.top.first /\ t1.top.second < t2.top.second
    \/ /\ t1.top.first = t2.top.first /\ t1.top.second = t2.top.second
       /\ LET o1 == getOrderValue(tagOrder, t1.top.name)
              o2 == getOrderValue(tagOrder, t2.top.name)
          IN  IF isEmptyTag(t1.top) \/ o1 = o2 THEN t1.fileNo > t2.fileNo ELSE o1 > o2

\* goNext: whether tag t may not follow the tag top in one file.
Inverted(top, t) ==
    \/ top.first > t.first
    \/ top.first = t.first /\ top.second < t.second
    \/ /\ top.first = t.first /\ top.second = t.second /\ ~ isEmptyTag(top)
       /\ getOrderValue(tagOrder, top.name) > getOrderValue(tagOrder, t.name)

\* The loop that fills the queue: the first tag of file f.
initSeq ==
    /\ pc = "init"
    /\ LET n == NextLine(so[f], 1)
       IN  /\ at' = [at EXCEPT ![f] = n + 1]
           /\ \/ n <= Len(so[f]) /\ so[f][n] = Bad /\ pc' = "error" /\ UNCHANGED <<f, queue>>
              \/ /\ n <= Len(so[f]) => so[f][n] # Bad
                 /\ queue' = queue \cup
                       (IF n > Len(so[f]) THEN {} ELSE {[top |-> so[f][n], fileNo |-> f]})
                 /\ f' = f + 1
                 /\ pc' = IF f = Len(so) THEN "merge2" ELSE "init"
    /\ UNCHANGED <<mergeRest, out, som, iter, iter2, same>>

\* One pass of the merging loop: the tag is written before goNext reads the
\* next one of its file.
mergeQueue ==
    /\ pc = "merge2"
    /\ \/ /\ queue = {}
          /\ pc' = "ok"
          /\ UNCHANGED <<out, at, queue>>
       \/ \E ts \in queue :
            /\ \A o \in queue \ {ts} : Comp(o, ts)
            /\ out' = Append(out, ts.top)
            /\ LET n == NextLine(so[ts.fileNo], at[ts.fileNo])
                   t == so[ts.fileNo][n]
                   good == t # Bad /\ ~ Inverted(ts.top, t)
               IN  /\ at' = [at EXCEPT ![ts.fileNo] = n + 1]
                   /\ \/ /\ n > Len(so[ts.fileNo])
                         /\ queue' = queue \ {ts}
                         /\ UNCHANGED pc
                      \/ /\ n <= Len(so[ts.fileNo]) /\ ~ good
                         /\ queue' = queue \ {ts}
                         /\ pc' = "error"
                      \/ /\ n <= Len(so[ts.fileNo]) /\ good
                         /\ queue' = (queue \ {ts}) \cup {[ts EXCEPT !.top = t]}
                         /\ UNCHANGED pc
    /\ UNCHANGED <<mergeRest, f, som, iter, iter2, same>>

MergeNext == readData \/ mergeTags \/ sort \/ writeData \/ initSeq \/ mergeQueue

-----------------------------------------------------------------------------
Count(s, t) == Cardinality({i \in 1 .. Len(s) : s[i] = t})

\* merge: from two files in order the result is their union in order, with the
\* tags of file 2 first where the order leaves a choice; with -s the same from
\* any files.  It refuses a file only for a line it cannot parse or, without -i,
\* for a tag out of order.
MergeRight ==
    /\ command = "merge" /\ args = "ok" /\ pc = "ok" =>
         LET t1 == Tags(so[1])
             t2 == Tags(so[2])
         IN  /\ (\A p \in {1, 2} : Sorted(tagOrder, Tags(so[p])))
                => out = StableSort(tagOrder, t2 \o t1)
             /\ sortFlag => Sorted(tagOrder, out)
             /\ \A t \in Range(t1 \o t2 \o out) : Count(out, t) = Count(t1 \o t2, t)
    /\ command = "merge" /\ args = "ok" /\ pc = "error" =>
         \E p \in {1, 2} : ~ Clean(so[p]) \/ (~ ignoreCheck /\ ~ Sorted(tagOrder, Tags(so[p])))

\* The order of merge2 leaves empty tags with the same position as they come.
Earlier(t, u) == AIsLessThanB(IF isEmptyTag(t) THEN << >> ELSE tagOrder, t, u)
InOrder(s) == \A i, j \in 1 .. Len(s) : i < j => ~ Earlier(s[j], s[i])

\* merge2: what has been written is in order at every moment and, if every file
\* is, ends as the stable union of the files in the order of the command line.
\* Only a file out of order, or with a line that is no tag, makes it stop.
Merge2Right ==
    command = "merge2" /\ args = "ok" =>
        /\ InOrder(out)
        /\ pc \in {"ok", "error"} =>
             (pc = "ok" <=> \A p \in DOMAIN so : Clean(so[p]) /\ InOrder(Tags(so[p])))
        /\ pc = "ok" =>
             out = StablySorted(FlattenSeq([p \in DOMAIN so |-> Tags(so[p])]), Earlier)
=============================================================================
