------------------------------- MODULE TagClip -------------------------------
(***************************************************************************)
(* The commands clip and unite of som.  clip copies the parts of a text that *)
(* certain tags cover; another program annotates the copy; unite maps the    *)
(* positions of those annotations back to the whole text (class Mapper).     *)
(* The character at offset p of the text is the number p, so that a clipped  *)
(* text tells where each of its characters came from.                        *)
(***************************************************************************)
EXTENDS StandOff

CONSTANTS
    relayTags,  \* the names in the tag file of clip
    Newline     \* what clip puts between two regions

VARIABLES
    lineNo,           \* the next line of the file being read
    firstRegion,      \* clip: no region has been started
    endOfLastRegion,  \* clip
    domain,           \* Mapper: the regions in the clipped text ...
    range,            \* ... and in the whole text
    emptyTagRegion    \* where map looks first for an empty tag: <<begin, end>>

clipVars == <<lineNo, firstRegion, endOfLastRegion, domain, range, emptyTagRegion>>
clipRest == <<inputs, outXml>>

ClipEntry(c) == IF c = "clip" THEN "clip" ELSE "container"

ClipReset ==
    /\ lineNo' = 1 /\ firstRegion' = TRUE /\ endOfLastRegion' = 0
    /\ domain' = << >> /\ range' = << >> /\ emptyTagRegion' = <<1, 1>>

-----------------------------------------------------------------------------
\* copy: the characters of the text from offset a up to offset b.
Copy(a, b) == [i \in 1 .. b - a |-> a + i - 1]

\* clipData, one line of the stand-off file.  copy refuses what is not in the text;
\* for a tag that ends before it begins, the unsigned length is larger than any text.
clipData ==
    /\ pc = "clip"
    /\ LET n     == NextLine(so[1], lineNo)
           tag   == so[1][n]
           start == tag.first > endOfLastRegion      \* another contiguous region
           from  == IF start THEN tag.first ELSE endOfLastRegion
       IN  /\ lineNo' = n + 1
           /\ \/ /\ n > Len(so[1]) /\ pc' = "ok"
                 /\ UNCHANGED <<out, outTxt, firstRegion, endOfLastRegion>>
              \/ /\ n <= Len(so[1]) /\ tag = Bad /\ pc' = "error"
                 /\ UNCHANGED <<out, outTxt, firstRegion, endOfLastRegion>>
              \/ /\ n <= Len(so[1]) /\ tag # Bad
                 /\ tag.name \notin relayTags \/ tag.second <= endOfLastRegion
                 /\ UNCHANGED <<pc, out, outTxt, firstRegion, endOfLastRegion>>
              \/ /\ n <= Len(so[1]) /\ tag # Bad
                 /\ tag.name \in relayTags /\ tag.second > endOfLastRegion
                 /\ firstRegion' = (firstRegion /\ ~ start)
                 /\ LET sep == IF start /\ ~ firstRegion THEN <<Newline>> ELSE << >>
                    IN  IF from # tag.second /\ tag.second \notin from .. Len(txt)
                        THEN /\ outTxt' = outTxt \o sep
                             /\ pc' = "error"
                             /\ UNCHANGED <<out, endOfLastRegion>>
                        ELSE /\ outTxt' = outTxt \o sep \o Copy(from, tag.second)
                             /\ endOfLastRegion' = tag.second
                             /\ out' = Append(out, tag)
                             /\ UNCHANGED pc
    /\ UNCHANGED <<clipRest, domain, range, emptyTagRegion>>

-----------------------------------------------------------------------------
\* Mapper::setClippingSpan for one tag of the container file.  The length of a tag
\* that ends before it begins wraps around in the code; clip keeps no such tag.
setClippingSpan ==
    /\ pc = "container"
    /\ LET n    == NextLine(so[1], lineNo)
           s    == so[1][n]
           k    == Len(range)
           last == domain[k].second
       IN  \/ /\ n > Len(so[1])
              /\ lineNo' = 1 /\ pc' = "embedded"
              /\ emptyTagRegion' = <<1, k + 1>>
              /\ UNCHANGED <<domain, range>>
           \/ /\ n <= Len(so[1])
              /\ lineNo' = n + 1
              /\ UNCHANGED emptyTagRegion
              /\ \/ /\ s # Bad => /\ k > 0 /\ s.first <= range[k].second
                                /\ range[k].second < s.second /\ s.first < range[k].first
                    /\ pc' = "error"
                    /\ UNCHANGED <<domain, range>>
                 \/ /\ s # Bad
                    /\ k > 0 => range[k].second < s.first
                    /\ LET from == IF k = 0 THEN 0 ELSE last + 1
                       IN  domain' = Append(domain,
                                 [first |-> from, second |-> from + s.second - s.first])
                    /\ range' = Append(range, [first |-> s.first, second |-> s.second])
                    /\ UNCHANGED pc
                 \/ /\ s # Bad
                    /\ k > 0 /\ s.first <= range[k].second /\ s.first >= range[k].first
                    /\ range[k].second < s.second
                    /\ domain' = [domain EXCEPT ![k].second = @ + s.second - range[k].second]
                    /\ range' = [range EXCEPT ![k].second = s.second]
                    /\ UNCHANGED pc
                 \/ /\ s # Bad
                    /\ k > 0 /\ s.first <= range[k].second /\ s.second <= range[k].second
                    /\ UNCHANGED <<pc, domain, range>>
    /\ UNCHANGED <<clipRest, out, outTxt, firstRegion, endOfLastRegion>>

\* Mutant: the end of a region does not belong to it.
LowerBoundEnd_Strict(b, e, n) == Min({e} \cup {i \in b .. e - 1 : domain[i].second > n})

\* std::lower_bound and std::upper_bound over the regions [b, e).
LowerBoundEnd(b, e, n) == Min({e} \cup {i \in b .. e - 1 : domain[i].second >= n})
UpperBoundBegin(b, e, n) == Min({e} \cup {i \in b .. e - 1 : domain[i].first > n})
contains(s, n) == s.first <= n /\ n <= s.second

\* Mutant: domain and range exchanged.
doMapping_Exchanged(i, n) == domain[i].first + (n - range[i].first)

doMapping(i, n) == range[i].first + (n - domain[i].first)

\* Mapper::map: the regions of the two ends of a tag, or an error, which is an
\* exception or the failed assertion of doMapping.
mapEmpty(n) ==
    LET i == LowerBoundEnd(emptyTagRegion[1], emptyTagRegion[2], n)
        d == IF i # emptyTagRegion[2] THEN i
             ELSE LowerBoundEnd(emptyTagRegion[1], Len(domain) + 1, n)
    IN  [ok |-> d <= Len(domain) /\ (d <= Len(domain) => contains(domain[d], n)),
         dom |-> <<d, d>>, region |-> <<d, d + 1>>]

mapNonEmpty(a, b) ==
    LET i == UpperBoundBegin(1, Len(domain) + 1, a) - 1
        j == LowerBoundEnd(1, Len(domain) + 1, b)
    IN  [ok |-> /\ i > 0 /\ (i > 0 => contains(domain[i], a))
                /\ j <= Len(domain) /\ (j <= Len(domain) => contains(domain[j], b)),
         dom |-> <<i, j>>, region |-> <<i, j>>]

\* readConformedPositions, one tag of the embedded file.
map ==
    /\ pc = "embedded"
    /\ LET n == NextLine(so[2], lineNo)
           t == so[2][n]
           m == IF isEmptyTag(t) THEN mapEmpty(t.first) ELSE mapNonEmpty(t.first, t.second)
       IN  /\ lineNo' = n + 1
           /\ \/ /\ n > Len(so[2]) /\ pc' = "ok"
                 /\ UNCHANGED <<out, emptyTagRegion>>
              \/ /\ n <= Len(so[2])
                 /\ t # Bad => ~ m.ok
                 /\ pc' = "error"
                 /\ UNCHANGED <<out, emptyTagRegion>>
              \/ /\ n <= Len(so[2])
                 /\ t # Bad /\ m.ok
                 /\ out' = Append(out, Tag(doMapping(m.dom[1], t.first),
                                           doMapping(m.dom[2], t.second), t.name))
                 /\ emptyTagRegion' = m.region
                 /\ UNCHANGED pc
    /\ UNCHANGED <<clipRest, outTxt, firstRegion, endOfLastRegion, domain, range>>

ClipNext == clipData \/ setClippingSpan \/ map

-----------------------------------------------------------------------------
\* The character of the clipped text after position p, and the one before it.
After(p) == IF p < Len(outTxt) THEN outTxt[p + 1] ELSE Newline
Before(p) == IF p \in 1 .. Len(outTxt) THEN outTxt[p] ELSE Newline

\* The tag t of the clipped text and the tag u of the whole text are on the same
\* characters; an empty tag stays next to one of its neighbours.
SamePlace(t, u) ==
    LET begin == After(t.first) = u.first
        end   == Before(t.second) = u.second - 1
    IN  IF isEmptyTag(t)
        THEN isEmptyTag(u) /\ (begin \/ end \/ {After(t.first), Before(t.first)} = {Newline})
        ELSE (begin \/ After(t.first) = Newline) /\ (end \/ Before(t.second) = Newline)

\* After clip, unite puts every annotation of the clipped text back on the
\* characters it was made for, and refuses none that lies in that text if both
\* files are in order.
PositionsRestored ==
    command = "unite" /\ pc # "shell" /\ outTxt # << >> =>
        LET ts == Tags(so[2])
        IN  /\ \A i \in 1 .. Len(out) : SamePlace(ts[i], out[i])
            /\ pc = "ok" => Len(out) = Len(ts)
            /\ /\ Clean(so[2]) /\ \A p \in {1, 2} : Sorted(<< >>, Tags(so[p]))
               /\ \A i \in 1 .. Len(ts) : {ts[i].first, ts[i].second} \subseteq 0 .. Len(outTxt)
               => pc # "error"

\* The same for a text that does not begin inside the first of several regions:
\* clip does not separate a region from one that begins at offset 0, although
\* Mapper counts a separator.
UniteInverse == (Len(range) > 1 => range[1].first > 0) => PositionsRestored
=============================================================================
