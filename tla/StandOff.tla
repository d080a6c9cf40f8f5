------------------------------ MODULE StandOff ------------------------------
(***************************************************************************)
(* What the commands of the stand-off annotation tool som share: tags, the   *)
(* order of tags, the lines of a stand-off file, and the variables through   *)
(* which one command hands its result to the next.  Attributes are carried   *)
(* along unchanged by every command and are left out.                        *)
(***************************************************************************)
EXTENDS Integers, SequencesExt

CONSTANTS
    Names,    \* the names of tags
    Blank,    \* an empty line of a stand-off file
    Bad       \* a line that parseStandOffLine does not accept

VARIABLES
    command,  \* what main dispatched to
    args,     \* its command line: "ok", "help", "usage" (wrong number), "nofile"
    pc,       \* where the command is; "ok" and "error" when it has ended
    so,       \* the stand-off files it reads
    txt,      \* the raw text it reads
    xml,      \* the semi-XML it reads
    out,      \* the stand-off lines it writes, or the list it builds for them
    outTxt,   \* the text it writes
    outXml    \* the semi-XML it writes

inputs == <<command, so, txt, xml>>
outputs == <<out, outTxt, outXml>>

ASSUME StandOffAssumption ==
    /\ Blank # Bad
    /\ {Blank, Bad} \cap [first : Nat, second : Nat, name : Names] = {}

Tag(a, b, name) == [first |-> a, second |-> b, name |-> name]
isEmptyTag(t) == t.first = t.second

\* A stand-off file is a sequence of these: a tag, nothing, or anything else.
TagLine == [first : Nat, second : Nat, name : Names]
Line == TagLine \cup {Blank, Bad}

\* The entries of the sequence s that are not in S.
Without(s, S) ==
    LET kept[n \in 0 .. Len(s)] ==
            IF n = 0 THEN << >>
            ELSE IF s[n] \in S THEN kept[n - 1] ELSE Append(kept[n - 1], s[n])
    IN  kept[Len(s)]

\* The sequence s sorted by Before, where every entry goes after those that come
\* before it and those that stand before it and may stay there.
StablySorted(s, Before(_, _)) ==
    LET place(i) == 1 + Cardinality({j \in 1 .. Len(s) :
                          Before(s[j], s[i]) \/ (j < i /\ ~ Before(s[i], s[j]))})
    IN  [k \in 1 .. Len(s) |-> s[CHOOSE i \in 1 .. Len(s) : place(i) = k]]

-----------------------------------------------------------------------------
\* The place of a name in the tag-order file: the last one if it is there
\* twice, 0 if it is not there.
getOrderValue(order, name) == Max({0} \cup {i \in 1 .. Len(order) : order[i] = name})

\* An outer tag comes before an inner one, and the tag-order file decides
\* between tags of the same span.
AIsLessThanB(order, a, b) ==
    \/ a.first < b.first
    \/ a.first = b.first /\ a.second > b.second
    \/ /\ a.first = b.first /\ a.second = b.second
       /\ getOrderValue(order, a.name) < getOrderValue(order, b.name)

Sorted(order, tags) ==
    \A i, j \in 1 .. Len(tags) : i < j => ~ AIsLessThanB(order, tags[j], tags[i])

\* std::stable_sort with this comparison.
StableSort(order, tags) ==
    StablySorted(tags, LAMBDA t, u : AIsLessThanB(order, t, u))

\* The lines of a file that hold a tag, and whether all others are blank.
Tags(lines) == Without(lines, {Blank, Bad})
Clean(lines) == \A i \in 1 .. Len(lines) : lines[i] # Bad

\* TagStream::read and findNextNonEmptyLine: the next line with something on it,
\* from line p on.
NextLine(lines, p) ==
    Min({Len(lines) + 1} \cup {i \in p .. Len(lines) : lines[i] # Blank})
=============================================================================
