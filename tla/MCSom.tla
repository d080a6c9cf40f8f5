------------------------------- MODULE MCSom -------------------------------
(* Small files for every command of som, alone and in the sessions that make  *)
(* use of its results.                                                         *)
EXTENDS Som

CONSTANTS r, a, b   \* names: the root or relay tag, and two others

UpTo(S, n) == UNION {[1 .. k -> S] : k \in 0 .. n}

Session(commands, files) ==
    [script |-> commands, args |-> "ok", so |-> files, txt |-> << >>, xml |-> {<< >>},
     tagOrder |-> {<< >>}, flags |-> {{}}]

Orders == {<< >>, <<a>>, <<b, a, b>>, <<a, b>>}

\* Tags with the same span, inside each other, empty, and lines that are no tags.
MergeTags == {Tag(0, 2, a), Tag(0, 2, b), Tag(0, 2, r), Tag(0, 1, a), Tag(1, 1, a), Tag(1, 2, b)}
Files == UpTo(MergeTags, 2) \cup {<<Bad>>, <<Blank, Tag(0, 2, a), Blank>>, <<Tag(0, 2, a), Bad>>}
SmallTags == {Tag(0, 1, a), Tag(0, 1, b), Tag(1, 1, a), Tag(1, 1, b)}
SmallFiles == UpTo(SmallTags, 2) \cup {<<Bad>>, <<Blank, Tag(0, 1, a), Bad>>}

MergeSessions ==
    {[Session(<<"merge">>, Files \X Files) EXCEPT
        !.tagOrder = Orders, !.flags = {{}, {"i"}, {"s"}}],
     [Session(<<"merge2">>, SmallFiles \X SmallFiles \X UpTo(SmallTags, 1)) EXCEPT
        !.tagOrder = Orders]}
    \cup {[Session(c, [{1} -> Files \cup [1 .. 3 -> MergeTags]]) EXCEPT !.tagOrder = Orders] :
        c \in {<<"sort", "verify">>, <<"verify">>}}

\* Relay tags that touch, overlap, contain one another or are empty, the text
\* they are clipped from, and annotations of the clipped text.
Text == <<0, 1, 2, 3, 4, 5, 6>>
RelayTags == {Tag(p[1], p[2], r) : p \in {q \in (0 .. 4) \X (0 .. 4) : q[1] <= q[2]}}
FewRelayTags == {Tag(0, 1, r), Tag(1, 2, r), Tag(1, 3, r), Tag(3, 3, r), Tag(4, 5, r), Tag(6, 7, r)}
Containers ==
    UpTo(RelayTags, 2) \cup [1 .. 3 -> FewRelayTags]
    \cup {<<Tag(0, 5, a), Blank, Tag(1, 2, r)>>, <<Tag(3, 9, r)>>, <<Bad>>,
          <<Tag(3, 1, r), Tag(4, 5, r)>>}
ClipSessions == {[Session(<<"clip", "unite">>, [{1} -> Containers]) EXCEPT !.txt = Text]}

\* Files that clip has not made.
UniteFiles == {<< >>, <<Bad>>, <<Tag(1, 4, r), Tag(2, 3, r), Blank>>, <<Tag(3, 4, r), Tag(1, 5, r)>>}
UniteSessions == {Session(<<"unite">>, UniteFiles \X UniteFiles)}

MCAnnotations(text) ==
    LET spans == {p \in (0 .. Len(text)) \X (0 .. Len(text)) : p[1] <= p[2]}
    IN  {<<Tag(p[1], p[2], a)>> : p \in spans}
        \cup {<<Tag(p[1], p[2], a), Tag(q, q, b)>> : p \in spans, q \in 0 .. Len(text)}
        \cup {<<Blank, Tag(1, 0, a), Tag(1, 1, b)>>, <<Tag(0, Len(text) + 1, a)>>, <<Tag(0, 0, a), Bad>>}

\* Documents: all short ones, and longer ones of elements that may cross.
Char == [k |-> "char", byte |-> 97]
Tokens == {Start(r), End(r), Start(a), End(a), Empty(a), Start(Bang), Char,
           [k |-> "ref", entity |-> "lt"], [k |-> "ref", base |-> 16, digits |-> <<7, 15, 15>>],
           [k |-> "ref", base |-> 10, digits |-> <<6, 5, 5, 3, 5>>],
           [k |-> "ref", base |-> 16, digits |-> <<1, 0, 15, 15, 15, 15>>],
           [k |-> "ref", base |-> 16, digits |-> <<1, 1, 0, 0, 0, 0>>],
           [k |-> "ref", base |-> 10, digits |-> <<10>>], [k |-> "ref", entity |-> "nbsp"],
           [k |-> "bad"], [k |-> "open"]}
Crossing == <<Start(a), End(a), Start(b), End(b), Char, Char>>

\* The first and the last code of every length in UTF-8, and what is no code.
Edges == {[k |-> "ref", base |-> 10, digits |-> d] :
             d \in {<<0>>, <<1, 2, 7>>, <<1, 2, 8>>, <<2, 0, 4, 7>>, <<2, 0, 4, 8>>, <<6, 5, 5, 3, 5>>,
                    <<6, 5, 5, 3, 6>>, <<1, 1, 1, 4, 1, 1, 1>>, <<1, 1, 1, 4, 1, 1, 2>>, << >>, <<11>>}}

Documents ==
    UpTo(Tokens, 3)
    \cup {<<Start(r), e, Start(a), Char, End(a), g, End(r)>> : e, g \in Edges}
    \cup {<<Start(r)>> \o d \o <<End(r)>> : d \in [1 .. 2 -> Tokens]}
    \cup {<<Start(r)>> \o [i \in 1 .. 6 |-> Crossing[p[i]]] \o <<End(r)>> :
             p \in {q \in [1 .. 6 -> 1 .. 6] : IsInjective(q)}}

\* Stand-off files for export, with tags that end before they begin or outside
\* the text.
ExportTags == {Tag(0, 2, a), Tag(0, 1, b), Tag(1, 2, a), Tag(0, 0, a), Tag(1, 1, b), Tag(2, 2, a),
               Tag(1, 0, a), Tag(2, 3, b), Tag(3, 3, a)}
XmlSessions ==
    {[Session(<<"import", "export", "import">>, {<< >>}) EXCEPT !.xml = Documents],
     [Session(<<"export">>, [{1} -> UpTo(ExportTags, 3) \cup {<<Bad>>, <<Blank, Tag(0, 2, a), Bad>>}])
        EXCEPT !.txt = <<97, 38>>]}

MCSessions ==
    MergeSessions \cup ClipSessions \cup UniteSessions \cup XmlSessions
    \cup {[Session(<<c>>, {<< << >> >>}) EXCEPT !.args = x] :
             c \in {"sort", "merge", "merge2", "unite", "export"}, x \in {"help", "usage", "nofile"}}
    \cup {[Session(<<"bogus">>, {<< >>}) EXCEPT !.args = x] : x \in {"ok", "help"}}
=============================================================================
