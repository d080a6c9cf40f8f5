------------------------------- MODULE TagXml -------------------------------
(***************************************************************************)
(* The commands import and export of som, between semi-XML on one side and   *)
(* a raw text with a stand-off file on the other.  Semi-XML is a sequence of *)
(* tokens: start, end and empty tags, characters (bytes), references,        *)
(* "bad" (a tag without a name) and "open" (a tag the input ends in).        *)
(* A text is a sequence of bytes.                                            *)
(***************************************************************************)
EXTENDS StandOff

CONSTANT Bang   \* the names that begin with '!' or '?'

VARIABLES
    token,       \* import: the lexer's current token
    phase,       \* import: "seek" the root element, "body", the rest ("tail")
    tagStacks,   \* import: the open tags of every name, as indexes into out
    charCount,   \* export: characters written
    tag,         \* export: the next tag
    endTagList   \* export: the names to close at every position

xmlVars == <<token, phase, tagStacks, charCount, tag, endTagList>>

XmlReset ==
    /\ token' = 1 /\ phase' = "seek" /\ tagStacks' = [n \in Names |-> << >>]
    /\ charCount' = 0 /\ tag' = 1 /\ endTagList' = [p \in {} |-> << >>]

-----------------------------------------------------------------------------
UnicodeMax == 1114111   \* 0x10ffff
DUMMY_END_POSITION == -1   \* the largest unsigned int

\* getUscCodeHex and getUscCodeDec: the digits in the base, -1 for an error.
getUscCode(base, digits) ==
    LET code[i \in 0 .. Len(digits)] ==
            IF i = 0 THEN 0
            ELSE LET c == code[i - 1] * base + digits[i]
                 IN  IF code[i - 1] = -1 \/ digits[i] \notin 0 .. base - 1 \/ c > UnicodeMax
                     THEN -1 ELSE c
    IN  IF digits = << >> THEN -1 ELSE code[Len(digits)]

\* The six bits of c from bit i on, as a continuation byte.
Cont(c, i) == 128 + ((c \div 2^i) % 64)

\* Mutant: one code too many has two bytes.
encodeUtf8_TwoBytes(c) ==
    CASE c < 128                -> <<c>>
      [] 128 <= c /\ c <= 2048  -> <<192 + c \div 2^6, Cont(c, 0)>>
      [] 2048 < c /\ c < 65536  -> <<224 + c \div 2^12, Cont(c, 6), Cont(c, 0)>>
      [] 65536 <= c             -> <<240 + c \div 2^18, Cont(c, 12), Cont(c, 6), Cont(c, 0)>>

\* encodeUtf8, up to the largest code getUscCode returns.
encodeUtf8(c) ==
    CASE c < 128                -> <<c>>
      [] 128 <= c /\ c < 2048   -> <<192 + c \div 2^6, Cont(c, 0)>>
      [] 2048 <= c /\ c < 65536 -> <<224 + c \div 2^12, Cont(c, 6), Cont(c, 0)>>
      [] 65536 <= c             -> <<240 + c \div 2^18, Cont(c, 12), Cont(c, 6), Cont(c, 0)>>

Entities == [lt |-> 60, gt |-> 62, amp |-> 38, quot |-> 34, apos |-> 39]

\* The code a reference stands for, -1 if unescape throws.
refCode(t) ==
    IF "digits" \in DOMAIN t THEN getUscCode(t.base, t.digits)
    ELSE IF t.entity \in DOMAIN Entities THEN Entities[t.entity] ELSE -1

IsTag(t) == t.k \in {"start", "end", "empty"}

\* What the lexer makes of semi-XML.
Token == [k : {"start", "end", "empty"}, name : Names]
         \cup [k : {"char"}, byte : Nat]
         \cup [k : {"ref"}, entity : DOMAIN Entities \cup STRING]
         \cup [k : {"ref"}, base : {10, 16}, digits : Seq(Nat)]
         \cup [k : {"bad", "open"}]

-----------------------------------------------------------------------------
\* readSemiXMLandWriteRawText, one token.  Before the root element everything but
\* a tag is ignored, and so are tags whose name begins with '!' or '?'.
seekRoot ==
    /\ pc = "import" /\ phase = "seek" /\ token <= Len(xml)
    /\ LET t == xml[token]
           skip == t.k \in {"char", "ref"} \/ (t.k \in {"start", "empty"} /\ t.name = Bang)
       IN  /\ token' = IF skip THEN token + 1 ELSE token
           /\ phase' = IF IsTag(t) /\ ~ skip THEN "body" ELSE "seek"
           /\ pc' = IF t.k \in {"bad", "open"} THEN "error" ELSE pc
    /\ UNCHANGED <<inputs, outputs, tagStacks, charCount, tag, endTagList>>

readText ==
    /\ pc = "import" /\ phase = "body" /\ token <= Len(xml)
    /\ xml[token].k \in {"char", "ref"}
    /\ LET t == xml[token]
           c == IF t.k = "char" THEN t.byte ELSE refCode(t)
       IN  IF c = -1 THEN pc' = "error" /\ UNCHANGED <<outTxt, token>>
           ELSE /\ outTxt' = outTxt \o (IF t.k = "char" THEN <<c>> ELSE encodeUtf8(c))
                /\ token' = token + 1
                /\ UNCHANGED pc
    /\ UNCHANGED <<inputs, out, outXml, phase, tagStacks, charCount, tag, endTagList>>

\* A tag inside the document; the end tag of the first tag ends it.
readTag ==
    /\ pc = "import" /\ phase = "body" /\ token <= Len(xml)
    /\ ~ xml[token].k \in {"char", "ref"}
    /\ LET t == xml[token]
           currOffset == Len(outTxt)
           stack == tagStacks[t.name]
       IN  \/ /\ t.k = "empty"
              /\ out' = Append(out, Tag(currOffset, currOffset, t.name))
              /\ token' = token + 1
              /\ UNCHANGED <<pc, phase, tagStacks>>
           \/ /\ t.k = "start"
              /\ out' = Append(out, Tag(currOffset, DUMMY_END_POSITION, t.name))
              /\ tagStacks' = [tagStacks EXCEPT ![t.name] = Append(@, Len(out) + 1)]
              /\ token' = token + 1
              /\ UNCHANGED <<pc, phase>>
           \/ /\ t.k = "end" /\ stack # << >>
              /\ out' = [out EXCEPT ![Last(stack)].second = currOffset]
              /\ tagStacks' = [tagStacks EXCEPT ![t.name] = Front(@)]
              /\ phase' = IF Last(stack) = 1 THEN "tail" ELSE "body"
              /\ token' = token + 1
              /\ UNCHANGED pc
           \/ /\ t.k \in {"bad", "open"} \/ (t.k = "end" /\ stack = << >>)
              /\ pc' = "error"
              /\ UNCHANGED <<out, phase, tagStacks, token>>
    /\ UNCHANGED <<inputs, outTxt, outXml, charCount, tag, endTagList>>

\* Text after the document is thrown away; a tag there, or one left open, is an
\* error.  The stand-off file is written at the end.
readTail ==
    /\ pc = "import"
    /\ \/ /\ phase = "tail" /\ token <= Len(xml)
          /\ pc' = IF xml[token].k \in {"char", "ref"} THEN pc ELSE "error"
          /\ token' = token + 1
       \/ /\ token > Len(xml)
          /\ pc' = IF \E n \in Names : tagStacks[n] # << >> THEN "error" ELSE "ok"
          /\ UNCHANGED token
    /\ UNCHANGED <<inputs, outputs, phase, tagStacks, charCount, tag, endTagList>>

-----------------------------------------------------------------------------
Start(n) == [k |-> "start", name |-> n]
End(n) == [k |-> "end", name |-> n]
Empty(n) == [k |-> "empty", name |-> n]

\* Mutant: the tag opened first is closed first.
Ends_Queue(names) == [i \in 1 .. Len(names) |-> End(names[Len(names) + 1 - i])]

Ends(names) == [i \in 1 .. Len(names) |-> End(names[i])]

\* writeCharWithEscaping: '<' and '&' become references.
writeCharWithEscaping(b) ==
    CASE b = 60 -> [k |-> "ref", entity |-> "lt"]
      [] b = 38 -> [k |-> "ref", entity |-> "amp"]
      [] b \notin {38, 60} -> [k |-> "char", byte |-> b]

\* The lines of the stand-off file.
tags == Without(so[1], {Blank})

\* Mutant: tags are taken by where they end.
Here_BySecond(i) ==
    LET stops == {j \in i .. Len(tags) : tags[j] = Bad \/ tags[j].second # charCount}
    IN  SubSeq(tags, i, Min({Len(tags) + 1} \cup stops) - 1)

\* The tags of the file from tag i on that begin at the current position, and
\* those of them before the first that is not empty.
Here(i) == LET stops == {j \in i .. Len(tags) : tags[j] = Bad \/ tags[j].first # charCount}
           IN  SubSeq(tags, i, Min({Len(tags) + 1} \cup stops) - 1)
Empties(s) == SubSeq(s, 1, Min({Len(s) + 1} \cup {i \in 1 .. Len(s) : ~ isEmptyTag(s[i])}) - 1)

\* One pass of writeSemiXMLImpl: empty tags, end tags, start tags and empty tags,
\* and a character or the end of the text.  An error is a tag that ends before it
\* begins, or the line after these tags; what the failed pass wrote is left out.
writeSemiXML ==
    /\ pc = "export"
    /\ LET here  == Here(tag)
           empty == Empties(here)
           first == Min(DOMAIN endTagList \cup {charCount + 1})
           ends  == IF charCount \in DOMAIN endTagList THEN Ends(endTagList[charCount]) ELSE << >>
           rest  == SubSeq(here, Len(empty) + 1, Len(here))
           open  == Without(rest, {t \in Range(rest) : isEmptyTag(t)})
           left  == [p \in DOMAIN endTagList \ {charCount} |-> endTagList[p]]
           byEnd(p) == Without(open, {t \in Range(open) : t.second # p})
           name(p) == [i \in 1 .. Len(byEnd(p)) |-> Reverse(byEnd(p))[i].name]
           Old(p) == IF p \in DOMAIN left THEN left[p] ELSE << >>
           ahead == tag + Len(here)
       IN  IF first < charCount \/ (ahead <= Len(tags) /\ tags[ahead] = Bad)
           THEN pc' = "error" /\ UNCHANGED <<outXml, charCount, tag, endTagList>>
           ELSE /\ outXml' = outXml \o [i \in 1 .. Len(empty) |-> Empty(empty[i].name)] \o ends
                        \o [i \in 1 .. Len(rest) |->
                              IF isEmptyTag(rest[i]) THEN Empty(rest[i].name) ELSE Start(rest[i].name)]
                        \o (IF charCount < Len(txt)
                            THEN <<writeCharWithEscaping(txt[charCount + 1])>> ELSE << >>)
                /\ tag' = ahead
                /\ endTagList' = [p \in DOMAIN left \cup {open[i].second : i \in 1 .. Len(open)} |->
                                    name(p) \o Old(p)]
                /\ IF charCount < Len(txt) THEN charCount' = charCount + 1 /\ UNCHANGED pc
                   ELSE pc' = "exportEnd" /\ UNCHANGED charCount
    /\ UNCHANGED <<inputs, out, outTxt, token, phase, tagStacks>>

\* After the text: no tag and no end tag may be left but at its end.
writeRest ==
    /\ pc = "exportEnd"
    /\ IF tag <= Len(tags) \/ ~ DOMAIN endTagList \subseteq {charCount}
       THEN pc' = "error" /\ UNCHANGED outXml
       ELSE pc' = "ok" /\ outXml' = outXml \o
              (IF charCount \in DOMAIN endTagList THEN Ends(endTagList[charCount]) ELSE << >>)
    /\ UNCHANGED <<inputs, out, outTxt, token, phase, tagStacks, charCount, tag, endTagList>>

XmlNext == seekRoot \/ readText \/ readTag \/ readTail \/ writeSemiXML \/ writeRest

-----------------------------------------------------------------------------
\* What a reference stands for, -1 if it is not one of the five entities or a
\* character of Unicode.
NumberOf(base, digits) == MapThenSumSet(LAMBDA i : digits[i] * base^(Len(digits) - i), DOMAIN digits)
Means(t) ==
    IF "entity" \in DOMAIN t
    THEN IF t.entity \in DOMAIN Entities THEN Entities[t.entity] ELSE -1
    ELSE IF /\ t.digits # << >> /\ Range(t.digits) \subseteq 0 .. t.base - 1
            /\ NumberOf(t.base, t.digits) <= UnicodeMax
         THEN NumberOf(t.base, t.digits) ELSE -1

\* The bytes are the UTF-8 form of c: as short as can be, and they give c again.
IsUtf8(bytes, c) ==
    LET n     == Len(bytes)
        limit == <<2^7, 2^11, 2^16, 2^21>>
        mark  == <<0, 192, 224, 240>>
    IN  /\ n \in 1 .. 4 /\ c < limit[n] /\ (n > 1 => c >= limit[n - 1])
        /\ \A i \in 2 .. n : bytes[i] \div 2^6 = 2
        /\ c = NumberOf(2^6, [i \in 1 .. n |-> bytes[i] - (IF i = 1 THEN mark[n] ELSE 128)])

\* The text read so far, by its tokens and by where its characters begin.
TextRead ==
    LET root == Min({Len(xml) + 1} \cup {i \in 1 .. Len(xml) :
                    IsTag(xml[i]) /\ (xml[i].k = "end" \/ xml[i].name # Bang)})
    IN  SelectSeq(SubSeq(xml, root, token - 1), LAMBDA t : ~ IsTag(t))
Begins == SetToSortSeq({i \in 1 .. Len(outTxt) : outTxt[i] \div 2^6 # 2}, <)

\* In a document of plain characters and references, every reference becomes the
\* UTF-8 form of what it stands for, one that stands for nothing is the end of it,
\* and no tag begins or ends inside a character, however many bytes came before.
ReferencesRight ==
    command = "import" /\ phase = "body"
    /\ (\A i \in 1 .. Len(xml) : xml[i].k = "char" => xml[i].byte < 128) =>
        /\ Len(Begins) = Len(TextRead)
        /\ \A i \in 1 .. Len(Begins) :
             LET end == IF i < Len(Begins) THEN Begins[i + 1] - 1 ELSE Len(outTxt)
                 t   == TextRead[i]
             IN  IsUtf8(SubSeq(outTxt, Begins[i], end), IF t.k = "char" THEN t.byte ELSE Means(t))
        /\ \A i \in 1 .. Len(out) :
             {out[i].first, out[i].second}
               \subseteq {Begins[j] - 1 : j \in 1 .. Len(Begins)} \cup {Len(outTxt), DUMMY_END_POSITION}
        /\ token <= Len(xml) /\ xml[token].k = "ref" => (pc = "error" => Means(xml[token]) = -1)

\* How many tokens equal to e the output has after p characters.
Offset(i) == Cardinality({j \in 1 .. i : ~ IsTag(outXml[j])})
TokensAt(e, p) == Cardinality({i \in 1 .. Len(outXml) : outXml[i] = e /\ Offset(i) = p})
TagsWith(P(_)) == Cardinality({i \in 1 .. Len(tags) : P(tags[i])})

\* export makes no check of the stand-off file but what it needs: it ends well
\* exactly when the tags lie in the text and are sorted by where they begin, in
\* any order among those that begin together; then the output is the text with
\* every tag opened and closed at its two positions.
ExportRight ==
    command = "export" /\ args = "ok" /\ pc \in {"ok", "error"} =>
        /\ pc = "ok" <=>
             /\ Clean(so[1])
             /\ \A i \in 1 .. Len(tags) :
                  /\ tags[i].first <= tags[i].second /\ tags[i].second <= Len(txt)
                  /\ \A j \in 1 .. i : tags[j].first <= tags[i].first
        /\ pc = "ok" =>
             /\ Without(outXml, {t \in Range(outXml) : IsTag(t)})
                  = [i \in 1 .. Len(txt) |-> writeCharWithEscaping(txt[i])]
             /\ \A n \in Names, p \in 0 .. Len(txt) :
                  /\ TokensAt(Start(n), p) = TagsWith(LAMBDA t :
                        t.name = n /\ t.first = p /\ ~ isEmptyTag(t))
                  /\ TokensAt(End(n), p) = TagsWith(LAMBDA t :
                        t.name = n /\ t.second = p /\ ~ isEmptyTag(t))
                  /\ TokensAt(Empty(n), p) = TagsWith(LAMBDA t :
                        t.name = n /\ t.first = p /\ isEmptyTag(t))
=============================================================================
