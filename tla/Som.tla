-------------------------------- MODULE Som --------------------------------
(***************************************************************************)
(* The stand-off annotation tool: main, which dispatches a command, and      *)
(* sessions in which one command works on what the command before it wrote.  *)
(***************************************************************************)
EXTENDS TagMerge, TagClip, TagXml

CONSTANTS
    Sessions,           \* what can be run: commands, and the sets of their inputs
    Annotations(_)      \* what another program may say of a clipped text

\* How many stand-off files a command reads (merge2: at least), and how many are
\* there after it.
Reads(c) == CASE c \in {"merge", "merge2", "unite"} -> 2
              [] c \in {"sort", "verify", "clip", "export"} -> 1
              [] c \notin {"merge", "merge2", "unite", "sort", "verify", "clip", "export"} -> 0
Leaves(c) == IF c = "clip" THEN 2 ELSE 1

\* The command line names the files a command needs, unless it is refused for that.
ASSUME SessionsAssumption ==
    \A s \in Sessions :
        /\ s.args \in {"ok", "help", "usage", "nofile"}
        /\ s.script \in Seq(STRING)
        /\ s.so \subseteq Seq(Seq(Line)) /\ s.txt \in Seq(Nat) /\ s.xml \subseteq Seq(Token)
        /\ s.tagOrder \subseteq Seq(Names) /\ s.flags \subseteq SUBSET {"i", "s"}
        /\ s.args = "ok" =>
             /\ s.script # << >> => \A files \in s.so : Reads(Head(s.script)) <= Len(files)
             /\ \A i \in 2 .. Len(s.script) : Reads(s.script[i]) <= Leaves(s.script[i - 1])

VARIABLES
    script,   \* the commands still to be run
    ran       \* the commands of the session that ended well

somVars == <<command, pc, so, txt, xml, out, outTxt, outXml, script, ran, args,
             mergeVars, clipVars, xmlVars>>

MergeCommands == {"sort", "merge", "merge2", "verify"}
ClipCommands == {"clip", "unite"}
XmlCommands == {"import", "export"}

Entry(c) == IF c \in MergeCommands THEN MergeEntry(c)
            ELSE IF c \in ClipCommands THEN ClipEntry(c)
            ELSE IF c \in XmlCommands THEN c ELSE "error"

Init ==
    \E s \in Sessions :
        /\ script = s.script /\ ran = << >> /\ args = s.args
        /\ so \in s.so /\ txt = s.txt /\ xml \in s.xml
        /\ tagOrder \in s.tagOrder /\ flags \in s.flags
        /\ command = "none" /\ pc = "shell"
        /\ out = << >> /\ outTxt = << >> /\ outXml = << >>
        /\ f = 1 /\ iter = 1 /\ iter2 = 1 /\ same = FALSE /\ at = << >>
        /\ som = << << >>, << >> >> /\ queue = {}
        /\ lineNo = 1 /\ firstRegion = TRUE /\ endOfLastRegion = 0
        /\ domain = << >> /\ range = << >> /\ emptyTagRegion = <<1, 1>>
        /\ token = 1 /\ phase = "seek" /\ tagStacks = [n \in Names |-> << >>]
        /\ charCount = 0 /\ tag = 1 /\ endTagList = [p \in {} |-> << >>]

\* An unknown command is an error whatever its arguments are.  What the exec
\* methods have in common: the help, the number of arguments and
\* the files that cannot be opened are settled before the command does anything.
exec(c) == CASE args = "ok" -> Entry(c)
             [] args = "help" -> IF Entry(c) = "error" THEN "error" ELSE "ok"
             [] args \in {"usage", "nofile"} -> "error"

main ==
    /\ pc = "shell" /\ script # << >>
    /\ command' = Head(script) /\ script' = Tail(script)
    /\ pc' = exec(Head(script))
    /\ out' = << >> /\ outXml' = << >>
    /\ outTxt' = IF Head(script) = "unite" THEN outTxt ELSE << >>
    /\ UNCHANGED <<so, txt, xml, ran, args, tagOrder, flags>>
    /\ MergeReset /\ ClipReset /\ XmlReset

\* The shell runs the next command of the session on the files just written.
andThen ==
    /\ pc = "ok" /\ script # << >> /\ args = "ok"
    /\ pc' = "shell"
    /\ ran' = Append(ran, command)
    /\ CASE command = "import" -> so' = <<out>> /\ txt' = outTxt /\ UNCHANGED xml
         [] command = "export" -> xml' = outXml /\ UNCHANGED <<so, txt>>
         [] command = "clip" -> /\ \E a \in Annotations(outTxt) \cap Seq(Line) : so' = <<out, a>>
                                /\ UNCHANGED <<txt, xml>>
         [] command \in {"sort", "merge", "merge2", "unite", "verify"} ->
                so' = <<out>> /\ UNCHANGED <<txt, xml>>
    /\ UNCHANGED <<command, outputs, script, args, mergeVars, clipVars, xmlVars>>

\* Nothing is left to run.
ended ==
    /\ pc = "error" \/ (pc = "ok" /\ (script = << >> \/ args # "ok"))
    /\ UNCHANGED somVars

Next ==
    \/ main \/ andThen \/ ended
    \/ MergeNext /\ UNCHANGED <<clipVars, xmlVars, script, ran, args>>
    \/ ClipNext /\ UNCHANGED <<mergeVars, xmlVars, script, ran, args>>
    \/ XmlNext /\ UNCHANGED <<mergeVars, clipVars, script, ran, args>>

Spec == Init /\ [][Next]_somVars

-----------------------------------------------------------------------------
\* The state of the session and of the commands.
TypeOK ==
    /\ pc \in {"shell", "read", "merge", "sort", "write", "init", "merge2", "clip", "container",
               "embedded", "import", "export", "exportEnd", "ok", "error"}
    /\ \A i \in DOMAIN out : /\ out[i].first \in Nat /\ out[i].name \in Names
                             /\ out[i].second \in Nat \cup {DUMMY_END_POSITION}
    /\ Len(domain) = Len(range)
    /\ \A n \in Names : \A i \in DOMAIN tagStacks[n] : tagStacks[n][i] \in DOMAIN out
    /\ \A q \in queue : q.fileNo \in DOMAIN so
    /\ DOMAIN endTagList \subseteq Nat

\* verify accepts exactly the files without a bad line whose tags are sorted, and
\* always what sort wrote.
VerifyRight ==
    command = "verify" /\ args = "ok" =>
        /\ pc \in {"ok", "error"} =>
             (pc = "ok" <=> Clean(so[1]) /\ Sorted(tagOrder, Tags(so[1])))
        /\ ran = <<"sort">> => pc # "error"

\* What import accepted, export writes again, and importing that gives the same
\* text and the same tags: the documents have the same content, although an
\* empty element, a comment before the root or a reference may be spelt otherwise.
RoundTrip ==
    /\ command = "export" /\ ran = <<"import">> => pc # "error"
    /\ command = "import" /\ ran = <<"import", "export">> /\ pc \in {"ok", "error"} =>
         pc = "ok" /\ out = so[1] /\ outTxt = txt
=============================================================================
