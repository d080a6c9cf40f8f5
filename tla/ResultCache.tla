---------------------------- MODULE ResultCache ----------------------------
(***************************************************************************)
(* The cache of search and clustering results (perl/Tsubaki/CacheManager.pm)*)
(* as SearchEngine::search and call-webclustering.cgi use it.  Every request *)
(* is a process of its own; the processes share the cache directory: the     *)
(* file log, which maps a key to a file, and the files with the results.     *)
(* A file is named after the second in which it is saved.                    *)
(*                                                                           *)
(* A step is one system call or one run of calls that no other process can   *)
(* see the middle of.  The cache is enabled and the version is Japanese.     *)
(***************************************************************************)
EXTENDS Naturals, Sequences

CONSTANTS
    Requests,   \* the CGI processes
    Workloads,  \* what the requests may be for: functions from requests to keys
    TextKeys,   \* the keys of clustering results, saved as TXT; others as OBJ
    LastSecond, \* bound on the clock
    None        \* no second, no request

ASSUME CacheAssumption ==
    /\ LastSecond \in Nat
    /\ None \notin 0 .. LastSecond
    /\ None \notin Requests
    /\ \A w \in Workloads : DOMAIN w = Requests

VARIABLES
    keyOf,      \* the key of each request: its normalized query
    clock,      \* the current second
    logExists,  \* -f $cachelog
    log,        \* the lines of the log
    files,      \* for each second the file named after it: its state and the
                \* request that opened it for writing, or wrote it, last
    pc,         \* where each request is
    data,       \* the file the request found for its key in the log, or None
    found,      \* what the request's own search gave: nothing yet ("none"), a
                \* result, a reply that cannot be parsed, or nothing at all
    stamp,      \* the second the request saves its result under, or None
    got         \* the request whose result was loaded, or None

vars == <<keyOf, clock, logExists, log, files, pc, data, found, stamp, got>>

Seconds == 0 .. LastSecond

Init ==
    /\ keyOf \in Workloads
    /\ clock = 0
    /\ logExists \in BOOLEAN
    /\ log = << >>
    /\ files = [t \in Seconds |-> [st |-> "none", by |-> None]]
    /\ pc = [r \in Requests |-> "new"]
    /\ data = [r \in Requests |-> None]
    /\ found = [r \in Requests |-> "none"]
    /\ stamp = [r \in Requests |-> None]
    /\ got = [r \in Requests |-> None]

Goto(r, l) == pc' = [pc EXCEPT ![r] = l]

Mode(k) == IF k \in TextKeys THEN "TXT" ELSE "OBJ"

\* Mutant: the last line of the key's mode is taken, whatever its key.
FindByMode(k) ==
    LET lines == {i \in 1 .. Len(log) : Mode(log[i].key) = Mode(k)}
    IN  IF lines = {} THEN None
        ELSE log[CHOOSE i \in lines : \A j \in lines : j <= i].file

\* A later line for a key replaces an earlier one.
Find(k) ==
    LET lines == {i \in 1 .. Len(log) : log[i].key = k}
    IN  IF lines = {} THEN None
        ELSE log[CHOOSE i \in lines : \A j \in lines : j <= i].file

-----------------------------------------------------------------------------
(* Mutated steps, used to show that the properties below can fail.            *)

\* Mutant: only a file that is not there at all counts as no result, so the
\* nothing of a failed request is an answer.
ReadableEmpty(r) ==
    /\ data[r] # None
    /\ LET f == files[data[r]]
       IN  /\ f.st \in {"whole", "mixed"}
           /\ Mode(keyOf[f.by]) = Mode(keyOf[r])
           /\ f.st = "whole" => found[f.by] # "malformed"

\* The second is rounded up.
StampUp(r) ==
    /\ pc[r] = "save"
    /\ stamp' = [stamp EXCEPT ![r] = clock + 1]
    /\ Goto(r, "open")
    /\ UNCHANGED <<keyOf, clock, logExists, log, files, data, found, got>>

\* The line is written to the log before the file.
StampEarlyLog(r) ==
    /\ pc[r] = "save"
    /\ stamp' = [stamp EXCEPT ![r] = clock]
    /\ log' = Append(log, [key |-> keyOf[r], file |-> clock])
    /\ Goto(r, "open")
    /\ UNCHANGED <<keyOf, clock, logExists, files, data, found, got>>

-----------------------------------------------------------------------------
(* new: the log is read once, when the object is made.                        *)

CheckLog(r) ==
    /\ pc[r] = "new"
    /\ Goto(r, IF logExists THEN "read" ELSE "create")
    /\ UNCHANGED <<keyOf, clock, logExists, log, files, data, found, stamp, got>>

\* open with ">" makes the file, or empties the one that is there by now.
CreateLog(r) ==
    /\ pc[r] = "create"
    /\ logExists' = TRUE
    /\ log' = << >>
    /\ Goto(r, "read")
    /\ UNCHANGED <<keyOf, clock, files, data, found, stamp, got>>

ReadLog(r) ==
    /\ pc[r] = "read"
    /\ data' = [data EXCEPT ![r] = Find(keyOf[r])]
    /\ Goto(r, "load")
    /\ UNCHANGED <<keyOf, clock, logExists, log, files, found, stamp, got>>

-----------------------------------------------------------------------------
(* load                                                                       *)

LoadMiss(r) ==
    /\ pc[r] = "load"
    /\ data[r] = None
    /\ Goto(r, "search")
    /\ UNCHANGED <<keyOf, clock, logExists, log, files, data, found, stamp, got>>

\* The file the log names can be read in the mode of its line and is not empty.
\* A reply that cannot be parsed is refused as soon as it is read back.
Readable(r) ==
    /\ data[r] # None
    /\ LET f == files[data[r]]
       IN  /\ f.st \in {"whole", "mixed"}
           /\ Mode(keyOf[f.by]) = Mode(keyOf[r])
           /\ f.st = "whole" => found[f.by] = "result"

\* What is loaded (also a mixture that the reader accepts) is the answer,
\* whatever its key.
LoadHit(r) ==
    /\ pc[r] = "load"
    /\ Readable(r)
    /\ got' = [got EXCEPT ![r] = files[data[r]].by]
    /\ Goto(r, "cached")
    /\ UNCHANGED <<keyOf, clock, logExists, log, files, data, found, stamp>>

\* A search with disable_cache loads the result, does not look at it, and saves
\* nothing.
LoadIgnored(r) ==
    /\ pc[r] = "load"
    /\ Readable(r)
    /\ Mode(keyOf[r]) = "OBJ"
    /\ Goto(r, "done")
    /\ UNCHANGED <<keyOf, clock, logExists, log, files, data, found, stamp, got>>

\* retrieve or open dies, or the parser of the loaded text does.
LoadDies(r) ==
    /\ pc[r] = "load"
    /\ data[r] # None
    /\ LET f == files[data[r]]
       IN  \/ f.st \in {"none", "part", "mixed"}
           \/ f.st = "whole" /\ Mode(keyOf[f.by]) # Mode(keyOf[r])
           \/ f.st = "whole" /\ found[f.by] = "malformed"
    /\ Goto(r, "dead")
    /\ UNCHANGED <<keyOf, clock, logExists, log, files, data, found, stamp, got>>

\* An empty text file counts as no result: it is not written yet, or what was
\* written is the nothing that a failed request gave.
LoadEmpty(r) ==
    /\ pc[r] = "load"
    /\ data[r] # None
    /\ Mode(keyOf[r]) = "TXT"
    /\ LET f == files[data[r]]
       IN  \/ f.st = "part"
           \/ f.st = "whole" /\ Mode(keyOf[f.by]) = "TXT" /\ found[f.by] = "nothing"
    /\ Goto(r, "search")
    /\ UNCHANGED <<keyOf, clock, logExists, log, files, data, found, stamp, got>>

-----------------------------------------------------------------------------
(* The search, or the request to the clustering service, and save.            *)

\* There is a result to save.
SearchFound(r) ==
    /\ pc[r] = "search"
    /\ found' = [found EXCEPT ![r] = "result"]
    /\ Goto(r, "save")
    /\ UNCHANGED <<keyOf, clock, logExists, log, files, data, stamp, got>>

\* The request to the clustering service fails, which gives undef, or its reply
\* is empty, cut or of another form.  It is saved all the same, before anything
\* looks at it.
ClusteringFails(r) ==
    /\ pc[r] = "search"
    /\ Mode(keyOf[r]) = "TXT"
    /\ \E f \in {"malformed", "nothing"} : found' = [found EXCEPT ![r] = f]
    /\ Goto(r, "save")
    /\ UNCHANGED <<keyOf, clock, logExists, log, files, data, stamp, got>>

\* A search that is refused, finds nothing, is narrowed to a cluster or has
\* disable_cache saves nothing.
SearchUnsaved(r) ==
    /\ pc[r] = "search"
    /\ Mode(keyOf[r]) = "OBJ"
    /\ Goto(r, "done")
    /\ UNCHANGED <<keyOf, clock, logExists, log, files, data, found, stamp, got>>

Stamp(r) ==
    /\ pc[r] = "save"
    /\ stamp' = [stamp EXCEPT ![r] = clock]
    /\ Goto(r, "open")
    /\ UNCHANGED <<keyOf, clock, logExists, log, files, data, found, got>>

\* nstore and open with ">" empty a file that is there.
OpenFile(r) ==
    /\ pc[r] = "open"
    /\ files' = [files EXCEPT ![stamp[r]] = [st |-> "part", by |-> r]]
    /\ Goto(r, "write")
    /\ UNCHANGED <<keyOf, clock, logExists, log, data, found, stamp, got>>

\* Nobody else has opened the file since it did.
Alone(r) == files[stamp[r]] = [st |-> "part", by |-> r]

\* The result is written and the file closed.  If another process has opened
\* the file since, the two may have written over each other.
WriteFile(r) ==
    /\ pc[r] = "write"
    /\ Alone(r) \/ found[r] # "nothing"
    /\ \E st \in {"whole", "mixed"} :
         /\ Alone(r) => st = "whole"
         /\ files' = [files EXCEPT ![stamp[r]] = [st |-> st, by |-> r]]
    /\ Goto(r, "append")
    /\ UNCHANGED <<keyOf, clock, logExists, log, data, found, stamp, got>>

\* With nothing to write the file stays as another process has it by now.
WriteNothing(r) ==
    /\ pc[r] = "write"
    /\ ~ Alone(r) /\ found[r] = "nothing"
    /\ Goto(r, "append")
    /\ UNCHANGED <<keyOf, clock, logExists, log, files, data, found, stamp, got>>

\* open with ">>" makes the log if it is not there.  Only then is the reply of
\* the clustering service parsed, and a failed request dies of it.
AppendLog(r) ==
    /\ pc[r] = "append"
    /\ logExists' = TRUE
    /\ log' = Append(log, [key |-> keyOf[r], file |-> stamp[r]])
    /\ Goto(r, IF found[r] = "result" THEN "done" ELSE "failed")
    /\ UNCHANGED <<keyOf, clock, files, data, found, stamp, got>>

\* The process is killed, or dies on an error of the file system.
Kill(r) ==
    /\ pc[r] \notin {"cached", "done", "failed", "dead", "killed"}
    /\ Goto(r, "killed")
    /\ UNCHANGED <<keyOf, clock, logExists, log, files, data, found, stamp, got>>

Tick ==
    /\ clock < LastSecond
    /\ clock' = clock + 1
    /\ UNCHANGED <<keyOf, logExists, log, files, pc, data, found, stamp, got>>

Next == \/ Tick
        \/ \E r \in Requests :
             \/ CheckLog(r) \/ CreateLog(r) \/ ReadLog(r)
             \/ LoadMiss(r) \/ LoadHit(r) \/ LoadIgnored(r) \/ LoadDies(r) \/ LoadEmpty(r)
             \/ SearchFound(r) \/ ClusteringFails(r) \/ SearchUnsaved(r)
             \/ Stamp(r) \/ OpenFile(r) \/ WriteFile(r) \/ WriteNothing(r) \/ AppendLog(r)
             \/ Kill(r)

Spec == Init /\ [][Next]_vars

-----------------------------------------------------------------------------
(* Properties.                                                                *)

\* The type of the state.
TypeOK ==
    /\ keyOf \in Workloads
    /\ clock \in Seconds
    /\ logExists \in BOOLEAN
    /\ log \in Seq([key : {keyOf[r] : r \in Requests}, file : Seconds])
    /\ files \in [Seconds -> [st : {"none", "part", "whole", "mixed"},
                              by : Requests \cup {None}]]
    /\ pc \in [Requests -> {"new", "create", "read", "load", "search", "save", "open",
                            "write", "append", "cached", "done", "failed", "dead", "killed"}]
    /\ data \in [Requests -> Seconds \cup {None}]
    /\ found \in [Requests -> {"none", "result", "malformed", "nothing"}]
    /\ stamp \in [Requests -> Seconds \cup {None}]
    /\ got \in [Requests -> Requests \cup {None}]

\* Two requests save their results in second t.
SameSecond(t) == \E r, s \in Requests : r # s /\ stamp[r] = t /\ stamp[s] = t

\* The file of second t is complete, and what was saved in it was saved for key k.
Holds(t, k) == files[t].st = "whole" /\ files[t].by \in Requests /\ keyOf[files[t].by] = k

\* It holds what a search or a request that gave f has saved.
Saved(t, k, f) == Holds(t, k) /\ found[files[t].by] = f

\* Every line of the log leads to a complete file with a result for its key,
\* also when a process is killed in the middle of a save (the file is written
\* before the line).  Two things can spoil it: a second save in that second, and,
\* for a clustering only, a request to the service that failed: main of
\* call-webclustering.cgi saves whatever it was given before it parses it.
LinesLeadToResults == \A i \in 1 .. Len(log) :
    LET l == log[i]
    IN  \/ Saved(l.file, l.key, "result")
        \/ /\ l.key \in TextKeys
           /\ Saved(l.file, l.key, "malformed") \/ Saved(l.file, l.key, "nothing")
        \/ SameSecond(l.file)

\* A request answered from the cache gets a result, and one for its own key, and
\* no request dies of what it finds in the cache, unless two saves fell in the
\* second its file is named after; not even if the log has changed since it was
\* read (new), or the log was emptied.  A clustering dies of one thing more: a
\* reply for the same query that the service had not formed well, which stays in
\* the cache.  The nothing a failed request leaves is never an answer: the
\* service is asked again.
CacheRight == \A r \in Requests :
    /\ pc[r] = "cached" => \/ keyOf[got[r]] = keyOf[r] /\ found[got[r]] = "result"
                           \/ SameSecond(data[r])
    /\ pc[r] = "dead" => \/ keyOf[r] \in TextKeys /\ Saved(data[r], keyOf[r], "malformed")
                         \/ SameSecond(data[r])

\* "If there is no log file, make it" (CacheManager.pm, new): making it never
\* costs a line that is already there.
LogKept == [][Len(log') >= Len(log)]_vars
=============================================================================
