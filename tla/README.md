# TSUBAKI: a verification project

TSUBAKI is a search engine for Japanese (and English) web pages.  A *master
server* (CGI scripts) turns a query into an S-expression of terms and operators,
sends it to a set of *search servers* that each hold a part of the index, merges
their answers and asks *snippet servers* for excerpts.  This directory holds TLA+
models of the parts of that program in which most can go wrong unseen, and of the
annotation tool `som` that prepares English text for it, TLC configurations that
check them on small instances, and TLAPS proofs.

Paths below are relative to the repository (`src/...` in `PROJECT.json`).

## 1. Inventory

| Component | Source | State it keeps | Operations | What makes it correct |
|---|---|---|---|---|
| Search server process | `search/slave_server.cc`, `search/documents.cc` (`lookup_index`, `read_index`) | listening socket, at most one child, the open index streams | accept, fork, read a line, QUIT, search, answer, waitpid | a reply holds the postings of its own query; the server goes on to the next connection whatever happens to one |
| Query evaluator | `search/documents.cc`, `documents.h`, `search()` | per node: documents, index from ids to places, documents already retrieved | `merge_and_or`, `merge_and`, `merge_phrase`, `merge_or`, `walk_and_or`, `remove_doc` | the result is what the query stands for; restricting what is read loses nothing |
| List operations | `search/documents.cc` | two iterators and a destination | `and_operation`, `or_operation`, `dup_check_operation` | intersection, union, difference of sorted lists |
| Position conditions | `search/documents.cc` (`merge_phrase`, `walk_and`, `walk_or`, `update_sorted_int`), `document.cc` (`get_pos`) | one index per child into its positions, an order of the children | sort, take the smallest position, check the condition | what is accepted satisfies the condition, and what satisfies it is accepted |
| Request scheduling | `cgi/State.pm`, `cgi/SearchEngine.pm` (`search`) | a lock file (symbolic link), its age | `checkIn` with retries, `checkOut`, `DESTROY` | one search at a time; nobody waits for ever; a lock of a dead process goes away |
| Result cache | `perl/Tsubaki/CacheManager.pm` | a log of keys and file names, result files named after the second | `new`, `load`, `save` | a cached answer is the answer to the same query; a crash leaves nothing half-done in use |
| Broadcast and replies | `cgi/SearchEngine.pm` | sockets, replies, statistics | send to all servers, `select`, parse a reply | every server that answers is counted once; a dead server does not hang the request |
| Result merging | `cgi/Searcher.pm` | lists of hits per server | `merge_search_results`, removal of similar pages | order by score, no duplicates, the right number of pages |
| Snippet agent and server | `cgi/SnippetMakerAgent.pm`, `scripts/snippet_make_server.pl` | documents per host, one child per connection | distribute, collect | every document gets its own snippet |
| Query parse server | `scripts/query_parse_server.pl` | one child per connection | accept, fork, parse | as above |
| Server manager | `scripts/tsubaki-server-manager.sh`, `watch-memory.sh` | running daemons | start, stop, restart, status | no port without its server, no two servers on a port |
| Reader of query expressions | `search/lisp/` | input buffer, cells | `s_read`, `car`, `cdr` | a written expression is read back |
| Offset databases, document indexes | `search/hash.h` (`Dbm`), `documents.h` (`Hashmap`) | sorted pieces of a table from terms to offsets; maps or arrays from ids to places | `init`, `get`; `add`, `get_doc`, `remove_doc` | a term is found exactly if its piece is there; an id never leads to another document |
| Query construction | `cgi/QueryParser.pm`, `perl/Tsubaki/*.pm` | groups of terms | build the S-expression | (linguistic) |
| Indexer | `scripts/make_idx.pl`, `merge_idx.pl`, `merge_sorted_idx.pl`, `binarize_idx.pl`, `sf2index/` | index files | extract, merge, binarize | a merge of sorted parts is sorted and complete |
| Rendering, API, HTML | `cgi/Renderer.pm`, `api.cgi.in`, ... | none | formatting | (formatting) |
| Stand-off annotation tool `som` | `enju2tsubaki/StandOffManager` | lists of tags, open elements, regions of a text | sort, merge, merge2, verify, clip, unite, import, export | a merge is the sorted union; what import reads export writes again; unite undoes clip |
| cdb | `search/cdb` | | | vendored |

**How they interact.**  The master's CGI processes share only files (lock, cache)
and run at the same time.  They talk to search servers over TCP, one line per
query.  A search server forks one child per connection, but waits for it before
it accepts again; the children inherit the index streams, and with them one file
offset.  Inside a child everything is sequential: the expression is read, the
documents of every node are collected bottom up, each part restricting what the
next one reads, then every candidate is walked and its positions are checked.
`som` is a program of its own; its commands work on each other's files.

**What is hard.**  Steps of several CGI processes on the same two files, kills
between them, the age of a lock that is looked at once, a file name that is only
a second long; children that share an offset; indexes that are made before the
lists they point into are narrowed; position lists that are consumed by one phase
and needed by another; loops whose end depends on which of several lists runs out
first; replies that stop in the middle, or hold words of the protocol, and a
`select` without a timeout; arrays that do not keep their keys; positions in a
text that is cut up, annotated by others and put together again.  `PROJECT.json` lists these as hazards, each at its line and with the
properties that would catch it.

## 2. Modules

| Module | Models | Runs on |
|---|---|---|
| `SerialSearch` | abstract: a server that answers one query at a time, atomically | refined by `SlaveServer` |
| `SlaveServer`, `SearchServer_proofs` | `server_mode()`, the child, the look-up of terms through the shared offset | `MCSlaveServer` |
| `DocListOps`, `ListMerge`, `SearchServer_proofs` | the loop bodies of the three list operations; the calls; the proofs of both are one module with those of `SlaveServer` | `MCListMerge` |
| `PositionMatch`, `PositionMatch_proofs` | the position loops, one document | `MCPositionMatch` |
| `QueryEval`, `QueryEval_proofs` | collecting and walking a query tree | `MCQueryEval` |
| `RequestScheduler`, `SearchEngine_proofs` | the lock file | `MCRequestScheduler` |
| `ResultCache`, `SearchEngine_proofs` | the cache directory; the proofs of both are one module | `MCResultCache` |
| `DocSet` | abstract: a node answers for a document or does not have it | refined by `TermIndex` |
| `TermIndex`, `TermIndex_proofs` | the databases of offsets and the indexes of a node | `MCTermIndex` |
| `Broadcast`, `Broadcast_proofs` | one search of the master over all servers, and the merging of their pages | `MCBroadcast` |
| `StandOff` | tags, their order, lines; the state the commands of `som` share | |
| `TagMerge`, `TagClip`, `TagXml` | sort, merge, merge2, verify; clip, unite; import, export | |
| `Som`, `Som_proofs`, `Export_proofs` | `main`, and sessions of commands: composes the three | `MCSom` |

`map` in `PROJECT.json` names the lines behind every definition.

### SlaveServer
One action per system call or group of statements without one: `Listen`,
`Accept`, `Fork`, `WaitPid` for the parent; `ReadQuit`, `ReadQuery`,
`ReadNothing`, then `Seek`, `ReadSize`, `ReadBody` or `NotFound` for each term,
and `Answer` for a child; `AcceptError`, `ForkError`, `ListenError`, `Crash` for
what fails; `Connect`, `SendLine`, `Refused` for the clients (the master).  The
offset of the index file is one variable, because the streams are opened in
`init()` before any fork.  A client that closes without a line leaves the
child's buffer uninitialized: the child may take it for anything (`ReadNothing`).
Left out: the private buffer of an `ifstream` (every read is a read at the
shared offset, the worst case), `standalone_mode`, the layout of a reply.  The offset
databases are memory-mapped and read-only, hence the constant `Addr`.

### RequestScheduler
One action per system call on the link (`Symlink`, `Lstat`, `UnlinkStale`,
`Retry`, `CheckOut`), `Wake` after `sleep(1)`, `EndSearch` and `Die` for the
search, `KillProcess` for a process that is killed at any point, `SecondPasses` for
time.
`age` is cut off just above the age that matters.  When `lstat` finds no file the
code subtracts `undef` from the time, and the age is that of the epoch: `Lstat`
goes to `unlink` then.

### ResultCache
One action per file operation: `CheckLog`, `CreateLog` and `ReadLog` of `new`;
the outcomes of `load`; `Stamp`, `OpenFile`, `WriteFile` and `AppendLog` of
`save`; kills between any two.  `found` is what the request has to save: a result
(`SearchFound`; `SearchUnsaved` if there is nothing that a search would save), or what
is left of a request to the clustering service that failed (`ClusteringFails`).
`call-webclustering.cgi` saves before it parses, so that the `undef` of a failed
request becomes an empty file with a line in the log, and a reply that cannot be
parsed stays in the cache.  Later requests ask the service again in the first case
(`LoadEmpty`) and die in the second (`LoadDies`); and since a later line for a key
replaces an earlier one, a failed request hides the good result of one that ran at the
same time.  A search with `disable_cache` loads what is there and does not use it
(`LoadIgnored`).  `exists` is called nowhere; a disabled cache only returns no data and
is left out.

### DocListOps, ListMerge
`AndStep`, `OrStep`, `DupStep` are one pass of each loop on a record of the two
iterators, the destination and whether the call is over; `ListMerge` runs a call
on any two lists.  A list whose only member is the id −1 stands for all documents.

### PositionMatch
The condition, the lists of positions and the loop that walks them.  `j` counts
the exchanges of a pass of bubble sort, so that a pass that is cut short is seen.
`update_sorted_int` is a step of its own per exchange, with the recursive call
that moves an index.  `WalkPhrase` is the later visit of a PHRASE node whose
children's lists `merge_phrase` has consumed.  `backup_tid2idx` is uninitialized
with one child: the loop may then go on or stop.  The sentinel for "no region
yet" is 10000, and the assumption says that distances are smaller.

### QueryEval
The recursion over the query tree is a stack of active calls.  Collecting:
`merge_and_or` calls a child with the documents it may look at, `lookup_index`
evaluates a term, `merge_and`, `merge_phrase`, `merge_or` take a child's result,
`MakeIndex` ends a node.  Walking: `search` takes the next candidate,
`walk_and_or` goes down, `WalkTerm`, `Reject`, `walk_and`, `walk_or` return,
`GoWild` is a read the code must not make.  Lists are sets (`ListMerge` justifies
it) and whether positions satisfy a condition is an input (`PositionMatch` is
about that).  The shapes of the trees are those `TermGroup.pm`,
`TermGroupCreater.pm` and `QueryParser.pm` can make (`IsTree`, `IsQuery`): a ROOT
per expression, several of them joined by a PROX at the top; behind the first child
of a ROOT only optional terms and groups of words; PHRASE only as the first child
of a ROOT.  `HasBody` says that no optional term is among the nodes a document has to
satisfy; it fails when a user has made all words of an expression optional.  Lenient
terms are never generated.  Scores are left out; that an index is a function from ids
to documents is what `TermIndex` shows.

### TermIndex
`init` opens one database of the keymap file after the other, any of which may be
missing; `lookup_index` looks a term up, `map_index` starts with the lists that
`merge_and` and `merge_or` have come to.  `appendDocument`, `skipDocument` and
`appendLenient` fill the two lists and their indexes one document at a time, and
`remove_doc` takes documents out.  A `Hashmap` is a record with an array (modulo
`Slots`) or a map.  The three limits of the code (1000000, 1000, 200000) are
constants.  `IndexAssumption` says what the code relies on without checking it:
the ids of one server are smaller than the array, lists have no duplicates, and
keys ascend.

### Broadcast
`Connect` and `Refused` for `send_query_to_slave_servers`; `select`, `nextSocket`,
`parseLine` and `endOfReply` for the loop over the replies, in which the read of a
line blocks; `search` and `filterSearchResult`; then one action per way in which
`merge_search_results` can treat the best page (`addPage`, `addKnownUrl`,
`addKnownTitle`, `addNew`).  A server sends its lines one by one (`Send`,
`CloseSocket`), dies at any line (`Die`) or keeps the connection without serving
it (`Leak`: the failed fork of `SlaveServer`).  A page carries what the patterns
of `parse_recieved_data_for_cpp` take its line for, since its title may hold
`hitcount 7` or `LEAVE x y`.  Left out: replies of the Perl servers, lines that are
cut in the middle, `sort_by` `random` (no request sets it), the local search mode.

### StandOff, TagMerge, TagClip, TagXml, Som
A session is a list of commands, each of which works on what the one before wrote
(`andThen`); `main` dispatches, and settles help, the number of arguments and
files that cannot be opened (`args`).  `MergeRight`, `Merge2Right`, `VerifyRight` and
`ExportRight` speak of command lines that are accepted; a refused one writes nothing.
The commands are steps of one line, one tag, one
token or one character: `readData`, `mergeTags`, `sort`, `writeData` (sort, merge,
verify), `initSeq` and `mergeQueue` (merge2); `clipData` (clip), `setClippingSpan`
and `map` (unite); `seekRoot`, `readText`, `readTag`, `readTail` (import),
`writeSemiXML` and `writeRest` (export).  A character of a text to be clipped is
its own offset, so that the clipped text says where each came from; a text of
import and export is a sequence of bytes, and a reference becomes the bytes of its
UTF-8 form (`getUscCode`, `encodeUtf8`).  What another program says of a clipped
text is the parameter `Annotations`.  A file is a sequence of lines (`Line`: a tag, a
blank line, or anything else) and semi-XML a sequence of `Token`s.  An
unknown command is an error, with help too; `som` without a command, which prints the
usage and ends, is left out.  clip ends with an error at a tag that ends before it
begins, since the unsigned length is larger than the text; that length also wraps in
`setClippingSpan` for a container file that clip has not written, which the model
does not follow.  `SessionsAssumption`
says what a session is: the inputs have these types, and where a command line is
accepted the files it names are there (`Reads`, the argument counts of the handlers, and
`Leaves`, what the command before wrote).  Left out: attributes, spelling, compressed
files, `integrateFiles` and the versions of `readConformedPositions` that no
command calls.

## 3. Runs

| Run | Shows | Bounds |
|---|---|---|
| `slave_server` | `OneChild`, `OwnPostings`: although children share the offset no look-up is torn, since there is never a second child; the process structure implements `SerialSearch`; every connection ends | three connections, terms with a posting of two documents and an empty one and a term that is absent, QUIT; two children could overlap with two connections, the third shows that the server has gone on |
| `scheduler` | only a killed process leaves a lock behind (`NoOrphanLock`), such a lock is removed when somebody meets it (`OrphanRemoved`), every request ends | three scheduled requests (holder, refused, newcomer) and one of an installation without scheduling; one retry; stale after two ticks: requests give up before and after it |
| `scheduler_exclusion` | *violation*: two searches at once | three requests, one retry, and a limit of 300 seconds so that no lock gets stale by a long search first |
| `list_merge` | the three operations are intersection, union, difference, sorted and in bounds | all sorted lists over five ids, and the list of all documents |
| `position_match` | accepted documents satisfy the condition, satisfying ones are accepted (with the provisos in `NothingMissed`), positions handed up ascend, indexes stay in range, the loops end | two words, positions up to 4, three words with short lists, distances 1 and 2 |
| `position_match_kept` | *violation*: see below | as above |
| `query_eval` | `PruningExact`, `ResultRight`, `AlwaysDefined`, `Ends` | eight trees of up to eight nodes, two documents, all postings and all outcomes of positions, with and without a removed document |
| `result_cache` | a line of the log leads to a whole file with a result, unless two saves share a second or a request for a clustering failed; a cached answer is right, and no request dies of one, unless two saves share a second or a clustering reply cannot be parsed | two searches with different queries and two clusterings of one query, or four searches of two queries (the first two requests have the same key and are symmetric), two seconds |
| `term_index` | a term is found exactly when its database can be opened (`LookupRight`); maps and arrays answer like a `DocSet` (`ImplementsDocSet`) | one or three databases, any of them missing, both CPU modes; arrays of five slots above two documents, maps below, lists of up to five documents: both representations, empty, full and nearly full, with removals in every order |
| `broadcast` | every reply counts once and all that came is in the result (`RepliesCounted`); the answer has every page once, by score, similar ones together (`AnswerRight`); the search ends (`Answered`) | three servers with up to three pages, four distributions with equal and near scores, shared URLs and titles, titles with words of the protocol; replies cut after any line; two pages asked for or all, with and without a cluster |
| `som` | `MergeRight`, `Merge2Right`, `VerifyRight`, `RoundTrip`, `ReferencesRight`, `ExportRight`, `UniteInverse` | all files of up to two (sort, verify, export: three) of six to nine tags, with equal, nested and empty spans and bad lines, four tag orders; containers of up to three regions and all annotations of a tag and an empty tag; all documents of three tokens out of sixteen, and all arrangements of two elements and two characters, crossing ones too; pairs of references to the first and last codes of every length in UTF-8, and to codes that are none; command lines that are refused, for five of the commands |
| `som_unite` | *violation*: see below | as above |

Every property of a passing run has a mutant in `PROJECT.json`: a plausible error
in one definition under which TLC finds the property violated.

**Fairness.**  The operating system runs a process that can run; a client that
has connected sends its line or leaves; time passes; a search ends.  Nobody has
to connect, arrive, fail, die or be killed.  In `Broadcast` the master goes on
when it can, and a server that serves a connection ends its reply, which is what
`EveryConnectionEnds` of `SlaveServer` says; nothing makes a server that leaked a
connection give it up, so `Answered` excepts that case.  For the sequential loops
(`PositionMatch`, `QueryEval`) it is weak fairness of the next step:
a program that can go on does.  Symmetry is used in the safety run `result_cache`
only.  Deadlock is not checked where a model ends (all requests over, call
returned).

### What the violations show
- **Two searches at once** (`cgi/State.pm:36`).  `checkIn` looks at the age of the lock
  only after its own `symlink` has failed.  If the holder has ended in between, `lstat`
  finds nothing, the missing time counts as 0 and the age as more than 300 seconds; by the time of
  the `unlink` a third request may have made a new lock and be searching.  That lock is
  removed, and the first request makes its own.  TLC shows this way, the shortest.  A second
  one takes more steps: `SearchEngine::search` calls `checkOut` (`State.pm:55`) for a
  request that was refused too, and `checkOut` unlinks the lock of whoever holds it.
- **Phrase without positions** (`search/documents.cc:323`).  `merge_phrase` erases
  positions that `walk_and` needs later; a PROX that joins a phrase with something
  else refuses documents that have both.
- **Separators of clip and unite** (`enju2tsubaki/StandOffManager/StandOffManager.cpp:915`).
  A region that begins at offset 0 does not count as the first one, so the second
  one gets no separator; unite counts one, and puts the annotations of the later
  regions one byte too early.  `UniteInverse` of the run `som` is the same property
  without that case.

Four more statements do not hold and have no run of their own; naming the property
in a configuration of its module shows the behaviour:
- `StaleLockRemoved` (`RequestScheduler`, with `MAX_NUM_OF_RETRY = 0`).  The age of
  the lock is looked at once, before the loop (`cgi/State.pm:31`), so a request that
  retries for ever never removes a lock that has become stale while it waited.
- `LogKept` (`ResultCache`).  The test for the log and its creation are two steps
  (`perl/Tsubaki/CacheManager.pm:24`); the second creator empties the log.
- `PhraseFound` (`PositionMatch`).  When a word is in a phrase twice, equal positions
  of two children are taken one after the other, and an occurrence is missed
  (`search/documents.cc:351`).
- `OrderedProxFound` (`PositionMatch`).  The test that should let the loop go on behind
  the first occurrences always ends it (`search/documents.cc:1231`).

Also seen, and not stated as properties: after a page with a known URL the title and
the score of the page before are those of that page, so that a later page of the same
title goes under the last entry of the list, not under the one of that page
(`cgi/Searcher.pm:228`); with zlib, `merge2` exchanges the arguments of a vector's
constructor and `export` without `-c` runs into `assert(false)`
(`MergeHandler2.cpp:237`, `SortHandler.cpp:503`); `StreamManager` never records that
standard input is in use.

## 4. Proofs

Each holds for every value of the constants under the named assumptions, which
TLC evaluates on the instances.

| Module | Theorems | Inductive invariant |
|---|---|---|
| `SearchServer_proofs` (the process) | `Typing`, `ChildrenExcluded`, `AnswersOwnPostings`, `Refinement` (implements `SerialSearch`) | types, `ChildInv` (a child is alive only while the parent waits for it), `BacklogInv` (who is queued), `LookupInv` (while a child is between `Seek` and `ReadBody` the offset is where it left it). `OwnPostings` alone is not inductive: it says nothing of the offset in the middle of a look-up. |
| `SearchEngine_proofs` (the lock file) | `SchedulerTyping`, `OrphansAreKilled` | `SchedulerInv`: `NoOrphanLock`, `HolderInv` (who made the link has `checkIn` set, so that `DESTROY` removes it), `CountInv` (the retry bound) |
| `SearchEngine_proofs` (the cache) | `Typing`, `CrashSafe`, `CachedAnswers` | `Answers` (what a request has found at which step), `Stamped`, `Writers` (the file of a second and who wrote it), `Saving` (the file between the steps of a save), `LinesHold` (a line leads to the whole file of a save for its key), `Snapshots` (what was read in a log stays true); a collision of seconds, once there, stays |
| `SearchServer_proofs` (the list operations) | `ListTyping`, `Sorted`, `Intersection`, `Union`, `Difference` | `InStep` (what one iterator has passed is smaller than what the other has ahead) and `Built` (what the destination holds) |
| `PositionMatch_proofs` | `TypeCorrect`, `AcceptedIsRight`, `NoneIsMissed`, `NodePositionsAscend` | the walk is one sweep over the merged lists: `OrderInv` (what is in order in the middle of the bubble sort and of `update_sorted_int`), `SweepInv` (what was taken is not greater than what is left), `RecordInv` (the records are the positions taken last), `SkipInv`, `FoundInv`, `MissInv` (a placement that is wanted and was not found has a position that is still to be taken), `ListInv` (what `pos_list` holds). `NothingMissed` speaks of the end of the loop only; `MissInv` is what makes it true there. |
| `QueryEval_proofs` | `Typing`, `PruningIsExact`, `ResultIsRight`, `NeverUndefined` | collecting, `IInv`: the stack is a chain of distinct nodes (`StackInv`), which children are evaluated (`KidsInv`), what a node has collected from the children so far (`SoFarInv`), and that neither what it hands on (`HandInv`) nor what its child got (`ArgInv`) leaves out a document that may still be in its result; `PruningExact` alone says nothing of a node that is half evaluated. Walking, `EvalInv` and `FoundInv` on top of it: a node has no document that a child it combines does not have (`DoneInv`), only what stands behind the body of a ROOT has changed its type (`RetypedInv`), an index holds the documents to come and, in the nodes not asked yet, the one that is walked (`KeptInv`), what a node has answered is right for every document it was told to look at (`AnsweredInv`), and the result so far (`ResultInv`). |
| `TermIndex_proofs` | `LookupIsRight`, `Refinement` (implements `DocSet`) | `DbInv` (how far the databases have been opened), `FreshInv` (the lists are empty until they are filled, and what is still to come is not in them), `IndexInv` (an index gives for its key the place of that document, and a map stays under its limit), `ApartInv` (no document is in both lists). The refinement alone says nothing of what the next document to be put in would overwrite. |
| `Broadcast_proofs` | `AllRepliesCounted`, `AnswerIsRight` | `NetInv`, `PhaseInv` (which sockets are open, read, and counted in `num_of_sockets`), `ReadInv` (what was read of the reply that is being read), `EndedInv` (what the replies that were read to their end have left in `results` and `total_hitcount`, and that nothing that comes later changes it), `ListsInv` (the lists are sorted and share no page), `MergeInv` (the answer and what is left of the lists make up what came, and the answer's scores are not smaller). Both properties speak of the end of the search only. |
| `Som_proofs` | `SomTypes`, `VerifyIsRight`, `MergeIsRight`, `Merge2IsRight`, `UniteIsInverse` | `TypeInv`, which says for each command what `TypeOK` leaves open between its steps: `SessionInv` (the files the rest of the script needs are there), `PhaseInv` (which command is at which step), `OutInv` (every tag that import has not closed is on a stack, and the stacks hold nothing else than places in the output), `MergeInv`, `ClipInv`, `XmlInv` (cursors inside the files). On top of it `FilesInv`: what has been read is the tags of the lines before the cursor and is in order (`ReadInv`), what `sort` left (`SortInv`), how `verify` and `merge` end (`VerifyInv`, `RefusedInv`); `MergingInv`: what is left of the two lists and what is written make up both; `QueueInv` for `merge2`: the queue holds the next tag of every file that is not used up, what is written is what stands before the cursors of all files, and nothing ahead goes before it; `UniteInv` for clip and unite (below). |
| `Export_proofs`, on top of `Som_proofs` | `ExportIsRight` | `ExportInv` (below) |

The assumptions are what the code relies on without checking it:
- `QueriesAssumption` of `PositionMatch`: position lists ascend and end with the
  sentinel, and a distance is smaller than the constant that stands for "none yet";
- `QueriesAssumption` of `QueryEval`: the shapes of the trees (above);
- `PageAssumption` and `ServersAssumption` of `Broadcast`: a server returns its pages by
  score, and no document is on two servers or twice in a reply; there are finitely many
  servers;
- the assumptions of the other modules are named there in the same way.

**Recursion and induction.**  A recursive function has the value its definition says
only if the recursion ends.  In `QueryEval` it does because no node is below itself:
a set of nodes without one whose children are all outside of it is empty.  From this
`SolutionExists` and `SolutionsAgree` show that there is exactly one function that
satisfies the equations of `Evaluate`, and hence that `Hits` and `Wanted` do; nothing
about them is assumed.  In `PositionMatch`, `Broadcast` and `Som`, where a fact has to be shown
for a counter of any size, the set of counterexamples, if there is one, has a least
element (`LeastNumber`, from the well-foundedness of the natural numbers), and that one
is refuted.

**Sorted sequences.**  The properties of `merge` and `merge2` compare a whole output with
a stable sort (`StablySorted`: every entry at the place that the number of entries before
it gives).  Neither side is computed in the proof.  A written sequence is described by the
places its tags have in the sequence of all tags (`Picks`), which is a bijection when all
have been written, so that tags that occur more than once need no counting; and by the
order in which those places were taken (`Follows`), which is that of the sort.  Two
sequences described so are equal, because an entry's place is the number of those
before it.  For `merge2`, `Offsets` says where the tags of a file stand in the
concatenation of all files (`FlattenOffsets` shows that `FlattenSeq` is such), `Drawn`
describes what was written and `Ahead` that nothing still to be read goes before it.
The assumptions are that a tag is neither a blank line nor a bad one
(`StandOffAssumption`), and `SessionsAssumption`.

**Clip and unite.**  `UniteInverse` compares positions in a text that one command wrote
with regions that another one computes from the tags of the first.  The link between
them is made while clip still runs: `Takes(s, n, D, R)` says that Mapper, given the tags
`s` that clip has kept, will take the first `n` of them, with the regions `D[i]` and `R[i]`
after `i` tags, and that it refuses the next one only if it is out of order.  `Clipping` adds
that the text is then laid out in the last of these regions (`Layout`: they follow each
other with one separator between two, and each holds the characters of its part of the
whole text), and what `firstRegion` and `endOfLastRegion` have to do with them.  No tag
that clip keeps ends before it begins (`Forward`), since `copy` has refused it.  One more
tag of clip opens a region, or makes the last one longer, exactly when Mapper does
(`ClipsOneMore`).  Then `setClippingSpan` only follows what `Takes` says, and `map` needs
`CharsKept` (a position in a region is mapped to its character, or stands next to a
separator) and, where nothing may be refused, that the binary searches find a region
although they begin at the one found last (`LowerFound`, `UpperFound`: the tags are sorted).
The hypothesis of `UniteInverse` on the first region is used in one place: without it
clip does not write the separator that `Layout` has.

**Export.**  `ExportRight` counts tokens at positions of the output, and so does its
invariant: a multiset of tags and a multiset of tokens are compared by how often each
member is there (`Number`, `TokensIn`), never by where it stands, so the order of the
tags that begin together, and of the end tags at one place, needs no case of its own.
`ExportInv` says that the tags before the cursor begin before the current position and are
sorted (`SeenUpTo`), that `endTagList` holds for every later position the names of exactly
those seen tags that end there, and nothing for an earlier one unless a tag ends before it
begins (`EndsLeft`), and that the output is the text so far with the seen tags opened and,
where their end has been reached, closed (`Wrote`).  `PassNumbers`, `PassEnds` and
`PassWrites` carry the three through one pass.  `SeenUpTo` and `EndsLeft` are also what
settles the errors: the pass stops for an end tag that is overdue only if a tag was seen
that ends before it begins, and `writeRest` finds something left over only if a tag is out
of order or ends behind the text.

`ResultIsRight` and `NeverUndefined` have the hypothesis that the query has a body.
Without one an optional word stands where the code expects the body of a ROOT, and the
walk says yes to it whether or not the document has it.  `query_eval` has such queries
(its last two trees); with the hypothesis dropped TLC finds both properties violated
there.

**Only model-checked.**  All liveness properties (`EveryConnectionEnds`,
`EveryRequestEnds`, `OrphanRemoved`, `Returns`, `Ends`, `Answered`), since the prover has
no fairness; and of `Som` `ReferencesRight`, whose digits are read by a recursive function,
and the property of a whole document, `RoundTrip` (import, export and import
again).  The latter compares the tokens one loop reads with those another has written, in their
order: it needs, beyond `ExportRight`, that the tags of one name are nested where import
closes the innermost one, and that the tokens at one position come out in an order that
import turns back into the order of the file.

## 5. Not modelled, and the plan

Not modelled for good: rendering and HTML (formatting), linguistic analysis
(external tools decide its content; the shape of its output is an input of
`QueryEval`), cdb (vendored), `cdbpp.h` (third-party; only the tool `make_db` uses it), compressed streams
(`GzStream`, a wrapper of zlib).

Next, in this order:
1. `SnippetAgent`: distribution of documents to hosts, the forking servers, lost
   replies; with it the query parse server.
2. `ServerManager`: start, stop and restart against daemons that die.
3. Pure algorithms: the binary search of `read_dids_with_feature`, the merge of sorted
   index files, the reader of S-expressions.
4. Proofs: of the invariants that runs check, only `RoundTrip` and
   `ReferencesRight` have no theorem.
