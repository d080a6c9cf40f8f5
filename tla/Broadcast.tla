----------------------------- MODULE Broadcast -----------------------------
(***************************************************************************)
(* One search on the master server: the query goes to all search servers    *)
(* (send_query_to_slave_servers), their replies are read as they come        *)
(* (recieve_result_from_slave_servers, parse_recieved_data_for_cpp) and the  *)
(* lists are merged by score (Searcher.pm: search, merge_search_results).    *)
(* Of a search server only the lines of its reply are left; SlaveServer is   *)
(* about the rest.                                                           *)
(***************************************************************************)
EXTENDS Integers, Sequences, FiniteSets, Functions, TLC

CONSTANTS
    Servers,
    Pages,       \* records with the fields of PageAssumption
    Finds,       \* what the servers may find: functions from Servers to sequences
    Options,     \* [size, filter_simpages, cluster]: how many pages, how, which ids
    NUM_OF_RETURN_DOCUMENTS,
    Close,       \* 0.05, the distance of scores that are near each other
    NoServer, NoTitle

\* line: what parse_recieved_data takes the line of the page for, "doc" unless the
\* title has a word of the protocol in it; n: the number after that word.
\* stored: the title in the title database.  Servers sort their pages by score,
\* and no two of them have the same page.
ASSUME PageAssumption ==
    /\ \A p \in Pages :
        /\ DOMAIN p = {"did", "score", "url", "title", "stored", "line", "n"}
        /\ p.line \in {"doc", "hitcount", "LEAVE", "other"}
        /\ p.did \in Int /\ p.score \in Int /\ p.n \in Nat
    /\ Finds \subseteq [Servers -> Seq(Pages)]
    /\ \A f \in Finds : \A s \in Servers :
        /\ \A i, j \in 1 .. Len(f[s]) : i < j => f[s][i].score >= f[s][j].score
        /\ \A t \in Servers : \A i \in 1 .. Len(f[s]), j \in 1 .. Len(f[t]) :
             f[s][i].did = f[t][j].did => s = t /\ i = j

ASSUME ServersAssumption ==
    /\ IsFiniteSet(Servers) /\ NoServer \notin Servers
    /\ NUM_OF_RETURN_DOCUMENTS \in Nat
    /\ \A o \in Options : o.size \in Nat /\ o.filter_simpages \in BOOLEAN

VARIABLES
    found,           \* the documents of every server, in the order of its reply
    opt,
    pc,              \* "send", "select", "read", "merge", "done"
    hosts,           \* servers still to be connected to
    conn,            \* "none", "refused", "open", "leaked" or "closed" by the server
    sent,            \* how many lines have reached the master
    selecter, num_of_sockets,
    readable,        \* the sockets of one select that are still to be read
    reading,         \* [socket, got, hitcount, docs] of parse_recieved_data
    total_hitcount, results,
    merged_result,   \* sequence of [page, similar_pages]
    url2pos, prev

netVars == <<found, hosts, conn, sent>>
replyVars == <<selecter, num_of_sockets, readable, reading, total_hitcount>>
mergeVars == <<merged_result, url2pos, prev>>
vars == <<found, opt, pc, hosts, conn, sent, replyVars, results, mergeVars>>

Idle == [socket |-> NoServer, got |-> 0, hitcount |-> 0, docs |-> << >>]
NoPrev == [did |-> -1, title |-> NoTitle, score |-> -1]

Least(m, n) == IF m < n THEN m ELSE n

Init ==
    /\ found \in Finds /\ opt \in Options
    /\ pc = "send" /\ hosts = Servers
    /\ conn = [s \in Servers |-> "none"] /\ sent = [s \in Servers |-> 0]
    /\ selecter = {} /\ num_of_sockets = 0 /\ readable = {} /\ reading = Idle
    /\ total_hitcount = 0 /\ results = << >>
    /\ merged_result = << >> /\ url2pos = << >> /\ prev = NoPrev

-----------------------------------------------------------------------------
\* The reply of a server.  The lines with its name and its times are left out.
Returned(s) == SubSeq(found[s], 1, Least(NUM_OF_RETURN_DOCUMENTS, Len(found[s])))
Lines(s) == Returned(s) \o <<[line |-> "hitcount", n |-> Len(found[s])], [line |-> "LEAVE"]>>

\* The child writes the reply, and it arrives piece by piece.
Send(s) ==
    /\ conn[s] = "open" /\ sent[s] < Len(Lines(s))
    /\ sent' = [sent EXCEPT ![s] = @ + 1]
    /\ UNCHANGED <<found, opt, pc, hosts, conn, replyVars, results, mergeVars>>

CloseSocket(s) ==
    /\ conn[s] = "open" /\ sent[s] = Len(Lines(s))
    /\ conn' = [conn EXCEPT ![s] = "closed"]
    /\ UNCHANGED <<found, opt, pc, hosts, sent, replyVars, results, mergeVars>>

\* The child, or the whole server, dies before the reply is complete.
Die(s) ==
    /\ conn[s] \in {"open", "leaked"} /\ sent[s] < Len(Lines(s))
    /\ conn' = [conn EXCEPT ![s] = "closed"]
    /\ UNCHANGED <<found, opt, pc, hosts, sent, replyVars, results, mergeVars>>

\* fork has failed: the server keeps the connection and does not serve it.
Leak(s) ==
    /\ conn[s] = "open" /\ sent[s] = 0
    /\ conn' = [conn EXCEPT ![s] = "leaked"]
    /\ UNCHANGED <<found, opt, pc, hosts, sent, replyVars, results, mergeVars>>

-----------------------------------------------------------------------------
\* send_query_to_slave_servers, in the order of the shuffle.
Connect(s) ==
    /\ pc = "send" /\ s \in hosts
    /\ hosts' = hosts \ {s}
    /\ conn' = [conn EXCEPT ![s] = "open"]
    /\ selecter' = selecter \cup {s}
    /\ num_of_sockets' = num_of_sockets + 1
    /\ pc' = IF hosts' = {} THEN "select" ELSE "send"
    /\ UNCHANGED <<found, opt, sent, readable, reading, total_hitcount, results, mergeVars>>

Refused(s) ==
    /\ pc = "send" /\ s \in hosts
    /\ hosts' = hosts \ {s}
    /\ conn' = [conn EXCEPT ![s] = "refused"]
    /\ pc' = IF hosts' = {} THEN "select" ELSE "send"
    /\ UNCHANGED <<found, opt, sent, replyVars, results, mergeVars>>

\* There is no timeout: select waits until a line or an end of file is there.
select ==
    /\ pc = "select" /\ num_of_sockets > 0
    /\ readable' = {s \in selecter : sent[s] > 0 \/ conn[s] = "closed"}
    /\ readable' # {}
    /\ pc' = "read"
    /\ UNCHANGED <<netVars, opt, selecter, num_of_sockets, reading, total_hitcount, results, mergeVars>>

nextSocket ==
    /\ pc = "read" /\ reading.socket = NoServer
    /\ \/ \E s \in readable : reading' = [reading EXCEPT !.socket = s] /\ UNCHANGED pc
       \/ readable = {} /\ pc' = "select" /\ UNCHANGED reading
    /\ UNCHANGED <<netVars, opt, selecter, num_of_sockets, readable, total_hitcount, results, mergeVars>>

\* One line that is not the last; the read blocks although others may be ready.
parseLine ==
    /\ reading.socket # NoServer
    /\ LET s == reading.socket
           l == Lines(s)[reading.got + 1]
       IN  /\ reading.got < sent[s] /\ l.line # "LEAVE"
           /\ reading' = [reading EXCEPT !.got = @ + 1,
                            !.hitcount = IF l.line = "hitcount" THEN l.n ELSE @,
                            !.docs = IF l.line = "doc" THEN Append(@, l) ELSE @]
    /\ UNCHANGED <<netVars, opt, pc, selecter, num_of_sockets, readable, total_hitcount, results, mergeVars>>

\* Whether <$socket> gives the line LEAVE or the end of the file.
AtEnd(s) ==
    IF reading.got < sent[s] THEN Lines(s)[reading.got + 1].line = "LEAVE"
    ELSE conn[s] = "closed"

\* Mutant: a reply without a line does not count.
endOfReply_Empty ==
    /\ reading.socket # NoServer /\ AtEnd(reading.socket)
    /\ total_hitcount' = total_hitcount + reading.hitcount
    /\ results' = Append(results, reading.docs)
    /\ selecter' = selecter \ {reading.socket}
    /\ readable' = readable \ {reading.socket}
    /\ num_of_sockets' = IF reading.got = 0 THEN num_of_sockets ELSE num_of_sockets - 1
    /\ reading' = Idle
    /\ UNCHANGED <<netVars, opt, pc, mergeVars>>

\* Mutant: the socket stays in the selecter.
endOfReply_Kept ==
    /\ reading.socket # NoServer /\ AtEnd(reading.socket)
    /\ total_hitcount' = total_hitcount + reading.hitcount
    /\ results' = Append(results, reading.docs)
    /\ UNCHANGED selecter
    /\ readable' = readable \ {reading.socket}
    /\ num_of_sockets' = num_of_sockets - 1
    /\ reading' = Idle
    /\ UNCHANGED <<netVars, opt, pc, mergeVars>>

\* The end of parse_recieved_data and what its caller does with its result.
endOfReply ==
    /\ reading.socket # NoServer /\ AtEnd(reading.socket)
    /\ total_hitcount' = total_hitcount + reading.hitcount
    /\ results' = Append(results, reading.docs)
    /\ selecter' = selecter \ {reading.socket}
    /\ readable' = readable \ {reading.socket}
    /\ num_of_sockets' = num_of_sockets - 1
    /\ reading' = Idle
    /\ UNCHANGED <<netVars, opt, pc, mergeVars>>

-----------------------------------------------------------------------------
\* Searcher::search: no hits end it, otherwise the lists are cut down to a cluster.
inCluster(list) ==
    LET kept[n \in 0 .. Len(list)] ==
            IF n = 0 THEN << >>
            ELSE IF list[n].did \in opt.cluster THEN Append(kept[n - 1], list[n])
            ELSE kept[n - 1]
    IN  kept[Len(list)]

filterSearchResult(lists) ==
    LET kept[n \in 0 .. Len(lists)] ==
            IF n = 0 THEN << >>
            ELSE IF inCluster(lists[n]) # << >> THEN Append(kept[n - 1], inCluster(lists[n]))
            ELSE kept[n - 1]
    IN  kept[Len(lists)]

search ==
    /\ pc = "select" /\ num_of_sockets = 0
    /\ results' = filterSearchResult(results)
    /\ pc' = IF total_hitcount < 1 THEN "done" ELSE "merge"
    /\ UNCHANGED <<netVars, opt, replyVars, mergeVars>>

size == Least(opt.size, total_hitcount)

Nonempty == {i \in 1 .. Len(results) : results[i] # << >>}

\* Mutant: the first list that has pages left.
Best_First ==
    CHOOSE i \in Nonempty : \A j \in Nonempty : i <= j

\* The list with the best first page; equal scores go by the id.
Best ==
    CHOOSE i \in Nonempty : \A j \in Nonempty :
        LET p == Head(results[i])  q == Head(results[j])
        IN  \/ p.score > q.score
            \/ p.score = q.score /\ (p.did > q.did \/ (p.did = q.did /\ i <= j))

Merging == pc = "merge" /\ Len(merged_result) < size /\ Nonempty # {}

Shift == results' = [results EXCEPT ![Best] = Tail(@)]

\* add_list on the list of results, or on the similar pages of one of them.
Add(p) == merged_result' = Append(merged_result, [page |-> p, similar_pages |-> << >>])
AddSimilar(p, pos) ==
    merged_result' = [merged_result EXCEPT ![pos].similar_pages = Append(@, p)]

Known(p) == p.url \in DOMAIN url2pos
PutUrl(url, pos) ==
    [u \in DOMAIN url2pos \cup {url} |-> IF u = url THEN pos ELSE url2pos[u]]

Title(p) == IF p.title = "" THEN p.stored ELSE p.title

\* The title of the page before; one without is looked up by the id in prev.
PrevTitle ==
    IF prev.title # "" THEN prev.title
    ELSE (CHOOSE p \in Pages : p.did = prev.did).stored

\* Near by score and of the same title as the page before.
Similar(p) ==
    /\ prev # NoPrev /\ prev.score - p.score < Close
    /\ PrevTitle = Title(p) /\ PrevTitle # NoTitle

addPage ==
    /\ Merging /\ ~ opt.filter_simpages
    /\ Shift /\ Add(Head(results[Best]))
    /\ UNCHANGED <<netVars, opt, pc, replyVars, url2pos, prev>>

addKnownUrl ==
    /\ Merging /\ opt.filter_simpages
    /\ LET p == Head(results[Best])
       IN  /\ Known(p)
           /\ Shift /\ AddSimilar(p, url2pos[p.url])
           /\ prev' = [prev EXCEPT !.title = p.title, !.score = p.score]
    /\ UNCHANGED <<netVars, opt, pc, replyVars, url2pos>>

addKnownTitle ==
    /\ Merging /\ opt.filter_simpages
    /\ LET p == Head(results[Best])
       IN  /\ ~ Known(p) /\ Similar(p)
           /\ Shift /\ AddSimilar(p, Len(merged_result))
           /\ url2pos' = PutUrl(p.url, Len(merged_result))
           /\ prev' = [prev EXCEPT !.title = PrevTitle, !.score = p.score]
    /\ UNCHANGED <<netVars, opt, pc, replyVars>>

addNew ==
    /\ Merging /\ opt.filter_simpages
    /\ LET p == Head(results[Best])
       IN  /\ ~ Known(p) /\ ~ Similar(p)
           /\ Shift /\ Add(p)
           /\ url2pos' = PutUrl(p.url, Len(merged_result) + 1)
           /\ prev' = [did |-> p.did, title |-> Title(p), score |-> p.score]
    /\ UNCHANGED <<netVars, opt, pc, replyVars>>

merged ==
    /\ pc = "merge" /\ (Len(merged_result) >= size \/ Nonempty = {})
    /\ pc' = "done"
    /\ UNCHANGED <<netVars, opt, replyVars, results, mergeVars>>

-----------------------------------------------------------------------------
Receive == select \/ nextSocket \/ parseLine \/ endOfReply
Merge == addPage \/ addKnownUrl \/ addKnownTitle \/ addNew \/ merged
Master == (\E s \in Servers : Connect(s) \/ Refused(s)) \/ Receive \/ search \/ Merge
Serve(s) == Send(s) \/ CloseSocket(s)

Next == Master \/ \E s \in Servers : Serve(s) \/ Die(s) \/ Leak(s)

\* A server that has accepted a connection and forked a child ends its reply
\* (EveryConnectionEnds of SlaveServer); none has to die or to leak a connection.
Spec == /\ Init /\ [][Next]_vars
        /\ WF_vars(Master) /\ \A s \in Servers : WF_vars(Serve(s))

-----------------------------------------------------------------------------
PagesIn(lists) == UNION {Range(lists[i]) : i \in 1 .. Len(lists)}

\* What has come of a reply: a page whose title is read as the end of the reply
\* cuts it off, one with another word of the protocol in it is lost itself.
Came(s) ==
    {Returned(s)[i] : i \in {j \in 1 .. Least(sent[s], Len(Returned(s))) :
        /\ Returned(s)[j].line = "doc"
        /\ \A k \in 1 .. j : Returned(s)[k].line # "LEAVE"}}

\* The documents that servers have found; their number is the sum of the hit counts.
Hits(S) == UNION {{s} \X (1 .. Len(found[s])) : s \in S}

\* Every server that was reached is counted once, whether it has answered, died in
\* its reply or before it: the loop of recieve_result_from_slave_servers ends with
\* all pages that came, and the sum of the hit counts that came.  A title
\* taken for the end of a reply spoils the sum, and so does one taken for a hit count
\* when the true one does not come.
RepliesCounted ==
    /\ pc # "send" => (num_of_sockets = Cardinality(selecter))
    /\ pc = "select" /\ num_of_sockets = 0 =>
        LET reached == {s \in Servers : conn[s] # "refused"}
            counted == {s \in reached : sent[s] > Len(Returned(s))}
        IN  /\ Len(results) = Cardinality(reached)
            /\ PagesIn(results) = UNION {Came(s) : s \in reached}
            /\ (\A s \in reached : \A p \in Range(Returned(s)) :
                  p.line \in {"doc", "other"} \/ (p.line = "hitcount" /\ s \in counted)) =>
                 total_hitcount = Cardinality(Hits(counted))

\* The pages of the answer: each with the similar ones below it.
PagesAt(i) == {merged_result[i].page} \cup Range(merged_result[i].similar_pages)
Taken == UNION {PagesAt(i) : i \in 1 .. Len(merged_result)}

\* merge_search_results gives every page that came once, in the order of the scores
\* although each list is looked at only at its head, stops only when it has enough
\* pages or no more, and with filter_simpages puts pages with the same URL together.
AnswerRight ==
    /\ \A i, j \in 1 .. Len(merged_result) :
         i < j => merged_result[i].page.score >= merged_result[j].page.score
    /\ \A p \in Taken, q \in PagesIn(results) : p.score >= q.score /\ p # q
    /\ pc \in {"merge", "done"} =>
        /\ Taken \cup PagesIn(results) =
             {p \in UNION {Came(s) : s \in Servers} : p.did \in opt.cluster}
        /\ \A i \in 1 .. Len(merged_result) :
             LET m == merged_result[i]
             IN  /\ IsInjective(m.similar_pages) /\ m.page \notin Range(m.similar_pages)
                 /\ \A j \in 1 .. Len(merged_result) : i # j => PagesAt(i) \cap PagesAt(j) = {}
    /\ pc = "done" /\ total_hitcount > 0 => Len(merged_result) = size \/ Nonempty = {}
    /\ opt.filter_simpages =>
        \A i, j \in 1 .. Len(merged_result) :
            \A p \in PagesAt(i), q \in PagesAt(j) : p.url = q.url => i = j

\* A search ends although servers refuse, die and answer in any order.  Only a
\* server that keeps a connection without serving it holds it up, since the select
\* of recieve_result_from_slave_servers has no timeout.
Answered == <>(pc = "done" \/ \E s \in Servers : conn[s] = "leaked")
=============================================================================
