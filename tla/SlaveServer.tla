---------------------------- MODULE SlaveServer ----------------------------
(***************************************************************************)
(* The search server process (search/slave_server.cc, server_mode) and the *)
(* part of a query that touches the index file (search/documents.cc,        *)
(* lookup_index and read_index).                                            *)
(*                                                                          *)
(* The index streams are opened by init, before any fork, so the server and *)
(* all the children it forks share ONE kernel file offset per stream.  A    *)
(* look-up is a seek followed by two reads; it returns the posting it wants *)
(* only if nobody else moves the offset in between.  What keeps the          *)
(* children apart is the blocking waitpid at the end of the accept loop.     *)
(*                                                                          *)
(* The offset databases are memory-mapped (cdb_init) and keep no offset, so *)
(* finding a term's address is part of the step that seeks to it.           *)
(***************************************************************************)
EXTENDS Integers, Sequences

CONSTANTS
    Clients,    \* connections, each opened at most once
    NoClient,   \* no connection
    Terms,      \* query terms
    Queries,    \* the sequences of terms a query may look up
    Addr,       \* the offset database: address of the posting of an indexed term
    Index       \* the index file: a posting is its size, then that many numbers

ASSUME IndexAssumption ==
    /\ NoClient \notin Clients
    /\ Queries \subseteq Seq(Terms)
    /\ DOMAIN Addr \subseteq Terms
    /\ \A t \in DOMAIN Addr : Addr[t] \in Nat
    /\ Index \in Seq(Nat)

VARIABLES
    pc,       \* the server process: "start", "accept", "fork", "wait", "exited"
    fd,       \* the descriptor accept returned last (the connection behind it)
    backlog,  \* connections the kernel has queued on the listening socket
    leaked,   \* descriptors the server still holds after a failed fork
    conn,     \* state of each connection as its client sees it
    line,     \* what the client has written on the connection
    cpc,      \* the child that serves the connection
    todo,     \* the terms of the child's query
    size,     \* the size the child has read for the current term
    got,      \* the postings the child has read so far
    offset    \* the kernel's offset in the index file, shared by all processes

vars == <<pc, fd, backlog, leaked, conn, line, cpc, todo, size, got, offset>>
server == <<pc, fd, backlog, leaked>>
child == <<cpc, todo, size, got>>

\* Reading past the end of the file leaves the buffer without a number of the
\* file; 0 stands for what the code then finds in it.
At(o) == IF o + 1 \in 1 .. Len(Index) THEN Index[o + 1] ELSE 0

\* The posting that starts at address a.
Block(a) == [size |-> At(a), body |-> [i \in 1 .. At(a) |-> At(a + i)]]

\* A term without an address has an empty posting list (lookup_index, not found).
NoBlock == [size |-> 0, body |-> << >>]

Posting(t) == IF t \in DOMAIN Addr THEN Block(Addr[t]) ELSE NoBlock

\* The term the child of c looks up next.
Term(c) == todo[c][Len(got[c]) + 1]
MoreTerms(c) == Len(got[c]) < Len(todo[c])

Init ==
    /\ pc = "start"
    /\ fd = NoClient
    /\ backlog = << >>
    /\ leaked = {}
    /\ conn = [c \in Clients |-> "none"]
    /\ line = [c \in Clients |-> "unsent"]
    /\ cpc = [c \in Clients |-> "none"]
    /\ todo \in [Clients -> Queries]
    /\ size = [c \in Clients |-> 0]
    /\ got = [c \in Clients |-> << >>]
    /\ offset = 0

-----------------------------------------------------------------------------
(* The clients.  SearchEngine.pm connects, writes one line and reads until   *)
(* the server closes; an operator may send QUIT; a client may also go away    *)
(* without having written a line.                                             *)

Connect(c) ==
    /\ conn[c] = "none"
    /\ pc \notin {"start", "exited"}
    /\ conn' = [conn EXCEPT ![c] = "open"]
    /\ backlog' = Append(backlog, c)
    /\ UNCHANGED <<pc, fd, leaked, line, child, offset>>

\* Nobody listens on the port.
Refused(c) ==
    /\ conn[c] = "none"
    /\ pc \in {"start", "exited"}
    /\ conn' = [conn EXCEPT ![c] = "lost"]
    /\ UNCHANGED <<server, line, child, offset>>

SendLine(c) ==
    /\ conn[c] \in {"open", "hung"}
    /\ line[c] = "unsent"
    /\ \E l \in {"query", "QUIT", "eof"} : line' = [line EXCEPT ![c] = l]
    /\ UNCHANGED <<server, conn, child, offset>>

-----------------------------------------------------------------------------
(* Mutated steps, used to show that the properties below can fail.            *)

\* waitpid with WNOHANG: the server goes on whether a child is dead or not.
WaitPidNoHang ==
    /\ pc = "wait"
    /\ cpc' = [c \in Clients |-> IF cpc[c] = "zombie" THEN "reaped" ELSE cpc[c]]
    /\ pc' = "accept"
    /\ UNCHANGED <<fd, backlog, leaked, conn, line, todo, size, got, offset>>

\* The size is taken to count its own word.
ReadSizeInclusive(c) ==
    /\ cpc[c] = "size"
    /\ size' = [size EXCEPT ![c] = At(offset) - 1]
    /\ offset' = offset + 1
    /\ cpc' = [cpc EXCEPT ![c] = "body"]
    /\ UNCHANGED <<server, conn, line, todo, got>>

\* After a failed fork the server waits for the child it does not have.
ForkErrorWaits ==
    /\ pc = "fork"
    /\ leaked' = leaked \cup {fd}
    /\ conn' = [conn EXCEPT ![fd] = "hung"]
    /\ pc' = "wait"
    /\ UNCHANGED <<fd, backlog, line, child, offset>>

-----------------------------------------------------------------------------
(* The server process.                                                        *)

\* init, the fork that makes it a daemon, socket, bind, listen.
Listen ==
    /\ pc = "start"
    /\ pc' = "accept"
    /\ UNCHANGED <<fd, backlog, leaked, conn, line, child, offset>>

\* The fork, socket, bind or listen fails: the process returns false.
ListenError ==
    /\ pc = "start"
    /\ pc' = "exited"
    /\ UNCHANGED <<fd, backlog, leaked, conn, line, child, offset>>

Accept ==
    /\ pc = "accept"
    /\ backlog # << >>
    /\ fd' = Head(backlog)
    /\ backlog' = Tail(backlog)
    /\ pc' = "fork"
    /\ UNCHANGED <<leaked, conn, line, child, offset>>

\* accept fails for another reason than a signal: the server closes the
\* listening socket and exits, and the kernel closes what it still held.
AcceptError ==
    /\ pc = "accept"
    /\ pc' = "exited"
    /\ backlog' = << >>
    /\ leaked' = {}
    /\ conn' = [c \in Clients |->
                  IF c \in leaked \/ \E i \in 1 .. Len(backlog) : backlog[i] = c
                  THEN "lost" ELSE conn[c]]
    /\ UNCHANGED <<fd, line, child, offset>>

\* fork, and in the parent close(fd): from here on only the child holds fd.
Fork ==
    /\ pc = "fork"
    /\ cpc' = [cpc EXCEPT ![fd] = "fgets"]
    /\ pc' = "wait"
    /\ UNCHANGED <<fd, backlog, leaked, conn, line, todo, size, got, offset>>

\* fork fails: sleep(1) and continue, with fd still open.
ForkError ==
    /\ pc = "fork"
    /\ leaked' = leaked \cup {fd}
    /\ conn' = [conn EXCEPT ![fd] = "hung"]
    /\ pc' = "accept"
    /\ UNCHANGED <<fd, backlog, line, child, offset>>

\* waitpid(-1, &status, 0) blocks until some child is dead.
WaitPid ==
    /\ pc = "wait"
    /\ \E c \in Clients :
         /\ cpc[c] = "zombie"
         /\ cpc' = [cpc EXCEPT ![c] = "reaped"]
    /\ pc' = "accept"
    /\ UNCHANGED <<fd, backlog, leaked, conn, line, todo, size, got, offset>>

-----------------------------------------------------------------------------
(* The child that serves connection c.                                        *)

\* The child ends; what the client has seen of it is o.
Die(c, o) ==
    /\ cpc' = [cpc EXCEPT ![c] = "zombie"]
    /\ conn' = [conn EXCEPT ![c] = o]

\* A line that starts with QUIT is acknowledged, and only this child exits.
ReadQuit(c) ==
    /\ cpc[c] = "fgets"
    /\ line[c] = "QUIT"
    /\ Die(c, "bye")
    /\ UNCHANGED <<server, line, todo, size, got, offset>>

ReadQuery(c) ==
    /\ cpc[c] = "fgets"
    /\ line[c] = "query"
    /\ cpc' = [cpc EXCEPT ![c] = "lookup"]
    /\ UNCHANGED <<server, conn, line, todo, size, got, offset>>

\* fgets found no line and its result is not checked: buf is uninitialized.  It
\* may look like QUIT, search for nothing, or make the reader of the expression
\* abort the process.
ReadNothing(c) ==
    /\ cpc[c] = "fgets"
    /\ line[c] = "eof"
    /\ \E o \in {"bye", "empty", "lost"} : Die(c, o)
    /\ UNCHANGED <<server, line, todo, size, got, offset>>

\* lookup_index finds no address: the term has no documents.
NotFound(c) ==
    /\ cpc[c] = "lookup"
    /\ MoreTerms(c)
    /\ Term(c) \notin DOMAIN Addr
    /\ got' = [got EXCEPT ![c] = Append(got[c], NoBlock)]
    /\ UNCHANGED <<server, conn, line, cpc, todo, size, offset>>

\* lookup_index: seekg to the address of the term.
Seek(c) ==
    /\ cpc[c] = "lookup"
    /\ MoreTerms(c)
    /\ Term(c) \in DOMAIN Addr
    /\ offset' = Addr[Term(c)]
    /\ cpc' = [cpc EXCEPT ![c] = "size"]
    /\ UNCHANGED <<server, conn, line, todo, size, got>>

\* read_index: the first read, one integer.
ReadSize(c) ==
    /\ cpc[c] = "size"
    /\ size' = [size EXCEPT ![c] = At(offset)]
    /\ offset' = offset + 1
    /\ cpc' = [cpc EXCEPT ![c] = "body"]
    /\ UNCHANGED <<server, conn, line, todo, got>>

\* read_index: the second read, index_size bytes from wherever the offset is.
ReadBody(c) ==
    /\ cpc[c] = "body"
    /\ got' = [got EXCEPT ![c] = Append(got[c],
                 [size |-> size[c],
                  body |-> [i \in 1 .. size[c] |-> At(offset + i - 1)]])]
    /\ offset' = offset + size[c]
    /\ cpc' = [cpc EXCEPT ![c] = "lookup"]
    /\ UNCHANGED <<server, conn, line, todo, size>>

\* All terms are looked up: the reply is written in one piece, then _exit(-1).
Answer(c) ==
    /\ cpc[c] = "lookup"
    /\ ~ MoreTerms(c)
    /\ Die(c, "answered")
    /\ UNCHANGED <<server, line, todo, size, got, offset>>

\* The search dies (out of memory, a malformed expression): nothing was written.
Crash(c) ==
    /\ cpc[c] \in {"lookup", "size", "body"}
    /\ Die(c, "lost")
    /\ UNCHANGED <<server, line, todo, size, got, offset>>

Child(c) == \/ ReadQuit(c) \/ ReadQuery(c) \/ ReadNothing(c)
            \/ NotFound(c) \/ Seek(c) \/ ReadSize(c) \/ ReadBody(c)
            \/ Answer(c)

Server == Listen \/ Accept \/ Fork \/ ForkError \/ WaitPid

Next == \/ Server \/ ListenError \/ AcceptError
        \/ \E c \in Clients : \/ Connect(c) \/ Refused(c) \/ SendLine(c)
                              \/ Child(c) \/ Crash(c)

\* The scheduler runs every process that can run, and a client that has
\* connected writes its line or goes away; nobody is obliged to connect, to
\* crash or to fail.
Fairness == /\ WF_vars(Server)
            /\ \A c \in Clients : WF_vars(Child(c)) /\ WF_vars(SendLine(c))

Spec == Init /\ [][Next]_vars
FairSpec == Spec /\ Fairness

-----------------------------------------------------------------------------
(* Properties.                                                                *)

Blocks == [size : Nat, body : Seq(Nat)]

\* The type of the state; a child never holds more postings than it has terms.
TypeOK ==
    /\ pc \in {"start", "accept", "fork", "wait", "exited"}
    /\ fd \in Clients \cup {NoClient}
    /\ backlog \in Seq(Clients)
    /\ leaked \in SUBSET Clients
    /\ conn \in [Clients -> {"none", "open", "answered", "empty", "bye", "lost", "hung"}]
    /\ line \in [Clients -> {"unsent", "query", "QUIT", "eof"}]
    /\ cpc \in [Clients -> {"none", "fgets", "lookup", "size", "body", "zombie", "reaped"}]
    /\ todo \in [Clients -> Queries]
    /\ size \in [Clients -> Nat]
    /\ got \in [Clients -> Seq(Blocks)]
    /\ \A c \in Clients : Len(got[c]) <= Len(todo[c])
    /\ offset \in Nat

Running(c) == cpc[c] \in {"fgets", "lookup", "size", "body"}

\* No two children are alive at the same time, although every connection gets a
\* process of its own: the accept loop does not go round before waitpid returns.
OneChild == \A c, d \in Clients : Running(c) /\ Running(d) => c = d

Own(c) == /\ Len(got[c]) = Len(todo[c])
          /\ \A i \in 1 .. Len(got[c]) : got[c][i] = Posting(todo[c][i])

\* A reply holds, for every term of the query, the posting of that term: the
\* seek and the two reads of a look-up on the shared offset are never torn
\* apart by another process (lookup_index, read_index).
OwnPostings == \A c \in Clients : conn[c] = "answered" => Own(c)

\* The process structure carries out SerialSearch: one request at a time, in
\* the order of acceptance, and a right answer whenever there is an answer.
OutcomeMap == [c \in Clients |->
    CASE conn[c] \in {"none", "open"} -> "open"
      [] conn[c] = "answered" -> IF Own(c) THEN "right" ELSE "wrong"
      [] OTHER -> conn[c]]
CurrentMap == IF pc \in {"fork", "wait"} THEN fd ELSE NoClient
Serial == INSTANCE SerialSearch WITH current <- CurrentMap, outcome <- OutcomeMap
ImplementsSerialSearch == Serial!Spec

\* Every connection the kernel has taken for the server comes to an end: it is
\* answered, closed, or left hanging by a fork that failed.  One slow client
\* delays all others but does not stop them for ever.
EveryConnectionEnds == \A c \in Clients : conn[c] = "open" ~> conn[c] # "open"
=============================================================================
