------------------------- MODULE SearchServer_proofs -------------------------
(***************************************************************************)
(* The search server.  First the process: for any set of connections, any   *)
(* index file and any queries, the typing invariant, the exclusion of        *)
(* children, that every answer holds the postings of its own terms, and that *)
(* the process structure implements SerialSearch.  Then the operations it    *)
(* evaluates a query with: the three list operations compute intersection,   *)
(* union and difference of sorted lists, for lists of any length over any    *)
(* document ids.                                                             *)
(***************************************************************************)
EXTENDS SlaveServer, ListMerge, SequenceTheorems, TLAPS

-----------------------------------------------------------------------------
(* The process.                                                                 *)

Alive(c) == cpc[c] \in {"fgets", "lookup", "size", "body", "zombie"}

\* Why the children are apart: one that has not been reaped yet is the child of
\* the descriptor accepted last, and the server is at its waitpid.
ChildInv ==
    /\ pc \in {"fork", "wait"} => fd \in Clients
    /\ pc = "fork" => conn[fd] = "open" /\ cpc[fd] = "none"
    /\ \A c \in Clients : Alive(c) => pc = "wait" /\ fd = c
    /\ \A c \in Clients : Running(c) => conn[c] = "open"
    /\ \A c \in Clients : cpc[c] = "zombie" => conn[c] \notin {"none", "open"}
    /\ \A c \in Clients : conn[c] = "none" => cpc[c] = "none"

\* Queued connections are open, unserved and distinct.
BacklogInv ==
    /\ \A i \in 1 .. Len(backlog) :
         /\ conn[backlog[i]] = "open"
         /\ cpc[backlog[i]] = "none"
         /\ pc = "fork" => backlog[i] # fd
    /\ \A i, j \in 1 .. Len(backlog) : backlog[i] = backlog[j] => i = j
    /\ \A c \in leaked : conn[c] = "hung"

\* Why a look-up is not torn: between the seek and the last read the offset is
\* where the running child has put it, and what was read so far is right.
LookupInv ==
    /\ \A c \in Clients : cpc[c] \in {"size", "body"} =>
         /\ MoreTerms(c)
         /\ Term(c) \in DOMAIN Addr
    /\ \A c \in Clients : cpc[c] = "size" => offset = Addr[Term(c)]
    /\ \A c \in Clients : cpc[c] = "body" =>
         /\ size[c] = At(Addr[Term(c)])
         /\ offset = Addr[Term(c)] + 1
    /\ \A c \in Clients : \A i \in 1 .. Len(got[c]) : got[c][i] = Posting(todo[c][i])
    /\ \A c \in Clients : conn[c] = "answered" =>
         Len(got[c]) = Len(todo[c]) /\ cpc[c] \in {"zombie", "reaped"}

IInv == TypeOK /\ ChildInv /\ BacklogInv /\ LookupInv

\* Every word of the index file, and what a read past its end yields, is a number.
LEMMA AtNat == \A o \in Nat : At(o) \in Nat
  BY IndexAssumption DEF At

\* The numbers read in one go form a posting.
LEMMA BlockType ==
    ASSUME NEW n \in Nat, NEW o \in Nat
    PROVE  [size |-> n, body |-> [i \in 1 .. n |-> At(o + i - 1)]] \in Blocks
<1>1. \A i \in 1 .. n : At(o + i - 1) \in Nat
  BY AtNat
<1>2. [i \in 1 .. n |-> At(o + i - 1)] \in Seq(Nat)
  BY <1>1
<1>3. QED
  BY <1>2 DEF Blocks

\* The state the server starts in satisfies the inductive invariant.
LEMMA InitInv == Init => IInv
<1> SUFFICES ASSUME Init PROVE IInv
  OBVIOUS
<1> USE IndexAssumption DEF Init
<1>1. TypeOK
  <2>2. ASSUME NEW c \in Clients PROVE Len(got[c]) <= Len(todo[c])
    <3>1. todo[c] \in Seq(Terms)
      OBVIOUS
    <3>2. Len(todo[c]) \in Nat
      BY <3>1
    <3>3. got[c] = << >>
      OBVIOUS
    <3>4. QED
      BY <3>2, <3>3
  <2>3. backlog \in Seq(Clients) /\ got \in [Clients -> Seq(Blocks)]
    OBVIOUS
  <2>4. QED
    BY <2>2, <2>3 DEF TypeOK
<1>2. ChildInv
  BY DEF ChildInv, Alive, Running
<1>3. BacklogInv
  BY DEF BacklogInv
<1>4. LookupInv
  BY DEF LookupInv
<1>5. QED
  BY <1>1, <1>2, <1>3, <1>4 DEF IInv

\* A step of one connection that is not queued, and not leaked if the step ends it,
\* leaves the queue as it was.
LEMMA QueueSame ==
    ASSUME TypeOK, BacklogInv, NEW c \in Clients, UNCHANGED <<backlog, leaked>>,
           \A i \in 1 .. Len(backlog) : backlog[i] # c,
           \A d \in Clients : d # c => conn'[d] = conn[d] /\ cpc'[d] = cpc[d],
           c \in leaked => conn'[c] = conn[c],
           pc' = "fork" => pc = "fork" /\ fd' = fd
    PROVE  BacklogInv'
<1>1. \A i \in 1 .. Len(backlog) : backlog[i] \in Clients
  BY DEF TypeOK
<1>2. \A i \in 1 .. Len(backlog) : conn'[backlog[i]] = conn[backlog[i]] /\ cpc'[backlog[i]] = cpc[backlog[i]]
  BY <1>1
<1>3. \A d \in leaked : conn'[d] = "hung"
  BY DEF TypeOK, BacklogInv
<1>4. QED
  BY <1>2, <1>3 DEF BacklogInv

\* Every step preserves the inductive invariant.
LEMMA NextInv == IInv /\ [Next]_vars => IInv'
<1> SUFFICES ASSUME IInv, [Next]_vars PROVE IInv'
  OBVIOUS
<1> USE IndexAssumption
<1>0. /\ TypeOK /\ ChildInv /\ BacklogInv /\ LookupInv
  BY DEF IInv
<1>a. \A i \in 1 .. Len(backlog) : backlog[i] \in Clients
  BY <1>0 DEF TypeOK
<1>b. ASSUME NEW c \in Clients, cpc[c] # "none" \/ conn[c] # "open"
      PROVE  \A i \in 1 .. Len(backlog) : backlog[i] # c
  BY <1>0, <1>b DEF BacklogInv
<1>1. CASE Listen
  <2>1. TypeOK'
    BY <1>0, <1>1 DEF TypeOK, Listen, server, child
  <2>2. ChildInv'
    BY <1>0, <1>1 DEF TypeOK, ChildInv, Alive, Running, Listen, server, child
  <2>3. BacklogInv'
    BY <1>0, <1>1 DEF TypeOK, BacklogInv, ChildInv, Alive, Running, Listen, server, child
  <2>4. LookupInv'
    BY <1>0, <1>1 DEF TypeOK, LookupInv, ChildInv, MoreTerms, Term, Alive, Running, Listen, server, child
  <2>5. QED
    BY <2>1, <2>2, <2>3, <2>4 DEF IInv
<1>2. CASE ListenError
  <2>1. TypeOK'
    BY <1>0, <1>2 DEF TypeOK, ListenError, server, child
  <2>2. ChildInv'
    BY <1>0, <1>2 DEF TypeOK, ChildInv, Alive, Running, ListenError, server, child
  <2>3. BacklogInv'
    BY <1>0, <1>2 DEF TypeOK, BacklogInv, ChildInv, Alive, Running, ListenError, server, child
  <2>4. LookupInv'
    BY <1>0, <1>2 DEF TypeOK, LookupInv, ChildInv, MoreTerms, Term, Alive, Running, ListenError, server, child
  <2>5. QED
    BY <2>1, <2>2, <2>3, <2>4 DEF IInv
<1>3. CASE Accept
  <2>0. /\ backlog \in Seq(Clients) /\ Len(backlog) \in Nat /\ Len(backlog) > 0
        /\ fd' = backlog[1] /\ fd' \in Clients
        /\ Len(backlog') = Len(backlog) - 1
        /\ \A i \in 1 .. Len(backlog') : backlog'[i] = backlog[i + 1]
    BY <1>0, <1>3 DEF TypeOK, Accept
  <2>1. TypeOK'
    BY <1>0, <1>3 DEF TypeOK, Accept, server, child
  <2>2. ChildInv'
    BY <1>0, <1>3, <2>0 DEF TypeOK, ChildInv, BacklogInv, Alive, Running, Accept, child
  <2>3. BacklogInv'
    <3>1. ASSUME NEW i \in 1 .. Len(backlog')
          PROVE  /\ conn'[backlog'[i]] = "open" /\ cpc'[backlog'[i]] = "none"
                 /\ backlog'[i] # fd'
      <4>1. i + 1 \in 1 .. Len(backlog) /\ 1 \in 1 .. Len(backlog) /\ i + 1 # 1
        BY <2>0
      <4>2. QED
        BY <1>0, <1>3, <2>0, <4>1 DEF BacklogInv, Accept, child
    <3>2. ASSUME NEW i \in 1 .. Len(backlog'), NEW j \in 1 .. Len(backlog'),
                 backlog'[i] = backlog'[j]
          PROVE  i = j
      <4>1. i + 1 \in 1 .. Len(backlog) /\ j + 1 \in 1 .. Len(backlog)
        BY <2>0
      <4>2. i + 1 = j + 1
        BY <1>0, <2>0, <3>2, <4>1 DEF BacklogInv
      <4>3. QED
        BY <4>2
    <3>3. QED
      BY <1>0, <1>3, <3>1, <3>2 DEF BacklogInv, Accept
  <2>4. LookupInv'
    BY <1>0, <1>3 DEF TypeOK, LookupInv, ChildInv, MoreTerms, Term, Alive, Running, Accept, server, child
  <2>5. QED
    BY <2>1, <2>2, <2>3, <2>4 DEF IInv
<1>4. CASE AcceptError
  <2>1. TypeOK'
    BY <1>0, <1>4 DEF TypeOK, AcceptError, server, child
  <2>2. ChildInv'
    BY <1>0, <1>4 DEF TypeOK, ChildInv, Alive, Running, AcceptError, server, child
  <2>3. BacklogInv'
    BY <1>0, <1>4 DEF TypeOK, BacklogInv, ChildInv, Alive, Running, AcceptError, server, child
  <2>4. LookupInv'
    BY <1>0, <1>4 DEF TypeOK, LookupInv, ChildInv, MoreTerms, Term, Alive, Running, AcceptError, server, child
  <2>5. QED
    BY <2>1, <2>2, <2>3, <2>4 DEF IInv
<1>5. CASE Fork
  <2>1. TypeOK'
    BY <1>0, <1>5 DEF TypeOK, Fork, server, child
  <2>2. ChildInv'
    BY <1>0, <1>5 DEF TypeOK, ChildInv, Alive, Running, Fork, server, child
  <2>3. BacklogInv'
    <3>1. /\ UNCHANGED <<backlog, leaked, conn>> /\ pc' = "wait" /\ pc = "fork"
          /\ cpc' = [cpc EXCEPT ![fd] = "fgets"] /\ fd \in Clients
      BY <1>0, <1>5 DEF ChildInv, Fork
    <3>2. \A i \in 1 .. Len(backlog) : backlog[i] # fd
      BY <1>0, <3>1 DEF BacklogInv
    <3>3. \A d \in Clients : d # fd => conn'[d] = conn[d] /\ cpc'[d] = cpc[d]
      BY <1>0, <3>1 DEF TypeOK
    <3>4. QED
      BY <1>0, <3>1, <3>2, <3>3, QueueSame
  <2>4. LookupInv'
    BY <1>0, <1>5 DEF TypeOK, LookupInv, ChildInv, MoreTerms, Term, Alive, Running, Fork, server, child
  <2>5. QED
    BY <2>1, <2>2, <2>3, <2>4 DEF IInv
<1>6. CASE ForkError
  <2>1. TypeOK'
    BY <1>0, <1>6 DEF TypeOK, ChildInv, ForkError, child
  <2>2. ChildInv'
    BY <1>0, <1>6 DEF TypeOK, ChildInv, Alive, Running, ForkError, server, child
  <2>3. BacklogInv'
    <3>1. \A i \in 1 .. Len(backlog) : backlog[i] # fd
      BY <1>0, <1>6 DEF BacklogInv, ForkError
    <3>2. \A d \in Clients : d # fd => conn'[d] = conn[d]
      BY <1>0, <1>6 DEF TypeOK, ForkError
    <3>3. conn'[fd] = "hung"
      BY <1>0, <1>6 DEF TypeOK, ChildInv, ForkError
    <3>4. \A d \in leaked' : conn'[d] = "hung"
      BY <1>0, <1>6, <3>2, <3>3 DEF TypeOK, BacklogInv, ForkError
    <3>5. \A i \in 1 .. Len(backlog) : backlog[i] \in Clients
      BY <1>0 DEF TypeOK
    <3>6. QED
      BY <1>0, <1>6, <3>1, <3>2, <3>4, <3>5 DEF BacklogInv, ForkError, child
  <2>4. LookupInv'
    BY <1>0, <1>6 DEF TypeOK, LookupInv, ChildInv, MoreTerms, Term, Alive, Running, ForkError, server, child
  <2>5. QED
    BY <2>1, <2>2, <2>3, <2>4 DEF IInv
<1>7. CASE WaitPid
  <2>1. TypeOK'
    BY <1>0, <1>7 DEF TypeOK, WaitPid, server, child
  <2>2. ChildInv'
    BY <1>0, <1>7 DEF TypeOK, ChildInv, Alive, Running, WaitPid, server, child
  <2>3. BacklogInv'
    <3>1. PICK c \in Clients : cpc[c] = "zombie" /\ cpc' = [cpc EXCEPT ![c] = "reaped"]
      BY <1>7 DEF WaitPid
    <3>2. UNCHANGED <<backlog, leaked, conn>> /\ pc' = "accept"
      BY <1>7 DEF WaitPid
    <3>3. \A i \in 1 .. Len(backlog) : backlog[i] # c
      BY <1>b, <3>1
    <3>4. \A d \in Clients : d # c => conn'[d] = conn[d] /\ cpc'[d] = cpc[d]
      BY <1>0, <3>1, <3>2 DEF TypeOK
    <3>5. QED
      BY <1>0, <3>2, <3>3, <3>4, QueueSame
  <2>4. LookupInv'
    BY <1>0, <1>7 DEF TypeOK, LookupInv, ChildInv, MoreTerms, Term, Alive, Running, WaitPid, server, child
  <2>5. QED
    BY <2>1, <2>2, <2>3, <2>4 DEF IInv
<1>8. ASSUME NEW c \in Clients, Connect(c) PROVE IInv'
  <2>1. TypeOK'
    <3>1. backlog' \in Seq(Clients)
      BY <1>0, <1>8 DEF TypeOK, Connect
    <3>2. conn' \in [Clients -> {"none", "open", "answered", "empty", "bye", "lost", "hung"}]
      BY <1>0, <1>8 DEF TypeOK, Connect
    <3>3. QED
      BY <1>0, <1>8, <3>1, <3>2 DEF TypeOK, Connect, child
  <2>2. ChildInv'
    BY <1>0, <1>8 DEF TypeOK, ChildInv, Alive, Running, Connect, server, child
  <2>3. BacklogInv'
    <3>1. \A i \in 1 .. Len(backlog) : backlog[i] # c
      BY <1>b, <1>8 DEF Connect
    <3>2. \A d \in Clients : d # c => conn'[d] = conn[d]
      BY <1>0, <1>8 DEF TypeOK, Connect
    <3>3. c \notin leaked /\ cpc[c] = "none" /\ (pc = "fork" => fd # c)
      BY <1>0, <1>8 DEF ChildInv, BacklogInv, Connect
    <3>4. /\ Len(backlog) \in Nat
          /\ Len(backlog') = Len(backlog) + 1
          /\ \A i \in 1 .. Len(backlog) : backlog'[i] = backlog[i]
          /\ backlog'[Len(backlog) + 1] = c
          /\ conn'[c] = "open"
      BY <1>0, <1>8 DEF TypeOK, Connect
    <3>5. cpc' = cpc /\ pc' = pc /\ fd' = fd /\ leaked' = leaked
      BY <1>8 DEF Connect, child
    <3>6. \A i \in 1 .. Len(backlog') :
            /\ conn'[backlog'[i]] = "open" /\ cpc'[backlog'[i]] = "none"
            /\ pc' = "fork" => backlog'[i] # fd'
      BY <1>0, <1>a, <3>1, <3>2, <3>3, <3>4, <3>5 DEF BacklogInv
    <3>7. \A i, j \in 1 .. Len(backlog') : backlog'[i] = backlog'[j] => i = j
      BY <1>0, <3>1, <3>4 DEF BacklogInv
    <3>8. \A d \in leaked' : conn'[d] = "hung"
      BY <1>0, <3>2, <3>3, <3>5 DEF TypeOK, BacklogInv
    <3>9. QED
      BY <3>6, <3>7, <3>8 DEF BacklogInv
  <2>4. LookupInv'
    BY <1>0, <1>8 DEF TypeOK, LookupInv, ChildInv, MoreTerms, Term, Alive, Running, Connect, server, child
  <2>5. QED
    BY <2>1, <2>2, <2>3, <2>4 DEF IInv
<1>9. ASSUME NEW c \in Clients, SendLine(c) PROVE IInv'
  <2>1. TypeOK'
    BY <1>0, <1>9 DEF TypeOK, SendLine, server, child
  <2>2. ChildInv'
    BY <1>0, <1>9 DEF TypeOK, ChildInv, Alive, Running, SendLine, server, child
  <2>3. BacklogInv'
    BY <1>0, <1>9 DEF TypeOK, BacklogInv, ChildInv, Alive, Running, SendLine, server, child
  <2>4. LookupInv'
    BY <1>0, <1>9 DEF TypeOK, LookupInv, ChildInv, MoreTerms, Term, Alive, Running, SendLine, server, child
  <2>5. QED
    BY <2>1, <2>2, <2>3, <2>4 DEF IInv
<1>10. ASSUME NEW c \in Clients, ReadQuit(c) PROVE IInv'
  <2>1. TypeOK'
    BY <1>0, <1>10 DEF TypeOK, ReadQuit, Die, server, child
  <2>2. ChildInv'
    BY <1>0, <1>10 DEF TypeOK, ChildInv, Alive, Running, ReadQuit, Die, server, child
  <2>3. BacklogInv'
    <3>1. cpc[c] # "none" /\ UNCHANGED <<pc, fd, backlog, leaked>>
      BY <1>10 DEF ReadQuit, server
    <3>2. \A i \in 1 .. Len(backlog) : backlog[i] # c
      BY <1>b, <3>1
    <3>3. \A d \in Clients : d # c => conn'[d] = conn[d] /\ cpc'[d] = cpc[d]
      BY <1>0, <1>10 DEF TypeOK, ReadQuit, Die
    <3>4. c \in leaked => conn'[c] = conn[c]
      BY <1>0, <1>10 DEF BacklogInv, ChildInv, Running, ReadQuit
    <3>5. QED
      BY <1>0, <3>1, <3>2, <3>3, <3>4, QueueSame
  <2>4. LookupInv'
    BY <1>0, <1>10 DEF TypeOK, LookupInv, ChildInv, MoreTerms, Term, Alive, Running, ReadQuit, Die, server, child
  <2>5. QED
    BY <2>1, <2>2, <2>3, <2>4 DEF IInv
<1>11. ASSUME NEW c \in Clients, ReadQuery(c) PROVE IInv'
  <2>1. TypeOK'
    BY <1>0, <1>11 DEF TypeOK, ReadQuery, server, child
  <2>2. ChildInv'
    BY <1>0, <1>11 DEF TypeOK, ChildInv, Alive, Running, ReadQuery, server, child
  <2>3. BacklogInv'
    BY <1>0, <1>11 DEF TypeOK, BacklogInv, ChildInv, Alive, Running, ReadQuery, server, child
  <2>4. LookupInv'
    BY <1>0, <1>11 DEF TypeOK, LookupInv, ChildInv, MoreTerms, Term, Alive, Running, ReadQuery, server, child
  <2>5. QED
    BY <2>1, <2>2, <2>3, <2>4 DEF IInv
<1>12. ASSUME NEW c \in Clients, ReadNothing(c) PROVE IInv'
  <2>1. TypeOK'
    BY <1>0, <1>12 DEF TypeOK, ReadNothing, Die, server, child
  <2>2. ChildInv'
    BY <1>0, <1>12 DEF TypeOK, ChildInv, Alive, Running, ReadNothing, Die, server, child
  <2>3. BacklogInv'
    <3>1. cpc[c] # "none" /\ UNCHANGED <<pc, fd, backlog, leaked>>
      BY <1>12 DEF ReadNothing, server
    <3>2. \A i \in 1 .. Len(backlog) : backlog[i] # c
      BY <1>b, <3>1
    <3>3. \A d \in Clients : d # c => conn'[d] = conn[d] /\ cpc'[d] = cpc[d]
      BY <1>0, <1>12 DEF TypeOK, ReadNothing, Die
    <3>4. c \in leaked => conn'[c] = conn[c]
      BY <1>0, <1>12 DEF BacklogInv, ChildInv, Running, ReadNothing
    <3>5. QED
      BY <1>0, <3>1, <3>2, <3>3, <3>4, QueueSame
  <2>4. LookupInv'
    BY <1>0, <1>12 DEF TypeOK, LookupInv, ChildInv, MoreTerms, Term, Alive, Running, ReadNothing, Die, server, child
  <2>5. QED
    BY <2>1, <2>2, <2>3, <2>4 DEF IInv
<1>13. ASSUME NEW c \in Clients, NotFound(c) PROVE IInv'
  <2>0. /\ Len(todo[c]) \in Nat /\ Len(got[c]) \in Nat /\ got[c] \in Seq(Blocks)
        /\ Len(got[c]) < Len(todo[c])
    BY <1>0, <1>13 DEF TypeOK, NotFound, MoreTerms
  <2>a. NoBlock \in Blocks /\ NoBlock = Posting(Term(c))
    BY <1>13 DEF NoBlock, Blocks, Posting, NotFound
  <2>b. /\ got'[c] = Append(got[c], NoBlock)
        /\ \A d \in Clients : d # c => got'[d] = got[d]
    BY <1>0, <1>13 DEF TypeOK, NotFound
  <2>c. /\ got'[c] \in Seq(Blocks) /\ Len(got'[c]) = Len(got[c]) + 1
        /\ got'[c][Len(got[c]) + 1] = NoBlock
        /\ \A i \in 1 .. Len(got[c]) : got'[c][i] = got[c][i]
    BY <2>0, <2>a, <2>b
  <2>1. TypeOK'
    <3>1. got' \in [Clients -> Seq(Blocks)]
      BY <1>0, <1>13, <2>c DEF TypeOK, NotFound
    <3>2. \A d \in Clients : Len(got'[d]) <= Len(todo'[d])
      BY <1>0, <1>13, <2>0, <2>b, <2>c DEF TypeOK, NotFound
    <3>3. QED
      BY <1>0, <1>13, <3>1, <3>2 DEF TypeOK, NotFound, server
  <2>2. ChildInv'
    BY <1>0, <1>13 DEF TypeOK, ChildInv, Alive, Running, NotFound, server, child
  <2>3. BacklogInv'
    BY <1>0, <1>13 DEF TypeOK, BacklogInv, ChildInv, Alive, Running, NotFound, server, child
  <2>4. LookupInv'
    <3>1. ASSUME NEW d \in Clients, NEW i \in 1 .. Len(got'[d])
          PROVE  got'[d][i] = Posting(todo'[d][i])
      <4>1. CASE d # c
        BY <1>0, <1>13, <2>b, <4>1 DEF LookupInv, NotFound
      <4>2. CASE d = c /\ i \in 1 .. Len(got[c])
        BY <1>0, <1>13, <2>c, <4>2 DEF LookupInv, NotFound
      <4>3. CASE d = c /\ i = Len(got[c]) + 1
        BY <1>13, <2>a, <2>c, <4>3 DEF Term, NotFound
      <4>4. QED
        BY <2>0, <2>c, <4>1, <4>2, <4>3
    <3>2. \A d \in Clients : cpc'[d] \notin {"size", "body"}
      BY <1>0, <1>13 DEF TypeOK, ChildInv, Alive, NotFound
    <3>3. ASSUME NEW d \in Clients, conn'[d] = "answered"
          PROVE  Len(got'[d]) = Len(todo'[d]) /\ cpc'[d] \in {"zombie", "reaped"}
      <4>1. d # c
        BY <1>0, <1>13, <3>3 DEF ChildInv, Running, NotFound
      <4>2. QED
        BY <1>0, <1>13, <2>b, <3>3, <4>1 DEF TypeOK, LookupInv, NotFound
    <3>4. QED
      BY <3>1, <3>2, <3>3 DEF LookupInv
  <2>5. QED
    BY <2>1, <2>2, <2>3, <2>4 DEF IInv
<1>14. ASSUME NEW c \in Clients, Seek(c) PROVE IInv'
  <2>1. TypeOK'
    BY <1>0, <1>14 DEF TypeOK, Seek, server, child
  <2>2. ChildInv'
    BY <1>0, <1>14 DEF TypeOK, ChildInv, Alive, Running, Seek, server, child
  <2>3. BacklogInv'
    BY <1>0, <1>14 DEF TypeOK, BacklogInv, ChildInv, Alive, Running, Seek, server, child
  <2>4. LookupInv'
    <3>1. \A d \in Clients : d # c => cpc[d] \notin {"size", "body"} /\ cpc'[d] = cpc[d]
      BY <1>0, <1>14 DEF TypeOK, ChildInv, Alive, Seek
    <3>2. got' = got /\ todo' = todo /\ conn' = conn
      BY <1>14 DEF Seek
    <3>3. conn[c] = "open"
      BY <1>0, <1>14 DEF ChildInv, Running, Seek
    <3>4. cpc'[c] = "size" /\ MoreTerms(c)' /\ Term(c)' \in DOMAIN Addr /\ offset' = Addr[Term(c)']
      BY <1>0, <1>14, <3>2 DEF TypeOK, Seek, MoreTerms, Term
    <3>5. \A d \in Clients : \A i \in 1 .. Len(got'[d]) : got'[d][i] = Posting(todo'[d][i])
      BY <1>0, <3>2 DEF LookupInv
    <3>6. \A d \in Clients : conn'[d] = "answered" =>
            Len(got'[d]) = Len(todo'[d]) /\ cpc'[d] \in {"zombie", "reaped"}
      BY <1>0, <3>1, <3>2, <3>3 DEF LookupInv
    <3>7. QED
      BY <3>1, <3>4, <3>5, <3>6 DEF LookupInv
  <2>5. QED
    BY <2>1, <2>2, <2>3, <2>4 DEF IInv
<1>15. ASSUME NEW c \in Clients, ReadSize(c) PROVE IInv'
  <2>1. TypeOK'
    <3>0. offset \in Nat
      BY <1>0 DEF TypeOK
    <3>1. At(offset) \in Nat /\ offset + 1 \in Nat
      BY <3>0, AtNat
    <3>2. QED
      BY <1>0, <1>15, <3>1 DEF TypeOK, ReadSize, server
  <2>2. ChildInv'
    BY <1>0, <1>15 DEF TypeOK, ChildInv, Alive, Running, ReadSize, server, child
  <2>3. BacklogInv'
    <3>1. cpc[c] # "none" /\ UNCHANGED <<pc, fd, backlog, leaked>>
      BY <1>15 DEF ReadSize, server
    <3>2. \A i \in 1 .. Len(backlog) : backlog[i] # c
      BY <1>b, <3>1
    <3>3. \A d \in Clients : d # c => conn'[d] = conn[d] /\ cpc'[d] = cpc[d]
      BY <1>0, <1>15 DEF TypeOK, ReadSize
    <3>4. c \in leaked => conn'[c] = conn[c]
      BY <1>0, <1>15 DEF BacklogInv, ChildInv, Running, ReadSize
    <3>5. QED
      BY <1>0, <3>1, <3>2, <3>3, <3>4, QueueSame
  <2>4. LookupInv'
    <3>1. \A d \in Clients : d # c => cpc[d] \notin {"size", "body"} /\ cpc'[d] = cpc[d]
      BY <1>0, <1>15 DEF TypeOK, ChildInv, Alive, ReadSize
    <3>2. got' = got /\ todo' = todo /\ conn' = conn
      BY <1>15 DEF ReadSize
    <3>3. conn[c] = "open"
      BY <1>0, <1>15 DEF ChildInv, Running, ReadSize
    <3>4. /\ cpc'[c] = "body" /\ MoreTerms(c)' /\ Term(c)' \in DOMAIN Addr
          /\ offset' = Addr[Term(c)'] + 1 /\ size'[c] = At(Addr[Term(c)'])
      BY <1>0, <1>15, <3>2 DEF TypeOK, LookupInv, ReadSize, MoreTerms, Term
    <3>5. \A d \in Clients : \A i \in 1 .. Len(got'[d]) : got'[d][i] = Posting(todo'[d][i])
      BY <1>0, <3>2 DEF LookupInv
    <3>6. \A d \in Clients : conn'[d] = "answered" =>
            Len(got'[d]) = Len(todo'[d]) /\ cpc'[d] \in {"zombie", "reaped"}
      BY <1>0, <3>1, <3>2, <3>3 DEF LookupInv
    <3>7. QED
      BY <3>1, <3>4, <3>5, <3>6 DEF LookupInv
  <2>5. QED
    BY <2>1, <2>2, <2>3, <2>4 DEF IInv
<1>16. ASSUME NEW c \in Clients, ReadBody(c) PROVE IInv'
  <2> DEFINE b == [size |-> size[c], body |-> [i \in 1 .. size[c] |-> At(offset + i - 1)]]
  <2>0. /\ Len(todo[c]) \in Nat /\ Len(got[c]) \in Nat /\ got[c] \in Seq(Blocks)
        /\ Len(got[c]) < Len(todo[c])
    BY <1>0, <1>16 DEF TypeOK, LookupInv, ReadBody, MoreTerms
  <2>a. b \in Blocks /\ b = Posting(Term(c))
    <3>1. /\ Term(c) \in DOMAIN Addr /\ Addr[Term(c)] \in Nat
          /\ size[c] = At(Addr[Term(c)]) /\ offset = Addr[Term(c)] + 1
      BY <1>0, <1>16 DEF LookupInv, ReadBody
    <3>2. \A i \in 1 .. size[c] : offset + i - 1 = Addr[Term(c)] + i
      BY <3>1, AtNat
    <3>3. b = Block(Addr[Term(c)])
      BY <3>1, <3>2 DEF Block
    <3>4. b \in Blocks
      BY <1>0, BlockType DEF TypeOK
    <3>5. QED
      BY <3>1, <3>3, <3>4 DEF Posting
  <2>b. /\ got'[c] = Append(got[c], b)
        /\ \A d \in Clients : d # c => got'[d] = got[d]
    BY <1>0, <1>16 DEF TypeOK, ReadBody
  <2>c. /\ got'[c] \in Seq(Blocks) /\ Len(got'[c]) = Len(got[c]) + 1
        /\ got'[c][Len(got[c]) + 1] = b
        /\ \A i \in 1 .. Len(got[c]) : got'[c][i] = got[c][i]
    BY <2>0, <2>a, <2>b
  <2>1. TypeOK'
    <3>1. got' \in [Clients -> Seq(Blocks)]
      BY <1>0, <1>16, <2>c DEF TypeOK, ReadBody
    <3>2. \A d \in Clients : Len(got'[d]) <= Len(todo'[d])
      BY <1>0, <1>16, <2>0, <2>b, <2>c DEF TypeOK, ReadBody
    <3>3. offset' \in Nat
      BY <1>0, <1>16 DEF TypeOK, ReadBody
    <3>4. QED
      BY <1>0, <1>16, <3>1, <3>2, <3>3 DEF TypeOK, ReadBody, server
  <2>2. ChildInv'
    BY <1>0, <1>16 DEF TypeOK, ChildInv, Alive, Running, ReadBody, server, child
  <2>3. BacklogInv'
    <3>1. \A i \in 1 .. Len(backlog) : backlog[i] # c
      BY <1>b, <1>16 DEF ReadBody
    <3>2. \A d \in Clients : d # c => cpc'[d] = cpc[d]
      BY <1>0, <1>16 DEF TypeOK, ReadBody
    <3>3. QED
      BY <1>0, <1>a, <1>16, <3>1, <3>2 DEF BacklogInv, ReadBody, server
  <2>4. LookupInv'
    <3>1. ASSUME NEW d \in Clients, NEW i \in 1 .. Len(got'[d])
          PROVE  got'[d][i] = Posting(todo'[d][i])
      <4>1. CASE d # c
        BY <1>0, <1>16, <2>b, <4>1 DEF LookupInv, ReadBody
      <4>2. CASE d = c /\ i \in 1 .. Len(got[c])
        BY <1>0, <1>16, <2>c, <4>2 DEF LookupInv, ReadBody
      <4>3. CASE d = c /\ i = Len(got[c]) + 1
        BY <1>16, <2>a, <2>c, <4>3 DEF Term, ReadBody
      <4>4. QED
        BY <2>0, <2>c, <4>1, <4>2, <4>3
    <3>2. \A d \in Clients : cpc'[d] \notin {"size", "body"}
      BY <1>0, <1>16 DEF TypeOK, ChildInv, Alive, ReadBody
    <3>3. ASSUME NEW d \in Clients, conn'[d] = "answered"
          PROVE  Len(got'[d]) = Len(todo'[d]) /\ cpc'[d] \in {"zombie", "reaped"}
      <4>1. d # c
        BY <1>0, <1>16, <3>3 DEF ChildInv, Running, ReadBody
      <4>2. QED
        BY <1>0, <1>16, <2>b, <3>3, <4>1 DEF TypeOK, LookupInv, ReadBody
    <3>4. QED
      BY <3>1, <3>2, <3>3 DEF LookupInv
  <2>5. QED
    BY <2>1, <2>2, <2>3, <2>4 DEF IInv
<1>17. ASSUME NEW c \in Clients, Answer(c) PROVE IInv'
  <2>1. TypeOK'
    BY <1>0, <1>17 DEF TypeOK, Answer, Die, server, child
  <2>2. ChildInv'
    BY <1>0, <1>17 DEF TypeOK, ChildInv, Alive, Running, Answer, Die, server, child
  <2>3. BacklogInv'
    <3>1. cpc[c] # "none" /\ UNCHANGED <<pc, fd, backlog, leaked>>
      BY <1>17 DEF Answer, server
    <3>2. \A i \in 1 .. Len(backlog) : backlog[i] # c
      BY <1>b, <3>1
    <3>3. \A d \in Clients : d # c => conn'[d] = conn[d] /\ cpc'[d] = cpc[d]
      BY <1>0, <1>17 DEF TypeOK, Answer, Die
    <3>4. c \in leaked => conn'[c] = conn[c]
      BY <1>0, <1>17 DEF BacklogInv, ChildInv, Running, Answer
    <3>5. QED
      BY <1>0, <3>1, <3>2, <3>3, <3>4, QueueSame
  <2>4. LookupInv'
    BY <1>0, <1>17 DEF TypeOK, LookupInv, ChildInv, MoreTerms, Term, Alive, Running, Answer, Die, server, child
  <2>5. QED
    BY <2>1, <2>2, <2>3, <2>4 DEF IInv
<1>18. ASSUME NEW c \in Clients, Crash(c) PROVE IInv'
  <2>1. TypeOK'
    BY <1>0, <1>18 DEF TypeOK, Crash, Die, server, child
  <2>2. ChildInv'
    BY <1>0, <1>18 DEF TypeOK, ChildInv, Alive, Running, Crash, Die, server, child
  <2>3. BacklogInv'
    <3>1. cpc[c] # "none" /\ UNCHANGED <<pc, fd, backlog, leaked>>
      BY <1>18 DEF Crash, server
    <3>2. \A i \in 1 .. Len(backlog) : backlog[i] # c
      BY <1>b, <3>1
    <3>3. \A d \in Clients : d # c => conn'[d] = conn[d] /\ cpc'[d] = cpc[d]
      BY <1>0, <1>18 DEF TypeOK, Crash, Die
    <3>4. c \in leaked => conn'[c] = conn[c]
      BY <1>0, <1>18 DEF BacklogInv, ChildInv, Running, Crash
    <3>5. QED
      BY <1>0, <3>1, <3>2, <3>3, <3>4, QueueSame
  <2>4. LookupInv'
    BY <1>0, <1>18 DEF TypeOK, LookupInv, ChildInv, MoreTerms, Term, Alive, Running, Crash, Die, server, child
  <2>5. QED
    BY <2>1, <2>2, <2>3, <2>4 DEF IInv
<1>r. ASSUME NEW c \in Clients, Refused(c) PROVE IInv'
  <2>1. TypeOK'
    BY <1>0, <1>r DEF TypeOK, Refused, server, child
  <2>2. ChildInv'
    BY <1>0, <1>r DEF TypeOK, ChildInv, Alive, Running, Refused, server, child
  <2>3. BacklogInv'
    <3>1. \A i \in 1 .. Len(backlog) : backlog[i] # c
      BY <1>b, <1>r DEF Refused
    <3>2. c \notin leaked
      BY <1>0, <1>r DEF BacklogInv, Refused
    <3>3. /\ UNCHANGED <<pc, fd, backlog, leaked>>
          /\ \A d \in Clients : d # c => conn'[d] = conn[d] /\ cpc'[d] = cpc[d]
      BY <1>0, <1>r DEF TypeOK, Refused, server, child
    <3>4. QED
      BY <1>0, <3>1, <3>2, <3>3, QueueSame
  <2>4. LookupInv'
    BY <1>0, <1>r DEF TypeOK, LookupInv, MoreTerms, Term, Refused, server, child
  <2>5. QED
    BY <2>1, <2>2, <2>3, <2>4 DEF IInv
<1>19. CASE UNCHANGED vars
  BY <1>0, <1>19 DEF IInv, TypeOK, ChildInv, BacklogInv, LookupInv, Alive, Running, MoreTerms, Term, vars
<1>20. QED
  BY <1>1, <1>2, <1>3, <1>4, <1>5, <1>6, <1>7, <1>8, <1>9, <1>10, <1>11, <1>12, <1>13, <1>14, <1>15, <1>16, <1>17, <1>18, <1>r, <1>19 DEF Next, Server, Child

\* The inductive invariant holds in every reachable state.
LEMMA Invariance == Spec => []IInv
  BY InitInv, NextInv, PTL DEF Spec

\* The variables of server_mode and of its children always have their types;
\* in particular no child reads more postings than its query has terms.
THEOREM Typing == Spec => []TypeOK
<1>1. IInv => TypeOK
  BY DEF IInv
<1>2. QED
  BY <1>1, Invariance, PTL

\* At any time at most one child of the search server runs: each pass of the
\* accept loop ends in a blocking waitpid.
THEOREM ChildrenExcluded == Spec => []OneChild
<1>1. IInv => OneChild
  BY DEF IInv, ChildInv, OneChild, Alive, Running
<1>2. QED
  BY <1>1, Invariance, PTL

\* Every reply is computed from the postings of the query's own terms, although
\* all processes share the offset of the index file (lookup_index, read_index).
THEOREM AnswersOwnPostings == Spec => []OwnPostings
<1>1. IInv => OwnPostings
  BY DEF IInv, LookupInv, OwnPostings, Own
<1>2. QED
  BY <1>1, Invariance, PTL

-----------------------------------------------------------------------------
(* The refinement.  In a state that satisfies the invariant an answered       *)
(* request is rightly answered, so the abstract outcome of a connection is a   *)
(* function of its concrete state alone.                                       *)

Abs(x) == CASE x \in {"none", "open"} -> "open"
            [] x = "answered" -> "right"
            [] OTHER -> x

\* The abstract outcome depends on the state of the connection only.
LEMMA OutcomeValue == IInv => OutcomeMap = [c \in Clients |-> Abs(conn[c])]
<1> SUFFICES ASSUME IInv PROVE OutcomeMap = [c \in Clients |-> Abs(conn[c])]
  OBVIOUS
<1>1. \A c \in Clients : conn[c] = "answered" => Own(c)
  BY DEF IInv, LookupInv, Own
<1>2. QED
  BY <1>1 DEF OutcomeMap, Abs

\* The same, of the state after a step.
LEMMA OutcomeValueNext == IInv' => OutcomeMap' = [c \in Clients |-> Abs(conn'[c])]
<1>1. (IInv => OutcomeMap = [c \in Clients |-> Abs(conn[c])])'
  BY OutcomeValue, PTL
<1>2. QED
  BY <1>1 DEF Abs

\* The server starts where SerialSearch starts.
LEMMA InitRefines == Init => Serial!Init
  BY DEF Init, Serial!Init, CurrentMap, OutcomeMap

\* Every step of the server is a step of SerialSearch or changes nothing of it.
LEMMA NextRefines == IInv /\ IInv' /\ [Next]_vars => [Serial!Next]_Serial!vars
<1> SUFFICES ASSUME IInv, IInv', [Next]_vars
             PROVE  Serial!Next \/ (CurrentMap' = CurrentMap /\ OutcomeMap' = OutcomeMap)
  BY DEF Serial!vars
<1> USE IndexAssumption
<1>0. /\ TypeOK /\ ChildInv /\ BacklogInv
  BY DEF IInv
<1>o. /\ OutcomeMap = [c \in Clients |-> Abs(conn[c])]
      /\ OutcomeMap' = [c \in Clients |-> Abs(conn'[c])]
  BY OutcomeValue, OutcomeValueNext
<1>s. conn' = conn /\ CurrentMap' = CurrentMap
      => CurrentMap' = CurrentMap /\ OutcomeMap' = OutcomeMap
  BY <1>o
\* A child that ends gives the request it serves its outcome.
<1>d. ASSUME NEW c \in Clients, Running(c), pc' = pc, fd' = fd,
             NEW o \in {"answered", "empty", "bye", "lost"}, Die(c, o)
      PROVE  Serial!Next
  <2>1. CurrentMap = c /\ CurrentMap' = CurrentMap
    BY <1>0, <1>d DEF CurrentMap, ChildInv, Alive, Running
  <2>2. conn[c] = "open" /\ OutcomeMap[c] = "open"
    BY <1>0, <1>d, <1>o DEF ChildInv, Abs
  <2>3. Abs(o) \in {"right", "empty", "bye", "lost"}
    BY <1>d DEF Abs
  <2>4. OutcomeMap' = [OutcomeMap EXCEPT ![c] = Abs(o)]
    BY <1>0, <1>d, <1>o DEF Die, TypeOK
  <2>5. Serial!Reply(c)
    BY <2>1, <2>2, <2>3, <2>4 DEF Serial!Reply
  <2>6. QED
    BY <2>5 DEF Serial!Next
<1>1. CASE Listen \/ ListenError
  BY <1>1, <1>s DEF Listen, ListenError, CurrentMap
<1>2. CASE Accept
  <2>1. /\ backlog \in Seq(Clients) /\ 1 \in 1 .. Len(backlog)
        /\ fd' = backlog[1] /\ fd' \in Clients
    BY <1>0, <1>2 DEF TypeOK, Accept
  <2>2. conn[fd'] = "open"
    BY <1>0, <2>1 DEF BacklogInv
  <2>3. CurrentMap = NoClient /\ CurrentMap' = fd'
    BY <1>2 DEF Accept, CurrentMap
  <2>4. OutcomeMap[fd'] = "open" /\ OutcomeMap' = OutcomeMap
    BY <1>2, <1>o, <2>1, <2>2 DEF Accept, Abs
  <2>5. Serial!Take(fd')
    BY <2>3, <2>4 DEF Serial!Take
  <2>6. QED
    BY <2>1, <2>5 DEF Serial!Next
<1>3. CASE AcceptError
  <2> DEFINE S == {c \in Clients : c \in leaked \/ \E i \in 1 .. Len(backlog) : backlog[i] = c}
  <2>1. CurrentMap = NoClient /\ CurrentMap' = CurrentMap
    BY <1>3 DEF AcceptError, CurrentMap
  <2>2. \A c \in S : OutcomeMap[c] \in {"open", "hung"}
    BY <1>0, <1>o DEF BacklogInv, Abs
  <2>3. \A c \in Clients : conn'[c] = IF c \in S THEN "lost" ELSE conn[c]
    BY <1>3 DEF AcceptError
  <2>4. OutcomeMap' = [c \in Clients |-> IF c \in S THEN "lost" ELSE OutcomeMap[c]]
    BY <1>o, <2>3 DEF Abs
  <2>5. S \in SUBSET {c \in Clients : OutcomeMap[c] \in {"open", "hung"}}
    BY <2>2
  <2>6. Serial!Stop
    BY <2>1, <2>4, <2>5 DEF Serial!Stop
  <2>7. QED
    BY <2>6 DEF Serial!Next
<1>4. CASE Fork
  BY <1>4, <1>s DEF Fork, CurrentMap
<1>5. CASE ForkError
  <2>1. fd \in Clients /\ conn[fd] = "open" /\ CurrentMap = fd /\ CurrentMap' = NoClient
    BY <1>0, <1>5 DEF ForkError, ChildInv, CurrentMap
  <2>2. OutcomeMap[fd] = "open" /\ OutcomeMap' = [OutcomeMap EXCEPT ![fd] = "hung"]
    BY <1>0, <1>5, <1>o, <2>1 DEF ForkError, TypeOK, Abs
  <2>3. Serial!Abandon(fd)
    BY <2>1, <2>2 DEF Serial!Abandon
  <2>4. QED
    BY <2>1, <2>3 DEF Serial!Next
<1>6. CASE WaitPid
  <2>1. PICK c \in Clients : cpc[c] = "zombie"
    BY <1>6 DEF WaitPid
  <2>2. fd = c /\ CurrentMap = c /\ CurrentMap' = NoClient
    BY <1>0, <1>6, <2>1 DEF WaitPid, ChildInv, Alive, CurrentMap
  <2>3. OutcomeMap[c] # "open" /\ OutcomeMap' = OutcomeMap
    BY <1>0, <1>6, <1>o, <2>1 DEF WaitPid, ChildInv, TypeOK, Abs
  <2>4. Serial!Release(c)
    BY <2>2, <2>3 DEF Serial!Release
  <2>5. QED
    BY <2>4 DEF Serial!Next
<1>7. ASSUME NEW c \in Clients, Connect(c)
      PROVE  CurrentMap' = CurrentMap /\ OutcomeMap' = OutcomeMap
  <2>1. \A d \in Clients : Abs(conn'[d]) = Abs(conn[d])
    BY <1>0, <1>7 DEF Connect, TypeOK, Abs
  <2>2. QED
    BY <1>7, <1>o, <2>1 DEF Connect, CurrentMap
<1>8. ASSUME NEW c \in Clients, Refused(c) PROVE Serial!Next
  <2>1. CurrentMap = NoClient /\ CurrentMap' = CurrentMap /\ c # NoClient
    BY <1>8 DEF Refused, CurrentMap, server
  <2>2. OutcomeMap[c] = "open" /\ OutcomeMap' = [OutcomeMap EXCEPT ![c] = "lost"]
    BY <1>0, <1>8, <1>o DEF Refused, TypeOK, Abs
  <2>3. Serial!Refuse(c)
    BY <2>1, <2>2 DEF Serial!Refuse
  <2>4. QED
    BY <2>3 DEF Serial!Next
<1>9. ASSUME NEW c \in Clients,
             SendLine(c) \/ ReadQuery(c) \/ NotFound(c) \/ Seek(c) \/ ReadSize(c) \/ ReadBody(c)
      PROVE  CurrentMap' = CurrentMap /\ OutcomeMap' = OutcomeMap
  BY <1>9, <1>s DEF SendLine, ReadQuery, NotFound, Seek, ReadSize, ReadBody, server, CurrentMap
<1>10. ASSUME NEW c \in Clients, ReadQuit(c) \/ ReadNothing(c) \/ Answer(c) \/ Crash(c)
       PROVE  Serial!Next
  <2>1. Running(c) /\ pc' = pc /\ fd' = fd
    BY <1>10 DEF ReadQuit, ReadNothing, Answer, Crash, Running, server
  <2>2. \E o \in {"answered", "empty", "bye", "lost"} : Die(c, o)
    BY <1>10 DEF ReadQuit, ReadNothing, Answer, Crash
  <2>3. QED
    BY <1>d, <2>1, <2>2
<1>11. CASE UNCHANGED vars
  BY <1>11, <1>s DEF vars, CurrentMap
<1>12. QED
  BY <1>1, <1>2, <1>3, <1>4, <1>5, <1>6, <1>7, <1>8, <1>9, <1>10, <1>11
     DEF Next, Server, Child

\* The forking server implements SerialSearch: it serves one request at a time
\* in the order of acceptance, and its answers are right.
THEOREM Refinement == Spec => ImplementsSerialSearch
<1>1. IInv /\ [Next]_vars => IInv'
  BY NextInv
<1>2. QED
  BY <1>1, Invariance, InitRefines, NextRefines, PTL DEF Spec, ImplementsSerialSearch, Serial!Spec

-----------------------------------------------------------------------------
(* The list operations.                                                         *)
\* The ids an iterator at i has passed, and the ids it still has before it.
Passed(docs, i) == {docs[k].id : k \in 1 .. i - 1}
Ahead(docs, i) == {docs[k].id : k \in i .. Len(docs)}

\* The iterators move in step: what one list has passed is smaller than what
\* the other one has ahead.
InStep(i, j) ==
    /\ \A x \in Passed(docs1, i), y \in Ahead(docs2, j) : x < y
    /\ \A x \in Passed(docs2, j), y \in Ahead(docs1, i) : x < y

\* What the destination holds when the iterators are at i and j.
Built(i, j) ==
    CASE op = "and" -> Passed(docs1, i) \cap Passed(docs2, j)
      [] op = "or"  -> Passed(docs1, i) \cup Passed(docs2, j)
      [] op = "dup" -> Passed(docs1, i) \ Ids(docs2)

\* What the destination holds when the call returns.
Wanted ==
    CASE op = "and" -> Ids(docs1) \cap Ids(docs2)
      [] op = "or"  -> Ids(docs1) \cup Ids(docs2)
      [] op = "dup" -> Ids(docs1) \ Ids(docs2)

LoopInv ==
    /\ InStep(w.it1, w.it2)
    /\ Ids(w.dest) = Built(w.it1, w.it2)
    /\ Ascending(w.dest)

\* The lists a loop runs on.
LoopLists == /\ docs1 # << >> /\ docs2 # << >> /\ ~ Infinite(docs2)
             /\ op # "dup" => ~ Infinite(docs1)

ListInv ==
    /\ ListTypeOK
    /\ ~ w.done => LoopInv /\ LoopLists
    /\ ResultAscending /\ AndCorrect /\ OrCorrect /\ DupCorrect
    /\ op = "dup" => ~ Infinite(docs2)

-----------------------------------------------------------------------------
\* Every argument is a sorted list of documents.
LEMMA ListFacts ==
    ASSUME NEW docs \in Lists
    PROVE  /\ docs \in Seq(Doc) /\ Len(docs) \in Nat /\ Ascending(docs)
           /\ \A k \in 1 .. Len(docs) : docs[k] \in Doc /\ docs[k].id \in Int
<1>1. docs \in Seq(Doc) /\ Ascending(docs)
  BY ListsAssumption
<1>2. Len(docs) \in Nat /\ \A k \in 1 .. Len(docs) : docs[k] \in Doc
  BY <1>1
<1>3. DocIds \subseteq Nat
  BY ListsAssumption
<1>4. \A d \in Doc : d.id \in Int
  <2>1. \A d \in Doc : d.id \in DocIds \cup {Inf}
    BY DEF Doc
  <2>2. Inf \in Int
    BY DEF Inf
  <2>3. DocIds \cup {Inf} \subseteq Int
    BY <1>3, <2>2
  <2>4. QED
    BY <2>1, <2>3
<1>5. QED
  BY <1>1, <1>2, <1>4

\* How the two parts of a sorted list change when its iterator moves on.
LEMMA Cut ==
    ASSUME NEW docs \in Lists, NEW i \in 1 .. Len(docs)
    PROVE  /\ Passed(docs, i + 1) = Passed(docs, i) \cup {docs[i].id}
           /\ Ahead(docs, i) = {docs[i].id} \cup Ahead(docs, i + 1)
           /\ \A x \in Passed(docs, i) : x < docs[i].id
           /\ \A x \in Ahead(docs, i + 1) : docs[i].id < x
           /\ Ids(docs) = Passed(docs, i) \cup Ahead(docs, i)
           /\ Ids(docs) = Passed(docs, i + 1) \cup Ahead(docs, i + 1)
           /\ Ids(docs) \subseteq Int
<1>1. /\ docs \in Seq(Doc) /\ Len(docs) \in Nat /\ Ascending(docs)
      /\ \A k \in 1 .. Len(docs) : docs[k].id \in Int
  BY ListFacts
<1>2. 1 .. i = (1 .. i - 1) \cup {i} /\ i .. Len(docs) = {i} \cup (i + 1 .. Len(docs))
  BY <1>1
<1>3. 1 .. Len(docs) = (1 .. i - 1) \cup (i .. Len(docs))
  BY <1>1
<1>4. Passed(docs, i + 1) = Passed(docs, i) \cup {docs[i].id}
  BY <1>2 DEF Passed
<1>5. Ahead(docs, i) = {docs[i].id} \cup Ahead(docs, i + 1)
  BY <1>2 DEF Ahead
<1>6. /\ \A x \in Passed(docs, i) : x < docs[i].id
      /\ \A x \in Ahead(docs, i + 1) : docs[i].id < x
  BY <1>1 DEF Passed, Ahead, Ascending
<1>7. Ids(docs) = Passed(docs, i) \cup Ahead(docs, i)
  BY <1>3 DEF Ids, Passed, Ahead
<1>8. Ids(docs) \subseteq Int
  BY <1>1 DEF Ids
<1>9. QED
  BY <1>4, <1>5, <1>6, <1>7, <1>8

\* An iterator at the end has passed the whole list and has nothing ahead.
LEMMA AtEnd ==
    ASSUME NEW docs \in Lists
    PROVE  Passed(docs, Len(docs) + 1) = Ids(docs) /\ Ahead(docs, Len(docs) + 1) = {}
<1>1. Len(docs) \in Nat
  BY ListFacts
<1>2. QED
  BY <1>1 DEF Passed, Ahead, Ids

\* An iterator at the beginning has passed nothing.
LEMMA AtBegin ==
    ASSUME NEW docs \in Lists PROVE Passed(docs, 1) = {}
  BY DEF Passed

\* Appending a document that is larger than all documents of a sorted list.
LEMMA AppendSorted ==
    ASSUME NEW s \in Seq(Doc), Ascending(s), NEW d \in Doc,
           \A x \in Ids(s) : x < d.id
    PROVE  /\ Append(s, d) \in Seq(Doc)
           /\ Ascending(Append(s, d))
           /\ Ids(Append(s, d)) = Ids(s) \cup {d.id}
<1> DEFINE t == Append(s, d)
<1>1. /\ t \in Seq(Doc) /\ Len(s) \in Nat /\ Len(t) = Len(s) + 1
      /\ t[Len(t)] = d /\ \A k \in 1 .. Len(s) : t[k] = s[k]
  OBVIOUS
<1>2. 1 .. Len(t) = (1 .. Len(s)) \cup {Len(t)}
  BY <1>1
<1>3. Ids(t) = Ids(s) \cup {d.id}
  BY <1>1, <1>2 DEF Ids
<1>4. ASSUME NEW i \in 1 .. Len(t), NEW j \in 1 .. Len(t), i < j
      PROVE  t[i].id < t[j].id
  <2>1. i \in 1 .. Len(s)
    BY <1>1, <1>4
  <2>2. CASE j \in 1 .. Len(s)
    BY <1>1, <1>4, <2>1, <2>2 DEF Ascending
  <2>3. CASE j = Len(t)
    BY <1>1, <2>1, <2>3 DEF Ids
  <2>4. QED
    BY <1>2, <2>2, <2>3
<1>5. QED
  BY <1>1, <1>3, <1>4 DEF Ascending

\* Copying the rest of a list behind smaller documents.
LEMMA RestSorted ==
    ASSUME NEW s \in Seq(Doc), Ascending(s),
           NEW docs \in Lists, NEW i \in 1 .. Len(docs) + 1,
           \A x \in Ids(s), y \in Ahead(docs, i) : x < y
    PROVE  /\ s \o Rest(docs, i) \in Seq(Doc)
           /\ Ascending(s \o Rest(docs, i))
           /\ Ids(s \o Rest(docs, i)) = Ids(s) \cup Ahead(docs, i)
<1> DEFINE r == Rest(docs, i)
           t == s \o r
<1>1. docs \in Seq(Doc) /\ Len(docs) \in Nat /\ Ascending(docs)
  BY ListFacts
<1>2. /\ r \in Seq(Doc) /\ Len(r) = Len(docs) - i + 1 /\ Len(r) \in Nat
      /\ \A k \in 1 .. Len(r) : r[k] = docs[i + k - 1]
  BY <1>1 DEF Rest
<1> HIDE DEF r
<1>3. /\ t \in Seq(Doc) /\ Len(s) \in Nat /\ Len(t) = Len(s) + Len(r)
      /\ \A k \in 1 .. Len(s) : t[k] = s[k]
      /\ \A k \in 1 .. Len(r) : t[Len(s) + k] = r[k]
  <2>1. t \in Seq(Doc) /\ Len(t) = Len(s) + Len(r)
    BY <1>2, ConcatProperties, Zenon
  <2>2. \A k \in 1 .. Len(s) + Len(r) : t[k] = IF k <= Len(s) THEN s[k] ELSE r[k - Len(s)]
    BY <1>2, ConcatProperties
  <2>3. Len(s) \in Nat
    OBVIOUS
  <2> HIDE DEF t
  <2>4. ASSUME NEW k \in 1 .. Len(s) PROVE t[k] = s[k]
    <3>1. k \in 1 .. Len(s) + Len(r) /\ k <= Len(s)
      BY <1>2, <2>3
    <3>2. QED
      BY <2>2, <3>1
  <2>5. ASSUME NEW k \in 1 .. Len(r) PROVE t[Len(s) + k] = r[k]
    <3>1. /\ Len(s) + k \in 1 .. Len(s) + Len(r) /\ ~ (Len(s) + k <= Len(s))
          /\ Len(s) + k - Len(s) = k
      BY <1>2, <2>3
    <3>2. QED
      BY <2>2, <3>1
  <2>6. QED
    BY <2>1, <2>3, <2>4, <2>5
<1>4. \A k \in 1 .. Len(t) : k \notin 1 .. Len(s) =>
          /\ i + (k - Len(s)) - 1 \in i .. Len(docs)
          /\ t[k] = docs[i + (k - Len(s)) - 1]
  <2> SUFFICES ASSUME NEW k \in 1 .. Len(t), k \notin 1 .. Len(s)
               PROVE  /\ i + (k - Len(s)) - 1 \in i .. Len(docs)
                      /\ t[k] = docs[i + (k - Len(s)) - 1]
    OBVIOUS
  <2>1. k - Len(s) \in 1 .. Len(r) /\ Len(s) + (k - Len(s)) = k
    BY <1>2, <1>3
  <2>2. QED
    BY <1>2, <1>3, <2>1
<1>5. Ids(t) = Ids(s) \cup Ahead(docs, i)
  <2>1. Ids(t) \subseteq Ids(s) \cup Ahead(docs, i)
    BY <1>3, <1>4 DEF Ids, Ahead
  <2>2. Ids(s) \subseteq Ids(t)
    BY <1>2, <1>3 DEF Ids
  <2>3. ASSUME NEW m \in i .. Len(docs) PROVE docs[m].id \in Ids(t)
    <3>1. m - i + 1 \in 1 .. Len(r) /\ i + (m - i + 1) - 1 = m
      BY <1>1, <1>2
    <3>2. t[Len(s) + (m - i + 1)] = docs[m] /\ Len(s) + (m - i + 1) \in 1 .. Len(t)
      BY <1>2, <1>3, <3>1
    <3>3. QED
      BY <3>2 DEF Ids
  <2>4. QED
    BY <2>1, <2>2, <2>3 DEF Ahead
<1>6. ASSUME NEW a \in 1 .. Len(t), NEW b \in 1 .. Len(t), a < b
      PROVE  t[a].id < t[b].id
  <2>1. CASE b \in 1 .. Len(s)
    BY <1>3, <1>6, <2>1 DEF Ascending
  <2>2. CASE a \in 1 .. Len(s) /\ b \notin 1 .. Len(s)
    <3>1. i + (b - Len(s)) - 1 \in i .. Len(docs) /\ t[b] = docs[i + (b - Len(s)) - 1]
      BY <1>4, <2>2
    <3>2. t[b].id \in Ahead(docs, i)
      BY <3>1 DEF Ahead
    <3>3. t[a].id \in Ids(s)
      BY <1>3, <2>2 DEF Ids
    <3>4. QED
      BY <3>2, <3>3
  <2>3. CASE a \notin 1 .. Len(s) /\ b \notin 1 .. Len(s)
    <3> DEFINE u == i + (a - Len(s)) - 1
               v == i + (b - Len(s)) - 1
    <3>1. /\ u \in i .. Len(docs) /\ v \in i .. Len(docs)
          /\ t[a] = docs[u] /\ t[b] = docs[v]
      BY <1>4, <2>3
    <3>a. Len(s) \in Nat /\ Len(t) \in Nat
      BY <1>3
    <3>b. a \in Nat /\ b \in Nat /\ a < b
      BY <1>6, <3>a
    <3>c. u < v
      BY <3>a, <3>b
    <3>2. u < v /\ u \in 1 .. Len(docs) /\ v \in 1 .. Len(docs)
      BY <1>1, <3>1, <3>c
    <3>3. QED
      BY <1>1, <3>1, <3>2 DEF Ascending
  <2>4. QED
    BY <1>3, <1>6, <2>1, <2>2, <2>3
<1>7. Ascending(t)
  BY <1>6 DEF Ascending
<1>8. QED
  BY <1>3, <1>5, <1>7 DEF r

-----------------------------------------------------------------------------
\* The facts of ListTypeOK that the steps of a loop start from.
LEMMA LoopState ==
    ASSUME ListInv, ~ w.done
    PROVE  /\ docs1 \in Lists /\ docs2 \in Lists /\ w.dest \in Seq(Doc)
           /\ w.it1 \in 1 .. Len(docs1) /\ w.it2 \in 1 .. Len(docs2)
           /\ Len(docs1) \in Nat /\ Len(docs2) \in Nat
           /\ docs1[w.it1] \in Doc /\ docs2[w.it2] \in Doc
           /\ InStep(w.it1, w.it2) /\ Ids(w.dest) = Built(w.it1, w.it2)
           /\ Ascending(w.dest) /\ LoopLists
<1>1. /\ docs1 \in Lists /\ docs2 \in Lists /\ w.dest \in Seq(Doc)
      /\ w.it1 \in 1 .. Len(docs1) /\ w.it2 \in 1 .. Len(docs2)
      /\ InStep(w.it1, w.it2) /\ Ids(w.dest) = Built(w.it1, w.it2)
      /\ Ascending(w.dest) /\ LoopLists
  BY DEF ListInv, ListTypeOK, LoopInv
<1>2. QED
  BY <1>1, ListFacts

\* Where the iterators may be moved to, and what they have passed then: past
\* the smaller document, or past both when they are the same.
LEMMA Moves ==
    ASSUME ListInv, ~ w.done,
           NEW i, i = w.it1, NEW j, j = w.it2,
           NEW a, a = docs1[i].id, NEW b, b = docs2[j].id
    PROVE  /\ b < a => InStep(i, j + 1) /\ b \notin Ids(docs1)
           /\ a < b => InStep(i + 1, j) /\ a \notin Ids(docs2)
           /\ a = b => InStep(i + 1, j + 1)
           /\ a \in Int /\ b \in Int
           /\ \A x \in Passed(docs1, i) : x < a /\ x < b
           /\ \A x \in Passed(docs2, j) : x < a /\ x < b
<1>1. /\ docs1 \in Lists /\ docs2 \in Lists
      /\ i \in 1 .. Len(docs1) /\ j \in 1 .. Len(docs2)
      /\ InStep(i, j)
  BY LoopState
<1>2. /\ Passed(docs1, i + 1) = Passed(docs1, i) \cup {a}
      /\ Ahead(docs1, i) = {a} \cup Ahead(docs1, i + 1)
      /\ \A x \in Passed(docs1, i) : x < a
      /\ \A x \in Ahead(docs1, i + 1) : a < x
      /\ Ids(docs1) = Passed(docs1, i) \cup Ahead(docs1, i)
      /\ Ids(docs1) \subseteq Int
  BY <1>1, Cut, SMTT(60)
<1>3. /\ Passed(docs2, j + 1) = Passed(docs2, j) \cup {b}
      /\ Ahead(docs2, j) = {b} \cup Ahead(docs2, j + 1)
      /\ \A x \in Passed(docs2, j) : x < b
      /\ \A x \in Ahead(docs2, j + 1) : b < x
      /\ Ids(docs2) = Passed(docs2, j) \cup Ahead(docs2, j)
      /\ Ids(docs2) \subseteq Int
  BY <1>1, Cut
<1>4. /\ \A x \in Passed(docs1, i), y \in Ahead(docs2, j) : x < y
      /\ \A x \in Passed(docs2, j), y \in Ahead(docs1, i) : x < y
  BY <1>1 DEF InStep
<1>5. a \in Int /\ b \in Int
  BY <1>2, <1>3
<1>6. ASSUME b < a PROVE InStep(i, j + 1) /\ b \notin Ids(docs1)
  BY <1>2, <1>3, <1>4, <1>5, <1>6 DEF InStep
<1>7. ASSUME a < b PROVE InStep(i + 1, j) /\ a \notin Ids(docs2)
  BY <1>2, <1>3, <1>4, <1>5, <1>7 DEF InStep
<1>8. ASSUME a = b PROVE InStep(i + 1, j + 1)
  BY <1>2, <1>3, <1>4, <1>5, <1>8 DEF InStep
<1>9. QED
  BY <1>2, <1>3, <1>4, <1>5, <1>6, <1>7, <1>8

\* What one iterator has passed the other one does not have ahead.
Apart(i, j) == /\ Passed(docs1, i) \cap Ahead(docs2, j) = {}
               /\ Passed(docs2, j) \cap Ahead(docs1, i) = {}

LEMMA InStepApart ==
    ASSUME docs1 \in Lists, docs2 \in Lists,
           NEW i \in 1 .. Len(docs1) + 1, NEW j \in 1 .. Len(docs2) + 1, InStep(i, j)
    PROVE  Apart(i, j)
<1>1. Len(docs1) \in Nat /\ \A k \in 1 .. Len(docs1) : docs1[k].id \in Int
  BY ListFacts
<1>2. Len(docs2) \in Nat /\ \A k \in 1 .. Len(docs2) : docs2[k].id \in Int
  BY ListFacts
<1>3. Passed(docs1, i) \subseteq Int /\ Passed(docs2, j) \subseteq Int
  BY <1>1, <1>2 DEF Passed
<1>4. QED
  BY <1>3 DEF InStep, Apart

\* A loop that has gone on or returned as it should.
Stepped(v) ==
    /\ v.dest \in Seq(Doc) /\ Ascending(v.dest) /\ v.done \in BOOLEAN
    /\ ~ v.done => /\ v.it1 \in 1 .. Len(docs1) /\ v.it2 \in 1 .. Len(docs2)
                   /\ InStep(v.it1, v.it2) /\ Ids(v.dest) = Built(v.it1, v.it2)
    /\ v.done => Ids(v.dest) = Wanted

\* What one pass of any of the three loops starts from, with the iterators and
\* the ids under them named.
LEMMA Pass ==
    ASSUME ListInv, ~ w.done,
           NEW i, i = w.it1, NEW j, j = w.it2,
           NEW a, a = docs1[i].id, NEW b, b = docs2[j].id
    PROVE  /\ i \in 1 .. Len(docs1) /\ j \in 1 .. Len(docs2)
           /\ docs1 \in Lists /\ docs2 \in Lists
           /\ Len(docs1) \in Nat /\ Len(docs2) \in Nat
           /\ w.dest \in Seq(Doc) /\ Ascending(w.dest)
           /\ Ids(w.dest) = Built(i, j)
           /\ docs1[i] \in Doc /\ docs2[j] \in Doc
           /\ Passed(docs1, i + 1) = Passed(docs1, i) \cup {a}
           /\ Ahead(docs1, i) = {a} \cup Ahead(docs1, i + 1)
           /\ Ids(docs1) = Passed(docs1, i) \cup Ahead(docs1, i)
           /\ Passed(docs2, j + 1) = Passed(docs2, j) \cup {b}
           /\ Ahead(docs2, j) = {b} \cup Ahead(docs2, j + 1)
           /\ Ids(docs2) = Passed(docs2, j) \cup Ahead(docs2, j)
           /\ i = Len(docs1) => Ahead(docs1, i + 1) = {}
           /\ j = Len(docs2) => Ahead(docs2, j + 1) = {}
           /\ i # Len(docs1) => i + 1 \in 1 .. Len(docs1)
           /\ j # Len(docs2) => j + 1 \in 1 .. Len(docs2)
           /\ a \in Int /\ b \in Int
           /\ \A x \in Passed(docs1, i) : x < a /\ x < b
           /\ \A x \in Passed(docs2, j) : x < a /\ x < b
           /\ b < a => InStep(i, j + 1) /\ Apart(i, j + 1) /\ b \notin Ids(docs1)
           /\ a < b => InStep(i + 1, j) /\ Apart(i + 1, j) /\ a \notin Ids(docs2)
           /\ a = b => InStep(i + 1, j + 1) /\ Apart(i + 1, j + 1)
<1>1. /\ i \in 1 .. Len(docs1) /\ j \in 1 .. Len(docs2)
      /\ docs1 \in Lists /\ docs2 \in Lists
      /\ Len(docs1) \in Nat /\ Len(docs2) \in Nat
      /\ w.dest \in Seq(Doc) /\ Ascending(w.dest)
      /\ Ids(w.dest) = Built(i, j)
      /\ docs1[i] \in Doc /\ docs2[j] \in Doc
  BY LoopState
<1>2. /\ Passed(docs1, i + 1) = Passed(docs1, i) \cup {a}
      /\ Ahead(docs1, i) = {a} \cup Ahead(docs1, i + 1)
      /\ Ids(docs1) = Passed(docs1, i) \cup Ahead(docs1, i)
  BY <1>1, Cut, SMTT(60)
<1>3. /\ Passed(docs2, j + 1) = Passed(docs2, j) \cup {b}
      /\ Ahead(docs2, j) = {b} \cup Ahead(docs2, j + 1)
      /\ Ids(docs2) = Passed(docs2, j) \cup Ahead(docs2, j)
  BY <1>1, Cut
<1>4. /\ i = Len(docs1) => Ahead(docs1, i + 1) = {}
      /\ j = Len(docs2) => Ahead(docs2, j + 1) = {}
  BY <1>1, AtEnd
<1>5. /\ i # Len(docs1) => i + 1 \in 1 .. Len(docs1)
      /\ j # Len(docs2) => j + 1 \in 1 .. Len(docs2)
  BY <1>1
<1>6. /\ a \in Int /\ b \in Int
      /\ b < a => InStep(i, j + 1) /\ b \notin Ids(docs1)
      /\ a < b => InStep(i + 1, j) /\ a \notin Ids(docs2)
      /\ a = b => InStep(i + 1, j + 1)
      /\ \A x \in Passed(docs1, i) : x < a /\ x < b
      /\ \A x \in Passed(docs2, j) : x < a /\ x < b
  BY Moves
<1>7. /\ i \in 1 .. Len(docs1) + 1 /\ i + 1 \in 1 .. Len(docs1) + 1
      /\ j \in 1 .. Len(docs2) + 1 /\ j + 1 \in 1 .. Len(docs2) + 1
  BY <1>1
<1>8. /\ b < a => Apart(i, j + 1)
      /\ a < b => Apart(i + 1, j)
      /\ a = b => Apart(i + 1, j + 1)
  BY <1>1, <1>6, <1>7, InStepApart
<1>9. QED
  BY <1>1, <1>2, <1>3, <1>4, <1>5, <1>6, <1>8

\* One pass of the loop of and_operation.
LEMMA AndPass ==
    ASSUME ListInv, ~ w.done, op = "and"
    PROVE  Stepped(AndStep(docs1, docs2, w))
<1> DEFINE i == w.it1
           j == w.it2
           a == docs1[i].id
           b == docs2[j].id
           v == AndStep(docs1, docs2, w)
<1>1. /\ i \in 1 .. Len(docs1) /\ j \in 1 .. Len(docs2)
      /\ w.dest \in Seq(Doc) /\ Ascending(w.dest) /\ Ids(w.dest) = Built(i, j)
      /\ docs1[i] \in Doc
      /\ i # Len(docs1) => i + 1 \in 1 .. Len(docs1)
      /\ j # Len(docs2) => j + 1 \in 1 .. Len(docs2)
  BY Pass
<1>2. /\ Passed(docs1, i + 1) = Passed(docs1, i) \cup {a}
      /\ Ahead(docs1, i) = {a} \cup Ahead(docs1, i + 1)
      /\ Ids(docs1) = Passed(docs1, i) \cup Ahead(docs1, i)
      /\ i = Len(docs1) => Ahead(docs1, i + 1) = {}
  BY Pass
<1>3. /\ Passed(docs2, j + 1) = Passed(docs2, j) \cup {b}
      /\ Ahead(docs2, j) = {b} \cup Ahead(docs2, j + 1)
      /\ Ids(docs2) = Passed(docs2, j) \cup Ahead(docs2, j)
      /\ j = Len(docs2) => Ahead(docs2, j + 1) = {}
  BY Pass
<1>4. /\ a \in Int /\ b \in Int
      /\ b < a => InStep(i, j + 1) /\ Apart(i, j + 1) /\ b \notin Ids(docs1)
      /\ a < b => InStep(i + 1, j) /\ Apart(i + 1, j) /\ a \notin Ids(docs2)
      /\ a = b => InStep(i + 1, j + 1) /\ Apart(i + 1, j + 1)
      /\ \A x \in Passed(docs1, i) : x < a /\ x < b
  BY Pass
<1>5. /\ Wanted = Ids(docs1) \cap Ids(docs2)
      /\ \A p, q : Built(p, q) = Passed(docs1, p) \cap Passed(docs2, q)
  BY DEF Built, Wanted
<1>6. CASE b < a
  <2>1. v = Walk(i, j + 1, w.dest, j = Len(docs2))
    BY <1>4, <1>6 DEF AndStep
  <2>2. v.it1 = i /\ v.it2 = j + 1 /\ v.dest = w.dest /\ v.done = (j = Len(docs2))
    BY <2>1 DEF Walk
  <2> HIDE DEF i, j, a, b, v
  <2>3. Ids(w.dest) = Built(i, j + 1)
    <3>1. b \notin Passed(docs1, i)
      BY <1>2, <1>4, <1>6
    <3>2. QED
      BY <1>1, <1>3, <1>5, <3>1, ZenonT(60)
  <2>4. j = Len(docs2) => Built(i, j + 1) = Wanted
    BY <1>2, <1>3, <1>4, <1>5, <1>6, Zenon DEF Apart
  <2>5. Stepped(v)
    BY <1>1, <1>4, <1>6, <2>2, <2>3, <2>4 DEF Stepped
  <2>6. QED
    BY <2>5 DEF v
<1>7. CASE a < b
  <2>1. v = Walk(i + 1, j, w.dest, i = Len(docs1))
    BY <1>4, <1>7 DEF AndStep
  <2>2. v.it1 = i + 1 /\ v.it2 = j /\ v.dest = w.dest /\ v.done = (i = Len(docs1))
    BY <2>1 DEF Walk
  <2> HIDE DEF i, j, a, b, v
  <2>3. Ids(w.dest) = Built(i + 1, j)
    <3>1. a \notin Passed(docs2, j)
      BY <1>3, <1>4, <1>7
    <3>2. QED
      BY <1>1, <1>2, <1>5, <3>1, ZenonT(60)
  <2>4. i = Len(docs1) => Built(i + 1, j) = Wanted
    BY <1>2, <1>3, <1>4, <1>5, <1>7, Zenon DEF Apart
  <2>5. Stepped(v)
    BY <1>1, <1>4, <1>7, <2>2, <2>3, <2>4 DEF Stepped
  <2>6. QED
    BY <2>5 DEF v
<1>8. CASE a = b
  <2>1. v = Walk(i + 1, j + 1, Append(w.dest, docs1[i]), i = Len(docs1) \/ j = Len(docs2))
    BY <1>4, <1>8 DEF AndStep
  <2>2. /\ v.it1 = i + 1 /\ v.it2 = j + 1 /\ v.dest = Append(w.dest, docs1[i])
        /\ v.done = (i = Len(docs1) \/ j = Len(docs2))
    BY <2>1 DEF Walk
  <2>3. /\ v.dest \in Seq(Doc) /\ Ascending(v.dest) /\ Ids(v.dest) = Ids(w.dest) \cup {a}
    BY <1>1, <1>4, <1>5, <2>2, AppendSorted
  <2> HIDE DEF i, j, a, b, v
  <2>4. Ids(v.dest) = Built(i + 1, j + 1)
    BY <1>1, <1>2, <1>3, <1>5, <1>8, <2>3
  <2>5. v.done => Built(i + 1, j + 1) = Wanted
    BY <1>2, <1>3, <1>4, <1>5, <1>8, <2>2 DEF Apart
  <2>6. Stepped(v)
    BY <1>1, <1>4, <1>8, <2>2, <2>3, <2>4, <2>5 DEF Stepped
  <2>7. QED
    BY <2>6 DEF v
<1>9. QED
  BY <1>4, <1>6, <1>7, <1>8

\* In one list, what the iterator has passed is smaller than what is ahead.
LEMMA Around ==
    ASSUME NEW docs \in Lists, NEW p \in 1 .. Len(docs) + 1
    PROVE  /\ \A x \in Passed(docs, p), y \in Ahead(docs, p) : x < y
           /\ Ids(docs) = Passed(docs, p) \cup Ahead(docs, p)
<1>1. Len(docs) \in Nat /\ Ascending(docs)
  BY ListFacts
<1>2. \A x \in Passed(docs, p), y \in Ahead(docs, p) : x < y
  BY <1>1 DEF Passed, Ahead, Ascending
<1>3. 1 .. Len(docs) = (1 .. p - 1) \cup (p .. Len(docs))
  BY <1>1
<1>4. QED
  BY <1>2, <1>3 DEF Ids, Passed, Ahead

\* or_operation copies the rest of the list that is not used up.
LEMMA OrTail ==
    ASSUME op = "or", docs1 \in Lists, docs2 \in Lists,
           NEW s \in Seq(Doc), Ascending(s),
           NEW p \in 1 .. Len(docs1) + 1, NEW q \in 1 .. Len(docs2) + 1,
           InStep(p, q), Ids(s) = Built(p, q)
    PROVE  /\ q = Len(docs2) + 1 =>
               /\ s \o Rest(docs1, p) \in Seq(Doc)
               /\ Ascending(s \o Rest(docs1, p)) /\ Ids(s \o Rest(docs1, p)) = Wanted
           /\ p = Len(docs1) + 1 =>
               /\ s \o Rest(docs2, q) \in Seq(Doc)
               /\ Ascending(s \o Rest(docs2, q)) /\ Ids(s \o Rest(docs2, q)) = Wanted
<1>1. /\ Ids(s) = Passed(docs1, p) \cup Passed(docs2, q)
      /\ Wanted = Ids(docs1) \cup Ids(docs2)
  BY DEF Built, Wanted
<1>2. /\ \A x \in Passed(docs1, p), y \in Ahead(docs1, p) : x < y
      /\ Ids(docs1) = Passed(docs1, p) \cup Ahead(docs1, p)
  BY Around
<1>3. /\ \A x \in Passed(docs2, q), y \in Ahead(docs2, q) : x < y
      /\ Ids(docs2) = Passed(docs2, q) \cup Ahead(docs2, q)
  BY Around
<1>4. /\ \A x \in Ids(s), y \in Ahead(docs1, p) : x < y
      /\ \A x \in Ids(s), y \in Ahead(docs2, q) : x < y
  BY <1>1, <1>2, <1>3 DEF InStep
<1>5. /\ q = Len(docs2) + 1 => Ahead(docs2, q) = {}
      /\ p = Len(docs1) + 1 => Ahead(docs1, p) = {}
  BY AtEnd
<1>6. /\ s \o Rest(docs1, p) \in Seq(Doc) /\ Ascending(s \o Rest(docs1, p))
      /\ Ids(s \o Rest(docs1, p)) = Ids(s) \cup Ahead(docs1, p)
  BY <1>4, RestSorted
<1>7. /\ s \o Rest(docs2, q) \in Seq(Doc) /\ Ascending(s \o Rest(docs2, q))
      /\ Ids(s \o Rest(docs2, q)) = Ids(s) \cup Ahead(docs2, q)
  BY <1>4, RestSorted
<1>8. /\ q = Len(docs2) + 1 => Ids(s) \cup Ahead(docs1, p) = Wanted
      /\ p = Len(docs1) + 1 => Ids(s) \cup Ahead(docs2, q) = Wanted
  BY <1>1, <1>2, <1>3, <1>5
<1>9. QED
  BY <1>6, <1>7, <1>8

\* dup_check_operation copies the rest of the first list.
LEMMA DupTail ==
    ASSUME op = "dup", docs1 \in Lists, docs2 \in Lists,
           NEW s \in Seq(Doc), Ascending(s),
           NEW p \in 1 .. Len(docs1) + 1,
           InStep(p, Len(docs2) + 1), Ids(s) = Passed(docs1, p) \ Ids(docs2)
    PROVE  /\ s \o Rest(docs1, p) \in Seq(Doc) /\ Ascending(s \o Rest(docs1, p))
           /\ Ids(s \o Rest(docs1, p)) = Wanted
<1>1. /\ \A x \in Passed(docs1, p), y \in Ahead(docs1, p) : x < y
      /\ Ids(docs1) = Passed(docs1, p) \cup Ahead(docs1, p)
  BY Around
<1>2. /\ s \o Rest(docs1, p) \in Seq(Doc) /\ Ascending(s \o Rest(docs1, p))
      /\ Ids(s \o Rest(docs1, p)) = Ids(s) \cup Ahead(docs1, p)
  BY <1>1, RestSorted
<1>3. Len(docs2) + 1 \in 1 .. Len(docs2) + 1
  BY ListFacts
<1>4. Apart(p, Len(docs2) + 1)
  BY <1>3, InStepApart
<1>5. Passed(docs2, Len(docs2) + 1) = Ids(docs2)
  BY AtEnd
<1>6. QED
  BY <1>1, <1>2, <1>4, <1>5 DEF Apart, Wanted

\* One pass of the loop of or_operation.
LEMMA OrPass ==
    ASSUME ListInv, ~ w.done, op = "or"
    PROVE  Stepped(OrStep(docs1, docs2, w))
<1> DEFINE i == w.it1
           j == w.it2
           a == docs1[i].id
           b == docs2[j].id
           v == OrStep(docs1, docs2, w)
<1>1. /\ i \in 1 .. Len(docs1) /\ j \in 1 .. Len(docs2)
      /\ w.dest \in Seq(Doc) /\ Ascending(w.dest) /\ Ids(w.dest) = Built(i, j)
      /\ docs1[i] \in Doc /\ docs2[j] \in Doc
      /\ docs1 \in Lists /\ docs2 \in Lists
      /\ Len(docs1) \in Nat /\ Len(docs2) \in Nat
      /\ i # Len(docs1) => i + 1 \in 1 .. Len(docs1)
      /\ j # Len(docs2) => j + 1 \in 1 .. Len(docs2)
  BY Pass
<1>2. /\ Passed(docs1, i + 1) = Passed(docs1, i) \cup {a}
      /\ Ahead(docs1, i) = {a} \cup Ahead(docs1, i + 1)
      /\ Ids(docs1) = Passed(docs1, i) \cup Ahead(docs1, i)
      /\ i = Len(docs1) => Ahead(docs1, i + 1) = {}
  BY Pass
<1>3. /\ Passed(docs2, j + 1) = Passed(docs2, j) \cup {b}
      /\ Ahead(docs2, j) = {b} \cup Ahead(docs2, j + 1)
      /\ Ids(docs2) = Passed(docs2, j) \cup Ahead(docs2, j)
      /\ j = Len(docs2) => Ahead(docs2, j + 1) = {}
  BY Pass
<1>4. /\ a \in Int /\ b \in Int
      /\ b < a => InStep(i, j + 1) /\ b \notin Ids(docs1)
      /\ a < b => InStep(i + 1, j) /\ a \notin Ids(docs2)
      /\ a = b => InStep(i + 1, j + 1)
      /\ \A x \in Passed(docs1, i) : x < a /\ x < b
      /\ \A x \in Passed(docs2, j) : x < a /\ x < b
  BY Pass
<1>5. /\ i \in 1 .. Len(docs1) + 1 /\ i + 1 \in 1 .. Len(docs1) + 1
      /\ j \in 1 .. Len(docs2) + 1 /\ j + 1 \in 1 .. Len(docs2) + 1
  BY <1>1
<1>6. \A p, q : Built(p, q) = Passed(docs1, p) \cup Passed(docs2, q)
  BY DEF Built
<1>7. CASE b < a
  <2> DEFINE s == Append(w.dest, docs2[j])
  <2>1. v = Walk(i, j + 1, s \o (IF j = Len(docs2) THEN Rest(docs1, i) ELSE << >>),
                 j = Len(docs2))
    BY <1>4, <1>7 DEF OrStep
  <2>2. v.it1 = i /\ v.it2 = j + 1 /\ v.done = (j = Len(docs2))
    BY <2>1 DEF Walk
  <2>3. s \in Seq(Doc) /\ Ascending(s) /\ Ids(s) = Ids(w.dest) \cup {b}
    BY <1>1, <1>4, <1>6, AppendSorted
  <2> HIDE DEF s
  <2>4. v.dest = IF j = Len(docs2) THEN s \o Rest(docs1, i) ELSE s
    BY <2>1, <2>3, ConcatEmptySeq DEF Walk
  <2> HIDE DEF i, j, a, b, v
  <2>5. Ids(s) = Built(i, j + 1)
    BY <1>1, <1>3, <1>6, <2>3
  <2>6. CASE j = Len(docs2)
    <3>1. v.dest = s \o Rest(docs1, i) /\ v.done /\ InStep(i, j + 1) /\ j + 1 = Len(docs2) + 1
      BY <1>4, <1>7, <2>2, <2>4, <2>6
    <3>2. v.dest \in Seq(Doc) /\ Ascending(v.dest) /\ Ids(v.dest) = Wanted
      BY <1>1, <1>5, <2>3, <2>5, <3>1, OrTail
    <3>3. QED
      BY <3>1, <3>2 DEF Stepped, v
  <2>7. CASE j # Len(docs2)
    BY <1>1, <1>4, <1>7, <2>2, <2>3, <2>4, <2>5, <2>7 DEF Stepped, v
  <2>8. QED
    BY <2>6, <2>7
<1>8. CASE a < b
  <2> DEFINE s == Append(w.dest, docs1[i])
  <2>1. v = Walk(i + 1, j, s \o (IF i = Len(docs1) THEN Rest(docs2, j) ELSE << >>),
                 i = Len(docs1))
    BY <1>4, <1>8 DEF OrStep
  <2>2. v.it1 = i + 1 /\ v.it2 = j /\ v.done = (i = Len(docs1))
    BY <2>1 DEF Walk
  <2>3. s \in Seq(Doc) /\ Ascending(s) /\ Ids(s) = Ids(w.dest) \cup {a}
    BY <1>1, <1>4, <1>6, AppendSorted
  <2> HIDE DEF s
  <2>4. v.dest = IF i = Len(docs1) THEN s \o Rest(docs2, j) ELSE s
    BY <2>1, <2>3, ConcatEmptySeq DEF Walk
  <2> HIDE DEF i, j, a, b, v
  <2>5. Ids(s) = Built(i + 1, j)
    BY <1>1, <1>2, <1>6, <2>3
  <2>6. CASE i = Len(docs1)
    <3>1. v.dest = s \o Rest(docs2, j) /\ v.done /\ InStep(i + 1, j) /\ i + 1 = Len(docs1) + 1
      BY <1>4, <1>8, <2>2, <2>4, <2>6
    <3>2. v.dest \in Seq(Doc) /\ Ascending(v.dest) /\ Ids(v.dest) = Wanted
      BY <1>1, <1>5, <2>3, <2>5, <3>1, OrTail
    <3>3. QED
      BY <3>1, <3>2 DEF Stepped, v
  <2>7. CASE i # Len(docs1)
    BY <1>1, <1>4, <1>8, <2>2, <2>3, <2>4, <2>5, <2>7 DEF Stepped, v
  <2>8. QED
    BY <2>6, <2>7
<1>9. CASE a = b
  <2> DEFINE s == Append(w.dest, docs1[i])
  <2>1. v = Walk(i + 1, j + 1,
                 s \o (IF i = Len(docs1) THEN Rest(docs2, j + 1)
                       ELSE IF j = Len(docs2) THEN Rest(docs1, i + 1) ELSE << >>),
                 i = Len(docs1) \/ j = Len(docs2))
    BY <1>4, <1>9 DEF OrStep
  <2>2. /\ v.it1 = i + 1 /\ v.it2 = j + 1
        /\ v.done = (i = Len(docs1) \/ j = Len(docs2))
    BY <2>1 DEF Walk
  <2>3. s \in Seq(Doc) /\ Ascending(s) /\ Ids(s) = Ids(w.dest) \cup {a}
    BY <1>1, <1>4, <1>6, AppendSorted
  <2> HIDE DEF s
  <2>4. v.dest = IF i = Len(docs1) THEN s \o Rest(docs2, j + 1)
                 ELSE IF j = Len(docs2) THEN s \o Rest(docs1, i + 1) ELSE s
    BY <2>1, <2>3, ConcatEmptySeq DEF Walk
  <2> HIDE DEF i, j, a, b, v
  <2>5. Ids(s) = Built(i + 1, j + 1)
    BY <1>1, <1>2, <1>3, <1>6, <1>9, <2>3
  <2>6. ASSUME i = Len(docs1) \/ j = Len(docs2)
        PROVE  v.dest \in Seq(Doc) /\ Ascending(v.dest) /\ Ids(v.dest) = Wanted
    <3>1. CASE i = Len(docs1)
      <4>1. v.dest = s \o Rest(docs2, j + 1) /\ i + 1 = Len(docs1) + 1 /\ InStep(i + 1, j + 1)
        BY <1>4, <1>9, <2>4, <3>1
      <4>2. QED
        BY <1>1, <1>5, <2>3, <2>5, <4>1, OrTail
    <3>2. CASE i # Len(docs1)
      <4>1. v.dest = s \o Rest(docs1, i + 1) /\ j + 1 = Len(docs2) + 1 /\ InStep(i + 1, j + 1)
        BY <1>4, <1>9, <2>4, <2>6, <3>2
      <4>2. QED
        BY <1>1, <1>5, <2>3, <2>5, <4>1, OrTail
    <3>3. QED
      BY <3>1, <3>2
  <2>7. CASE i = Len(docs1) \/ j = Len(docs2)
    BY <2>2, <2>6, <2>7 DEF Stepped, v
  <2>8. CASE i # Len(docs1) /\ j # Len(docs2)
    BY <1>1, <1>4, <1>9, <2>2, <2>3, <2>4, <2>5, <2>8 DEF Stepped, v
  <2>9. QED
    BY <2>7, <2>8
<1>10. QED
  BY <1>4, <1>7, <1>8, <1>9

\* One pass of the loop of dup_check_operation.
LEMMA DupPass ==
    ASSUME ListInv, ~ w.done, op = "dup"
    PROVE  Stepped(DupStep(docs1, docs2, w))
<1> DEFINE i == w.it1
           j == w.it2
           a == docs1[i].id
           b == docs2[j].id
           v == DupStep(docs1, docs2, w)
<1>1. /\ i \in 1 .. Len(docs1) /\ j \in 1 .. Len(docs2)
      /\ w.dest \in Seq(Doc) /\ Ascending(w.dest) /\ Ids(w.dest) = Built(i, j)
      /\ docs1[i] \in Doc /\ docs2[j] \in Doc
      /\ docs1 \in Lists /\ docs2 \in Lists
      /\ Len(docs1) \in Nat /\ Len(docs2) \in Nat
      /\ i # Len(docs1) => i + 1 \in 1 .. Len(docs1)
      /\ j # Len(docs2) => j + 1 \in 1 .. Len(docs2)
  BY Pass
<1>2. /\ Passed(docs1, i + 1) = Passed(docs1, i) \cup {a}
      /\ Ahead(docs1, i) = {a} \cup Ahead(docs1, i + 1)
      /\ Ids(docs1) = Passed(docs1, i) \cup Ahead(docs1, i)
      /\ i = Len(docs1) => Ahead(docs1, i + 1) = {}
  BY Pass
<1>3. /\ Passed(docs2, j + 1) = Passed(docs2, j) \cup {b}
      /\ Ahead(docs2, j) = {b} \cup Ahead(docs2, j + 1)
      /\ Ids(docs2) = Passed(docs2, j) \cup Ahead(docs2, j)
      /\ j = Len(docs2) => Ahead(docs2, j + 1) = {}
  BY Pass
<1>4. /\ a \in Int /\ b \in Int
      /\ b < a => InStep(i, j + 1) /\ b \notin Ids(docs1)
      /\ a < b => InStep(i + 1, j) /\ a \notin Ids(docs2)
      /\ a = b => InStep(i + 1, j + 1)
      /\ \A x \in Passed(docs1, i) : x < a /\ x < b
      /\ \A x \in Passed(docs2, j) : x < a /\ x < b
  BY Pass
<1>5. /\ i \in 1 .. Len(docs1) + 1 /\ i + 1 \in 1 .. Len(docs1) + 1
      /\ j \in 1 .. Len(docs2) + 1 /\ j + 1 \in 1 .. Len(docs2) + 1
  BY <1>1
<1>6. /\ Wanted = Ids(docs1) \ Ids(docs2)
      /\ \A p, q : Built(p, q) = Passed(docs1, p) \ Ids(docs2)
  BY DEF Built, Wanted
<1>6a. w.dest \o << >> = w.dest
  BY <1>1, ConcatEmptySeq
<1>7. CASE b < a
  <2>1. v = Walk(i, j + 1, w.dest \o (IF j = Len(docs2) THEN Rest(docs1, i) ELSE << >>),
                 j = Len(docs2))
    BY <1>4, <1>7 DEF DupStep
  <2> HIDE DEF i, j, a, b, v
  <2>2. /\ v.it1 = i /\ v.it2 = j + 1 /\ v.done = (j = Len(docs2))
        /\ v.dest = IF j = Len(docs2) THEN w.dest \o Rest(docs1, i) ELSE w.dest
    BY <2>1, <1>6a DEF Walk
  <2>3. CASE j = Len(docs2)
    <3>1. /\ v.dest = w.dest \o Rest(docs1, i) /\ v.done
          /\ InStep(i, Len(docs2) + 1) /\ Ids(w.dest) = Passed(docs1, i) \ Ids(docs2)
      BY <1>1, <1>4, <1>6, <1>7, <2>2, <2>3
    <3>2. v.dest \in Seq(Doc) /\ Ascending(v.dest) /\ Ids(v.dest) = Wanted
      BY <1>1, <1>5, <3>1, DupTail
    <3>3. QED
      BY <3>1, <3>2 DEF Stepped, v
  <2>4. CASE j # Len(docs2)
    BY <1>1, <1>4, <1>6, <1>7, <2>2, <2>4 DEF Stepped, v
  <2>5. QED
    BY <2>3, <2>4
<1>8. CASE a < b
  <2>1. v = Walk(i + 1, j, Append(w.dest, docs1[i]), i = Len(docs1))
    BY <1>4, <1>8 DEF DupStep
  <2>2. /\ v.it1 = i + 1 /\ v.it2 = j /\ v.done = (i = Len(docs1))
        /\ v.dest = Append(w.dest, docs1[i])
    BY <2>1 DEF Walk
  <2>3. v.dest \in Seq(Doc) /\ Ascending(v.dest) /\ Ids(v.dest) = Ids(w.dest) \cup {a}
    BY <1>1, <1>4, <1>6, <2>2, AppendSorted
  <2> HIDE DEF i, j, a, b, v
  <2>4. Ids(v.dest) = Built(i + 1, j)
    BY <1>1, <1>2, <1>4, <1>6, <1>8, <2>3
  <2>5. i = Len(docs1) => Built(i + 1, j) = Wanted
    BY <1>2, <1>6
  <2>6. QED
    BY <1>1, <1>4, <1>8, <2>2, <2>3, <2>4, <2>5 DEF Stepped, v
<1>9. CASE a = b
  <2>1. v = Walk(i + 1, j + 1,
                 w.dest \o (IF i # Len(docs1) /\ j = Len(docs2)
                            THEN Rest(docs1, i + 1) ELSE << >>),
                 i = Len(docs1) \/ j = Len(docs2))
    BY <1>4, <1>9 DEF DupStep
  <2> HIDE DEF i, j, a, b, v
  <2>2. /\ v.it1 = i + 1 /\ v.it2 = j + 1
        /\ v.done = (i = Len(docs1) \/ j = Len(docs2))
        /\ v.dest = IF i # Len(docs1) /\ j = Len(docs2)
                    THEN w.dest \o Rest(docs1, i + 1) ELSE w.dest
    BY <2>1, <1>6a DEF Walk
  <2>3. Ids(w.dest) = Built(i + 1, j + 1)
    BY <1>1, <1>2, <1>3, <1>6, <1>9
  <2>4. CASE i = Len(docs1)
    <3>1. Built(i + 1, j + 1) = Wanted
      BY <1>2, <1>6, <2>4
    <3>2. QED
      BY <1>1, <2>2, <2>3, <2>4, <3>1 DEF Stepped, v
  <2>5. CASE i # Len(docs1) /\ j = Len(docs2)
    <3>1. /\ v.dest = w.dest \o Rest(docs1, i + 1) /\ v.done
          /\ InStep(i + 1, Len(docs2) + 1) /\ Ids(w.dest) = Passed(docs1, i + 1) \ Ids(docs2)
      BY <1>1, <1>4, <1>6, <1>9, <2>2, <2>3, <2>5
    <3>2. v.dest \in Seq(Doc) /\ Ascending(v.dest) /\ Ids(v.dest) = Wanted
      BY <1>1, <1>5, <3>1, DupTail
    <3>3. QED
      BY <3>1, <3>2 DEF Stepped, v
  <2>6. CASE i # Len(docs1) /\ j # Len(docs2)
    BY <1>1, <1>4, <1>9, <2>2, <2>3, <2>6 DEF Stepped, v
  <2>7. QED
    BY <2>4, <2>5, <2>6
<1>10. QED
  BY <1>4, <1>7, <1>8, <1>9

-----------------------------------------------------------------------------
\* A list either stands for all documents or has only real documents.
LEMMA Kinds ==
    ASSUME NEW docs \in Lists
    PROVE  /\ Infinite(docs) => Len(docs) = 1 /\ Ids(docs) = {Inf}
           /\ ~ Infinite(docs) => Ids(docs) \subseteq DocIds
           /\ Inf \notin DocIds
<1>1. /\ docs \in Seq(Doc) /\ DocIds \subseteq Nat
      /\ Finite(docs) \/ (Len(docs) = 1 /\ docs[1].id = Inf)
  BY ListsAssumption
<1>2. Inf \notin Nat
  BY DEF Inf
<1>3. docs # << >> => Len(docs) \in Nat /\ 1 \in 1 .. Len(docs)
  BY <1>1
<1>4. CASE Finite(docs)
  <2>1. Ids(docs) \subseteq DocIds
    BY <1>4 DEF Finite, Ids
  <2>2. docs # << >> => docs[1].id \in DocIds
    BY <1>3, <1>4 DEF Finite
  <2>3. ~ Infinite(docs)
    BY <1>1, <1>2, <2>2 DEF Infinite
  <2>4. QED
    BY <1>1, <1>2, <2>1, <2>3
<1>5. CASE Len(docs) = 1 /\ docs[1].id = Inf
  <2>1. docs # << >>
    BY <1>1, <1>5
  <2>2. 1 .. Len(docs) = {1}
    BY <1>5
  <2>3. Ids(docs) = {Inf}
    BY <1>5, <2>2 DEF Ids
  <2>4. QED
    BY <1>1, <1>2, <1>5, <2>1, <2>3 DEF Infinite
<1>6. QED
  BY <1>1, <1>4, <1>5

\* A result is the list of all documents exactly when it holds the id -1.
LEMMA ResultKind ==
    ASSUME NEW s \in Seq(Doc), Ids(s) \subseteq DocIds \/ Ids(s) = {Inf}
    PROVE  Infinite(s) <=> Ids(s) = {Inf}
<1>1. Inf \notin DocIds
  <2>1. DocIds \subseteq Nat
    BY ListsAssumption
  <2>2. QED
    BY <2>1 DEF Inf
<1>2. ASSUME Infinite(s) PROVE Ids(s) = {Inf}
  <2>1. 1 \in 1 .. Len(s) /\ s[1].id = Inf
    BY <1>2 DEF Infinite
  <2>2. Inf \in Ids(s)
    BY <2>1 DEF Ids
  <2>3. QED
    BY <1>1, <2>2
<1>3. ASSUME Ids(s) = {Inf} PROVE Infinite(s)
  <2>1. PICK k \in 1 .. Len(s) : s[k].id = Inf
    BY <1>3 DEF Ids
  <2>2. s # << >> /\ 1 \in 1 .. Len(s)
    BY <2>1
  <2>3. s[1].id \in Ids(s)
    BY <2>2 DEF Ids
  <2>4. QED
    BY <1>3, <2>2, <2>3 DEF Infinite
<1>4. QED
  BY <1>2, <1>3

\* A loop that returned with the wanted ids computed what its caller relies on.
LEMMA Finish ==
    ASSUME docs1 \in Lists, docs2 \in Lists, LoopLists, op \in {"and", "or", "dup"},
           NEW s \in Seq(Doc), Ids(s) = Wanted
    PROVE  \A x \in DocIds :
              /\ op = "and" => (Has(s, x) <=> Has(docs1, x) /\ Has(docs2, x))
              /\ op = "or" => (Has(s, x) <=> Has(docs1, x) \/ Has(docs2, x))
              /\ op = "dup" => (Has(s, x) <=>
                                 Infinite(docs1) \/ (x \in Ids(docs1) /\ x \notin Ids(docs2)))
<1>1. ~ Infinite(docs2) /\ Ids(docs2) \subseteq DocIds /\ Inf \notin DocIds
  BY Kinds DEF LoopLists
<1>2. /\ Infinite(docs1) => Ids(docs1) = {Inf} /\ op = "dup"
      /\ ~ Infinite(docs1) => Ids(docs1) \subseteq DocIds
  BY Kinds DEF LoopLists
<1>3. CASE Infinite(docs1)
  <2>1. Ids(s) = {Inf} /\ op = "dup"
    BY <1>1, <1>2, <1>3 DEF Wanted
  <2>2. Infinite(s)
    BY <2>1, ResultKind
  <2>3. QED
    BY <1>3, <2>1, <2>2 DEF Has
<1>4. CASE ~ Infinite(docs1)
  <2>1. /\ op = "and" => Ids(s) = Ids(docs1) \cap Ids(docs2)
        /\ op = "or" => Ids(s) = Ids(docs1) \cup Ids(docs2)
        /\ op = "dup" => Ids(s) = Ids(docs1) \ Ids(docs2)
    BY DEF Wanted
  <2>2. Ids(s) \subseteq DocIds
    BY <1>1, <1>2, <1>4, <2>1
  <2>3. ~ Infinite(s)
    BY <1>1, <2>2, ResultKind
  <2>4. QED
    BY <1>1, <1>4, <2>1, <2>3 DEF Has
<1>5. QED
  BY <1>3, <1>4

\* A pass that stepped as it should keeps the invariant.
LEMMA SteppedInv ==
    ASSUME ListInv, ~ w.done, Stepped(w'), UNCHANGED <<op, docs1, docs2>>
    PROVE  ListInv'
<1>1. /\ ListTypeOK /\ LoopLists /\ docs1 \in Lists /\ docs2 \in Lists
      /\ op \in {"and", "or", "dup"} /\ (op = "dup" => ~ Infinite(docs2))
  BY DEF ListInv, ListTypeOK
<1>2. /\ w'.dest \in Seq(Doc) /\ Ascending(w'.dest) /\ w'.done \in BOOLEAN
      /\ ~ w'.done => /\ w'.it1 \in 1 .. Len(docs1) /\ w'.it2 \in 1 .. Len(docs2)
                      /\ InStep(w'.it1, w'.it2) /\ Ids(w'.dest) = Built(w'.it1, w'.it2)
      /\ w'.done => Ids(w'.dest) = Wanted
  BY DEF Stepped
<1>3. ListTypeOK'
  BY <1>1, <1>2 DEF ListTypeOK
<1>4. LoopLists'
  BY <1>1 DEF LoopLists
<1>5. ~ w'.done => LoopInv'
  BY <1>2 DEF LoopInv, InStep, Built
<1>6. ResultAscending'
  BY <1>2 DEF ResultAscending
<1>7. AndCorrect' /\ OrCorrect' /\ DupCorrect'
  <2>1. ASSUME w'.done
        PROVE  \A x \in DocIds :
              /\ op = "and" => (Has(w'.dest, x) <=> Has(docs1, x) /\ Has(docs2, x))
              /\ op = "or" => (Has(w'.dest, x) <=> Has(docs1, x) \/ Has(docs2, x))
              /\ op = "dup" => (Has(w'.dest, x) <=>
                                 Infinite(docs1) \/ (x \in Ids(docs1) /\ x \notin Ids(docs2)))
    BY <1>1, <1>2, <2>1, Finish
  <2>2. QED
    BY <2>1 DEF AndCorrect, OrCorrect, DupCorrect
<1>8. QED
  BY <1>1, <1>3, <1>4, <1>5, <1>6, <1>7 DEF ListInv

\* Every pass of the three loops keeps the invariant.
LEMMA ListNextInv == ListInv /\ [ListNext]_listVars => ListInv'
<1> SUFFICES ASSUME ListInv, [ListNext]_listVars PROVE ListInv'
  OBVIOUS
<1>1. CASE and_operation /\ UNCHANGED <<op, docs1, docs2>>
  BY <1>1, AndPass, SteppedInv DEF and_operation
<1>2. CASE or_operation /\ UNCHANGED <<op, docs1, docs2>>
  BY <1>2, OrPass, SteppedInv DEF or_operation
<1>3. CASE dup_check_operation /\ UNCHANGED <<op, docs1, docs2>>
  BY <1>3, DupPass, SteppedInv DEF dup_check_operation
<1>4. CASE UNCHANGED listVars
  BY <1>4 DEF listVars, ListInv, ListTypeOK, LoopInv, LoopLists, InStep, Built,
              ResultAscending, AndCorrect, OrCorrect, DupCorrect
<1>5. QED
  BY <1>1, <1>2, <1>3, <1>4 DEF ListNext

\* Before its first pass a call has passed nothing.
LEMMA LoopStart ==
    ASSUME docs1 \in Lists, docs2 \in Lists, op \in {"and", "or", "dup"},
           docs1 # << >>, docs2 # << >>, w = Walk(1, 1, << >>, FALSE)
    PROVE  ListTypeOK /\ LoopInv /\ ~ w.done
<1>1. w.it1 = 1 /\ w.it2 = 1 /\ w.dest = << >> /\ w.done = FALSE
  BY DEF Walk
<1>2. 1 \in 1 .. Len(docs1) /\ 1 \in 1 .. Len(docs2)
  <2>1. docs1 \in Seq(Doc) /\ docs2 \in Seq(Doc)
    BY ListFacts
  <2>2. QED
    BY <2>1
<1>3. Passed(docs1, 1) = {} /\ Passed(docs2, 1) = {}
  BY AtBegin
<1>4. Ids(<< >>) = {} /\ Ascending(<< >>) /\ << >> \in Seq(Doc)
  BY DEF Ids, Ascending
<1>5. ListTypeOK
  BY <1>1, <1>2, <1>4 DEF ListTypeOK
<1>6. LoopInv
  BY <1>1, <1>3, <1>4 DEF LoopInv, InStep, Built
<1>7. QED
  BY <1>1, <1>5, <1>6

\* A call that returns at once returns one of its arguments, nothing, or the
\* list of all documents.
LEMMA EarlyReturn ==
    ASSUME docs1 \in Lists, docs2 \in Lists, op \in {"and", "or", "dup"},
           NEW s, s = << >> \/ s = docs1 \/ s = docs2
                  \/ (docs1 # << >> /\ Infinite(docs1) /\ s = <<docs1[1]>>)
                  \/ (docs2 # << >> /\ Infinite(docs2) /\ s = <<docs2[1]>>),
           w = Walk(1, 1, s, TRUE)
    PROVE  ListTypeOK /\ ResultAscending /\ w.done /\ w.dest = s
<1>1. w.dest = s /\ w.done = TRUE
  BY DEF Walk
<1>2. s \in Seq(Doc) /\ Ascending(s)
  <2>1. CASE s = << >>
    BY <2>1 DEF Ascending
  <2>2. CASE s = docs1 \/ s = docs2
    BY <2>2, ListFacts
  <2>3. ASSUME NEW docs \in Lists, docs # << >>, s = <<docs[1]>>
        PROVE  s \in Seq(Doc) /\ Ascending(s)
    <3>1. docs \in Seq(Doc) /\ docs[1] \in Doc
      <4>1. docs \in Seq(Doc)
        BY ListFacts
      <4>2. QED
        BY <2>3, <4>1
    <3>2. QED
      BY <2>3, <3>1 DEF Ascending
  <2>4. QED
    BY <2>1, <2>2, <2>3
<1>3. QED
  BY <1>1, <1>2 DEF ListTypeOK, ResultAscending

LEMMA ListInitInv == ListInit => ListInv
<1> SUFFICES ASSUME ListInit PROVE ListInv
  OBVIOUS
<1>1. docs1 \in Lists /\ docs2 \in Lists /\ op \in {"and", "or", "dup"}
  BY DEF ListInit
<1>2. Infinite(docs1) => docs1 # << >>
  BY DEF Infinite
<1>3. Ids(<< >>) = {} /\ ~ Infinite(<< >>)
  BY DEF Ids, Infinite
<1>4. ASSUME NEW d \in Lists, Infinite(d) PROVE Infinite(<<d[1]>>)
  BY <1>4 DEF Infinite
<1>5. CASE op = "and"
  <2>1. w = AndBegin(docs1, docs2, << >>)
    BY <1>5 DEF ListInit
  <2>2. CASE docs1 = << >> \/ docs2 = << >>
    <3>1. w = Walk(1, 1, << >>, TRUE)
      BY <2>1, <2>2 DEF AndBegin
    <3>2. ListTypeOK /\ ResultAscending /\ w.done /\ w.dest = << >>
      BY <1>1, <3>1, EarlyReturn
    <3>3. QED
      BY <1>3, <1>5, <2>2, <3>2 DEF ListInv, AndCorrect, OrCorrect, DupCorrect, Has
  <2>3. CASE docs1 # << >> /\ docs2 # << >> /\ Infinite(docs1)
    <3>1. w = Walk(1, 1, docs2, TRUE)
      BY <2>1, <2>3 DEF AndBegin
    <3>2. ListTypeOK /\ ResultAscending /\ w.done /\ w.dest = docs2
      BY <1>1, <3>1, EarlyReturn
    <3>3. QED
      BY <1>5, <2>3, <3>2 DEF ListInv, AndCorrect, OrCorrect, DupCorrect, Has
  <2>4. CASE docs1 # << >> /\ docs2 # << >> /\ ~ Infinite(docs1) /\ Infinite(docs2)
    <3>1. w = Walk(1, 1, docs1, TRUE)
      BY <2>1, <2>4 DEF AndBegin
    <3>2. ListTypeOK /\ ResultAscending /\ w.done /\ w.dest = docs1
      BY <1>1, <3>1, EarlyReturn
    <3>3. QED
      BY <1>5, <2>4, <3>2 DEF ListInv, AndCorrect, OrCorrect, DupCorrect, Has
  <2>5. CASE docs1 # << >> /\ docs2 # << >> /\ ~ Infinite(docs1) /\ ~ Infinite(docs2)
    <3>1. w = Walk(1, 1, << >>, FALSE)
      BY <2>1, <2>5 DEF AndBegin
    <3>2. ListTypeOK /\ LoopInv /\ ~ w.done
      BY <1>1, <2>5, <3>1, LoopStart
    <3>3. QED
      BY <1>5, <2>5, <3>2 DEF ListInv, LoopLists, ResultAscending, AndCorrect, OrCorrect, DupCorrect
  <2>6. QED
    BY <2>2, <2>3, <2>4, <2>5
<1>6. CASE op = "or"
  <2>1. w = OrBegin(docs1, docs2, << >>)
    BY <1>6 DEF ListInit
  <2>2. CASE docs1 = << >>
    <3>1. w = Walk(1, 1, docs2, TRUE)
      BY <2>1, <2>2 DEF OrBegin
    <3>2. ListTypeOK /\ ResultAscending /\ w.done /\ w.dest = docs2
      BY <1>1, <3>1, EarlyReturn
    <3>3. QED
      BY <1>3, <1>6, <2>2, <3>2 DEF ListInv, AndCorrect, OrCorrect, DupCorrect, Has
  <2>3. CASE docs1 # << >> /\ docs2 = << >>
    <3>1. w = Walk(1, 1, docs1, TRUE)
      BY <2>1, <2>3 DEF OrBegin
    <3>2. ListTypeOK /\ ResultAscending /\ w.done /\ w.dest = docs1
      BY <1>1, <3>1, EarlyReturn
    <3>3. QED
      BY <1>3, <1>6, <2>3, <3>2 DEF ListInv, AndCorrect, OrCorrect, DupCorrect, Has
  <2>4. CASE docs1 # << >> /\ docs2 # << >> /\ Infinite(docs1)
    <3>1. w = Walk(1, 1, <<docs1[1]>>, TRUE)
      BY <2>1, <2>4 DEF OrBegin
    <3>2. ListTypeOK /\ ResultAscending /\ w.done /\ w.dest = <<docs1[1]>>
      BY <1>1, <2>4, <3>1, EarlyReturn
    <3>3. QED
      BY <1>1, <1>4, <1>6, <2>4, <3>2 DEF ListInv, AndCorrect, OrCorrect, DupCorrect, Has
  <2>5. CASE docs1 # << >> /\ docs2 # << >> /\ ~ Infinite(docs1) /\ Infinite(docs2)
    <3>1. w = Walk(1, 1, <<docs2[1]>>, TRUE)
      BY <2>1, <2>5 DEF OrBegin
    <3>2. ListTypeOK /\ ResultAscending /\ w.done /\ w.dest = <<docs2[1]>>
      BY <1>1, <2>5, <3>1, EarlyReturn
    <3>3. QED
      BY <1>1, <1>4, <1>6, <2>5, <3>2 DEF ListInv, AndCorrect, OrCorrect, DupCorrect, Has
  <2>6. CASE docs1 # << >> /\ docs2 # << >> /\ ~ Infinite(docs1) /\ ~ Infinite(docs2)
    <3>1. w = Walk(1, 1, << >>, FALSE)
      BY <2>1, <2>6 DEF OrBegin
    <3>2. ListTypeOK /\ LoopInv /\ ~ w.done
      BY <1>1, <2>6, <3>1, LoopStart
    <3>3. QED
      BY <1>6, <2>6, <3>2 DEF ListInv, LoopLists, ResultAscending, AndCorrect, OrCorrect, DupCorrect
  <2>7. QED
    BY <2>2, <2>3, <2>4, <2>5, <2>6
<1>7. CASE op = "dup"
  <2>1. w = DupBegin(docs1, docs2, << >>) /\ ~ Infinite(docs2)
    BY <1>7 DEF ListInit
  <2>2. CASE docs1 = << >>
    <3>1. w = Walk(1, 1, << >>, TRUE)
      BY <2>1, <2>2 DEF DupBegin
    <3>2. ListTypeOK /\ ResultAscending /\ w.done /\ w.dest = << >>
      BY <1>1, <3>1, EarlyReturn
    <3>3. QED
      BY <1>3, <1>7, <2>1, <2>2, <3>2 DEF ListInv, AndCorrect, OrCorrect, DupCorrect, Has
  <2>3. CASE docs1 # << >> /\ docs2 = << >>
    <3>1. w = Walk(1, 1, docs1, TRUE)
      BY <2>1, <2>3 DEF DupBegin
    <3>2. ListTypeOK /\ ResultAscending /\ w.done /\ w.dest = docs1
      BY <1>1, <3>1, EarlyReturn
    <3>3. QED
      BY <1>3, <1>7, <2>1, <2>3, <3>2 DEF ListInv, AndCorrect, OrCorrect, DupCorrect, Has
  <2>4. CASE docs1 # << >> /\ docs2 # << >>
    <3>1. w = Walk(1, 1, << >>, FALSE)
      BY <2>1, <2>4 DEF DupBegin
    <3>2. ListTypeOK /\ LoopInv /\ ~ w.done
      BY <1>1, <2>4, <3>1, LoopStart
    <3>3. QED
      BY <1>7, <2>1, <2>4, <3>2 DEF ListInv, LoopLists, ResultAscending, AndCorrect, OrCorrect, DupCorrect
  <2>5. QED
    BY <2>2, <2>3, <2>4
<1>8. QED
  BY <1>1, <1>5, <1>6, <1>7

LEMMA ListInvariance == ListSpec => []ListInv
  BY ListInitInv, ListNextInv, PTL DEF ListSpec

-----------------------------------------------------------------------------
\* While the loop of a call runs, its iterators point into the lists.
THEOREM ListTyping == ListSpec => []ListTypeOK
<1>1. ListInv => ListTypeOK
  BY DEF ListInv
<1>2. QED
  BY <1>1, ListInvariance, PTL

\* The list a call returns is sorted without duplicates, so it can be the
\* argument of the next call.
THEOREM Sorted == ListSpec => []ResultAscending
<1>1. ListInv => ResultAscending
  BY DEF ListInv
<1>2. QED
  BY <1>1, ListInvariance, PTL

\* and_operation returns the intersection of its arguments.
THEOREM Intersection == ListSpec => []AndCorrect
<1>1. ListInv => AndCorrect
  BY DEF ListInv
<1>2. QED
  BY <1>1, ListInvariance, PTL

\* or_operation returns the union of its arguments.
THEOREM Union == ListSpec => []OrCorrect
<1>1. ListInv => OrCorrect
  BY DEF ListInv
<1>2. QED
  BY <1>1, ListInvariance, PTL

\* dup_check_operation returns the difference of its arguments.
THEOREM Difference == ListSpec => []DupCorrect
<1>1. ListInv => DupCorrect
  BY DEF ListInv
<1>2. QED
  BY <1>1, ListInvariance, PTL
=============================================================================
