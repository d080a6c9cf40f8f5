------------------------ MODULE SearchEngine_proofs ------------------------
(***************************************************************************)
(* The two things that the processes of SearchEngine::search share.  The     *)
(* lock file of the scheduler: for any number of processes, any mix of       *)
(* installations, any MAX_NUM_OF_RETRY and any stale limit.  The cache: for  *)
(* any number of requests, keys and seconds, a wrong or an unreadable result *)
(* comes of two requests that save in the same second or, for a clustering,  *)
(* of a request to the clustering service that failed; of nothing else.      *)
(***************************************************************************)
EXTENDS RequestScheduler, ResultCache, WellFoundedInduction, TLAPS

-----------------------------------------------------------------------------
(* The lock file.                                                               *)

\* Why no normal end leaves a link behind: the process whose link exists knows
\* that it checked in, so both ways out of its search remove a link.
HolderInv == lock # NoLock => checkIn[lock]

\* A process sleeps only while its attempts have not passed the limit by more
\* than one, and leaves the loop when they have.
CountInv == \A r \in Processes :
    /\ phase[r] \in {"new", "symlink", "lstat", "unlink"} => count[r] = 0
    /\ phase[r] = "retry" => count[r] <= MaxNumOfRetry
    /\ MaxNumOfRetry = 0 => count[r] = 0

SchedulerInv == SchedulerTypeOK /\ NoOrphanLock /\ HolderInv /\ CountInv

\* The initial state satisfies the inductive invariant.
LEMMA SchedulerInitInv == SchedulerInit => SchedulerInv
  BY SchedulerAssumption DEF SchedulerInit, SchedulerInv, SchedulerTypeOK, NoOrphanLock, HolderInv, CountInv

\* Every step preserves it.
LEMMA SchedulerNextInv == SchedulerInv /\ [SchedulerNext]_schedulerVars => SchedulerInv'
<1> SUFFICES ASSUME SchedulerInv, [SchedulerNext]_schedulerVars PROVE SchedulerInv'
  OBVIOUS
<1> USE SchedulerAssumption DEF SchedulerInv
<1>1. CASE SecondPasses
  <2>1. SchedulerTypeOK'
    BY <1>1 DEF SecondPasses, SchedulerTypeOK
  <2>2. NoOrphanLock' /\ HolderInv' /\ CountInv'
    BY <1>1 DEF SecondPasses, NoOrphanLock, HolderInv, CountInv
  <2>3. QED
    BY <2>1, <2>2
<1>2. ASSUME NEW r \in Processes, Begin(r) PROVE SchedulerInv'
  BY <1>2 DEF Begin, Enter, SchedulerTypeOK, NoOrphanLock, HolderInv, CountInv
<1>3. ASSUME NEW r \in Processes, Symlink(r) PROVE SchedulerInv'
  <2>1. CASE Acquire(r)
    <3>1. SchedulerTypeOK'
      BY <1>3, <2>1 DEF Symlink, Acquire, Enter, SchedulerTypeOK
    <3>2. NoOrphanLock' /\ HolderInv' /\ CountInv'
      BY <1>3, <2>1 DEF Symlink, Acquire, Enter, SchedulerTypeOK, NoOrphanLock, HolderInv, CountInv
    <3>3. QED
      BY <3>1, <3>2
  <2>2. CASE lock # NoLock /\ Enter(r, "lstat") /\ UNCHANGED <<lock, age, checkIn>>
    BY <1>3, <2>2 DEF Symlink, Enter, SchedulerTypeOK, NoOrphanLock, HolderInv, CountInv
  <2>3. QED
    BY <1>3, <2>1, <2>2 DEF Symlink
<1>4. ASSUME NEW r \in Processes, Lstat(r) PROVE SchedulerInv'
  BY <1>4 DEF Lstat, Enter, SchedulerTypeOK, NoOrphanLock, HolderInv, CountInv
<1>5. ASSUME NEW r \in Processes, UnlinkStale(r) PROVE SchedulerInv'
  BY <1>5 DEF UnlinkStale, Unlink, Enter, SchedulerTypeOK, NoOrphanLock, HolderInv, CountInv
<1>6. ASSUME NEW r \in Processes, Retry(r) PROVE SchedulerInv'
  <2>1. CASE Acquire(r) /\ UNCHANGED <<count, rested>>
    BY <1>6, <2>1 DEF Retry, Acquire, Enter, SchedulerTypeOK, NoOrphanLock, HolderInv, CountInv
  <2>2. CASE lock # NoLock
    <3>1. count[r] \in 0 .. MaxNumOfRetry /\ count[r] + 1 \in 0 .. MaxNumOfRetry + 1
      BY <1>6 DEF Retry, SchedulerTypeOK, CountInv
    <3>2. /\ count' = [count EXCEPT ![r] = IF MaxNumOfRetry = 0 THEN 0 ELSE @ + 1]
          /\ rested' = [rested EXCEPT ![r] = FALSE]
          /\ phase' = [phase EXCEPT ![r] = "sleep"]
          /\ UNCHANGED <<lock, age, checkIn>>
      BY <1>6, <2>2 DEF Retry, Acquire, Enter
    <3>3. SchedulerTypeOK'
      BY <3>1, <3>2 DEF SchedulerTypeOK
    <3>4. NoOrphanLock' /\ HolderInv' /\ CountInv'
      BY <1>6, <3>2 DEF Retry, SchedulerTypeOK, NoOrphanLock, HolderInv, CountInv
    <3>5. QED
      BY <3>3, <3>4
  <2>3. QED
    BY <1>6, <2>1, <2>2 DEF Retry
<1>7. ASSUME NEW r \in Processes, Wake(r) PROVE SchedulerInv'
  BY <1>7 DEF Wake, Enter, SchedulerTypeOK, NoOrphanLock, HolderInv, CountInv
<1>8. ASSUME NEW r \in Processes, EndSearch(r) PROVE SchedulerInv'
  BY <1>8 DEF EndSearch, Enter, SchedulerTypeOK, NoOrphanLock, HolderInv, CountInv
<1>9. ASSUME NEW r \in Processes, CheckOut(r) PROVE SchedulerInv'
  BY <1>9 DEF CheckOut, Unlink, Enter, SchedulerTypeOK, NoOrphanLock, HolderInv, CountInv
<1>10. ASSUME NEW r \in Processes, Die(r) PROVE SchedulerInv'
  BY <1>10 DEF Die, Unlink, Enter, SchedulerTypeOK, NoOrphanLock, HolderInv, CountInv
<1>11. ASSUME NEW r \in Processes, KillProcess(r) PROVE SchedulerInv'
  BY <1>11 DEF KillProcess, Enter, SchedulerTypeOK, NoOrphanLock, HolderInv, CountInv
<1>12. CASE UNCHANGED schedulerVars
  BY <1>12 DEF schedulerVars, SchedulerTypeOK, NoOrphanLock, HolderInv, CountInv
<1>13. QED
  BY <1>1, <1>2, <1>3, <1>4, <1>5, <1>6, <1>7, <1>8, <1>9, <1>10, <1>11, <1>12
     DEF SchedulerNext, Run

\* A request counts at most MAX_NUM_OF_RETRY + 1 failed attempts before checkIn
\* gives up, and the other variables have their types.
THEOREM SchedulerTyping == SchedulerSpec => []SchedulerTypeOK
<1>1. SchedulerInv => SchedulerTypeOK
  BY DEF SchedulerInv
<1>2. QED
  BY <1>1, SchedulerInitInv, SchedulerNextInv, PTL DEF SchedulerSpec

\* Whatever links the requests remove from under each other, a lock file whose
\* maker has ended belongs to a maker that was killed (checkOut, DESTROY).
THEOREM OrphansAreKilled == SchedulerSpec => []NoOrphanLock
<1>1. SchedulerInv => NoOrphanLock
  BY DEF SchedulerInv
<1>2. QED
  BY <1>1, SchedulerInitInv, SchedulerNextInv, PTL DEF SchedulerSpec

-----------------------------------------------------------------------------
(* The cache.                                                                   *)

\* Before its own search has ended a request has found nothing; what it saves it
\* has found, and only the clustering service gives anything but a result.
Answers == \A r \in Requests :
    /\ pc[r] \in {"new", "create", "read", "load", "search"} => found[r] = "none"
    /\ pc[r] \in {"save", "open", "write", "append"} => found[r] # "none"
    /\ found[r] \in {"malformed", "nothing"} => keyOf[r] \in TextKeys

\* A request that saves has a stamp, and gets it once.
Stamped == \A r \in Requests :
    /\ pc[r] \in {"open", "write", "append"} => stamp[r] \in Seconds
    /\ pc[r] \in {"new", "create", "read", "load", "search", "save"} => stamp[r] = None

\* Who is recorded as the last writer of a file saves under its name, and a
\* request that has not opened its file yet is nowhere recorded.
Writers == \A t \in Seconds :
    /\ files[t].by \in Requests => stamp[files[t].by] = t
    /\ files[t].by \in Requests => pc[files[t].by] # "open" /\ found[files[t].by] # "none"
    /\ files[t].st = "whole" => files[t].by \in Requests

\* The state of the file between the steps of a save.
Saving == \A r \in Requests :
    /\ pc[r] = "write" => files[stamp[r]] = [st |-> "part", by |-> r] \/ SameSecond(stamp[r])
    /\ pc[r] = "append" => files[stamp[r]] = [st |-> "whole", by |-> r] \/ SameSecond(stamp[r])

\* A line of the log leads to the complete file of a save for its key.
LinesHold == \A i \in 1 .. Len(log) :
    Holds(log[i].file, log[i].key) \/ SameSecond(log[i].file)

\* What a request has read in the log stays true.
Snapshots == \A r \in Requests :
    /\ data[r] # None => Holds(data[r], keyOf[r]) \/ SameSecond(data[r])
    /\ pc[r] \in {"cached", "dead"} => data[r] # None

IInv == /\ TypeOK /\ Answers /\ Stamped /\ Writers
        /\ Saving /\ LinesHold /\ Snapshots /\ CacheRight

-----------------------------------------------------------------------------
\* A set of positions in a list has a last one.
LEMMA Largest ==
    ASSUME NEW n \in Nat, NEW L, L \subseteq 1 .. n, L # {}
    PROVE  \E i \in L : \A j \in L : j <= i
<1> DEFINE T == {n - i : i \in L}
           R == OpToRel(<, Nat)
<1>1. T \subseteq Nat /\ T # {}
  <2>1. \A i \in L : n - i \in Nat
    OBVIOUS
  <2>2. QED
    BY <2>1
<1>2. IsWellFoundedOn(R, Nat)
  BY NatLessThanWellFounded
<1>3. R = {ss \in Nat \X Nat : ss[1] < ss[2]}
  BY DEF OpToRel
<1> HIDE DEF R, T
<1>4. PICK x \in T : \A y \in T : ~ (<<y, x>> \in R)
  BY <1>1, <1>2, WFMin
<1>5. \A y \in T : ~ (y < x)
  BY <1>1, <1>3, <1>4
<1>6. PICK i \in L : x = n - i
  BY DEF T
<1>7. ASSUME NEW j \in L PROVE j <= i
  <2>1. n - j \in T
    BY DEF T
  <2>2. ~ (n - j < n - i)
    BY <1>5, <1>6, <2>1
  <2>3. i \in Int /\ j \in Int
    OBVIOUS
  <2>4. QED
    BY <2>2, <2>3
<1>8. QED
  BY <1>7

\* What is found in the log is the file of a line with the key.
LEMMA Found ==
    ASSUME TypeOK, NEW k, Find(k) # None
    PROVE  \E i \in 1 .. Len(log) : log[i].key = k /\ log[i].file = Find(k)
<1> DEFINE lines == {i \in 1 .. Len(log) : log[i].key = k}
           last == CHOOSE i \in lines : \A j \in lines : j <= i
<1>1. lines # {} /\ Find(k) = log[last].file
  BY DEF Find
<1>2. Len(log) \in Nat
  BY DEF TypeOK
<1>3. \E i \in lines : \A j \in lines : j <= i
  BY <1>1, <1>2, Largest
<1>4. last \in lines
  BY <1>3
<1>5. QED
  BY <1>1, <1>4

\* A request that stamps a file that has a writer already makes a collision.
LEMMA Collision ==
    ASSUME NEW r \in Requests, NEW s \in Requests, r # s, stamp[r] = stamp[s]
    PROVE  SameSecond(stamp[r])
  BY DEF SameSecond

\* The lines of the log.
LEMMA Lines ==
    ASSUME TypeOK
    PROVE  /\ Len(log) \in Nat
           /\ \A i \in 1 .. Len(log) : log[i].file \in Seconds
<1> DEFINE Line == [key : {keyOf[r] : r \in Requests}, file : Seconds]
<1>1. log \in Seq(Line)
  BY DEF TypeOK
<1>2. \A l \in Line : l.file \in Seconds
  OBVIOUS
<1> HIDE DEF Line
<1>3. Len(log) \in Nat /\ \A i \in 1 .. Len(log) : log[i] \in Line
  BY <1>1
<1>4. QED
  BY <1>2, <1>3

LEMMA InitInv == Init => IInv
<1> SUFFICES ASSUME Init PROVE IInv
  OBVIOUS
<1>1. TypeOK
  BY CacheAssumption DEF Init, TypeOK, Seconds
<1>2. QED
  BY <1>1, CacheAssumption DEF IInv, Init, Answers, Stamped, Writers, Saving, LinesHold,
        Snapshots, CacheRight

\* A collision stays: a stamp is given once.
LEMMA CollisionStays ==
    ASSUME NEW r \in Requests, stamp[r] = None \/ stamp' = stamp,
           stamp \in [Requests -> Seconds \cup {None}],
           NEW v, stamp' = stamp \/ stamp' = [stamp EXCEPT ![r] = v],
           NEW t \in Seconds, SameSecond(t)
    PROVE  SameSecond(t)'
<1>1. None \notin Seconds
  BY CacheAssumption DEF Seconds
<1>2. PICK p \in Requests, q \in Requests : p # q /\ stamp[p] = t /\ stamp[q] = t
  BY DEF SameSecond
<1>3. stamp'[p] = t /\ stamp'[q] = t
  BY <1>1, <1>2
<1>4. QED
  BY <1>2, <1>3 DEF SameSecond

\* What is right about the answers of the requests that have ended stays so if
\* only files of shared seconds, and files that are not complete, are written to.
LEMMA AnswersStand ==
    ASSUME IInv, keyOf' = keyOf, found' = found,
           \A p \in Requests : pc'[p] \in {"cached", "dead"} =>
               pc[p] = pc'[p] /\ data'[p] = data[p] /\ got'[p] = got[p],
           \A t \in Seconds : SameSecond(t) => SameSecond(t)',
           \A t \in Seconds : ~ SameSecond(t) /\ files[t].st = "whole" => files'[t] = files[t]
    PROVE  CacheRight'
<1> SUFFICES ASSUME NEW p \in Requests, pc'[p] \in {"cached", "dead"}
             PROVE  /\ pc'[p] = "cached" => \/ keyOf[got'[p]] = keyOf[p] /\ found'[got'[p]] = "result"
                                            \/ SameSecond(data[p])'
                    /\ pc'[p] = "dead" => \/ keyOf[p] \in TextKeys /\ Saved(data[p], keyOf[p], "malformed")'
                                          \/ SameSecond(data[p])'
  BY DEF CacheRight
<1>1. pc[p] = pc'[p] /\ data'[p] = data[p] /\ got'[p] = got[p] /\ data[p] \in Seconds
  BY DEF IInv, Snapshots, TypeOK
<1>2. SameSecond(data[p]) => SameSecond(data[p])'
  BY <1>1 DEF SameSecond
<1>3. ASSUME ~ SameSecond(data[p]), Saved(data[p], keyOf[p], "malformed")
      PROVE  Saved(data[p], keyOf[p], "malformed")'
  <2>1. files'[data[p]] = files[data[p]]
    BY <1>1, <1>3 DEF Saved, Holds
  <2>2. QED
    BY <1>1, <1>3, <2>1 DEF Saved, Holds
<1>4. QED
  BY <1>1, <1>2, <1>3 DEF IInv, CacheRight

\* Steps on the way to a search, or to the end: only pc changes, or the request
\* reads something.
LEMMA LocalInv ==
    ASSUME IInv, NEW r \in Requests,
           \/ CheckLog(r) \/ LoadMiss(r) \/ LoadIgnored(r) \/ LoadDies(r) \/ LoadEmpty(r)
           \/ SearchUnsaved(r) \/ Kill(r)
    PROVE  IInv'
<1>1. /\ pc' = [pc EXCEPT ![r] = pc'[r]]
      /\ pc'[r] \in {"read", "create", "search", "dead", "done", "killed"}
      /\ pc'[r] = "dead" => LoadDies(r)
      /\ pc'[r] \in {"read", "create", "search"} => pc[r] \in {"new", "load"}
      /\ UNCHANGED <<keyOf, clock, logExists, log, files, data, found, stamp, got>>
  <2>1. TypeOK
    BY DEF IInv
  <2>2. CASE LoadDies(r)
    BY <2>1, <2>2 DEF LoadDies, Goto, TypeOK
  <2>3. CASE ~ LoadDies(r)
    BY <2>1, <2>3 DEF TypeOK, CheckLog, LoadMiss, LoadIgnored, LoadEmpty, SearchUnsaved, Kill, Goto
  <2>4. QED
    BY <2>2, <2>3
<1>2. TypeOK'
  BY <1>1 DEF IInv, TypeOK
<1>3. Answers' /\ Stamped'
  BY <1>1 DEF IInv, TypeOK, Answers, Stamped
<1>4. Writers'
  BY <1>1 DEF IInv, TypeOK, Writers
<1>5. pc'[r] = "dead" => \/ keyOf[r] \in TextKeys /\ Saved(data[r], keyOf[r], "malformed")
                        \/ SameSecond(data[r])
  <2> SUFFICES ASSUME LoadDies(r), ~ SameSecond(data[r])
               PROVE  keyOf[r] \in TextKeys /\ Saved(data[r], keyOf[r], "malformed")
    BY <1>1
  <2>1. data[r] # None /\ Holds(data[r], keyOf[r])
    BY DEF LoadDies, IInv, Snapshots
  <2>2. found[files[data[r]].by] = "malformed"
    BY <2>1 DEF LoadDies, Holds
  <2>3. files[data[r]].by \in Requests /\ keyOf[files[data[r]].by] = keyOf[r]
    BY <2>1 DEF Holds
  <2>4. keyOf[r] \in TextKeys
    BY <2>2, <2>3 DEF IInv, Answers
  <2>5. QED
    BY <2>1, <2>2, <2>4 DEF Saved
<1>6. Saving' /\ LinesHold'
  <2>1. \A p \in Requests : pc'[p] \in {"write", "append"} => pc'[p] = pc[p]
    BY <1>1 DEF IInv, TypeOK
  <2>2. \A t : SameSecond(t)' <=> SameSecond(t)
    BY <1>1 DEF SameSecond
  <2>3. Saving'
    BY <1>1, <2>1, <2>2 DEF IInv, Saving
  <2>4. LinesHold'
    BY <1>1, <2>2 DEF IInv, LinesHold, Holds
  <2>5. QED
    BY <2>3, <2>4
<1>7. Snapshots'
  <2>1. pc'[r] = "dead" => data[r] # None
    BY <1>1 DEF LoadDies
  <2>2. QED
    BY <1>1, <2>1 DEF IInv, TypeOK, Snapshots, Holds, SameSecond
<1>8. CacheRight'
  <2>1. CASE pc'[r] = "dead"
    <3> SUFFICES ASSUME NEW p \in Requests
                 PROVE  /\ pc'[p] = "cached" => \/ keyOf[got'[p]] = keyOf[p] /\ found'[got'[p]] = "result"
                                                \/ SameSecond(data[p])'
                        /\ pc'[p] = "dead" => \/ keyOf[p] \in TextKeys /\ Saved(data[p], keyOf[p], "malformed")'
                                              \/ SameSecond(data[p])'
      BY <1>1 DEF CacheRight
    <3>1. SameSecond(data[p])' <=> SameSecond(data[p])
      BY <1>1 DEF SameSecond
    <3>2. Saved(data[p], keyOf[p], "malformed")' <=> Saved(data[p], keyOf[p], "malformed")
      BY <1>1 DEF Saved, Holds
    <3>3. p # r => pc'[p] = pc[p]
      BY <1>1 DEF IInv, TypeOK
    <3>4. CASE p = r
      BY <1>5, <2>1, <3>1, <3>2, <3>4
    <3>5. CASE p # r
      BY <1>1, <3>1, <3>2, <3>3, <3>5 DEF IInv, CacheRight
    <3>6. QED
      BY <3>4, <3>5
  <2>2. CASE pc'[r] # "dead"
    <3>1. \A p \in Requests : pc'[p] \in {"cached", "dead"} => pc'[p] = pc[p]
      BY <1>1, <2>2 DEF IInv, TypeOK
    <3>2. \A t \in Seconds : SameSecond(t) => SameSecond(t)'
      BY <1>1 DEF SameSecond
    <3>3. QED
      BY <1>1, <3>1, <3>2, AnswersStand
  <2>3. QED
    BY <2>1, <2>2
<1>9. QED
  BY <1>2, <1>3, <1>4, <1>6, <1>7, <1>8 DEF IInv

\* The search, or the clustering service, gives what is saved next.
LEMMA AnswerInv ==
    ASSUME IInv, NEW r \in Requests, SearchFound(r) \/ ClusteringFails(r)
    PROVE  IInv'
<1>1. PICK f \in {"result", "malformed", "nothing"} :
        /\ found' = [found EXCEPT ![r] = f] /\ pc' = [pc EXCEPT ![r] = "save"] /\ pc[r] = "search"
        /\ f # "result" => keyOf[r] \in TextKeys
        /\ UNCHANGED <<keyOf, clock, logExists, log, files, data, stamp, got>>
  BY DEF SearchFound, ClusteringFails, Goto, Mode
<1>2. TypeOK /\ found[r] = "none" /\ stamp[r] = None /\ None \notin Seconds
  BY <1>1, CacheAssumption DEF IInv, Answers, Stamped, Seconds
<1>3. TypeOK'
  BY <1>1, <1>2 DEF TypeOK
<1>4. Answers' /\ Stamped'
  BY <1>1, <1>2 DEF IInv, TypeOK, Answers, Stamped
<1>5. \A t \in Seconds : files[t].by # r
  BY <1>2 DEF IInv, Writers
<1>6. Writers'
  BY <1>1, <1>2, <1>5 DEF IInv, TypeOK, Writers
<1>7. Saving' /\ LinesHold' /\ Snapshots'
  BY <1>1, <1>2 DEF IInv, TypeOK, Saving, LinesHold, Snapshots, Holds, SameSecond
<1>8. CacheRight'
  <2> SUFFICES ASSUME NEW p \in Requests
               PROVE  /\ pc'[p] = "cached" => \/ keyOf[got'[p]] = keyOf[p] /\ found'[got'[p]] = "result"
                                              \/ SameSecond(data[p])'
                      /\ pc'[p] = "dead" => \/ keyOf[p] \in TextKeys /\ Saved(data[p], keyOf[p], "malformed")'
                                            \/ SameSecond(data[p])'
    BY <1>1 DEF CacheRight
  <2>1. pc'[p] = pc[p] \/ pc'[p] = "save"
    BY <1>1, <1>2 DEF TypeOK
  <2>2. \A q : q # r => found'[q] = found[q]
    BY <1>1, <1>2 DEF TypeOK
  <2>3. \A t : SameSecond(t)' <=> SameSecond(t)
    BY <1>1 DEF SameSecond
  <2>4. CASE pc[p] = "cached"
    <3>1. (keyOf[got[p]] = keyOf[p] /\ found[got[p]] = "result") \/ SameSecond(data[p])
      BY <2>4 DEF IInv, CacheRight
    <3>2. found[got[p]] = "result" => found'[got[p]] = "result"
      BY <1>2, <2>2
    <3>3. QED
      BY <1>1, <2>1, <2>3, <2>4, <3>1, <3>2
  <2>5. CASE pc[p] = "dead"
    <3>1. (keyOf[p] \in TextKeys /\ Saved(data[p], keyOf[p], "malformed")) \/ SameSecond(data[p])
      BY <2>5 DEF IInv, CacheRight
    <3>2. Saved(data[p], keyOf[p], "malformed") => Saved(data[p], keyOf[p], "malformed")'
      BY <1>1, <1>2, <2>2 DEF Saved, Holds
    <3>3. QED
      BY <1>1, <2>1, <2>3, <2>5, <3>1, <3>2
  <2>6. QED
    BY <2>1, <2>4, <2>5
<1>9. QED
  BY <1>3, <1>4, <1>6, <1>7, <1>8 DEF IInv

\* Making the log, looking a key up in it, and the clock.
LEMMA LogInv ==
    ASSUME IInv, NEW r \in Requests, CreateLog(r) \/ ReadLog(r)
    PROVE  IInv'
<1>1. TypeOK /\ r \in DOMAIN pc
  BY DEF IInv, TypeOK
<1>2. CASE CreateLog(r)
  <2>1. TypeOK'
    BY <1>1, <1>2 DEF CreateLog, Goto, TypeOK
  <2>2. Answers' /\ Stamped' /\ Writers'
    BY <1>1, <1>2 DEF CreateLog, Goto, IInv, TypeOK, Answers, Stamped, Writers
  <2>3. Saving' /\ LinesHold' /\ Snapshots'
    BY <1>1, <1>2 DEF CreateLog, Goto, IInv, TypeOK, Saving, LinesHold, Snapshots,
                      Holds, SameSecond
  <2>4. CacheRight'
    <3>1. \A p \in Requests : pc'[p] \in {"cached", "dead"} => pc'[p] = pc[p]
      BY <1>1, <1>2 DEF CreateLog, Goto, TypeOK
    <3>2. \A t \in Seconds : SameSecond(t) => SameSecond(t)'
      BY <1>2 DEF CreateLog, SameSecond
    <3>3. QED
      BY <1>2, <3>1, <3>2, AnswersStand DEF CreateLog
  <2>5. QED
    BY <2>1, <2>2, <2>3, <2>4 DEF IInv
<1>3. CASE ReadLog(r)
  <2>1. \/ Find(keyOf[r]) = None
        \/ \E i \in 1 .. Len(log) : log[i].key = keyOf[r] /\ log[i].file = Find(keyOf[r])
    BY <1>1, Found
  <2>2. Find(keyOf[r]) \in Seconds \cup {None}
    BY <1>1, <2>1, Lines
  <2>3. Find(keyOf[r]) # None => Holds(Find(keyOf[r]), keyOf[r]) \/ SameSecond(Find(keyOf[r]))
    BY <2>1 DEF IInv, LinesHold
  <2> DEFINE f == Find(keyOf[r])
  <2>4. /\ data' = [data EXCEPT ![r] = f] /\ pc' = [pc EXCEPT ![r] = "load"] /\ pc[r] = "read"
        /\ UNCHANGED <<keyOf, clock, logExists, log, files, found, stamp, got>>
    BY <1>3 DEF ReadLog, Goto
  <2>4a. keyOf' = keyOf
    BY <2>4
  <2> HIDE DEF f
  <2>5. TypeOK'
    BY <1>1, <2>2, <2>4 DEF TypeOK, f
  <2>6. Answers' /\ Stamped' /\ Writers'
    BY <1>1, <2>4 DEF IInv, TypeOK, Answers, Stamped, Writers
  <2>7. /\ Saving' /\ LinesHold'
        /\ CacheRight'
    <3>1. Saving' /\ LinesHold'
      BY <1>1, <2>4 DEF IInv, TypeOK, Saving, LinesHold, Holds, SameSecond
    <3>2. CacheRight'
      <4>1. \A p \in Requests : pc'[p] \in {"cached", "dead"} => p # r /\ pc'[p] = pc[p]
        BY <1>1, <2>4 DEF TypeOK
      <4>2. \A p \in Requests : p # r => data'[p] = data[p]
        BY <1>1, <2>4 DEF TypeOK
      <4>3. \A t \in Seconds : SameSecond(t) => SameSecond(t)'
        BY <2>4 DEF SameSecond
      <4>4. QED
        BY <2>4, <4>1, <4>2, <4>3, AnswersStand
    <3>3. QED
      BY <3>1, <3>2
  <2>8. Snapshots'
    <3>1. \A t, key : (Holds(t, key)' <=> Holds(t, key)) /\ (SameSecond(t)' <=> SameSecond(t))
      BY <2>4 DEF Holds, SameSecond
    <3>2. f # None => Holds(f, keyOf[r]) \/ SameSecond(f)
      BY <2>3 DEF f
    <3>3. data'[r] = f /\ pc'[r] = "load" /\ \A s \in Requests \ {r} : data'[s] = data[s] /\ pc'[s] = pc[s]
      BY <1>1, <2>4 DEF TypeOK
    <3>4. QED
      BY <2>4a, <3>1, <3>2, <3>3 DEF IInv, Snapshots
  <2>9. QED
    BY <2>5, <2>6, <2>7, <2>8 DEF IInv
<1>4. QED
  BY <1>2, <1>3

LEMMA HitInv ==
    ASSUME IInv, NEW r \in Requests, LoadHit(r)
    PROVE  IInv'
<1>1. TypeOK
  BY DEF IInv
<1> DEFINE f == files[data[r]]
<1>2. /\ got' = [got EXCEPT ![r] = f.by] /\ pc' = [pc EXCEPT ![r] = "cached"]
      /\ pc[r] = "load" /\ data[r] # None
      /\ UNCHANGED <<keyOf, clock, logExists, log, files, data, found, stamp>>
  BY DEF LoadHit, Readable, Goto
<1>3. data[r] \in Seconds /\ f.by \in Requests \cup {None}
  BY <1>1, <1>2 DEF TypeOK
<1>4. (keyOf[f.by] = keyOf[r] /\ found[f.by] = "result") \/ SameSecond(data[r])
  BY <1>2 DEF IInv, Snapshots, Holds, LoadHit, Readable
<1> HIDE DEF f
<1>5. TypeOK'
  BY <1>1, <1>2, <1>3 DEF TypeOK
<1>6. Answers' /\ Stamped' /\ Writers'
  BY <1>1, <1>2 DEF IInv, TypeOK, Answers, Stamped, Writers
<1>7. Saving' /\ LinesHold' /\ Snapshots'
  <2>1. Saving' /\ LinesHold'
    BY <1>1, <1>2 DEF IInv, TypeOK, Saving, LinesHold, Holds, SameSecond
  <2>2. Snapshots'
    BY <1>1, <1>2 DEF IInv, TypeOK, Snapshots, Holds, SameSecond
  <2>3. QED
    BY <2>1, <2>2
<1>8. CacheRight'
  <2> SUFFICES ASSUME NEW p \in Requests
               PROVE  /\ pc'[p] = "cached" => \/ keyOf[got'[p]] = keyOf[p] /\ found'[got'[p]] = "result"
                                              \/ SameSecond(data[p])'
                      /\ pc'[p] = "dead" => \/ keyOf[p] \in TextKeys /\ Saved(data[p], keyOf[p], "malformed")'
                                            \/ SameSecond(data[p])'
    BY <1>2 DEF CacheRight
  <2>1. SameSecond(data[p])' <=> SameSecond(data[p])
    BY <1>2 DEF SameSecond
  <2>2. Saved(data[p], keyOf[p], "malformed")' <=> Saved(data[p], keyOf[p], "malformed")
    BY <1>2 DEF Saved, Holds
  <2>3. CASE p = r
    BY <1>1, <1>2, <1>4, <2>1, <2>3 DEF TypeOK
  <2>4. CASE p # r
    <3>1. pc'[p] = pc[p] /\ got'[p] = got[p]
      BY <1>1, <1>2, <2>4 DEF TypeOK
    <3>2. QED
      BY <1>2, <2>1, <2>2, <3>1 DEF IInv, CacheRight
  <2>5. QED
    BY <2>3, <2>4
<1>9. QED
  BY <1>5, <1>6, <1>7, <1>8 DEF IInv

\* The steps of a save.
LEMMA StampInv ==
    ASSUME IInv, NEW r \in Requests, Stamp(r)
    PROVE  IInv'
<1>1. TypeOK /\ clock \in Seconds /\ None \notin Seconds
  BY CacheAssumption DEF IInv, TypeOK, Seconds
<1>2. /\ stamp' = [stamp EXCEPT ![r] = clock] /\ pc' = [pc EXCEPT ![r] = "open"]
      /\ pc[r] = "save" /\ stamp[r] = None
      /\ UNCHANGED <<keyOf, clock, logExists, log, files, data, found, got>>
  BY DEF Stamp, Goto, IInv, Stamped
<1>3. \A t \in Seconds : SameSecond(t) => SameSecond(t)'
  BY <1>1, <1>2, CollisionStays DEF TypeOK
<1>4. \A t \in Seconds : \A k : Holds(t, k) => Holds(t, k)'
  BY <1>2 DEF Holds
<1>5. TypeOK'
  BY <1>1, <1>2 DEF TypeOK
<1>6. Answers' /\ Stamped'
  BY <1>1, <1>2 DEF IInv, TypeOK, Answers, Stamped
<1>7. \A t \in Seconds : files[t].by # r
  BY <1>1, <1>2 DEF IInv, Writers
<1>8. Writers'
  BY <1>1, <1>2, <1>7 DEF IInv, TypeOK, Writers
<1>9. Saving'
  <2> SUFFICES ASSUME NEW p \in Requests
               PROVE  /\ pc'[p] = "write" => \/ files'[stamp'[p]] = [st |-> "part", by |-> p]
                                             \/ SameSecond(stamp[p])'
                      /\ pc'[p] = "append" => \/ files'[stamp'[p]] = [st |-> "whole", by |-> p]
                                              \/ SameSecond(stamp[p])'
    BY DEF Saving
  <2>1. CASE p = r
    BY <1>1, <1>2, <2>1 DEF TypeOK
  <2>2. CASE p # r /\ pc[p] \in {"write", "append"}
    <3>1. stamp'[p] = stamp[p] /\ pc'[p] = pc[p] /\ stamp[p] \in Seconds
      BY <1>1, <1>2, <2>2 DEF IInv, TypeOK, Stamped
    <3>2. SameSecond(stamp[p]) => SameSecond(stamp[p])'
      BY <3>1, <1>3 DEF SameSecond
    <3>3. QED
      BY <1>2, <3>1, <3>2 DEF IInv, Saving
  <2>3. CASE p # r /\ pc[p] \notin {"write", "append"}
    BY <1>1, <1>2, <2>3 DEF TypeOK
  <2>4. QED
    BY <2>1, <2>2, <2>3
<1>10. LinesHold'
  <2>1. \A i \in 1 .. Len(log) : log[i].file \in Seconds
    BY <1>1, Lines
  <2>2. QED
    BY <1>2, <1>3, <2>1 DEF IInv, LinesHold, Holds, SameSecond
<1>11. Snapshots' /\ CacheRight'
  <2>1. \A p \in Requests : data[p] \in Seconds \cup {None}
    BY <1>1 DEF TypeOK
  <2>2. Snapshots'
    BY <1>1, <1>2, <1>3, <2>1 DEF IInv, TypeOK, Snapshots, Holds, SameSecond
  <2>3. \A p \in Requests : pc'[p] \in {"cached", "dead"} => pc'[p] = pc[p]
    BY <1>1, <1>2 DEF TypeOK
  <2>4. CacheRight'
    BY <1>2, <1>3, <2>3, AnswersStand
  <2>5. QED
    BY <2>2, <2>4
<1>12. QED
  BY <1>5, <1>6, <1>8, <1>9, <1>10, <1>11 DEF IInv

\* Opening and writing a file may spoil what is in the file only if somebody
\* else saves in the same second.
LEMMA FileInv ==
    ASSUME IInv, NEW r \in Requests, OpenFile(r) \/ WriteFile(r)
    PROVE  IInv'
<1> DEFINE t == stamp[r]
<1>1. TypeOK /\ t \in Seconds /\ r \in DOMAIN pc /\ None \notin Requests
  BY CacheAssumption DEF IInv, TypeOK, Stamped, OpenFile, WriteFile
<1>2. PICK st \in {"part", "whole", "mixed"} :
        /\ files' = [files EXCEPT ![t] = [st |-> st, by |-> r]]
        /\ \/ st = "part" /\ pc[r] = "open" /\ pc' = [pc EXCEPT ![r] = "write"]
           \/ /\ st \in {"whole", "mixed"} /\ pc[r] = "write" /\ pc' = [pc EXCEPT ![r] = "append"]
              /\ files[t] = [st |-> "part", by |-> r] => st = "whole"
        /\ UNCHANGED <<keyOf, clock, logExists, log, data, found, stamp, got>>
  BY DEF OpenFile, WriteFile, Alone, Goto
<1>2a. keyOf' = keyOf
  BY <1>2
<1>3. \A u : SameSecond(u)' <=> SameSecond(u)
  BY <1>2 DEF SameSecond
<1>4. files[t].by \in Requests /\ files[t].by # r => SameSecond(t)
  BY <1>1 DEF IInv, Writers, SameSecond
<1>5. ASSUME ~ SameSecond(t) PROVE \A k : ~ Holds(t, k)
  <2>1. CASE pc[r] = "open"
    <3>1. files[t].by \notin Requests
      BY <1>1, <1>4, <1>5, <2>1 DEF IInv, Writers
    <3>2. QED
      BY <3>1 DEF Holds
  <2>2. CASE pc[r] = "write"
    <3>1. files[t] = [st |-> "part", by |-> r]
      BY <1>5, <2>2 DEF IInv, Saving
    <3>2. QED
      BY <3>1 DEF Holds
  <2>3. QED
    BY <1>2, <2>1, <2>2
<1> HIDE DEF t
<1>6. /\ files'[t] = [st |-> st, by |-> r]
      /\ \A u \in Seconds \ {t} : files'[u] = files[u]
  BY <1>1, <1>2 DEF TypeOK
<1>7. \A u \in Seconds : \A k : Holds(u, k) \/ SameSecond(u) => Holds(u, k)' \/ SameSecond(u)'
  <2> SUFFICES ASSUME NEW u \in Seconds, NEW k, Holds(u, k) \/ SameSecond(u)
               PROVE  Holds(u, k)' \/ SameSecond(u)'
    OBVIOUS
  <2>1. CASE SameSecond(u)
    BY <1>3, <2>1
  <2>2. CASE ~ SameSecond(u)
    <3>1. u # t
      BY <1>5, <2>2
    <3>2. QED
      BY <1>6, <2>2, <3>1, <1>2a DEF Holds
  <2>3. QED
    BY <2>1, <2>2
<1>8. TypeOK'
  <2>1. files' \in [Seconds -> [st : {"none", "part", "whole", "mixed"}, by : Requests \cup {None}]]
    BY <1>1, <1>2 DEF TypeOK
  <2>2. pc' \in [Requests -> {"new", "create", "read", "load", "search", "save", "open",
                             "write", "append", "cached", "done", "failed", "dead", "killed"}]
    BY <1>1, <1>2 DEF TypeOK
  <2>3. QED
    BY <1>1, <1>2, <2>1, <2>2 DEF TypeOK
<1>9. Answers' /\ Stamped'
  BY <1>1, <1>2 DEF IInv, TypeOK, Answers, Stamped
<1>10. Writers'
  <2> SUFFICES ASSUME NEW u \in Seconds
               PROVE  /\ files'[u].by \in Requests => stamp'[files'[u].by] = u
                      /\ files'[u].by \in Requests => pc'[files'[u].by] # "open" /\ found'[files'[u].by] # "none"
                      /\ files'[u].st = "whole" => files'[u].by \in Requests
    BY DEF Writers
  <2>1. CASE u = t
    <3>1. found[r] # "none"
      BY <1>2 DEF IInv, Answers
    <3>2. QED
      BY <1>1, <1>2, <1>6, <2>1, <3>1 DEF t
  <2>2. CASE u # t
    BY <1>1, <1>2, <1>6, <2>2 DEF IInv, TypeOK, Writers
  <2>3. QED
    BY <2>1, <2>2
<1>11. Saving'
  <2> SUFFICES ASSUME NEW p \in Requests
               PROVE  /\ pc'[p] = "write" => \/ files'[stamp'[p]] = [st |-> "part", by |-> p]
                                             \/ SameSecond(stamp[p])'
                      /\ pc'[p] = "append" => \/ files'[stamp'[p]] = [st |-> "whole", by |-> p]
                                              \/ SameSecond(stamp[p])'
    BY DEF Saving
  <2>1. CASE p = r
    <3>1. stamp'[p] = t /\ (SameSecond(stamp[p])' <=> SameSecond(t))
      BY <1>2, <1>3, <2>1 DEF t, SameSecond
    <3>2. CASE pc[r] = "open"
      BY <1>1, <1>2, <1>6, <2>1, <3>1, <3>2
    <3>3. CASE pc[r] = "write"
      <4>1. files[t] = [st |-> "part", by |-> r] \/ SameSecond(t)
        BY <3>3 DEF IInv, Saving, t
      <4>2. QED
        BY <1>1, <1>2, <1>6, <2>1, <3>1, <3>3, <4>1
    <3>4. QED
      BY <1>2, <3>2, <3>3
  <2>2. CASE p # r /\ pc[p] \in {"write", "append"}
    <3>1. stamp'[p] = stamp[p] /\ pc'[p] = pc[p] /\ stamp[p] \in Seconds
      BY <1>1, <1>2, <2>2 DEF IInv, TypeOK, Stamped
    <3>2. SameSecond(stamp[p])' <=> SameSecond(stamp[p])
      BY <1>2 DEF SameSecond
    <3>3. CASE stamp[p] = t
      BY <2>2, <3>2, <3>3, Collision DEF t
    <3>4. CASE stamp[p] # t
      BY <1>6, <2>2, <3>1, <3>2, <3>4 DEF IInv, Saving
    <3>5. QED
      BY <3>3, <3>4
  <2>3. CASE p # r /\ pc[p] \notin {"write", "append"}
    BY <1>1, <1>2, <2>3 DEF TypeOK
  <2>4. QED
    BY <2>1, <2>2, <2>3
<1>12. LinesHold'
  <2>1. \A i \in 1 .. Len(log) : log[i].file \in Seconds
    BY <1>1, Lines
  <2>2. QED
    BY <1>2, <1>7, <2>1 DEF IInv, LinesHold, Holds, SameSecond
<1>13. Snapshots'
  <2>1. \A p \in Requests : data[p] \in Seconds \cup {None}
    BY <1>1 DEF TypeOK
  <2>2. \A p \in Requests : pc'[p] \in {"cached", "dead"} => pc[p] \in {"cached", "dead"}
    BY <1>1, <1>2 DEF TypeOK
  <2>3. QED
    BY <1>2, <1>7, <2>1, <2>2 DEF IInv, Snapshots, Holds, SameSecond
<1>14. CacheRight'
  <2>1. \A p \in Requests : pc'[p] \in {"cached", "dead"} => pc'[p] = pc[p]
    BY <1>1, <1>2 DEF TypeOK
  <2>2. ASSUME NEW u \in Seconds, ~ SameSecond(u), files[u].st = "whole" PROVE files'[u] = files[u]
    <3>1. Holds(u, keyOf[files[u].by])
      BY <2>2 DEF IInv, Writers, Holds
    <3>2. u # t
      BY <1>5, <2>2, <3>1
    <3>3. QED
      BY <1>6, <3>2
  <2>3. \A u \in Seconds : SameSecond(u) => SameSecond(u)'
    BY <1>3
  <2>4. QED
    BY <1>2, <2>1, <2>2, <2>3, AnswersStand
<1>15. QED
  BY <1>8, <1>9, <1>10, <1>11, <1>12, <1>13, <1>14 DEF IInv

\* A process with nothing to write finds that somebody else has the file.
LEMMA NothingInv ==
    ASSUME IInv, NEW r \in Requests, WriteNothing(r)
    PROVE  IInv'
<1>1. TypeOK
  BY DEF IInv
<1>2. /\ pc' = [pc EXCEPT ![r] = "append"] /\ pc[r] = "write"
      /\ UNCHANGED <<keyOf, clock, logExists, log, files, data, found, stamp, got>>
  BY DEF WriteNothing, Goto
<1>3. SameSecond(stamp[r])
  BY DEF WriteNothing, Alone, IInv, Saving
<1>4. TypeOK'
  BY <1>1, <1>2 DEF TypeOK
<1>5. Answers' /\ Stamped' /\ Writers'
  BY <1>1, <1>2 DEF IInv, TypeOK, Answers, Stamped, Writers
<1>6. Saving'
  <2>1. \A p \in Requests : p # r => pc'[p] = pc[p]
    BY <1>1, <1>2 DEF TypeOK
  <2>2. SameSecond(stamp[r])'
    BY <1>2, <1>3 DEF SameSecond
  <2>3. pc'[r] = "append"
    BY <1>1, <1>2 DEF TypeOK
  <2>4. \A p \in Requests : SameSecond(stamp[p])' <=> SameSecond(stamp[p])
    BY <1>2 DEF SameSecond
  <2>5. QED
    BY <1>2, <2>1, <2>2, <2>3, <2>4 DEF IInv, Saving
<1>7. LinesHold' /\ Snapshots'
  <2>1. \A t, k : (Holds(t, k)' <=> Holds(t, k)) /\ (SameSecond(t)' <=> SameSecond(t))
    BY <1>2 DEF Holds, SameSecond
  <2>2. \A p \in Requests : pc'[p] \in {"cached", "dead"} => pc'[p] = pc[p]
    BY <1>1, <1>2 DEF TypeOK
  <2>3. LinesHold'
    BY <1>2, <2>1 DEF IInv, LinesHold
  <2>4. Snapshots'
    BY <1>2, <2>1, <2>2 DEF IInv, Snapshots
  <2>5. QED
    BY <2>3, <2>4
<1>8. CacheRight'
  <2>1. \A p \in Requests : pc'[p] \in {"cached", "dead"} => pc'[p] = pc[p]
    BY <1>1, <1>2 DEF TypeOK
  <2>2. \A t \in Seconds : SameSecond(t) => SameSecond(t)'
    BY <1>2 DEF SameSecond
  <2>3. QED
    BY <1>2, <2>1, <2>2, AnswersStand
<1>9. QED
  BY <1>4, <1>5, <1>6, <1>7, <1>8 DEF IInv

LEMMA AppendInv ==
    ASSUME IInv, NEW r \in Requests, AppendLog(r)
    PROVE  IInv'
<1> DEFINE l == [key |-> keyOf[r], file |-> stamp[r]]
<1>1. TypeOK /\ stamp[r] \in Seconds
  BY DEF IInv, Stamped, AppendLog
<1>2. /\ log' = Append(log, l) /\ logExists' = TRUE
      /\ pc' = [pc EXCEPT ![r] = pc'[r]] /\ pc'[r] \in {"done", "failed"} /\ pc[r] = "append"
      /\ UNCHANGED <<keyOf, clock, files, data, found, stamp, got>>
  BY <1>1 DEF AppendLog, Goto, TypeOK
<1>3. l.key = keyOf[r] /\ l.file = stamp[r]
      /\ l \in [key : {keyOf[p] : p \in Requests}, file : Seconds]
  BY <1>1
<1> HIDE DEF l
<1>4. TypeOK'
  BY <1>1, <1>2, <1>3 DEF TypeOK
<1>5. Answers' /\ Stamped' /\ Writers'
  BY <1>1, <1>2 DEF IInv, TypeOK, Answers, Stamped, Writers
<1>6. Saving'
  <2>1. \A p \in Requests : pc'[p] \in {"write", "append"} => pc'[p] = pc[p]
    BY <1>1, <1>2 DEF TypeOK
  <2>2. \A p \in Requests : SameSecond(stamp[p])' <=> SameSecond(stamp[p])
    BY <1>2 DEF SameSecond
  <2>3. QED
    BY <1>2, <2>1, <2>2 DEF IInv, Saving
<1>7. LinesHold'
  <2>1. Holds(l.file, l.key) \/ SameSecond(l.file)
    <3>1. files[stamp[r]] = [st |-> "whole", by |-> r] \/ SameSecond(stamp[r])
      BY <1>2 DEF IInv, Saving
    <3>2. QED
      BY <1>3, <3>1 DEF Holds
  <2>2. /\ Len(log) \in Nat /\ Len(log') = Len(log) + 1 /\ log'[Len(log) + 1] = l
        /\ \A i \in 1 .. Len(log) : log'[i] = log[i]
    BY <1>1, <1>2 DEF TypeOK
  <2>3. ASSUME NEW i \in 1 .. Len(log')
        PROVE  Holds(log'[i].file, log'[i].key) \/ SameSecond(log'[i].file)
    <3>1. CASE i \in 1 .. Len(log)
      BY <2>2, <3>1 DEF IInv, LinesHold
    <3>2. CASE i = Len(log) + 1
      BY <2>1, <2>2, <3>2
    <3>3. QED
      BY <2>2, <3>1, <3>2
  <2>4. QED
    BY <1>2, <2>3 DEF LinesHold, Holds, SameSecond
<1>8. Snapshots'
  BY <1>1, <1>2 DEF IInv, TypeOK, Snapshots, Holds, SameSecond
<1>9. CacheRight'
  <2>1. \A p \in Requests : pc'[p] \in {"cached", "dead"} => pc'[p] = pc[p]
    BY <1>1, <1>2 DEF TypeOK
  <2>2. \A t \in Seconds : SameSecond(t) => SameSecond(t)'
    BY <1>2 DEF SameSecond
  <2>3. QED
    BY <1>2, <2>1, <2>2, AnswersStand
<1>10. QED
  BY <1>4, <1>5, <1>6, <1>7, <1>8, <1>9 DEF IInv

LEMMA NextInv == IInv /\ [Next]_vars => IInv'
<1> SUFFICES ASSUME IInv, [Next]_vars PROVE IInv'
  OBVIOUS
<1>1. ASSUME UNCHANGED <<keyOf, logExists, log, files, pc, data, found, stamp, got>>, clock' \in Seconds
      PROVE  IInv'
  <2>1. TypeOK'
    BY <1>1 DEF IInv, TypeOK
  <2>2. \A t \in Seconds : SameSecond(t) => SameSecond(t)'
    BY <1>1 DEF SameSecond
  <2>3. CacheRight'
    BY <1>1, <2>2, AnswersStand
  <2>4. QED
    BY <1>1, <2>1, <2>3 DEF IInv, Answers, Stamped, Writers, Saving, LinesHold, Snapshots,
                            Holds, SameSecond
<1>2. CASE Tick \/ UNCHANGED vars
  <2>1. clock' \in Seconds
    BY <1>2, CacheAssumption DEF Tick, vars, IInv, TypeOK, Seconds
  <2>2. QED
    BY <1>1, <1>2, <2>1 DEF Tick, vars
<1>3. ASSUME NEW r \in Requests,
             \/ CheckLog(r) \/ CreateLog(r) \/ ReadLog(r)
             \/ LoadMiss(r) \/ LoadHit(r) \/ LoadIgnored(r) \/ LoadDies(r) \/ LoadEmpty(r)
             \/ SearchFound(r) \/ ClusteringFails(r) \/ SearchUnsaved(r)
             \/ Stamp(r) \/ OpenFile(r) \/ WriteFile(r) \/ WriteNothing(r) \/ AppendLog(r)
             \/ Kill(r)
      PROVE  IInv'
  BY <1>3, LocalInv, LogInv, HitInv, AnswerInv, StampInv, FileInv, NothingInv, AppendInv
<1>4. QED
  BY <1>2, <1>3 DEF Next

LEMMA Invariance == Spec => []IInv
  BY InitInv, NextInv, PTL DEF Spec

-----------------------------------------------------------------------------
\* The type invariant.
THEOREM Typing == Spec => []TypeOK
<1>1. IInv => TypeOK
  BY DEF IInv
<1>2. QED
  BY <1>1, Invariance, PTL

\* A save that is killed at any point leaves no line without its file: a line
\* of the log leads to a complete result for its key, or its second was shared,
\* or it is the line of a clustering whose request to the service failed.
THEOREM CrashSafe == Spec => []LinesLeadToResults
<1>1. IInv => LinesLeadToResults
  <2> SUFFICES ASSUME IInv, NEW i \in 1 .. Len(log), ~ SameSecond(log[i].file)
               PROVE  \/ Saved(log[i].file, log[i].key, "result")
                      \/ /\ log[i].key \in TextKeys
                         /\ \/ Saved(log[i].file, log[i].key, "malformed")
                            \/ Saved(log[i].file, log[i].key, "nothing")
    BY DEF LinesLeadToResults
  <2> DEFINE t == log[i].file
             q == files[t].by
  <2>1. Holds(t, log[i].key)
    BY DEF IInv, LinesHold
  <2>2. t \in Seconds
    BY Lines DEF IInv
  <2>3. q \in Requests /\ keyOf[q] = log[i].key
    BY <2>1 DEF Holds
  <2>4. found[q] \in {"result", "malformed", "nothing"}
    BY <2>2, <2>3 DEF IInv, TypeOK, Writers
  <2>5. found[q] \in {"malformed", "nothing"} => log[i].key \in TextKeys
    BY <2>3 DEF IInv, Answers
  <2>6. QED
    BY <2>1, <2>4, <2>5 DEF Saved
<1>2. QED
  BY <1>1, Invariance, PTL

\* A cached answer is a result for the query it answers, and no request dies in
\* load, unless two saves fell in the same second or a malformed reply of the
\* clustering service was saved for the query.
THEOREM CachedAnswers == Spec => []CacheRight
<1>1. IInv => CacheRight
  BY DEF IInv
<1>2. QED
  BY <1>1, Invariance, PTL
=============================================================================
