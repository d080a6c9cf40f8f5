-------------------------- MODULE RequestScheduler --------------------------
(***************************************************************************)
(* Admission of search requests on the master server: cgi/State.pm (the    *)
(* lock file) and the part of SearchEngine::search in cgi/SearchEngine.pm   *)
(* that uses it.  Every request is a CGI process of its own; the only thing *)
(* the processes share is the lock file, a symbolic link at a fixed path.   *)
(* A step of the model is one system call on the link, one sleep, or the     *)
(* search itself (broadcastSearch and the saving of its result).             *)
(***************************************************************************)
EXTENDS Naturals

CONSTANTS
    Processes,     \* the CGI processes
    Unscheduled,   \* those of an installation with DISABLE_REQUEST_SCHEDULING 1
    MaxNumOfRetry, \* MAX_NUM_OF_RETRY; 0 means retry for ever
    StaleAge,      \* seconds after which a lock file is removed (300)
    NoLock         \* the lock file does not exist

ASSUME SchedulerAssumption ==
    /\ Unscheduled \subseteq Processes
    /\ MaxNumOfRetry \in Nat
    /\ StaleAge \in Nat
    /\ NoLock \notin Processes

VARIABLES
    phase,     \* where each process is
    lock,      \* NoLock, or the process that created the link that exists
    age,       \* seconds since the link was made, StaleAge + 1 for anything older
    count,     \* the failed attempts of the retry loop of checkIn
    rested,    \* the process has slept its second
    checkIn    \* the checkIn field of the process's State object

schedulerVars == <<phase, lock, age, count, rested, checkIn>>

SchedulerInit ==
    /\ phase = [r \in Processes |-> "new"]
    /\ lock = NoLock
    /\ age = 0
    /\ count = [r \in Processes |-> 0]
    /\ rested = [r \in Processes |-> FALSE]
    /\ checkIn = [r \in Processes |-> FALSE]

Enter(r, l) == phase' = [phase EXCEPT ![r] = l]

\* unlink of the lock file, whoever made it.
Unlink == lock' = NoLock /\ age' = 0

\* symlink succeeds: nobody else's link is there.
Acquire(r) ==
    /\ lock = NoLock
    /\ lock' = r
    /\ age' = 0
    /\ checkIn' = [checkIn EXCEPT ![r] = TRUE]
    /\ Enter(r, "search")

-----------------------------------------------------------------------------
(* Mutated steps, used to show that the properties below can fail.            *)

\* The failed attempts are not counted.
RetryUncounted(r) ==
    /\ phase[r] = "retry"
    /\ \/ Acquire(r) /\ UNCHANGED <<count, rested>>
       \/ /\ lock # NoLock
          /\ rested' = [rested EXCEPT ![r] = FALSE]
          /\ Enter(r, "sleep")
          /\ UNCHANGED <<lock, age, count, checkIn>>

\* One round more before giving up.
WakeLate(r) ==
    /\ phase[r] = "sleep"
    /\ rested[r]
    /\ Enter(r, IF count[r] > MaxNumOfRetry + 1 /\ MaxNumOfRetry > 0 THEN "busy" ELSE "retry")
    /\ UNCHANGED <<lock, age, count, rested, checkIn>>

\* The destructor leaves the lock file alone.
DieKeepsLock(r) ==
    /\ phase[r] = "search"
    /\ Enter(r, "dead")
    /\ UNCHANGED <<lock, age, count, rested, checkIn>>

\* A request removes only the lock file it made.
CheckOutOwn(r) ==
    /\ phase[r] \in {"searched", "busy"}
    /\ IF lock = r THEN Unlink ELSE UNCHANGED <<lock, age>>
    /\ Enter(r, "done")
    /\ UNCHANGED <<count, rested, checkIn>>

-----------------------------------------------------------------------------
\* SearchEngine::search found no cached result and makes a State object.
Begin(r) ==
    /\ phase[r] = "new"
    /\ Enter(r, IF r \in Unscheduled THEN "search" ELSE "symlink")
    /\ UNCHANGED <<lock, age, count, rested, checkIn>>

\* checkIn: the first attempt.
Symlink(r) ==
    /\ phase[r] = "symlink"
    /\ \/ Acquire(r)
       \/ lock # NoLock /\ Enter(r, "lstat") /\ UNCHANGED <<lock, age, checkIn>>
    /\ UNCHANGED <<count, rested>>

\* The link's age decides whether it is removed.  If the link is gone by now,
\* lstat returns nothing and the age computed is the whole of the epoch.
Lstat(r) ==
    /\ phase[r] = "lstat"
    /\ Enter(r, IF lock = NoLock \/ age > StaleAge THEN "unlink" ELSE "retry")
    /\ UNCHANGED <<lock, age, count, rested, checkIn>>

UnlinkStale(r) ==
    /\ phase[r] = "unlink"
    /\ Unlink
    /\ Enter(r, "retry")
    /\ UNCHANGED <<count, rested, checkIn>>

\* The condition of the retry loop, and on failure the start of its body.  With
\* MAX_NUM_OF_RETRY 0 the count is never looked at, and is kept at 0.
Retry(r) ==
    /\ phase[r] = "retry"
    /\ \/ Acquire(r) /\ UNCHANGED <<count, rested>>
       \/ /\ lock # NoLock
          /\ count' = [count EXCEPT ![r] = IF MaxNumOfRetry = 0 THEN 0 ELSE @ + 1]
          /\ rested' = [rested EXCEPT ![r] = FALSE]
          /\ Enter(r, "sleep")
          /\ UNCHANGED <<lock, age, checkIn>>

\* After sleep(1): give up, or go round the loop.
Wake(r) ==
    /\ phase[r] = "sleep"
    /\ rested[r]
    /\ Enter(r, IF count[r] > MaxNumOfRetry /\ MaxNumOfRetry > 0 THEN "busy" ELSE "retry")
    /\ UNCHANGED <<lock, age, count, rested, checkIn>>

\* broadcastSearch returns and its result is cached.
EndSearch(r) ==
    /\ phase[r] = "search"
    /\ Enter(r, "searched")
    /\ UNCHANGED <<lock, age, count, rested, checkIn>>

\* The process dies in the search: the State object is destroyed on the way out.
Die(r) ==
    /\ phase[r] = "search"
    /\ IF checkIn[r] THEN Unlink ELSE UNCHANGED <<lock, age>>
    /\ Enter(r, "dead")
    /\ UNCHANGED <<count, rested, checkIn>>

\* The process is killed: nothing is cleaned up.
KillProcess(r) ==
    /\ phase[r] \in {"symlink", "lstat", "unlink", "retry", "sleep", "search", "searched", "busy"}
    /\ Enter(r, "killed")
    /\ UNCHANGED <<lock, age, count, rested, checkIn>>

\* checkOut is called after a search and after a refusal alike, and removes the
\* link that is there.
CheckOut(r) ==
    /\ phase[r] \in {"searched", "busy"}
    /\ Unlink
    /\ Enter(r, "done")
    /\ UNCHANGED <<count, rested, checkIn>>

\* A second passes: the link gets older, and whoever sleeps has slept.
SecondPasses ==
    /\ \/ lock # NoLock /\ age <= StaleAge
       \/ \E r \in Processes : phase[r] = "sleep" /\ ~ rested[r]
    /\ age' = IF lock # NoLock /\ age <= StaleAge THEN age + 1 ELSE age
    /\ rested' = [r \in Processes |-> rested[r] \/ phase[r] = "sleep"]
    /\ UNCHANGED <<phase, lock, count, checkIn>>

Run(r) == \/ Symlink(r) \/ Lstat(r) \/ UnlinkStale(r) \/ Retry(r)
          \/ Wake(r) \/ EndSearch(r) \/ CheckOut(r)

SchedulerNext ==
    \/ SecondPasses
    \/ \E r \in Processes : Begin(r) \/ Run(r) \/ Die(r) \/ KillProcess(r)

\* Time passes; the operating system runs every process; every search comes to
\* an end.  Nobody is obliged to arrive (Begin), to die or to be killed.
Fairness == /\ WF_schedulerVars(SecondPasses)
            /\ \A r \in Processes : WF_schedulerVars(Run(r))

SchedulerSpec == SchedulerInit /\ [][SchedulerNext]_schedulerVars
FairSpec == SchedulerSpec /\ Fairness

-----------------------------------------------------------------------------
\* The link that exists was made by a process that has been killed.
Orphan == lock # NoLock /\ phase[lock] = "killed"

Live(r) == phase[r] \notin {"new", "done", "dead", "killed"}

\* The type of the state; a process gives up at the latest after one attempt
\* more than MAX_NUM_OF_RETRY.
SchedulerTypeOK ==
    /\ phase \in [Processes -> {"new", "symlink", "lstat", "unlink", "retry", "sleep", "search",
                               "searched", "busy", "done", "dead", "killed"}]
    /\ lock \in Processes \cup {NoLock}
    /\ age \in 0 .. StaleAge + 1
    /\ count \in [Processes -> 0 .. MaxNumOfRetry + 1]
    /\ rested \in [Processes -> BOOLEAN]
    /\ checkIn \in [Processes -> BOOLEAN]

\* A lock file outlives the process that made it only if that process was
\* killed: neither a normal end nor a die in the search leaves one behind
\* (checkOut, DESTROY), however the links of several processes were mixed up.
NoOrphanLock == lock # NoLock => phase[lock] \in {"search", "searched", "killed"}

\* A request that waits for the lock, or searches, comes to an end: with a
\* positive MAX_NUM_OF_RETRY no lock file, not even that of a killed process,
\* holds it for ever.
EveryRequestEnds == \A r \in Processes : Live(r) ~> ~ Live(r)

\* The lock file of a killed process is removed by the next request that meets
\* it and is not killed too: by the 300 second rule, or at the latest by the
\* checkOut of that request when it is refused.
OrphanRemoved == \A r \in Processes :
    (Orphan /\ phase[r] \in {"lstat", "retry"}) ~> (~ Orphan \/ phase[r] = "killed")

-----------------------------------------------------------------------------
(* What the documentation says, and the code does not do.                     *)

\* configure.in, DISABLE_REQUEST_SCHEDULING 0: while the master server searches, a
\* new request is not processed before that search has ended.
OneSearch == \A r, s \in Processes \ Unscheduled :
    phase[r] = "search" /\ phase[s] = "search" => r = s

\* State.pm, checkIn: a lock file older than 300 seconds is removed; so a
\* request that keeps meeting one while it retries should see it go.
StaleLockRemoved == \A r \in Processes :
    (lock # NoLock /\ age > StaleAge /\ phase[r] = "retry")
        ~> (lock = NoLock \/ age <= StaleAge \/ ~ Live(r))
=============================================================================
