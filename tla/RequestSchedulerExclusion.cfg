\* With the limit of 300 seconds no lock is stale by a long search in the shortest
\* counterexample: the lock that is taken for a stale one is gone at lstat, and a new
\* one is there at unlink.
CONSTANTS
    r1 = r1
    r2 = r2
    r3 = r3
    r4 = r4
    NoLock = NoLock
    Processes <- MCScheduled
    Unscheduled = {}
    MaxNumOfRetry = 1
    StaleAge = 300
SPECIFICATION SchedulerSpec
INVARIANT OneSearch
CHECK_DEADLOCK FALSE
