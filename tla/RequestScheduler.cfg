\* Three scheduled requests and one of an installation without scheduling; the
\* bounds let a request give up before and after a lock file gets stale.
CONSTANTS
    r1 = r1
    r2 = r2
    r3 = r3
    r4 = r4
    NoLock = NoLock
    Processes <- MCProcesses
    Unscheduled <- MCUnscheduled
    MaxNumOfRetry = 1
    StaleAge = 2
SPECIFICATION FairSpec
INVARIANT SchedulerTypeOK
INVARIANT NoOrphanLock
PROPERTY EveryRequestEnds
PROPERTY OrphanRemoved
\* The run ends when every request has ended.
CHECK_DEADLOCK FALSE
