------------------------- MODULE MCRequestScheduler -------------------------
(* Three requests, and one of an installation that shares the lock file and   *)
(* does not schedule.                                                         *)
EXTENDS RequestScheduler

CONSTANTS r1, r2, r3, r4
MCScheduled == {r1, r2, r3}
MCProcesses == {r1, r2, r3, r4}
MCUnscheduled == {r4}
=============================================================================
