\* Four requests in two seconds, so that saves fall in the same second and in
\* different ones.
CONSTANTS
    r1 = r1
    r2 = r2
    r3 = r3
    r4 = r4
    ka = ka
    kb = kb
    kc = kc
    None = None
    Requests <- MCRequests
    Workloads <- MCWorkloads
    TextKeys <- MCTextKeys
    LastSecond = 1
SPECIFICATION Spec
SYMMETRY MCSymmetry
INVARIANT TypeOK
INVARIANT LinesLeadToResults
INVARIANT CacheRight
\* The run ends when every request has ended.
CHECK_DEADLOCK FALSE
