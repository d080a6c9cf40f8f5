\* The accept loop with three connections, under the fairness of the scheduler
\* and of the clients.
CONSTANTS
    c1 = c1
    c2 = c2
    c3 = c3
    ta = ta
    tb = tb
    tz = tz
    NoClient = NoClient
    Clients <- MCClients
    Terms <- MCTerms
    Queries <- MCQueries
    Addr <- MCAddr
    Index <- MCIndex
SPECIFICATION FairSpec
INVARIANT TypeOK
INVARIANT OneChild
INVARIANT OwnPostings
PROPERTY ImplementsSerialSearch
PROPERTY EveryConnectionEnds
\* All clients served (or the server gone) is the end of the run.
CHECK_DEADLOCK FALSE
