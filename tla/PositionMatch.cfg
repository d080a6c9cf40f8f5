CONSTANTS
    ProxDists = {1, 2}
    MaxPos = 4
    MaxOccurs = 2
    Queries <- MCQueries
SPECIFICATION Spec
CHECK_DEADLOCK FALSE
INVARIANTS TypeOK Sound NothingMissed PositionsAscend
PROPERTY Returns
