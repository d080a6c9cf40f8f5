CONSTANTS
    ProxDists = {1, 2}
    MaxPos = 3
    MaxOccurs = 3
    Queries <- MCQueries
SPECIFICATION Spec
CHECK_DEADLOCK FALSE
INVARIANT PhraseHasPosition
