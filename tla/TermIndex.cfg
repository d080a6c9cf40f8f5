CONSTANTS
    Terms = {1, 2, 3, 4, 5}
    Stores <- MCStores
    Postings <- MCPostings
    Lists <- MCLists
    DocIds = {0, 1, 2, 3, 4}
    Slots = 5
    Threshold = 2
    MapLimit = 3
SPECIFICATION Spec
INVARIANT LookupRight
PROPERTY ImplementsDocSet
CHECK_DEADLOCK FALSE
