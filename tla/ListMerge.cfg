CONSTANTS
    leafA = leafA
    MaxId = 4
    DocIds = {0, 1, 2, 3, 4}
    Leaves = {leafA}
    Lists <- MCLists
SPECIFICATION ListSpec
INVARIANT ListTypeOK
INVARIANT ResultAscending
INVARIANT AndCorrect
INVARIANT OrCorrect
INVARIANT DupCorrect
CHECK_DEADLOCK FALSE
