CONSTANTS
    Nodes <- MCNodes
    Docs = {1, 2}
    Root = 1
    NULL = NULL
    Trees <- MCTrees
    RmFiles = {{}, {2}}
SPECIFICATION Spec
CHECK_DEADLOCK FALSE
INVARIANTS TypeOK PruningExact ResultRight AlwaysDefined
PROPERTY Ends
