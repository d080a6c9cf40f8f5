CONSTANTS
    r = r
    a = a
    b = b
    Bang = Bang
    Blank = Blank
    Bad = Bad
    Newline = Newline
    Names = {r, a, b, Bang}
    relayTags = {r}
    Sessions <- ClipSessions
    Annotations <- MCAnnotations
SPECIFICATION Spec
INVARIANT PositionsRestored
