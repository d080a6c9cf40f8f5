CONSTANTS
    r = r
    a = a
    b = b
    Bang = Bang
    Blank = Blank
    Bad = Bad
    Newline = Newline
    Names = {r, a, b, Bang}
    relayTags = {r}
    Sessions <- MCSessions
    Annotations <- MCAnnotations
SPECIFICATION Spec
INVARIANT TypeOK
INVARIANT MergeRight
INVARIANT Merge2Right
INVARIANT VerifyRight
INVARIANT RoundTrip
INVARIANT ReferencesRight
INVARIANT ExportRight
INVARIANT UniteInverse
