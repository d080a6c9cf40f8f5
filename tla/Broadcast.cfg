CONSTANTS
    s1 = s1
    s2 = s2
    s3 = s3
    Servers = {s1, s2, s3}
    Pages <- MCPages
    Finds <- MCFinds
    Options <- MCOptions
    NUM_OF_RETURN_DOCUMENTS = 2
    Close = 1
    NoServer = NoServer
    NoTitle = "no title."
SPECIFICATION Spec
INVARIANT RepliesCounted
INVARIANT AnswerRight
PROPERTY Answered
CHECK_DEADLOCK FALSE
