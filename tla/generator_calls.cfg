CONSTANTS
    Node = {n1}
    Document = {d1}
    Write = {w1, w2}
    File = {w1}
    Option = {o1, o2}
    MaxEdits = 1
    Null = Null
SPECIFICATION FairSpec
INVARIANTS RefsExact AnswersAreTrue
PROPERTIES WritesEnd
CHECK_DEADLOCK FALSE
