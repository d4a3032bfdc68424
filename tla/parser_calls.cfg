\* Two loads, one in a handler or callback of the other, or both in the main loop.
CONSTANTS
    l1 = l1
    l2 = l2
    Null = Null
    Load = {l1, l2}
    Stream = {l1}
    MaxDocuments = 2
    MaxDepth = 2
    MaxOwned = 1
    TrustsSteal = FALSE
SPECIFICATION FairSpec
INVARIANTS RefsExact NoDangling AnswerIsTrue
PROPERTIES SealedKeepsRoot LoadsEnd
CHECK_DEADLOCK FALSE
