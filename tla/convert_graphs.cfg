\* One document with three nodes - every graph of sequences of two elements, with a
\* mapping of two pairs as the root and of one pair below it - or two documents
\* with two nodes each, composed at the same addresses.
CONSTANTS
    y1 = y1
    y2 = y2
    y3 = y3
    k1 = k1
    Complex = Complex
    Element = Element
    Null = Null
    InProgress = InProgress
    YNode = {y1, y2, y3}
    Key = {k1}
    Root = y1
    MaxElements = 2
    MaxPairs = 2
    MaxPairsBelow = 1
    MaxDocuments = 2
    Immutable = TRUE
SPECIFICATION MCSpec
INVARIANTS RefsExact ConvertedOnce Faithful NothingElseLeft OwnNodes
PROPERTIES AnnouncedStays ParseEnds
\* A parse ends.
CHECK_DEADLOCK FALSE
