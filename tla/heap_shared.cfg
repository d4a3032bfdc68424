\* Two threads share nodes of one mapping: no sequence.
CONSTANTS
    n1 = n1
    n2 = n2
    m1 = m1
    k1 = k1
    t1 = t1
    t2 = t2
    x = x
    y = y
    Null = Null
    Node = {n1, n2}
    Mapping = {m1}
    Sequence = {}
    Key = {k1}
    MaxLength = 0
    Thread = {t1, t2}
    Variable = {x, y}
    BorrowedArguments = FALSE
SPECIFICATION FairSpec
INVARIANTS NoDangling CallsTouchLiveObjects
PROPERTIES SealedFrozen DestructorsEnd CallsReturn ImplementsOwnership
\* The few addresses can all leak through cycles: then the system stops.
CHECK_DEADLOCK FALSE
