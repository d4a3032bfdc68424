\* The argument of set_mapping is a borrowed pointer.
CONSTANTS
    n1 = n1
    n2 = n2
    m1 = m1
    k1 = k1
    t1 = t1
    t2 = t2
    x = x
    y = y
    Null = Null
    Node = {n1, n2}
    Mapping = {m1}
    Sequence = {}
    Key = {k1}
    MaxLength = 0
    Thread = {t1, t2}
    Variable = {x, y}
    BorrowedArguments = TRUE
SPECIFICATION Spec
INVARIANTS CallsTouchLiveObjects
CHECK_DEADLOCK FALSE
