\* One thread, three nodes, a mapping and a sequence.
CONSTANTS
    n1 = n1
    n2 = n2
    n3 = n3
    m1 = m1
    q1 = q1
    k1 = k1
    t1 = t1
    x = x
    y = y
    Null = Null
    Node = {n1, n2, n3}
    Mapping = {m1}
    Sequence = {q1}
    Key = {k1}
    MaxLength = 2
    Thread = {t1}
    Variable = {x, y}
    BorrowedArguments = FALSE
SPECIFICATION Spec
INVARIANTS TypeOK RefCountsExact SealedClosed LeaksOnlyBelowCycles
SYMMETRY HeapSymmetry
\* The few addresses can all leak through cycles: then the system stops.
CHECK_DEADLOCK FALSE
