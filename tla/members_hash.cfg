\* Mappings with more keys than a hash looks at.
CONSTANTS
    m1 = m1
    m2 = m2
    q1 = q1
    k1 = k1
    k2 = k2
    n1 = n1
    n2 = n2
    Null = Null
    Mapping = {m1, m2}
    Sequence = {q1}
    Key = {k1, k2}
    Node = {n1, n2}
    HashedKeys = 1
    MaxLength = 2
    MaxRemovals = 1
SPECIFICATION Spec
INVARIANTS EqualHashesAlike
