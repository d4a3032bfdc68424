\* The program unreferences what yaml_parser_steal_document returns.
CONSTANTS
    l1 = l1
    Null = Null
    Load = {l1}
    Stream = {}
    MaxDocuments = 1
    MaxDepth = 1
    MaxOwned = 1
    TrustsSteal = TRUE
SPECIFICATION Spec
INVARIANTS NoDangling
CHECK_DEADLOCK FALSE
