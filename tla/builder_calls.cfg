\* Aliases of closed containers only, and an immutable property that changes.
CONSTANTS
    a1 = a1
    k1 = k1
    Element = Element
    Null = Null
    Key = {k1}
    Anchor = {a1}
    Container = {"mapping"}
    ContainerBelow = {"mapping", "sequence"}
    Immutables = {FALSE, TRUE}
    AliasesOpen = FALSE
    MaxNodes = 3
    MaxFields = 2
    MaxOwned = 1
SPECIFICATION Spec
INVARIANTS RefsExact Acyclic HalfBuiltUnseen SealedClosed
PROPERTIES NamedValuesArrive SealedFrozen
