\* An immutable builder and aliases of open containers.
CONSTANTS
    a1 = a1
    k1 = k1
    Element = Element
    Null = Null
    Key = {k1}
    Anchor = {a1}
    Container = {"mapping", "sequence"}
    ContainerBelow = {"mapping", "sequence"}
    Immutables = {TRUE}
    AliasesOpen = TRUE
    MaxNodes = 3
    MaxFields = 2
    MaxOwned = 1
SPECIFICATION Spec
PROPERTIES NamedValuesArrive
