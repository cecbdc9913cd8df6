CONSTANTS
    Tags = {"tree", "sym"}
    SymbolTags = {"sym"}
    NoTag = NoTag
    Clients = {c1, c2}
    Prefixes = {1, 2}
    LongestName <- MCLongestName
    MaxPublish = 2
    MaxFaults = 1
    MaxRestarts = 1
    Relinking = TRUE
SPECIFICATION Spec
SYMMETRY MCSymmetry
INVARIANTS TypeOK ServerInv LocksAccounted SearchNeverOlder
PROPERTIES SwapAlone ImplementsStore
CHECK_DEADLOCK FALSE
