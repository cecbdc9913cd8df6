CONSTANTS
    Tags = {"sym"}
    SymbolTags = {"sym"}
    NoTag = NoTag
    Clients = {c1}
    Prefixes = {1, 2}
    LongestName <- MCLongestName
    MaxPublish = 2
    MaxFaults = 0
    MaxRestarts = 0
    Relinking = FALSE
SPECIFICATION FairSpec
PROPERTY ChangesServed
CHECK_DEADLOCK FALSE
