CONSTANTS
    Tags = {"tree", "sym"}
    SymbolTags = {"sym"}
    NoTag = NoTag
    Clients = {c1, c2}
    Prefixes = {1}
    LongestName <- MCLongestName
    MaxPublish = 2
    MaxFaults = 0
    MaxRestarts = 0
    Relinking = FALSE
SPECIFICATION Spec
INVARIANT PageShowsResult
