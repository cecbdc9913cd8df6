CONSTANTS
    Tags = {"tree", "sym"}
    SymbolTags = {"sym"}
    NoTag = NoTag
    Clients = {c1, c2}
    Prefixes = {1}
    LongestName <- MCLongestName
    MaxPublish = 2
    MaxFaults = 1
    MaxRestarts = 0
    Relinking = FALSE
SPECIFICATION FairSpec
INVARIANTS ChangedNotAhead
PROPERTIES ChangesServed SearchesAnswered
