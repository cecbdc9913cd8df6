SPECIFICATION Spec
CONSTANTS
    Places <- MCPlaces
    PlaceFile <- MCPlaceFile
    PathLength <- MCPathLength
    Names <- MCNames
    NameLength <- MCNameLength
    HashOf <- MCHashOf
    Hashes <- MCHashes
    Kinds <- MCKinds
    Providers <- MCProviders
    Uses <- MCUses
    Queries <- MCQueries
    Skips = {0, 1}
    MaxRecords = 4
    MaxResults = 2
    Word = 3
INVARIANT BestFirst
CHECK_DEADLOCK FALSE
