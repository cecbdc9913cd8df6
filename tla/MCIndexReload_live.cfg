CONSTANTS
    DataFiles = {"files", "symbol-details"}
    MaxVersion = 3
    Latest = Latest
    MaxUpgrades = 1
    MaxKills = 1
    MaxFaults = 0
SPECIFICATION FairHistorySpec
INVARIANT TypeOK
PROPERTIES LatestServed VersionsServed
