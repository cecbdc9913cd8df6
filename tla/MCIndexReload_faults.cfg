CONSTANTS
    DataFiles = {"files", "symbol-details", "hash-details"}
    MaxVersion = 2
    Latest = Latest
    MaxUpgrades = 1
    MaxKills = 0
    MaxFaults = 1
SPECIFICATION HistorySpec
INVARIANT SettledWhole
