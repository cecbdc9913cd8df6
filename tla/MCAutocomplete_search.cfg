SPECIFICATION Spec
CONSTANTS
    Texts <- MCTexts
    Empty = ""
    Lower <- MCLower
    StartsWith <- MCStartsWith
    Unformattable <- MCUnformattable
    Suggestions <- MCSuggestions
    ValueOf <- MCValueOf
    AnswersTo <- MCAnswersTo
    Options <- MCOptions
    Nothing = Nothing
    Missing = Missing
    Root = "(project root)"
    MaxRequests = 1
    MaxIndex = 2
INVARIANTS TypeOK LatestAnswer ListInStep
PROPERTIES MovesToShown
CHECK_DEADLOCK FALSE
