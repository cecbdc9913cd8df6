SPECIFICATION Spec
CONSTANTS
    Labels <- MCLabels
    NameOf <- MCNameOf
    Size = 3
    Ranges <- MCRanges
    MaxTags = 3
    OrderBits = 4
    IntHalf = 15
INVARIANTS TypeOK Nested Placed
CHECK_DEADLOCK FALSE
