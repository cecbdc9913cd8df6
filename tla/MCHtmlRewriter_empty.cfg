SPECIFICATION Spec
CONSTANTS
    Labels <- MCLabels
    NameOf <- MCNameOf
    Size = 3
    Ranges <- MCCode
    MaxTags = 2
    OrderBits = 1024
    IntHalf = 1048576
INVARIANT EmptyNested
CHECK_DEADLOCK FALSE
