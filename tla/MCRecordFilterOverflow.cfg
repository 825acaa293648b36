CONSTANTS
    NoFilter = NoFilter
    Offsets <- MCOffsets
    Lengths <- MCLengths
    RecLengths <- MCRecLengths
    IntVals <- MCIntVals
    StrVals <- MCStrVals

SPECIFICATION Spec

INVARIANT
    IntegerFilterOrdersValues
