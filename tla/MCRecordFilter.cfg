CONSTANTS
    NoFilter = NoFilter
    Offsets <- MCOffsets
    Lengths <- MCLengths
    RecLengths <- MCRecLengths
    IntVals <- MCIntVals
    StrVals <- MCStrVals

SPECIFICATION Spec

INVARIANTS
    TypeOK
    MatchRecAgreesWithSpec
    MatchRecReadsDefinedBytes
