CONSTANTS
    F1 = F1
    NULL = NULL
    Unallocated = Unallocated
    EmptyPage = 0
    NumBufs = 3
    Files <- MCFiles
    PageNos <- MCPageNos

SPECIFICATION Spec

\* A behaviour is one call; after the return the call has nothing to do.
CHECK_DEADLOCK FALSE

INVARIANTS
    TypeOK

PROPERTIES
    AllocBufReturns
    AllocBufRefined
