CONSTANTS
    HF = HF
    I1 = I1
    S1 = S1
    S2 = S2
    NULL = NULL
    Unallocated = Unallocated
    Deleted = Deleted
    EmptyPage <- MCEmptyPage
    NumBufs = 5
    Files <- MCFiles
    PageNos <- MCPageNos
    ScanHandles <- MCScanHandles
    InsertHandles <- MCInsertHandles
    Filters <- MCFilters
    SlotsPerPage = 1
    MaxRecs = 3
    WriteFaults = FALSE
    ReadFaults = FALSE
    MarkAnywhere = FALSE

SPECIFICATION Spec

INVARIANT
    HeaderDurable
