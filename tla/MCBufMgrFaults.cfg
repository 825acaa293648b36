CONSTANTS
    F1 = F1
    c1 = c1
    c2 = c2
    NULL = NULL
    Unallocated = Unallocated
    EmptyPage = 0
    NumBufs = 2
    Files <- MCFiles
    Clients <- MCClient
    PageNos <- MCPageNos
    InitPages <- MCInitPages
    MaxVersion = 1
    MaxPins = 1
    WriteFaults = TRUE
    ReadFaults = TRUE
    HashFaults = TRUE

SPECIFICATION Spec

INVARIANTS
    HashTableConsistent
    PinsMatchHolders

PROPERTIES
    VictimNeverPinned
