CONSTANTS
    F1 = F1
    c1 = c1
    c2 = c2
    NULL = NULL
    Unallocated = Unallocated
    EmptyPage = 0
    NumBufs = 2
    Files <- MCFiles
    Clients <- MCClients
    PageNos <- MCPageNos
    InitPages <- MCInitPages
    MaxVersion = 1
    MaxPins = 1
    WriteFaults = FALSE
    ReadFaults = FALSE
    HashFaults = FALSE

SYMMETRY ClientSymmetry

SPECIFICATION Spec

INVARIANTS
    TypeOK
    HashTableConsistent
    PinsMatchHolders
    NoLostUpdate

PROPERTIES
    VictimNeverPinned
    FlushFileEvicts
    StoreRefined
