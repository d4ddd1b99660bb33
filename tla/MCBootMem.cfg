SPECIFICATION FairSpec
CONSTANTS
    BOOT_MEM_RANGES = 3
    AddrLimit = 16
    MaxAddr = 7
    MaxReserved = 5
    MemoryRanges <- MCMemoryRanges
    ReservedRanges <- MCReservedRanges
    Requests <- MCRequests
    Queries <- MCQueries
INVARIANTS
    ListsOK
    FindsLowestFit
PROPERTIES
    RangesExact
    AllocationsDisjoint
    FindReturns
