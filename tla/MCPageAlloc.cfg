SPECIFICATION Spec
CONSTANTS
    MAX_ORDER = 4
    lowmem_page_frames = 8
    page_frames = 11
    BootFree <- MCAllPages
    GarbageOrders <- MCGarbageOrders
INVARIANTS
    IInv
    BlocksPartitionPages
    MergesOnlyFreeBuddies
    FreeAssertHolds
    NoFalseExhaustion
    FreeListsCanonical
PROPERTIES
    ImplementsPool
