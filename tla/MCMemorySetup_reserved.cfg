SPECIFICATION FairSetupSpec
CONSTANTS
    BOOT_MEM_RANGES = 6
    AddrLimit = 128
    MemoryRanges = {}
    ReservedRanges = {}
    Requests = {}
    Queries = {}
    PAGE_SIZE = 4
    SizeofPage = 1
    LOWMEM_PAGE_FRAMES = 15
    KernelImage <- MCKernelImage
    Maps <- MCMaps
CHECK_DEADLOCK FALSE
INVARIANT FreedPagesAreFree
