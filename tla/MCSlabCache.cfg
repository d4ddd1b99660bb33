SPECIFICATION Spec
CONSTANTS
    PAGE_SIZE = 8
    SizeofSlab = 4
    SizeofBitmap = 1
    CHAR_BIT = 8
    Caches = {"small", "large"}
    ObjectSize <- MCObjectSize
    Alignment <- MCAlignment
    MAX_ORDER = 2
    lowmem_page_frames = 8
    BootFree <- MCBootFree
INVARIANTS
    TypeOK
    SlabsOnRightList
    BitmapsMatchObjects
    ObjectsDisjoint
    FreeFindsSlab
    NoBlockLeaked
    DestroyAssertsHold
