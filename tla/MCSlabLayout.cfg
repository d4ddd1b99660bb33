SPECIFICATION LayoutSpec
CONSTANTS
    PAGE_SIZE = 4096
    SizeofSlab = 16
    SizeofBitmap = 4
    CHAR_BIT = 8
CHECK_DEADLOCK FALSE
INVARIANTS
    LayoutSound
