\* Two regions that abut.
CONSTANTS
    N = 72
    ALIGN = 8
    LINK = 8
    WORD_MOD = 256
    USIZE_MAX = 255
    U32_MOD = 256
    GENERATION_MOD = 256
    Base = 8
    Wanted = {1, 9}
    Tables <- AbuttingOnly
    RawOffsets = {}
    RawPointers = {}
    Fill = {}
    NotFilled = NotFilled
    MaxAllocs = 2
SPECIFICATION Spec
INVARIANTS
    AbuttingRegionsCoalesce
CHECK_DEADLOCK FALSE
