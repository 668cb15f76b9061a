\* heap_5, 32-bit geometry: tables of two regions in a 72-byte arena, accepted
\* and refused, and the lazy layout after a refused table.
CONSTANTS
    N = 72
    ALIGN = 8
    LINK = 8
    WORD_MOD = 256
    USIZE_MAX = 255
    U32_MOD = 256
    GENERATION_MOD = 256
    Base = 8
    Wanted = {1, 9, 16, 40}
    Tables <- RegionTables
    RawOffsets = {}
    RawPointers = {}
    Fill = {}
    NotFilled = NotFilled
    MaxAllocs = 4
SPECIFICATION Spec
INVARIANTS
    ListOrdered
    ServesWhatFits
PROPERTIES
    ImplementsFirstFit
