\* 64-bit geometry on an 8-byte alignment: 16-byte headers, words of 12 bits.
CONSTANTS
    N = 96
    ALIGN = 8
    LINK = 16
    WORD_MOD = 4096
    USIZE_MAX = 4095
    U32_MOD = 256
    GENERATION_MOD = 256
    Base = 8
    Wanted = {1, 24}
    Tables <- NoTables
    RawOffsets = {0, 16, 24, 48, 88, 96}
    RawPointers = {}
    Fill = {}
    NotFilled = NotFilled
    MaxAllocs = 2
SPECIFICATION Spec
INVARIANTS
    RawFreesOnlyHeld
CHECK_DEADLOCK FALSE
