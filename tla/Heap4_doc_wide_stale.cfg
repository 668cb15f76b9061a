\* heap_4, 16-byte headers on an 8-byte alignment, after 22 allocations: a stale
\* Block whose header overlaps a freed block's size and its payload.
CONSTANTS
    N = 136
    ALIGN = 8
    LINK = 16
    WORD_MOD = 4096
    USIZE_MAX = 4095
    U32_MOD = 256
    GENERATION_MOD = 256
    Base = 8
    Wanted = {1, 16}
    Tables <- NoTables
    RawOffsets = {}
    RawPointers = {}
    Fill = {2730}
    NotFilled = NotFilled
    MaxAllocs = 26
SPECIFICATION SpecAfterRounds
INVARIANTS
    StaleIsRefused
CHECK_DEADLOCK FALSE
