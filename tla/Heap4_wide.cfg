\* heap_4 and heap_5, 64-bit geometry on an 8-byte alignment: 16-byte headers
\* that may start in the middle of a stale one; words of 12 bits.  Generation 24
\* is given to a block when blocks of 24 bytes are freed, the payload word is 24
\* and so are offsets.  C callers pass offsets half a header and more off the
\* blocks, but not 120 and 128, half a header past a last end marker's.
CONSTANTS
    N = 136
    ALIGN = 8
    LINK = 16
    WORD_MOD = 4096
    USIZE_MAX = 4095
    U32_MOD = 256
    GENERATION_MOD = 256
    Base = 8
    Wanted = {1, 16, 104}
    Tables <- WideTables
    RawOffsets = {24, 32, 56, 80, 104, 136}
    RawPointers = {}
    Fill = {24}
    NotFilled = NotFilled
    MaxAllocs = 27
SPECIFICATION SpecAfterRounds
INVARIANTS
    OnlyHeldAreTaken
    PayloadKept
PROPERTIES
    ImplementsFirstFit
\* A behaviour that has made its MaxAllocs allocations and freed them all ends.
CHECK_DEADLOCK FALSE
