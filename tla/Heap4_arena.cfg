\* heap_4, 32-bit geometry: 8-byte headers in a 64-byte arena at address 100,
\* words of 8 bits, generations that wrap at 3, so that a fourth allocation
\* reuses the first's.  Callers free Blocks, and C callers bare offsets and
\* pointers, into the arena and around it.
CONSTANTS
    N = 64
    ALIGN = 8
    LINK = 8
    WORD_MOD = 256
    USIZE_MAX = 255
    U32_MOD = 256
    GENERATION_MOD = 3
    Base = 100
    Wanted = {0, 1, 9, 20, 48, 130, 250}
    Tables <- NoTables
    RawOffsets = {0, 4, 8, 12, 16, 24, 32, 40, 48, 56, 64, 72}
    RawPointers = {0, 99, 100, 104, 108, 116, 124, 148, 164, 172}
    Fill = {85}
    NotFilled = NotFilled
    MaxAllocs = 4
SPECIFICATION Spec
INVARIANTS
    TypeOK
    ListOrdered
    HeldCanBeFreed
    StaleIsRefused
    ServesWhatFits
    PayloadKept
    CallsBalance
    RawFreesOnlyHeld
PROPERTIES
    ImplementsFirstFit
