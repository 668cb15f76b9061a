\* Five allocations of two sizes, and requests for nothing.
CONSTANTS
    U32_MOD = 6
    Wanted = {0, 1, 5}
    Empty = Empty
    MaxAllocs = 5
SPECIFICATION Spec
INVARIANTS
    TypeOK
    HeldNamesItsBytes
    LiveBytesAddUp
    SlotsTrackPeak
PROPERTIES
    ImplementsHandles
