\* Two or three regions or the whole arena, requests of 2 to 5 cells.
CONSTANTS
    Layouts <- MC_Layouts
    WholeArena <- MC_WholeArena
    Sizes = {2, 3, 5}
    MINIMUM_BLOCK_SIZE = 2
    MaxGrants = 5
SPECIFICATION Spec
INVARIANTS
    TypeOK
    NoOverlap
    Tiling
    Coalesced
    RoomIsFree
    InOneRegion
PROPERTIES
    LowNeverRises
\* A behaviour that has made its MaxGrants grants and released them all ends.
CHECK_DEADLOCK FALSE
