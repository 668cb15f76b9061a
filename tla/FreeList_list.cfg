\* Three sizes, five grants: long enough to fragment a region into three free
\* blocks, refill the holes, and absorb a marker.
CONSTANTS
    Tables <- MC_Tables
    WholeArena <- MC_WholeArena
    Sizes = {1, 2, 3}
    MINIMUM_BLOCK_SIZE = 1
    MaxGrants = 5
SPECIFICATION Spec
INVARIANTS TypeOK ListOrdered
PROPERTIES ImplementsFirstFit CallsReturn
\* A behaviour that has made its MaxGrants grants and released them all ends.
CHECK_DEADLOCK FALSE
