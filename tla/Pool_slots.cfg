\* Three blocks, up to four frees.
CONSTANTS
    BLOCKS = 3
    U32_MOD = 6
    MaxFrees = 4
    Zeroed = Zeroed
    Foreign <- MC_Foreign
SPECIFICATION Spec
INVARIANTS
    TypeOK
    StackIsTheFreeBlocks
    OneHolder
    AgreesWithItself
PROPERTIES
    ImplementsHandles
