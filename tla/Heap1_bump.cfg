\* A 40-byte arena aligned to 4; sizes that round, that fill it exactly, that
\* overflow the rounding and that overflow the sum.
CONSTANTS
    N = 40
    ALIGN = 4
    USIZE_MAX = 63
    Wanted = {0, 1, 3, 4, 6, 9, 12, 27, 36, 60, 61, 63}
SPECIFICATION Spec
INVARIANTS
    TypeOK
    GrantsAreOwn
    ReportIsHonest
