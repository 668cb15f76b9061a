-------------------------------- MODULE Heap1 --------------------------------
(***************************************************************************)
(* heap1.rs: an arena that is only ever handed out, front to back.         *)
(***************************************************************************)
EXTENDS Integers

CONSTANTS
    N,          \* bytes of the arena
    ALIGN,      \* portBYTE_ALIGNMENT
    USIZE_MAX,  \* usize::MAX, scaled
    Wanted      \* the request sizes callers make

ASSUME SizesAssumption ==
    /\ N \in Nat
    /\ ALIGN \in Nat \ {0}
    /\ USIZE_MAX \in Nat
    /\ N <= USIZE_MAX
    /\ Wanted \subseteq 0..USIZE_MAX

VARIABLES
    next_free,    \* xNextFreeByte
    allocations,
    granted       \* what callers were handed: where, and how much they asked

vars == <<next_free, allocations, granted>>

ADJUSTED_SIZE == IF N > ALIGN THEN N - ALIGN ELSE 0

Init ==
    /\ next_free = 0
    /\ allocations = 0
    /\ granted = {}

\* Mutant: the request rounded down.
Rounded_Down(wanted) == wanted - (wanted % ALIGN)

\* The request rounded up to the alignment; 0 when the rounding overflows.
Rounded(wanted) ==
    LET up == wanted + (ALIGN - (wanted % ALIGN))
    IN  IF wanted % ALIGN = 0 THEN wanted
        ELSE IF up <= USIZE_MAX THEN up ELSE 0

\* Mutant: the end of the arena is not looked at.
Fits_NoBound(wanted) ==
    /\ Rounded(wanted) # 0
    /\ next_free + Rounded(wanted) <= USIZE_MAX

Fits(wanted) ==
    /\ Rounded(wanted) # 0
    /\ next_free + Rounded(wanted) <= USIZE_MAX
    /\ next_free + Rounded(wanted) < ADJUSTED_SIZE

Alloc(wanted) ==
    /\ Fits(wanted)
    /\ next_free' = next_free + Rounded(wanted)
    /\ allocations' = IF allocations < USIZE_MAX THEN allocations + 1 ELSE allocations
    /\ granted' = granted \cup {[at |-> next_free, wanted |-> wanted]}

AllocNone(wanted) ==
    /\ ~ Fits(wanted)
    /\ UNCHANGED vars

\* free is always Unsupported.
FreeUnsupported(grant) == UNCHANGED vars

Next ==
    \/ \E wanted \in Wanted : Alloc(wanted) \/ AllocNone(wanted)
    \/ \E grant \in granted : FreeUnsupported(grant)

Spec == Init /\ [][Next]_vars

\* Mutant: the bytes the C keeps back for aligning its heap are reported free.
free_bytes_Whole == N - next_free
free_bytes == IF ADJUSTED_SIZE > next_free THEN ADJUSTED_SIZE - next_free ELSE 0

\* What bytes_mut and address_of answer a caller for an offset it was handed.
bytes_mut(offset, len) ==
    IF offset + len <= USIZE_MAX /\ offset + len <= N THEN "Ok" ELSE "InvalidArgument"
address_of(offset) == IF offset < N THEN "Some" ELSE "None"

-----------------------------------------------------------------------------
TypeOK ==
    /\ next_free \in 0..N
    /\ allocations \in Nat
    /\ granted \subseteq [at : Nat, wanted : Nat]

\* What a caller asked for is its own: no two grants share a byte, each starts
\* on the alignment, and none reaches the bytes the C keeps back for aligning
\* its heap (a request whose rounding overflows is not granted as a small one);
\* bytes_mut and address_of reach every byte of it.
GrantsAreOwn ==
    \A g \in granted :
        /\ \A h \in granted :
            g # h => g.at + g.wanted <= h.at \/ h.at + h.wanted <= g.at
        /\ g.at % ALIGN = 0
        /\ g.wanted > 0
        /\ g.at + g.wanted <= next_free
        /\ next_free < ADJUSTED_SIZE
        /\ bytes_mut(g.at, g.wanted) = "Ok" /\ address_of(g.at) = "Some"

\* Whatever is not granted is still reported free, and a request strictly
\* smaller than what is reported, alignment included, is served.
ReportIsHonest ==
    /\ next_free + free_bytes = ADJUSTED_SIZE
    /\ \A wanted \in Wanted \ {0} :
        wanted + ALIGN <= free_bytes => Fits(wanted)
=============================================================================
