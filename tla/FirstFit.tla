------------------------------ MODULE FirstFit ------------------------------
(***************************************************************************)
(* What Heap4 and Heap5 promise their caller, without headers, links or    *)
(* counters: an arena of disjoint regions is cut into spans; a request is  *)
(* granted the lowest free span that fits; a released span joins the free  *)
(* spans it touches.  heap4.rs keeps the free spans as a linked list       *)
(* through the arena itself (module Heap4); that module is shown to        *)
(* implement this one.                                                     *)
(***************************************************************************)
EXTENDS Integers, FiniteSets

CONSTANTS
    Layouts,            \* the sets of regions an initialiser can lay out
    WholeArena,         \* the layout the first alloc falls back on (Heap4::init)
    Sizes,              \* block sizes, header included, that requests round to
    MINIMUM_BLOCK_SIZE, \* a remainder must be larger than this to be split off
    MaxGrants           \* bound: how many grants a behaviour makes

Span == [at : Nat, size : Nat \ {0}]

End(s) == s.at + s.size
Apart(s, t) == End(s) <= t.at \/ End(t) <= s.at
Touches(s, t) == End(s) = t.at
Cells(S) == UNION {s.at .. End(s) - 1 : s \in S}

\* A layout is a finite set of regions with something (an end marker) between
\* any two of them.
IsLayout(L) ==
    /\ L \subseteq Span
    /\ IsFiniteSet(L)
    /\ \A r, s \in L : r # s => Apart(r, s) /\ ~ Touches(r, s)

ASSUME LayoutsAssumption == \A L \in Layouts \cup {WholeArena} : IsLayout(L)
ASSUME SizesAssumption == Sizes \subseteq Nat \ {0}
ASSUME MinimumAssumption == MINIMUM_BLOCK_SIZE \in Nat
ASSUME GrantsAssumption == MaxGrants \in Nat

VARIABLES
    arena,    \* the regions laid out; {} until the heap is initialised
    free,     \* the free spans
    live,     \* the granted spans, each with the grant it belongs to
    granted,  \* how many grants were made (Heap4::allocations)
    room,     \* Heap4::free_bytes
    low       \* Heap4::minimum_ever_free

vars == <<arena, free, live, granted, room, low>>

\* What a caller was granted, for what request, and the number of the grant.
Grant == [at : Nat, size : Nat \ {0}, need : Nat \ {0}, id : Nat \ {0}]

Init ==
    /\ arena = {}
    /\ free = {}
    /\ live = {}
    /\ granted = 0
    /\ room = 0
    /\ low = 0

-----------------------------------------------------------------------------
(* Operations.                                                             *)

\* Heap4::define_regions, and Heap4::init when the alloc that runs it is then
\* refused.
LayOut(L) ==
    /\ arena = {}
    /\ arena' = L
    /\ free' = L
    /\ room' = Cardinality(Cells(L))
    /\ low' = room'
    /\ UNCHANGED <<live, granted>>

\* The address-ordered first fit among the free spans F.
FirstFitting(F, s, need) ==
    /\ s \in F
    /\ s.size >= need
    /\ \A t \in F : t.size >= need => s.at <= t.at

\* Mutant: whatever remains is split off, also nothing.
Remainder_Always(s, need) == {[at |-> s.at + need, size |-> s.size - need]}

\* A remainder that is worth a block of its own stays free.
Remainder(s, need) ==
    IF s.size - need > MINIMUM_BLOCK_SIZE
    THEN {[at |-> s.at + need, size |-> s.size - need]}
    ELSE {}

\* Mutants: the size of a split block is not cut; the bytes of a block that is
\* not split are forgotten.
Taken_Whole(s, need) == s.size
Taken_Request(s, need) == need
Taken(s, need) == IF Remainder(s, need) = {} THEN s.size ELSE need

\* Grants are numbered to tell them apart.  The number is this module's own: it
\* is in no Block and never wraps, where heap4.rs' next_generation does.
NextId == granted + 1

\* Heap4::alloc answering Some.  F, A, r and l are the free spans, the arena,
\* the room and the low-water mark once the heap is laid out.
GrantFrom(F, A, r, l, need) ==
    /\ granted < MaxGrants
    /\ granted' = granted + 1
    /\ \E s \in F :
        /\ FirstFitting(F, s, need)
        /\ arena' = A
        /\ free' = (F \ {s}) \cup Remainder(s, need)
        /\ live' = live \cup
                {[at |-> s.at, size |-> Taken(s, need), need |-> need,
                  id |-> NextId]}
        /\ room' = r - Taken(s, need)
        /\ low' = IF room' < l THEN room' ELSE l

Alloc(need) ==
    /\ arena # {}
    /\ GrantFrom(free, arena, room, low, need)

\* The first alloc of a heap nobody laid out runs Heap4::init on its way.
FirstAlloc(need) ==
    /\ arena = {}
    /\ LET whole == Cardinality(Cells(WholeArena))
       IN  GrantFrom(WholeArena, WholeArena, whole, whole, need)

\* Mutants: a released span is not joined with the one before; it is joined
\* across an end marker.
Before_None(g) == {}
Before_OverMarker(g) == {f \in free : End(f) \in {g.at - 1, g.at}}
Before(g) == {f \in free : Touches(f, g)}
After(g) == {f \in free : Touches(g, f)}

\* The released span, joined with the free spans it touches.
Merged(g) ==
    LET lo == IF Before(g) = {} THEN g.at ELSE (CHOOSE f \in Before(g) : TRUE).at
        hi == IF After(g) = {} THEN End(g) ELSE End(CHOOSE f \in After(g) : TRUE)
    IN  [at |-> lo, size |-> hi - lo]

\* Mutants: the released bytes are not counted; the low-water mark follows the
\* room up.
Free_NotCounted(g) ==
    /\ live' = live \ {g}
    /\ free' = (free \ (Before(g) \cup After(g))) \cup {Merged(g)}
    /\ UNCHANGED <<arena, granted, room, low>>
Free_LowFollows(g) ==
    /\ live' = live \ {g}
    /\ free' = (free \ (Before(g) \cup After(g))) \cup {Merged(g)}
    /\ room' = room + g.size
    /\ low' = room'
    /\ UNCHANGED <<arena, granted>>

\* Heap4::free or Heap4::free_raw answering Ok.
Free(g) ==
    /\ live' = live \ {g}
    /\ free' = (free \ (Before(g) \cup After(g))) \cup {Merged(g)}
    /\ room' = room + g.size
    /\ UNCHANGED <<arena, granted, low>>

Next ==
    \/ \E L \in Layouts \cup {WholeArena} : LayOut(L)
    \/ \E need \in Sizes : Alloc(need) \/ FirstAlloc(need)
    \/ \E g \in live : Free(g)

Spec == Init /\ [][Next]_vars

-----------------------------------------------------------------------------
(* What the heap promises.                                                 *)

\* Every span is a non-empty range of bytes and every grant carries the number
\* of the allocation that made it.
TypeOK ==
    /\ arena \subseteq Span
    /\ free \subseteq Span
    /\ live \subseteq Grant
    /\ granted \in Nat
    /\ room \in Nat
    /\ low \in Nat

\* No byte belongs to two blocks: not to two callers, not to a caller and the
\* free list (alloc never hands out what is live, free never frees it twice).
NoOverlap ==
    /\ \A f, e \in free : f # e => Apart(f, e)
    /\ \A g, h \in live : g # h => Apart(g, h) /\ g.id # h.id
    /\ \A f \in free, g \in live : Apart(f, g)

\* Nothing leaks and nothing is invented: every byte of the regions is in a
\* free or a granted block and no block reaches outside them (splitting and
\* coalescing lose no byte, and no gap between regions is ever handed out).
Tiling == Cells(arena) = Cells(free \cup live)

\* Free neighbours are always one block: insert_into_free_list joins a freed
\* block with both neighbours, so a request fails only when no run of free
\* bytes inside a region is long enough.
Coalesced == \A f, e \in free : ~ Touches(f, e)

\* The counter a caller reads as free_bytes is the number of free bytes, and
\* minimum_ever_free is never above it.
RoomIsFree == room = Cardinality(Cells(free)) /\ low <= room

\* Every block lies in one region: no allocation and no coalescing crosses the
\* end marker or the gap between two regions.
InOneRegion ==
    \A s \in free \cup live : \E r \in arena : r.at <= s.at /\ End(s) <= End(r)

\* minimum_ever_free never rises once the heap is laid out: it is the low-water
\* mark a firmware sizes its arena by.
LowNeverRises == [][arena # {} => low' <= low]_vars
=============================================================================
