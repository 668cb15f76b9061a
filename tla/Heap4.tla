-------------------------------- MODULE Heap4 --------------------------------
(***************************************************************************)
(* heap4.rs: heap_4's allocator over an arena that holds its own block     *)
(* headers, and heap_5's, which is the same allocator laid out over        *)
(* several regions by define_regions.                                      *)
(*                                                                         *)
(* The arena is an array of header-sized words.  A block starts with two   *)
(* words, its link and its raw size; the top bit of the raw size says it   *)
(* is allocated, and an allocated block's link holds its generation.  The  *)
(* callers are part of the model: they hold Blocks, write their payload,   *)
(* free blocks they hold and blocks they freed before.                     *)
(***************************************************************************)
EXTENDS Integers, Sequences, FiniteSets, FiniteSetsExt, SequencesExt

CONSTANTS
    N,           \* bytes of the arena
    ALIGN,       \* portBYTE_ALIGNMENT
    LINK,        \* sizeof( BlockLink_t )
    WORD_MOD,    \* a stored word holds 0..WORD_MOD-1 (2^32 or 2^64, scaled)
    USIZE_MAX,   \* usize::MAX, scaled
    U32_MOD,     \* 2^32, scaled: a Block's offset saturates below it
    GENERATION_MOD, \* 2^32, scaled on its own: generations wrap at it
    Base,        \* the address of the arena
    Wanted,      \* the request sizes callers make
    Tables,      \* the region tables callers pass to define_regions
    RawOffsets,  \* offsets a C caller passes to free_raw
    RawPointers, \* addresses a C caller passes to vPortFree
    Fill,        \* the words callers write into their payload
    NotFilled,   \* a payload its caller has not written
    MaxAllocs    \* bound: successful allocations in a behaviour

SatSub(a, b) == IF a > b THEN a - b ELSE 0
align_down(v) == v - (v % ALIGN)
align_up(v) == align_down(IF v + ALIGN - 1 > USIZE_MAX THEN USIZE_MAX
                          ELSE v + ALIGN - 1)

STRUCT_SIZE == align_up(LINK)
WORD == STRUCT_SIZE \div 2
MINIMUM_BLOCK_SIZE == 2 * STRUCT_SIZE
ALLOCATED_BIT == WORD_MOD \div 2
NONE == WORD_MOD - 1
U32_MAX == U32_MOD - 1

\* GEOMETRY_FITS, and what the scaled words must still hold: an offset into
\* the arena never looks like NONE and never has the allocated bit.  No object
\* is larger than half the address space.
ASSUME GeometryFits ==
    /\ {N, ALIGN, LINK, WORD_MOD, USIZE_MAX, U32_MOD} \subseteq Nat \ {0}
    /\ STRUCT_SIZE \in {8, 16}
    /\ ALIGN % WORD = 0
    /\ WORD_MOD % 2 = 0
    /\ N < ALLOCATED_BIT
    /\ 2 * N <= USIZE_MAX
    /\ GENERATION_MOD \in 2..WORD_MOD
\* An arena lies in the address space and not at address 0.
ASSUME ArenaHasAddresses ==
    /\ Base \in Nat \ {0}
    /\ Base + N <= USIZE_MAX
\* Callers pass numbers; the calls of a behaviour fit the counters.
ASSUME CallersAssumption ==
    /\ Wanted \subseteq Nat
    /\ Tables \subseteq Seq([start : Nat, size : Nat])
    /\ RawOffsets \subseteq Nat
    /\ RawPointers \subseteq Nat
    /\ Fill \subseteq 0..WORD_MOD - 1
    /\ MaxAllocs \in 0..USIZE_MAX

VARIABLES
    heap,   \* struct Heap4
    held,   \* the Blocks callers hold, each with the number of its allocation,
            \* the size asked for and what was written into it
    stale,  \* the Blocks callers have given back, with the allocations' numbers
    arena   \* the regions the heap was laid out over

vars == <<heap, held, stale, arena>>

New ==
    [store |-> [w \in 0..(N \div WORD) - 1 |-> 0],
     start_next |-> NONE,
     end |-> NONE,
     free_bytes |-> 0,
     minimum_ever_free |-> 0,
     allocations |-> 0,
     frees |-> 0,
     initialised |-> FALSE,
     next_generation |-> 1]

Init ==
    /\ heap = New
    /\ held = {}
    /\ stale = {}
    /\ arena = {}

-----------------------------------------------------------------------------
(* Headers.  A header that does not lie in the arena reads as two zeros    *)
(* and is not written.                                                     *)

InArena(offset) == offset + STRUCT_SIZE <= N
Slot(offset, word) == offset \div WORD + word

header_of(h, offset) ==
    IF InArena(offset)
    THEN [next |-> h.store[Slot(offset, 0)], size |-> h.store[Slot(offset, 1)]]
    ELSE [next |-> 0, size |-> 0]

write_word(h, offset, word, value) ==
    IF InArena(offset)
    THEN [h EXCEPT !.store[Slot(offset, word)] = value % WORD_MOD]
    ELSE h

set_next(h, offset, value) == write_word(h, offset, 0, value)
set_raw_size(h, offset, value) == write_word(h, offset, 1, value)
set_header(h, offset, next, size) ==
    set_raw_size(set_next(h, offset, next), offset, size)

Unmarked(raw) == raw % ALLOCATED_BIT
Marked(raw) == (raw \div ALLOCATED_BIT) % 2 = 1
\* Mutant: the allocated bit taken for part of the size.
size_of_Raw(h, offset) == header_of(h, offset).size
size_of(h, offset) == Unmarked(header_of(h, offset).size)
is_allocated(h, offset) == Marked(header_of(h, offset).size)

\* NONE stands for xStart, which is not in the arena.
set_next_from(h, iterator, value) ==
    IF iterator = NONE THEN [h EXCEPT !.start_next = value]
    ELSE set_next(h, iterator, value)

next_of(h, offset) == header_of(h, offset).next

\* The nodes a walk of the free list visits, in order, up to the NONE that the
\* end marker's link holds; Hops bounds a list that does not end.
Hops == N \div ALIGN + 1
Walk(h) ==
    LET follow == [visited \in Seq(0..NONE) |->
                    IF Last(visited) = NONE THEN visited
                    ELSE Append(visited, next_of(h, Last(visited)))]
        path[i \in 0..Hops] == IF i = 0 THEN <<h.start_next>> ELSE follow[path[i - 1]]
    IN  path[Hops]
Previous(walk, i) == IF i = 1 THEN NONE ELSE walk[i - 1]

-----------------------------------------------------------------------------
(* Initialisers.                                                           *)

\* Heap4::init, which every alloc runs first.
init(h) ==
    LET end == align_down(SatSub(N, STRUCT_SIZE))
        marked == set_header(h, end, NONE, 0)
    IN  IF h.initialised THEN h
        ELSE [set_header(marked, 0, end, end) EXCEPT
                !.initialised = TRUE,
                !.start_next = 0,
                !.end = end,
                !.free_bytes = end,
                !.minimum_ever_free = end]

\* Where a region's first block and end marker go.
RegionStart(region) == align_up(region.start)
RegionTop(region) ==
    RegionStart(region) + SatSub(region.size, RegionStart(region) - region.start)
RegionEnd(region) == align_down(SatSub(RegionTop(region), STRUCT_SIZE))
RegionFits(region) ==
    /\ RegionTop(region) <= N
    /\ RegionEnd(region) > RegionStart(region)
    /\ RegionEnd(region) + STRUCT_SIZE <= N
RegionSpan(region) ==
    [at |-> RegionStart(region), size |-> RegionEnd(region) - RegionStart(region)]

\* Mutant: regions taken in any order.
InOrder_Any(previous, start) == TRUE
InOrder(previous, start) == previous = NONE \/ start > previous

\* Mutant: every region starts the list, and the ones before are lost.
Thread_Restart(h, previous, start) == [h EXCEPT !.start_next = start]
\* The first region's block starts the list, another's follows the marker before.
Thread(h, previous, start) == set_next_from(h, previous, start)

\* One turn of define_regions' loop.  A refused region ends it; what the turns
\* before wrote stays written.
LayRegion(lay, region) ==
    LET start == RegionStart(region)
        end == RegionEnd(region)
        marked == set_header(lay.heap, end, NONE, 0)
        blocked == set_header(marked, start, end, end - start)
        linked == Thread(blocked, lay.previous, start)
    IN  IF lay.refused \/ ~ RegionFits(region) \/ ~ InOrder(lay.previous, start)
        THEN [lay EXCEPT !.refused = TRUE]
        ELSE [heap |-> [linked EXCEPT !.end = end],
              previous |-> end,
              total |-> lay.total + (end - start),
              refused |-> FALSE]

LayTable(h, table) ==
    FoldLeft(LayRegion,
             [heap |-> h, previous |-> NONE, total |-> 0, refused |-> FALSE],
             table)

Accepted(h, table) == ~ h.initialised /\ table # <<>> /\ ~ LayTable(h, table).refused

DefineRegions(table) ==
    /\ ~ heap.initialised
    /\ table # <<>>
    /\ LET lay == LayTable(heap, table)
       IN  IF lay.refused
           THEN heap' = lay.heap /\ UNCHANGED arena
           ELSE /\ heap' = [lay.heap EXCEPT !.initialised = TRUE,
                                            !.free_bytes = lay.total,
                                            !.minimum_ever_free = lay.total]
                /\ arena' = {RegionSpan(table[i]) : i \in DOMAIN table}
    /\ UNCHANGED <<held, stale>>

\* Busy, and the empty table.
DefineRegionsRefused(table) ==
    /\ heap.initialised \/ table = <<>>
    /\ UNCHANGED vars

-----------------------------------------------------------------------------
(* pvPortMalloc.                                                           *)

\* Mutant: no room asked for the header.
BlockSize_NoHeader(wanted) == align_up(wanted)
BlockSize(wanted) == align_up(wanted + STRUCT_SIZE)

\* The early returns, taken before the heap is initialised.
Servable(wanted) ==
    /\ wanted # 0
    /\ wanted + STRUCT_SIZE <= USIZE_MAX
    /\ ~ Marked(BlockSize(wanted))

\* Mutant: a block of exactly the size is passed over.
Stops_Strict(header, size) == Unmarked(header.size) > size \/ header.next = NONE
Stops(header, size) == Unmarked(header.size) >= size \/ header.next = NONE

\* Where the walk for a fitting block stops: at the first block large enough,
\* or at the last node.
Search(h, size) ==
    LET walk == Walk(h)
        stop == Min({i \in DOMAIN walk : Stops(header_of(h, walk[i]), size)})
    IN  [previous |-> Previous(walk, stop),
         chosen |-> walk[stop],
         after |-> header_of(h, walk[stop]).next]

\* Whether alloc, on an initialised heap, answers Some.
Grants(h, size) == size <= h.free_bytes /\ Search(h, size).chosen # h.end

\* Mutant: a remainder of exactly the minimum is split off.
WorthSplitting_Equal(remainder) == remainder >= MINIMUM_BLOCK_SIZE
WorthSplitting(remainder) == remainder > MINIMUM_BLOCK_SIZE

\* Unlink the chosen block, putting what is left of it, if that is worth a
\* block, in its place.
Carve(h, found, size) ==
    LET remainder == SatSub(size_of(h, found.chosen), size)
        new_block == found.chosen + size
    IN  IF WorthSplitting(remainder)
        THEN set_next_from(
                set_raw_size(set_header(h, new_block, found.after, remainder),
                             found.chosen, size),
                found.previous, new_block)
        ELSE set_next_from(h, found.previous, found.after)

\* Mark the block as this allocation's and account for it.
Hand(h, chosen) ==
    LET taken == size_of(h, chosen)
        left == (h.free_bytes - taken) % (USIZE_MAX + 1)
    IN  [set_header(h, chosen, h.next_generation, taken + ALLOCATED_BIT) EXCEPT
            !.free_bytes = left,
            !.minimum_ever_free = IF left < @ THEN left ELSE @,
            !.next_generation = (@ + 1) % GENERATION_MOD,
            !.allocations = (@ + 1) % (USIZE_MAX + 1)]

\* The Block handed out: its offset is narrowed to a u32.
BlockAt(h, chosen) ==
    LET user == chosen + STRUCT_SIZE
    IN  [offset |-> IF user > U32_MAX THEN U32_MAX ELSE user,
         generation |-> h.next_generation]

WholeArena == {[at |-> 0, size |-> init(New).end]}

Alloc(wanted) ==
    /\ heap.allocations < MaxAllocs
    /\ Servable(wanted)
    /\ LET h == init(heap)
           size == BlockSize(wanted)
           found == Search(h, size)
       IN  /\ Grants(h, size)
           /\ heap' = Hand(Carve(h, found, size), found.chosen)
           /\ held' = held \cup {[block |-> BlockAt(h, found.chosen),
                                  issued |-> heap.allocations + 1,
                                  wanted |-> wanted,
                                  fill |-> NotFilled]}
    /\ arena' = IF heap.initialised THEN arena ELSE WholeArena
    /\ UNCHANGED stale

\* None: a request no heap could serve changes nothing, one that does not fit
\* has initialised the heap.
AllocUnservable(wanted) ==
    /\ ~ Servable(wanted)
    /\ UNCHANGED vars

AllocNoRoom(wanted) ==
    /\ Servable(wanted)
    /\ ~ Grants(init(heap), BlockSize(wanted))
    /\ heap' = init(heap)
    /\ arena' = IF heap.initialised THEN arena ELSE WholeArena
    /\ UNCHANGED <<held, stale>>

-----------------------------------------------------------------------------
(* vPortFree.                                                              *)

\* Mutant: a freed block goes to the head of the list.
InsertPosition_Head(walk, block) == 1
InsertPosition(walk, block) == Min({i \in DOMAIN walk : walk[i] >= block})

\* Mutant: a freed block is never joined with the one before.
JoinsBefore_Never(h, iterator, block) == FALSE
JoinsBefore(h, iterator, block) ==
    iterator # NONE /\ iterator + size_of(h, iterator) = block

\* Mutant: pxEnd is absorbed like any block.
Absorbs_End(h, block_end, following) == block_end = following
Absorbs(h, block_end, following) == block_end = following /\ following # h.end

\* prvInsertBlockIntoFreeList: find the neighbours in address order, join the
\* block with the one before and the one after, relink.
insert_into_free_list(h, block, size) ==
    LET walk == Walk(h)
        stop == InsertPosition(walk, block)
        iterator == Previous(walk, stop)
        following == walk[stop]
        previous_size == size_of(h, iterator)
        joins == JoinsBefore(h, iterator, block)
        insert == IF joins THEN iterator ELSE block
        insert_size == IF joins THEN previous_size + size ELSE size
        grown == IF joins THEN set_raw_size(h, iterator, insert_size) ELSE h
        linked ==
            IF Absorbs(h, insert + insert_size, following)
            THEN LET absorbed == header_of(grown, following)
                 IN  set_header(grown, insert, absorbed.next,
                                insert_size + Unmarked(absorbed.size))
            ELSE set_next(grown, insert, following)
    IN  IF insert = iterator THEN linked
        ELSE set_next_from(linked, iterator, insert)

\* Mutant: the allocated bit of a freed block stays.
free_at_KeepsBit(h, link) ==
    LET size == size_of(h, link)
        unmarked == [h EXCEPT !.free_bytes = (@ + size) % (USIZE_MAX + 1)]
    IN  [insert_into_free_list(unmarked, link, size) EXCEPT
            !.frees = (@ + 1) % (USIZE_MAX + 1)]

free_at(h, link) ==
    LET size == size_of(h, link)
        unmarked == [set_raw_size(h, link, size) EXCEPT
                        !.free_bytes = (@ + size) % (USIZE_MAX + 1)]
    IN  [insert_into_free_list(unmarked, link, size) EXCEPT
            !.frees = (@ + 1) % (USIZE_MAX + 1)]

LinkOf(offset) == offset - STRUCT_SIZE

\* Mutant: the first block of the arena is taken to lie before it.
ValidOffset_AfterFirst(offset) ==
    offset > STRUCT_SIZE /\ offset <= N /\ LinkOf(offset) % ALIGN = 0

\* An offset this allocator could have handed out.
ValidOffset(offset) ==
    /\ offset >= STRUCT_SIZE
    /\ offset <= N
    /\ LinkOf(offset) % ALIGN = 0

\* Mutant: the allocated bit is not looked at.
FreeRawAnswer_NoBit(h, offset) ==
    IF ValidOffset(offset) THEN "Ok" ELSE "InvalidArgument"

\* What free and free_raw answer before they touch anything.
FreeRawAnswer(h, offset) ==
    CASE ~ ValidOffset(offset) -> "InvalidArgument"
      [] ValidOffset(offset) /\ ~ is_allocated(h, LinkOf(offset)) -> "Gone"
      [] OTHER -> "Ok"

\* Mutants: the generation is not compared; the allocated bit is not looked at,
\* so a word of another kind is treated as a generation.
FreeAnswer_AnyGeneration(h, block) == FreeRawAnswer(h, block.offset)
FreeAnswer_NoBit(h, block) ==
    CASE ~ ValidOffset(block.offset) -> "InvalidArgument"
      [] /\ ValidOffset(block.offset)
         /\ header_of(h, LinkOf(block.offset)).next # block.generation -> "Gone"
      [] OTHER -> "Ok"
FreeAnswer(h, block) ==
    IF /\ FreeRawAnswer(h, block.offset) = "Ok"
       /\ header_of(h, LinkOf(block.offset)).next # block.generation
    THEN "Gone"
    ELSE FreeRawAnswer(h, block.offset)

HeldBlocks == {g.block : g \in held}
HeldOffsets == {block.offset : block \in HeldBlocks}
StaleBlocks == {s.block : s \in stale}

\* The grants G as their callers remember them once they gave them back.
GivenBack(G) == {[block |-> g.block, issued |-> g.issued] : g \in G}

Free(block) ==
    /\ FreeAnswer(heap, block) = "Ok"
    /\ heap' = free_at(heap, LinkOf(block.offset))
    /\ LET G == {g \in held : g.block = block}
       IN  held' = held \ G /\ stale' = stale \cup GivenBack(G)
    /\ UNCHANGED arena

FreeRefused(block) ==
    /\ FreeAnswer(heap, block) # "Ok"
    /\ UNCHANGED vars

\* A bare offset frees whatever block lives there now.
FreeRaw(offset) ==
    /\ FreeRawAnswer(heap, offset) = "Ok"
    /\ heap' = free_at(heap, LinkOf(offset))
    /\ LET G == {g \in held : g.block.offset = offset}
       IN  held' = held \ G /\ stale' = stale \cup GivenBack(G)
    /\ UNCHANGED arena

FreeRawRefused(offset) ==
    /\ FreeRawAnswer(heap, offset) # "Ok"
    /\ UNCHANGED vars

-----------------------------------------------------------------------------
(* The binding: offsets out, pointers in.                                  *)

SatAdd(a, b) == IF a + b > USIZE_MAX THEN USIZE_MAX ELSE a + b

NULL == 0
address_of(offset) == IF offset < N THEN Base + offset ELSE NULL

\* offset_of answers None for a pointer that is not into this arena.
InThisArena(pointer) == Base <= pointer /\ pointer < SatAdd(Base, N)
offset_of(pointer) == pointer - Base

\* A C caller's vPortFree( void * ): the pointer's offset, then free_raw.
FreePointer(pointer) ==
    /\ InThisArena(pointer)
    /\ FreeRaw(offset_of(pointer)) \/ FreeRawRefused(offset_of(pointer))

FreePointerRefused(pointer) ==
    /\ ~ InThisArena(pointer)
    /\ UNCHANGED vars

-----------------------------------------------------------------------------
(* The callers' writes, through the pointer address_of answers.            *)

Payload(g) ==
    {w \in DOMAIN heap.store :
        g.block.offset <= w * WORD /\ w * WORD < g.block.offset + g.wanted}

Write(g, word) ==
    /\ g.fill = NotFilled
    /\ heap' = [heap EXCEPT
                   !.store = [w \in DOMAIN @ |-> IF w \in Payload(g) THEN word ELSE @[w]]]
    /\ held' = (held \ {g}) \cup {[g EXCEPT !.fill = word]}
    /\ UNCHANGED <<stale, arena>>

Next ==
    \/ \E table \in Tables : DefineRegions(table) \/ DefineRegionsRefused(table)
    \/ \E wanted \in Wanted :
        Alloc(wanted) \/ AllocUnservable(wanted) \/ AllocNoRoom(wanted)
    \/ \E block \in HeldBlocks \cup StaleBlocks : Free(block) \/ FreeRefused(block)
    \/ \E offset \in RawOffsets : FreeRaw(offset) \/ FreeRawRefused(offset)
    \/ \E pointer \in RawPointers : FreePointer(pointer) \/ FreePointerRefused(pointer)
    \/ \E g \in held, word \in Fill : Write(g, word)

Spec == Init /\ [][Next]_vars

-----------------------------------------------------------------------------
(* What the free list shows a caller, and what it stands for.              *)

\* The nodes before pxEnd, which are the ones free_list_shape visits.
ListNodes(h) ==
    LET walk == Walk(h)
    IN  SubSeq(walk, 1, Min({i \in DOMAIN walk : walk[i] \in {NONE, h.end}}) - 1)

free_list_shape(h) ==
    LET nodes == ListNodes(h)
    IN  <<Len(nodes), Max({0} \cup {size_of(h, node) : node \in Range(nodes)})>>

\* The free blocks: the nodes of the list that are not end markers.
FreeSpans ==
    IF heap.initialised
    THEN {[at |-> node, size |-> size_of(heap, node)] :
            node \in {n \in Range(ListNodes(heap)) : size_of(heap, n) > 0}}
    ELSE {}

GrantOf(g) ==
    [at |-> LinkOf(g.block.offset),
     size |-> size_of(heap, LinkOf(g.block.offset)),
     need |-> BlockSize(g.wanted),
     id |-> g.issued]

FF == INSTANCE FirstFit WITH
        Layouts <- {{RegionSpan(table[i]) : i \in DOMAIN table} :
                        table \in {t \in Tables : Accepted(New, t)}},
        Sizes <- {BlockSize(wanted) : wanted \in {w \in Wanted : Servable(w)}},
        MaxGrants <- MaxAllocs,
        free <- FreeSpans,
        live <- {GrantOf(g) : g \in held},
        granted <- heap.allocations,
        room <- heap.free_bytes,
        low <- heap.minimum_ever_free

\* Every call does to the blocks what FirstFit says it does: lowest address
\* first, split only above the minimum, join both neighbours, account for every
\* byte, leave everything alone when it refuses.
ImplementsFirstFit == FF!Spec

-----------------------------------------------------------------------------
(* Properties.                                                             *)

TypeOK ==
    /\ heap \in [store : [0..(N \div WORD) - 1 -> 0..WORD_MOD - 1],
                 start_next : 0..WORD_MOD - 1,
                 end : 0..WORD_MOD - 1,
                 free_bytes : 0..N,
                 minimum_ever_free : 0..N,
                 allocations : 0..MaxAllocs,
                 frees : 0..MaxAllocs,
                 initialised : BOOLEAN,
                 next_generation : 0..GENERATION_MOD - 1]
    /\ \A g \in held : g.wanted \in Wanted /\ g.fill \in Fill \cup {NotFilled}
    /\ arena \subseteq FF!Span

\* The list both walks rely on: addresses strictly rise from start_next to the
\* end marker (so a walk ends and the insert finds its place) and no node is
\* marked allocated.
ListOrdered ==
    heap.initialised =>
        LET nodes == ListNodes(heap)
        IN  \A i \in DOMAIN nodes :
                /\ nodes[i] < heap.end
                /\ i > 1 => nodes[i - 1] < nodes[i]
                /\ ~ is_allocated(heap, nodes[i])

\* A block its caller still holds can be given back: whatever other callers
\* allocated, freed and wrote since, its header is still the one alloc wrote.
HeldCanBeFreed == \A g \in held : FreeAnswer(heap, g.block) = "Ok"

\* A block that was given back is refused, also once its bytes were handed out
\* again, split or absorbed, until as many allocations were made since its own
\* as there are generations ("It wraps after 2^32 allocations, which is the one
\* case a stale handle could collide").
StaleIsRefused ==
    \A s \in stale :
        heap.allocations - s.issued < GENERATION_MOD =>
            FreeAnswer(heap, s.block) # "Ok"

\* alloc answers None only when no run of free bytes in the arena is long
\* enough, and Some only when one is.
ServesWhatFits ==
    heap.initialised =>
        LET usable == FF!Cells(arena) \ FF!Cells({GrantOf(g) : g \in held})
        IN  \A wanted \in {w \in Wanted : Servable(w)} :
                LET size == BlockSize(wanted)
                IN  Grants(heap, size) <=>
                        \E at \in 0..N : at..at + size - 1 \subseteq usable

\* The whole request lies in its block, behind the header, and what the caller
\* wrote there stays until it frees the block: no header and no other caller's
\* payload lies in it, whatever is split, joined or handed out around it.
PayloadKept ==
    \A g \in held :
        /\ g.block.offset + g.wanted <= FF!End(GrantOf(g))
        /\ g.fill # NotFilled => \A w \in Payload(g) : heap.store[w] = g.fill

\* The successful calls balance: what was granted and not freed is held.
CallsBalance == heap.allocations - heap.frees = Cardinality(held)

\* free_raw refuses every offset that is not that of a block somebody holds: a
\* double free, an offset into the free list, an end marker, or an offset that
\* was never allocated; and it takes every one that is.  So does vPortFree of a
\* pointer: exactly the addresses address_of answered for held blocks are freed.
RawFreesOnlyHeld ==
    /\ \A offset \in RawOffsets :
        FreeRawAnswer(heap, offset) = "Ok" <=> offset \in HeldOffsets
    /\ \A pointer \in RawPointers :
        /\ InThisArena(pointer)
        /\ FreeRawAnswer(heap, offset_of(pointer)) = "Ok"
        <=> pointer \in {address_of(offset) : offset \in HeldOffsets}

\* free, free_raw and vPortFree take what they are passed only where somebody
\* holds a block: never a stale Block, offset or pointer whose place now shows
\* the words of another header, of a payload, or of a header absorbed long ago.
OnlyHeldAreTaken ==
    /\ \A block \in StaleBlocks : FreeAnswer(heap, block) = "Ok" => block \in HeldBlocks
    /\ \A offset \in RawOffsets : FreeRawAnswer(heap, offset) = "Ok" => offset \in HeldOffsets
    /\ \A pointer \in RawPointers :
        InThisArena(pointer) /\ FreeRawAnswer(heap, offset_of(pointer)) = "Ok" =>
            offset_of(pointer) \in HeldOffsets

-----------------------------------------------------------------------------
(* What comments of the source say, where the code does something else.    *)

Abut(table) ==
    \A i \in 1..Len(table) - 1 :
        table[i].start + table[i].size = table[i + 1].start

\* define_regions' doc: "Declare regions that abut and they will coalesce,
\* correctly, because then they are one region."  With nothing allocated, they
\* would be one free block.
AbuttingRegionsCoalesce ==
    \A table \in Tables :
        /\ Abut(table)
        /\ heap.initialised
        /\ arena = {RegionSpan(table[i]) : i \in DOMAIN table}
        /\ held = {}
        => Cardinality(FreeSpans) = 1

\* Heap5::free_list_shape's doc: "How many free blocks there are, and the
\* largest."  An end marker between two regions is not a free block: nothing
\* can be allocated from it.
ShapeCountsFreeBlocks ==
    heap.initialised => free_list_shape(heap)[1] = Cardinality(FreeSpans)
=============================================================================
