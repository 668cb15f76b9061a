-------------------------------- MODULE Heap3 --------------------------------
(***************************************************************************)
(* heap3.rs: the platform's allocator behind slots and generations.  The   *)
(* platform may refuse any allocation.  Callers hold Handles, free the     *)
(* ones they hold and ones they freed before.                              *)
(***************************************************************************)
EXTENDS Integers, Sequences, FiniteSets, FiniteSetsExt

CONSTANTS
    U32_MOD,   \* 2^32, scaled: generations wrap at it, slots stay below it
    Wanted,    \* the request sizes callers make
    Empty,     \* a slot whose bytes were taken (None)
    MaxAllocs  \* bound: successful allocations in a behaviour

ASSUME SizesAssumption ==
    /\ U32_MOD \in Nat \ {0, 1}
    /\ MaxAllocs \in Nat
    /\ MaxAllocs < U32_MOD
    /\ Wanted \subseteq Nat
    /\ Empty \notin Nat

VARIABLES
    slots,            \* the bytes of each slot, as their number, or Empty
    generations,      \* the generation each slot is on
    next_generation,
    allocations,
    frees,
    live_bytes,
    held,             \* the Handles callers hold, with what they asked for
    stale,            \* the Handles callers have given back
    peak              \* the most allocations that were ever live at once

heap3 == <<slots, generations, next_generation, allocations, frees, live_bytes>>
vars == <<heap3, held, stale, peak>>

\* Heap3::new starts the generations at 1, the derived Default at 0.
Init ==
    /\ slots = <<>>
    /\ generations = <<>>
    /\ next_generation \in {0, 1}
    /\ allocations = 0
    /\ frees = 0
    /\ live_bytes = 0
    /\ held = {}
    /\ stale = {}
    /\ peak = 0

SatSub(a, b) == IF a > b THEN a - b ELSE 0

\* Mutants: a slot in use taken for vacant; no slot ever found vacant.
Vacant_Any == DOMAIN slots
Vacant_None == {}
Vacant == {i \in DOMAIN slots : slots[i] = Empty}

live_allocations == Cardinality(DOMAIN slots \ Vacant)

\* Slots count from 0 in a Handle.
HandleOf(i) == [slot |-> i - 1, generation |-> generations[i]]

\* What an alloc may ask the platform for: the bytes, and room for one entry
\* more in each table.
Requests == {"bytes", "slots", "generations"}

\* Mutant: the slots are pushed onto before the generations have room.
Grown_InTurn(room) ==
    [slots |-> IF "slots" \in room THEN Append(slots, Empty) ELSE slots,
     generations |-> IF {"slots", "generations"} \subseteq room
                     THEN Append(generations, 0) ELSE generations]

\* Both tables one longer when the platform has room for both; a table that
\* was refused room leaves them as they were.
Grown(room) ==
    IF {"slots", "generations"} \subseteq room
    THEN [slots |-> Append(slots, Empty), generations |-> Append(generations, 0)]
    ELSE [slots |-> slots, generations |-> generations]

\* The tables an alloc leaves when the platform serves the requests in room:
\* it asks for the bytes first, and for a new slot only if none is vacant.
TablesFor(room) ==
    IF "bytes" \in room /\ Vacant = {}
    THEN Grown(room)
    ELSE [slots |-> slots, generations |-> generations]

Serves(room) ==
    /\ "bytes" \in room
    /\ Vacant # {} \/ {"slots", "generations"} \subseteq room

\* The first vacant slot, or a new one.
Alloc(wanted, room) ==
    /\ wanted # 0
    /\ Serves(room)
    /\ allocations < MaxAllocs
    /\ LET tables == TablesFor(room)
           i == IF Vacant # {} THEN Min(Vacant) ELSE Len(tables.slots)
           handle == [slot |-> i - 1, generation |-> next_generation]
       IN  /\ slots' = [tables.slots EXCEPT ![i] = wanted]
           /\ generations' = [tables.generations EXCEPT ![i] = next_generation]
           /\ held' = IF i - 1 < U32_MOD
                      THEN held \cup {[handle |-> handle, wanted |-> wanted]}
                      ELSE held
    /\ next_generation' = (next_generation + 1) % U32_MOD
    /\ allocations' = allocations + 1
    /\ live_bytes' = live_bytes + wanted
    /\ peak' = Max({peak, Cardinality(held')})
    /\ UNCHANGED <<frees, stale>>

AllocZero(wanted) ==
    /\ wanted = 0
    /\ UNCHANGED vars

\* The platform refused the bytes, the slots or the generations.
AllocRefused(wanted, room) ==
    /\ wanted # 0
    /\ ~ Serves(room)
    /\ slots' = TablesFor(room).slots
    /\ generations' = TablesFor(room).generations
    /\ UNCHANGED <<next_generation, allocations, frees, live_bytes, held, stale, peak>>

\* Mutant: the generation is not compared.
Answer_AnyGeneration(handle) ==
    IF handle.slot + 1 \in DOMAIN slots /\ slots[handle.slot + 1] # Empty
    THEN "Ok"
    ELSE "Gone"

\* What free and bytes_mut answer.
Answer(handle) ==
    IF /\ handle.slot + 1 \in DOMAIN slots
       /\ HandleOf(handle.slot + 1) = handle
       /\ slots[handle.slot + 1] # Empty
    THEN "Ok"
    ELSE "Gone"

HeldHandles == {g.handle : g \in held}

\* Mutant: the freed bytes still count as live.
Free_StillCounted(handle) ==
    /\ Answer(handle) = "Ok"
    /\ slots' = [slots EXCEPT ![handle.slot + 1] = Empty]
    /\ frees' = frees + 1
    /\ held' = {g \in held : g.handle # handle}
    /\ stale' = stale \cup {handle}
    /\ UNCHANGED <<generations, next_generation, allocations, live_bytes, peak>>

Free(handle) ==
    /\ Answer(handle) = "Ok"
    /\ slots' = [slots EXCEPT ![handle.slot + 1] = Empty]
    /\ live_bytes' = SatSub(live_bytes, slots[handle.slot + 1])
    /\ frees' = frees + 1
    /\ held' = {g \in held : g.handle # handle}
    /\ stale' = stale \cup {handle}
    /\ UNCHANGED <<generations, next_generation, allocations, peak>>

FreeRefused(handle) ==
    /\ Answer(handle) # "Ok"
    /\ UNCHANGED vars

Next ==
    \/ \E wanted \in Wanted :
        \/ AllocZero(wanted)
        \/ \E room \in SUBSET Requests :
            Alloc(wanted, room) \/ AllocRefused(wanted, room)
    \/ \E handle \in HeldHandles \cup stale : Free(handle) \/ FreeRefused(handle)

Spec == Init /\ [][Next]_vars

-----------------------------------------------------------------------------
TypeOK ==
    /\ slots \in Seq(Wanted \cup {Empty})
    /\ generations \in Seq(0..U32_MOD - 1)
    /\ Len(slots) = Len(generations)
    /\ next_generation \in 0..U32_MOD - 1
    /\ allocations \in 0..MaxAllocs
    /\ frees \in Nat
    /\ live_bytes \in Nat

\* A Handle names its own allocation until it is freed: its slot holds the
\* bytes it asked for, whatever was allocated and freed around it, and every
\* occupied slot has one holder.
HeldNamesItsBytes ==
    /\ \A g \in held : /\ Answer(g.handle) = "Ok"
                       /\ slots[g.handle.slot + 1] = g.wanted
    /\ Cardinality(held) = live_allocations

AllHandles == [slot : 0..MaxAllocs - 1, generation : 0..U32_MOD - 1]
Accepted == {h \in AllHandles : Answer(h) = "Ok"}
H == INSTANCE Handles WITH Handle <- AllHandles, accepted <- Accepted, retired <- stale

\* A Handle is good from its alloc to its free and never again, also once its
\* slot is reused: of all the Handles there could be, the heap accepts those it
\* issued and did not take back.
ImplementsHandles == H!Spec

\* live_bytes is what the live allocations asked for, and the calls that
\* succeeded balance.
LiveBytesAddUp ==
    /\ live_bytes = MapThenSumSet(LAMBDA g : g.wanted, held)
    /\ allocations - frees = live_allocations

\* The tables grow only when every slot is occupied: a heap that frees what it
\* allocates does not grow for ever.
SlotsTrackPeak == Len(slots) = peak
=============================================================================
