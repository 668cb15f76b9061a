-------------------------------- MODULE Pool --------------------------------
(***************************************************************************)
(* pool.rs: BLOCKS blocks of one size, a stack of the free ones, and a     *)
(* generation per block that a Slot must carry.  The callers are part of   *)
(* the model: they hold Slots, free the ones they hold, free ones they     *)
(* freed before, and free Slots of a larger pool.                          *)
(***************************************************************************)
EXTENDS Integers, FiniteSets

CONSTANTS
    BLOCKS,    \* how many blocks the pool has
    U32_MOD,   \* 2^32, at which generations and counters wrap
    MaxFrees,  \* bound: successful frees in a behaviour
    Zeroed,    \* the bytes of a block nobody has written yet
    Foreign    \* Slots that name no block of this pool

Block == 0..BLOCKS - 1
Slot == [index : Nat, generation : Nat]

ASSUME SizesFit == BLOCKS \in Nat \ {0}
ASSUME GenerationsSuffice == U32_MOD \in Nat /\ MaxFrees \in Nat /\ MaxFrees < U32_MOD
ASSUME ForeignAssumption == Foreign \subseteq {s \in Slot : s.index >= BLOCKS}

VARIABLES
    storage,      \* per block, its bytes, as the Slot they were written through
    free,         \* the stack: free[0..top-1] are the indices of free blocks
    top,
    generation,   \* per block, what a live handle must carry
    live,         \* per block, whether it is handed out
    allocations,
    frees,
    held,         \* the Slots callers hold
    wrote,        \* those of them whose callers wrote their block
    stale         \* the Slots callers have given back

pool == <<storage, free, top, generation, live, allocations, frees>>
vars == <<pool, held, wrote, stale>>

\* Pool::new: the highest index at the bottom, so the first alloc gets block 0.
Init ==
    /\ storage = [b \in Block |-> Zeroed]
    /\ free = [i \in Block |-> BLOCKS - 1 - i]
    /\ top = BLOCKS
    /\ generation = [b \in Block |-> 0]
    /\ live = [b \in Block |-> FALSE]
    /\ allocations = 0
    /\ frees = 0
    /\ held = {}
    /\ wrote = {}
    /\ stale = {}

SlotOf(b) == [index |-> b, generation |-> generation[b]]

\* Pool::alloc pops a block, unless the stack is empty or names a live block.
CanPop == top > 0 /\ ~ live[free[top - 1]]

Alloc ==
    /\ CanPop
    /\ LET b == free[top - 1]
       IN  /\ live' = [live EXCEPT ![b] = TRUE]
           /\ held' = held \cup {SlotOf(b)}
    /\ top' = top - 1
    /\ allocations' = (allocations + 1) % U32_MOD
    /\ UNCHANGED <<storage, free, generation, frees, wrote, stale>>

AllocNone ==
    /\ ~ CanPop
    /\ UNCHANGED vars

\* Mutants: only the index is looked at; the generation is not compared.
Answer_AnySlot(slot) == IF slot.index \in Block THEN "Ok" ELSE "InvalidHandle"
Answer_AnyGeneration(slot) ==
    CASE slot.index \notin Block -> "InvalidHandle"
      [] slot.index \in Block /\ ~ live[slot.index] -> "Gone"
      [] OTHER -> "Ok"

\* Pool::check, which bytes, bytes_mut and free answer by.
Answer(slot) ==
    CASE slot.index \notin Block -> "InvalidHandle"
      [] slot.index \in Block /\ ~ (live[slot.index] /\ SlotOf(slot.index) = slot)
            -> "Gone"
      [] OTHER -> "Ok"

\* Mutant: the push is lost.
Push_Lost(b) == free

\* A push past the end of the stack is dropped.
Push(b) == IF top \in Block THEN [free EXCEPT ![top] = b] ELSE free

\* Mutant: the generation stays.
Bumped_Not(g) == g
Bumped(g) == (g + 1) % U32_MOD

Free(slot) ==
    /\ frees < MaxFrees
    /\ Answer(slot) = "Ok"
    /\ generation' = [generation EXCEPT ![slot.index] = Bumped(@)]
    /\ live' = [live EXCEPT ![slot.index] = FALSE]
    /\ free' = Push(slot.index)
    /\ top' = top + 1
    /\ frees' = (frees + 1) % U32_MOD
    /\ held' = held \ {slot}
    /\ wrote' = wrote \ {slot}
    /\ stale' = stale \cup {slot}
    /\ UNCHANGED <<storage, allocations>>

\* A caller writes through the bytes that bytes_mut answers.
Write(slot) ==
    /\ Answer(slot) = "Ok"
    /\ storage' = [storage EXCEPT ![slot.index] = slot]
    /\ wrote' = wrote \cup ({slot} \cap held)
    /\ UNCHANGED <<free, top, generation, live, allocations, frees, held, stale>>

\* free, bytes or bytes_mut answering an error.
Refused(slot) ==
    /\ Answer(slot) # "Ok"
    /\ UNCHANGED vars

Next ==
    \/ Alloc
    \/ AllocNone
    \/ \E slot \in held \cup stale : Free(slot) \/ Write(slot)
    \/ \E slot \in held \cup stale \cup Foreign : Refused(slot)

Spec == Init /\ [][Next]_vars

-----------------------------------------------------------------------------
TypeOK ==
    /\ storage \in [Block -> Slot \cup {Zeroed}]
    /\ free \in [Block -> Block]
    /\ top \in 0..BLOCKS
    /\ generation \in [Block -> 0..U32_MOD - 1]
    /\ live \in [Block -> BOOLEAN]
    /\ allocations \in 0..U32_MOD - 1
    /\ frees \in 0..MaxFrees
    /\ held \subseteq Slot
    /\ wrote \subseteq held
    /\ stale \subseteq Slot

\* The stack holds each free block once and no live one: no block is handed out
\* twice, and no free block is lost to the pool.
OnStack(b) == \E i \in 0..top - 1 : free[i] = b
StackIsTheFreeBlocks ==
    /\ \A i, j \in 0..top - 1 : i # j => free[i] # free[j]
    /\ \A b \in Block : OnStack(b) <=> ~ live[b]

\* Every live block has exactly one holder, what a caller holds is good until it
\* gives it back, and what it wrote is there to read until then, whatever the
\* other callers do ("the bytes are the callers to keep").
OneHolder ==
    /\ \A slot \in held : Answer(slot) = "Ok"
    /\ \A b \in Block : live[b] => SlotOf(b) \in held
    /\ \A slot \in wrote : storage[slot.index] = slot

\* The pool never meets the two cases it guards against ("a pool that somehow
\* disagrees with itself"): while a caller holds a block the stack has room for
\* it, so the push in free is not dropped and top does not pass BLOCKS; and
\* alloc answers None only when every block is handed out.
AgreesWithItself ==
    /\ held # {} => top < BLOCKS
    /\ (\E b \in Block : ~ live[b]) => CanPop

H == INSTANCE Handles WITH
        Handle <- [index : Block, generation : 0..U32_MOD - 1],
        accepted <- {s \in [index : Block, generation : 0..U32_MOD - 1] :
                        Answer(s) = "Ok"},
        retired <- stale

\* A Slot is good from its alloc to its free and never again: of all the Slots
\* there could be, the pool accepts those it issued and did not take back ("a
\* double free is Gone rather than a corrupted free list").
ImplementsHandles == H!Spec
=============================================================================
