----------------------------- MODULE Pool_proofs -----------------------------
(***************************************************************************)
(* Proofs about Pool, for every number of blocks and every bound on the    *)
(* frees.                                                                  *)
(***************************************************************************)
EXTENDS Pool, FiniteSetTheorems, TLAPS

\* No generation has outrun the frees, so none has wrapped; a stale Slot names
\* a generation its block has left behind.
GenerationsBehind ==
    /\ \A b \in Block : generation[b] <= frees
    /\ \A slot \in stale :
        slot.index \in Block /\ slot.generation < generation[slot.index]

\* What every operation preserves.  OneHolder needs the stack to hold no live
\* block (alloc would issue a second Slot for it), the stack needs OneHolder
\* (free would push a block twice), and stale Slots need the generations.
PoolInv == TypeOK /\ StackIsTheFreeBlocks /\ OneHolder /\ GenerationsBehind

\* A full stack holds every block: as long as one block is live there is room
\* for another push in Pool::free.
LEMMA StackHasRoom ==
    ASSUME TypeOK, StackIsTheFreeBlocks, NEW b \in Block, live[b]
    PROVE  top < BLOCKS
<1> SUFFICES ASSUME top = BLOCKS PROVE FALSE
    BY SizesFit DEF TypeOK
<1> DEFINE Rest == Block \ {b}
           f == [i \in Block |-> free[i]]
<1>1. IsFiniteSet(Block) /\ Cardinality(Block) = BLOCKS
    BY FS_Interval, SizesFit DEF Block
<1>2. IsFiniteSet(Rest) /\ Cardinality(Rest) = BLOCKS - 1
    BY <1>1, FS_RemoveElement
<1>3. \A i \in Block : OnStack(free[i])
    BY DEF OnStack, Block
<1>4. \A i \in Block : free[i] # b
    BY <1>3 DEF StackIsTheFreeBlocks
<1>5. f \in [Block -> Rest]
    BY <1>4 DEF TypeOK
<1>6. PICK i, j \in Block : i # j /\ f[i] = f[j]
    <2> HIDE DEF f, Rest
    <2> QED  BY <1>1, <1>2, <1>5, FS_PigeonHole, SizesFit
<1>7. QED
    BY <1>6 DEF StackIsTheFreeBlocks, Block

\* The Slot of a block is the only Slot that Answer accepts for it.
LEMMA AcceptedSlot ==
    ASSUME TypeOK, NEW slot, Answer(slot) = "Ok"
    PROVE  slot.index \in Block /\ live[slot.index] /\ slot = SlotOf(slot.index)
BY DEF Answer

LEMMA InitInv == Init => PoolInv
<1> SUFFICES ASSUME Init PROVE PoolInv
    OBVIOUS
<1>1. TypeOK
    BY SizesFit, GenerationsSuffice DEF Init, TypeOK, Block
<1>2. StackIsTheFreeBlocks
    <2>1. \A i, j \in 0..top - 1 : i # j => free[i] # free[j]
        BY SizesFit DEF Init, Block
    <2>2. ASSUME NEW b \in Block PROVE OnStack(b) /\ ~ live[b]
        <3>1. BLOCKS - 1 - b \in 0..top - 1 /\ free[BLOCKS - 1 - b] = b
            BY SizesFit DEF Init, Block
        <3>2. QED
            BY <3>1 DEF Init, OnStack
    <2>3. QED
        BY <2>1, <2>2 DEF StackIsTheFreeBlocks
<1>3. OneHolder
    BY DEF Init, OneHolder, Block
<1>4. GenerationsBehind
    BY DEF Init, GenerationsBehind
<1>5. QED
    BY <1>1, <1>2, <1>3, <1>4 DEF PoolInv

\* Pool::alloc hands out a block nobody holds.
LEMMA AllocInv == PoolInv /\ Alloc => PoolInv'
<1> SUFFICES ASSUME PoolInv, Alloc PROVE PoolInv'
    OBVIOUS
<1> USE DEF PoolInv
<1> DEFINE b == free[top - 1]
<1>1. /\ top \in 1..BLOCKS /\ top' = top - 1
      /\ b \in Block /\ ~ live[b]
      /\ free' = free /\ generation' = generation /\ frees' = frees /\ stale' = stale
      /\ storage' = storage /\ wrote' = wrote
      /\ live' = [live EXCEPT ![b] = TRUE]
      /\ held' = held \cup {SlotOf(b)}
    <2>1. top \in 1..BLOCKS /\ top - 1 \in Block
        BY SizesFit DEF Alloc, CanPop, TypeOK, Block
    <2>2. b \in Block
        BY <2>1 DEF TypeOK
    <2>3. QED
        BY <2>1, <2>2 DEF Alloc, CanPop
<1>2. TypeOK'
    <2>1. SlotOf(b) \in Slot
        BY <1>1, GenerationsSuffice DEF SlotOf, Slot, TypeOK, Block
    <2>2. allocations' \in 0..U32_MOD - 1
        BY GenerationsSuffice DEF Alloc, TypeOK
    <2>3. live' \in [Block -> BOOLEAN]
        BY <1>1 DEF TypeOK
    <2>4. held' \subseteq Slot
        BY <1>1, <2>1 DEF TypeOK
    <2>5. top' \in 0..BLOCKS
        BY <1>1, SizesFit
    <2>6. wrote' \subseteq held'
        BY <1>1 DEF TypeOK
    <2>7. QED
        BY <1>1, <2>2, <2>3, <2>4, <2>5, <2>6 DEF TypeOK
<1>3. StackIsTheFreeBlocks'
    <2>1. \A i, j \in 0..top' - 1 : i # j => free'[i] # free'[j]
        BY <1>1 DEF StackIsTheFreeBlocks, TypeOK
    <2>2. ASSUME NEW c \in Block PROVE OnStack(c)' <=> ~ live'[c]
        <3>1. CASE c = b
            <4>1. \A i \in 0..top' - 1 : free[i] # b
                BY <1>1 DEF StackIsTheFreeBlocks
            <4>2. live'[c]
                BY <3>1, <1>1 DEF TypeOK
            <4>3. QED
                BY <3>1, <4>1, <4>2, <1>1 DEF OnStack
        <3>2. CASE c # b
            <4>1. live'[c] = live[c]
                BY <3>2, <1>1 DEF TypeOK
            <4>2. OnStack(c)' <=> OnStack(c)
                BY <3>2, <1>1 DEF OnStack
            <4>3. QED
                BY <4>1, <4>2 DEF StackIsTheFreeBlocks
        <3>3. QED
            BY <3>1, <3>2
    <2>3. QED
        BY <2>1, <2>2 DEF StackIsTheFreeBlocks
<1>4. OneHolder'
    <2>1. \A c \in Block : SlotOf(c)' = SlotOf(c) /\ SlotOf(c).index = c
        BY <1>1 DEF SlotOf
    <2>2. ASSUME NEW slot \in held' PROVE Answer(slot)' = "Ok"
        <3>1. slot.index \in Block /\ live'[slot.index] /\ SlotOf(slot.index) = slot
            <4>1. CASE slot = SlotOf(b)
                BY <4>1, <1>1, <2>1 DEF TypeOK
            <4>2. CASE slot \in held
                <5>1. slot.index \in Block /\ live[slot.index]
                      /\ slot = SlotOf(slot.index)
                    BY <4>2, AcceptedSlot DEF OneHolder
                <5>2. QED
                    BY <5>1, <1>1 DEF TypeOK
            <4>3. QED
                BY <4>1, <4>2, <1>1
        <3>2. QED
            BY <3>1, <2>1 DEF Answer
    <2>3. ASSUME NEW c \in Block, live'[c] PROVE SlotOf(c)' \in held'
        BY <2>1, <2>3, <1>1 DEF OneHolder, TypeOK
    <2>4. \A slot \in wrote' : storage'[slot.index] = slot
        BY <1>1 DEF OneHolder
    <2>5. QED
        BY <2>2, <2>3, <2>4 DEF OneHolder
<1>5. GenerationsBehind'
    BY <1>1 DEF GenerationsBehind
<1>6. QED
    BY <1>2, <1>3, <1>4, <1>5

\* Pool::free returns a block to the stack once, and its Slot is never
\* accepted again.
LEMMA FreeInv == ASSUME PoolInv, NEW slot \in held \cup stale, Free(slot) PROVE PoolInv'
<1> USE DEF PoolInv
<1> DEFINE b == slot.index
<1>1. b \in Block /\ live[b] /\ slot = SlotOf(b) /\ slot.generation = generation[b]
    BY AcceptedSlot DEF Free, SlotOf
<1>2. top \in Block
    <2>1. TypeOK /\ StackIsTheFreeBlocks
        OBVIOUS
    <2>2. top < BLOCKS
        BY <1>1, <2>1, StackHasRoom
    <2>3. QED
        BY <2>2, SizesFit DEF TypeOK, Block
<1>3. /\ top' = top + 1
      /\ free' = [free EXCEPT ![top] = b]
      /\ live' = [live EXCEPT ![b] = FALSE]
      /\ held' = held \ {slot}
      /\ stale' = stale \cup {slot}
      /\ allocations' = allocations
      /\ storage' = storage
      /\ wrote' = wrote \ {slot}
    BY <1>2 DEF Free, Push
<1>4. frees < MaxFrees /\ frees' = frees + 1
    BY GenerationsSuffice DEF Free, TypeOK
<1>5. generation' = [generation EXCEPT ![b] = generation[b] + 1]
    <2>1. generation[b] \in Nat /\ generation[b] + 1 < U32_MOD
        BY <1>1, <1>4, GenerationsSuffice DEF TypeOK, GenerationsBehind
    <2>2. (generation[b] + 1) % U32_MOD = generation[b] + 1
        BY <2>1, GenerationsSuffice
    <2>3. QED
        BY <2>2 DEF Free, Bumped
<1>6. generation[b] + 1 \in 0..U32_MOD - 1
    BY <1>1, <1>4, GenerationsSuffice DEF TypeOK, GenerationsBehind
<1>7. TypeOK'
    <2>1. top' \in 0..BLOCKS
        BY <1>2, <1>3, SizesFit DEF Block
    <2>2. free' \in [Block -> Block]
        BY <1>1, <1>2, <1>3 DEF TypeOK
    <2>3. generation' \in [Block -> 0..U32_MOD - 1]
        BY <1>1, <1>5, <1>6 DEF TypeOK
    <2>4. live' \in [Block -> BOOLEAN]
        BY <1>3 DEF TypeOK
    <2>5. frees' \in 0..MaxFrees
        BY <1>4, GenerationsSuffice DEF TypeOK
    <2>6. held' \subseteq Slot /\ stale' \subseteq Slot /\ wrote' \subseteq held'
        BY <1>3 DEF TypeOK
    <2>7. QED
        BY <1>3, <2>1, <2>2, <2>3, <2>4, <2>5, <2>6 DEF TypeOK
<1>8. StackIsTheFreeBlocks'
    <2>1. /\ free'[top] = b
          /\ \A i \in 0..top - 1 : free'[i] = free[i] /\ free[i] # b
          /\ 0..top' - 1 = (0..top - 1) \cup {top}
        <3>1. \A i \in 0..top - 1 : free[i] # b
            BY <1>1 DEF StackIsTheFreeBlocks, OnStack
        <3>2. QED
            BY <1>2, <1>3, <3>1 DEF TypeOK, Block
    <2>2. \A i, j \in 0..top' - 1 : i # j => free'[i] # free'[j]
        BY <2>1 DEF StackIsTheFreeBlocks
    <2>3. ASSUME NEW c \in Block PROVE OnStack(c)' <=> ~ live'[c]
        <3>1. CASE c = b
            <4>1. ~ live'[c]
                BY <1>1, <1>3, <3>1 DEF TypeOK
            <4>2. OnStack(c)'
                BY <2>1, <3>1 DEF OnStack
            <4>3. QED
                BY <4>1, <4>2
        <3>2. CASE c # b
            <4>1. live'[c] = live[c]
                BY <1>3, <3>2 DEF TypeOK
            <4>2. OnStack(c)' <=> OnStack(c)
                BY <2>1, <3>2 DEF OnStack
            <4>3. QED
                BY <4>1, <4>2 DEF StackIsTheFreeBlocks
        <3>3. QED
            BY <3>1, <3>2
    <2>4. QED
        BY <2>2, <2>3 DEF StackIsTheFreeBlocks
<1>9. OneHolder'
    <2>1. \A c \in Block : c # b => SlotOf(c)' = SlotOf(c) /\ live'[c] = live[c]
        BY <1>3, <1>5 DEF SlotOf, TypeOK
    <2>2. ~ live'[b]
        BY <1>1, <1>3 DEF TypeOK
    <2>3. ASSUME NEW s \in held' PROVE Answer(s)' = "Ok"
        <3>1. s \in held /\ s # slot
            BY <1>3
        <3>2. s.index \in Block /\ live[s.index] /\ s = SlotOf(s.index)
            BY <3>1, AcceptedSlot DEF OneHolder
        <3>3. s.index # b
            BY <1>1, <3>1, <3>2
        <3>4. live'[s.index] /\ s = SlotOf(s.index)'
            BY <2>1, <3>2, <3>3
        <3>5. QED
            BY <3>2, <3>4 DEF Answer
    <2>4. ASSUME NEW c \in Block, live'[c] PROVE SlotOf(c)' \in held'
        <3>1. c # b
            BY <2>2, <2>4
        <3>2. SlotOf(c) \in held
            BY <2>1, <2>4, <3>1 DEF OneHolder
        <3>3. SlotOf(c) # slot
            BY <3>1 DEF SlotOf
        <3>4. QED
            BY <1>3, <2>1, <3>1, <3>2, <3>3
    <2>5. \A s \in wrote' : storage'[s.index] = s
        BY <1>3 DEF OneHolder
    <2>6. QED
        BY <2>3, <2>4, <2>5 DEF OneHolder
<1>10. GenerationsBehind'
    <2>1. \A c \in Block : generation[c] <= generation'[c] /\ generation'[c] <= frees'
        BY <1>1, <1>4, <1>5 DEF GenerationsBehind, TypeOK
    <2>2. slot.generation < generation'[b]
        BY <1>1, <1>5 DEF TypeOK
    <2>3. ASSUME NEW s \in stale
          PROVE  s.index \in Block /\ s.generation < generation'[s.index]
        <3>1. s \in Slot /\ s.index \in Block /\ s.generation < generation[s.index]
            BY DEF GenerationsBehind, TypeOK
        <3>2. s.generation \in Nat /\ generation[s.index] \in Nat
              /\ generation'[s.index] \in Nat
            BY <1>7, <3>1, GenerationsSuffice DEF TypeOK, Slot
        <3>3. QED
            BY <2>1, <3>1, <3>2
    <2>4. QED
        BY <1>1, <1>3, <2>1, <2>2, <2>3 DEF GenerationsBehind
<1>11. QED
    BY <1>7, <1>8, <1>9, <1>10

\* A write through bytes_mut reaches the bytes of the writer's own block.
LEMMA WriteInv == ASSUME PoolInv, NEW slot \in held \cup stale, Write(slot) PROVE PoolInv'
<1> USE DEF PoolInv
<1>1. /\ storage' = [storage EXCEPT ![slot.index] = slot]
      /\ wrote' = wrote \cup ({slot} \cap held)
      /\ UNCHANGED <<free, top, generation, live, allocations, frees, held, stale>>
    BY DEF Write
<1>2. slot.index \in Block /\ slot = SlotOf(slot.index)
    BY AcceptedSlot DEF Write
<1>3. TypeOK'
    <2>1. storage' \in [Block -> Slot \cup {Zeroed}]
        BY <1>1, <1>2 DEF TypeOK
    <2>2. QED
        BY <1>1, <2>1 DEF TypeOK
<1>4. StackIsTheFreeBlocks'
    BY <1>1 DEF StackIsTheFreeBlocks, OnStack
<1>5. OneHolder'
    <2>1. ASSUME NEW s \in wrote' PROVE storage'[s.index] = s
        <3>1. CASE s = slot
            BY <1>1, <1>2, <3>1 DEF TypeOK
        <3>2. CASE s # slot
            <4>1. s \in wrote /\ s \in held /\ Answer(s) = "Ok"
                BY <1>1, <3>2 DEF TypeOK, OneHolder
            <4>2. s.index \in Block /\ s = SlotOf(s.index)
                BY <4>1, AcceptedSlot
            <4>3. s.index # slot.index
                BY <1>2, <3>2, <4>2
            <4>4. QED
                BY <1>1, <4>1, <4>2, <4>3 DEF TypeOK, OneHolder
        <3>3. QED
            BY <3>1, <3>2
    <2>2. \A s : Answer(s)' = Answer(s)
        BY <1>1 DEF Answer, SlotOf
    <2>3. \A b \in Block : SlotOf(b)' = SlotOf(b)
        BY <1>1 DEF SlotOf
    <2>4. QED
        BY <1>1, <2>1, <2>2, <2>3 DEF OneHolder
<1>6. GenerationsBehind'
    BY <1>1 DEF GenerationsBehind
<1>7. QED
    BY <1>3, <1>4, <1>5, <1>6

LEMMA StepInv == PoolInv /\ [Next]_vars => PoolInv'
<1> SUFFICES ASSUME PoolInv, [Next]_vars PROVE PoolInv'
    OBVIOUS
<1>1. ASSUME UNCHANGED vars PROVE PoolInv'
    <2>1. /\ TypeOK' /\ GenerationsBehind'
        BY <1>1 DEF vars, pool, PoolInv, TypeOK, GenerationsBehind
    <2>2. StackIsTheFreeBlocks'
        BY <1>1 DEF vars, pool, PoolInv, StackIsTheFreeBlocks, OnStack
    <2>3. OneHolder'
        BY <1>1 DEF vars, pool, PoolInv, OneHolder, Answer, SlotOf
    <2>4. QED
        BY <2>1, <2>2, <2>3 DEF PoolInv
<1>2. CASE Alloc
    BY <1>2, AllocInv
<1>3. CASE AllocNone
    BY <1>1, <1>3 DEF AllocNone
<1>4. CASE \E slot \in held \cup stale : Free(slot) \/ Write(slot)
    BY <1>4, FreeInv, WriteInv
<1>5. CASE \E slot \in held \cup stale \cup Foreign : Refused(slot)
    BY <1>1, <1>5 DEF Refused
<1>6. QED
    BY <1>1, <1>2, <1>3, <1>4, <1>5 DEF Next

\* A Slot that was given back is Gone, also when its block has a new holder.
StaleIsGone == \A slot \in stale : Answer(slot) = "Gone"

LEMMA InvImplies ==
    PoolInv => StaleIsGone /\ AgreesWithItself
<1> SUFFICES ASSUME PoolInv PROVE StaleIsGone /\ AgreesWithItself
    OBVIOUS
<1> USE DEF PoolInv
<1>1. StaleIsGone
    <2> SUFFICES ASSUME NEW slot \in stale PROVE Answer(slot) = "Gone"
        BY DEF StaleIsGone
    <2>1. slot.index \in Block /\ slot.generation < generation[slot.index]
        BY DEF GenerationsBehind
    <2>2. slot.generation # generation[slot.index]
        BY <2>1, GenerationsSuffice DEF TypeOK, Slot
    <2>3. SlotOf(slot.index) # slot
        BY <2>2 DEF SlotOf
    <2>4. QED
        BY <2>1, <2>3 DEF Answer
<1>2. held # {} => top < BLOCKS
    <2> SUFFICES ASSUME NEW slot \in held PROVE top < BLOCKS
        OBVIOUS
    <2>1. slot.index \in Block /\ live[slot.index]
        BY AcceptedSlot DEF OneHolder
    <2>2. QED
        BY <2>1, StackHasRoom
<1>3. (\E b \in Block : ~ live[b]) => CanPop
    <2> SUFFICES ASSUME NEW b \in Block, ~ live[b] PROVE CanPop
        OBVIOUS
    <2>1. PICK i \in 0..top - 1 : free[i] = b
        BY DEF StackIsTheFreeBlocks, OnStack
    <2>2. top \in 1..BLOCKS /\ top - 1 \in Block /\ top - 1 \in 0..top - 1
        BY <2>1, SizesFit DEF TypeOK, Block
    <2>3. free[top - 1] \in Block /\ OnStack(free[top - 1])
        BY <2>2 DEF TypeOK, OnStack
    <2>4. ~ live[free[top - 1]]
        BY <2>3 DEF StackIsTheFreeBlocks
    <2>5. QED
        BY <2>2, <2>4 DEF CanPop
<1>4. QED
    BY <1>1, <1>2, <1>3 DEF AgreesWithItself

\* Pool, for every size: the invariant holds in every behaviour.
THEOREM PoolIsInvariant == Spec => []PoolInv
<1>1. PoolInv /\ [Next]_vars => PoolInv'
    BY StepInv
<1>2. QED
    BY InitInv, <1>1, PTL DEF Spec

\* Pool::alloc and Pool::free keep the fields in their types: top never passes
\* BLOCKS and no generation wraps while fewer than 2^32 frees were made.
THEOREM TypeCorrect == Spec => []TypeOK
<1>1. PoolInv => TypeOK
    BY DEF PoolInv
<1>2. QED
    BY PoolIsInvariant, <1>1, PTL

\* No block is handed out twice and none is lost: the stack is exactly the free
\* blocks, each once.
THEOREM NoBlockTwice == Spec => []StackIsTheFreeBlocks
<1>1. PoolInv => StackIsTheFreeBlocks
    BY DEF PoolInv
<1>2. QED
    BY PoolIsInvariant, <1>1, PTL

\* Every live block has exactly one holder, and the bytes it wrote through
\* bytes_mut are there until it frees the block.
THEOREM BytesAreTheHolders == Spec => []OneHolder
<1>1. PoolInv => OneHolder
    BY DEF PoolInv
<1>2. QED
    BY PoolIsInvariant, <1>1, PTL

\* A Slot that was freed is refused for good: a double free is Gone.
THEOREM DoubleFreeIsGone == Spec => []StaleIsGone
<1>1. PoolInv => StaleIsGone
    BY InvImplies
<1>2. QED
    BY PoolIsInvariant, <1>1, PTL

\* The two lines of pool.rs that tolerate a pool that disagrees with itself are
\* never needed: the push in free always lands, alloc refuses only an empty pool.
THEOREM PoolAgreesWithItself == Spec => []AgreesWithItself
<1>1. PoolInv => AgreesWithItself
    BY InvImplies
<1>2. QED
    BY PoolIsInvariant, <1>1, PTL

-----------------------------------------------------------------------------
(* Pool implements Handles.                                                *)

AllSlots == [index : Block, generation : 0..U32_MOD - 1]
Accepted == {s \in AllSlots : Answer(s) = "Ok"}

\* What a call does to the handles, as Handles has it.
Issues(s) == s \notin Accepted \cup stale /\ Accepted' = Accepted \cup {s} /\ stale' = stale
Retires(s) == s \in Accepted /\ Accepted' = Accepted \ {s} /\ stale' = stale \cup {s}
Keeps == Accepted' = Accepted /\ stale' = stale

\* The pool accepts a Slot when its block is live and on its generation.
LEMMA AcceptedNow ==
    \A s \in AllSlots :
        s \in Accepted <=> live[s.index] /\ s.generation = generation[s.index]
BY DEF Accepted, AllSlots, Answer, SlotOf

LEMMA AcceptedNext ==
    \A s \in AllSlots :
        s \in Accepted' <=> live'[s.index] /\ s.generation = generation'[s.index]
BY DEF Accepted, AllSlots, Answer, SlotOf

\* Pool::alloc issues a Slot that was never good before.
LEMMA AllocIssues == PoolInv /\ Alloc => \E s \in AllSlots : Issues(s)
<1> SUFFICES ASSUME PoolInv, Alloc PROVE \E s \in AllSlots : Issues(s)
    OBVIOUS
<1> USE DEF PoolInv
<1> DEFINE b == free[top - 1]
           slot == SlotOf(b)
<1>1. /\ b \in Block /\ ~ live[b]
      /\ live' = [live EXCEPT ![b] = TRUE] /\ live \in [Block -> BOOLEAN]
      /\ generation' = generation /\ stale' = stale
    <2>1. top - 1 \in Block
        BY SizesFit DEF Alloc, CanPop, TypeOK, Block
    <2>2. b \in Block
        BY <2>1 DEF TypeOK
    <2>3. QED
        BY <2>2 DEF Alloc, CanPop, TypeOK
<1>2. slot \in AllSlots /\ slot.index = b /\ slot.generation = generation[b]
    BY <1>1 DEF SlotOf, AllSlots, TypeOK
<1>3. slot \notin stale
    BY <1>1, <1>2, GenerationsSuffice DEF GenerationsBehind, TypeOK
<1> HIDE DEF b, slot
<1>4. slot \notin Accepted
    BY <1>1, <1>2, AcceptedNow
<1>5. ASSUME NEW s \in AllSlots PROVE s \in Accepted' <=> s \in Accepted \/ s = slot
    <2>1. CASE s.index = b
        <3>1. s = slot <=> s.generation = generation[b]
            BY <1>2, <2>1 DEF AllSlots
        <3>2. s \in Accepted' <=> s.generation = generation[b]
            BY <1>1, <2>1, AcceptedNext
        <3>3. s \notin Accepted
            BY <1>1, <2>1, AcceptedNow
        <3>4. QED
            BY <3>1, <3>2, <3>3
    <2>2. CASE s.index # b
        <3>1. s.index \in Block /\ live'[s.index] = live[s.index] /\ s # slot
            BY <1>1, <1>2, <2>2 DEF AllSlots
        <3>2. QED
            BY <1>1, <3>1, AcceptedNow, AcceptedNext
    <2>3. QED
        BY <2>1, <2>2
<1>6. Accepted \subseteq AllSlots /\ Accepted' \subseteq AllSlots
    BY DEF Accepted, AllSlots
<1>7. Accepted' = Accepted \cup {slot}
    BY <1>2, <1>5, <1>6
<1>8. QED
    BY <1>1, <1>2, <1>3, <1>4, <1>7 DEF Issues

\* Pool::free retires the Slot it is given.
LEMMA FreeRetires ==
    ASSUME PoolInv, NEW slot \in held \cup stale, Free(slot)
    PROVE  slot \in AllSlots /\ Retires(slot)
<1> USE DEF PoolInv
<1>1. slot.index \in Block /\ live[slot.index] /\ slot = SlotOf(slot.index)
    BY AcceptedSlot DEF Free
<1>2. slot \in AllSlots /\ slot.generation = generation[slot.index]
    BY <1>1 DEF SlotOf, AllSlots, TypeOK
<1>3. /\ live' = [live EXCEPT ![slot.index] = FALSE] /\ live \in [Block -> BOOLEAN]
      /\ generation' = [generation EXCEPT ![slot.index] = Bumped(@)]
      /\ generation \in [Block -> 0..U32_MOD - 1]
      /\ stale' = stale \cup {slot}
    BY DEF Free, TypeOK
<1>4. slot \in Accepted
    BY <1>1, <1>2, AcceptedNow
<1>5. ASSUME NEW s \in AllSlots PROVE s \in Accepted' <=> s \in Accepted /\ s # slot
    <2>1. CASE s.index = slot.index
        <3>1. s = slot <=> s.generation = generation[slot.index]
            BY <1>2, <2>1 DEF AllSlots
        <3>2. s \in Accepted => s.generation = generation[slot.index]
            BY <2>1, AcceptedNow
        <3>3. s \notin Accepted'
            BY <1>1, <1>3, <2>1, AcceptedNext
        <3>4. QED
            BY <3>1, <3>2, <3>3
    <2>2. CASE s.index # slot.index
        <3>1. /\ s.index \in Block /\ s # slot
              /\ live'[s.index] = live[s.index]
              /\ generation'[s.index] = generation[s.index]
            BY <1>3, <2>2 DEF AllSlots
        <3>2. QED
            BY <3>1, AcceptedNow, AcceptedNext
    <2>3. QED
        BY <2>1, <2>2
<1>6. Accepted \subseteq AllSlots /\ Accepted' \subseteq AllSlots
    BY DEF Accepted, AllSlots
<1>7. Accepted' = Accepted \ {slot}
    BY <1>5, <1>6
<1>8. QED
    BY <1>2, <1>3, <1>4, <1>7 DEF Retires

\* One call of the pool issues one fresh Slot, retires one, or neither.
LEMMA StepRefines ==
    ASSUME PoolInv, [Next]_vars
    PROVE  (\E s \in AllSlots : Issues(s) \/ Retires(s)) \/ Keeps
<1>1. ASSUME UNCHANGED <<generation, live, stale>> PROVE Keeps
    BY <1>1 DEF Keeps, Accepted, AllSlots, Answer, SlotOf
<1>2. CASE Alloc
    BY <1>2, AllocIssues
<1>3. CASE \E slot \in held \cup stale : Free(slot)
    BY <1>3, FreeRetires
<1>4. CASE \E slot \in held \cup stale : Write(slot)
    BY <1>1, <1>4 DEF Write
<1>5. CASE AllocNone \/ \E slot \in held \cup stale \cup Foreign : Refused(slot)
    BY <1>1, <1>5 DEF AllocNone, Refused, vars, pool
<1>6. CASE UNCHANGED vars
    BY <1>1, <1>6 DEF vars, pool
<1>7. QED
    BY <1>2, <1>3, <1>4, <1>5, <1>6 DEF Next

\* Pool implements Handles: of all Slots there could be, the pool accepts those
\* it issued and did not take back.
THEOREM PoolImplementsHandles == Spec => ImplementsHandles
<1>1. Init => H!Init
    <2> SUFFICES ASSUME Init PROVE H!Init
        OBVIOUS
    <2>1. \A s \in AllSlots : Answer(s) # "Ok"
        BY DEF Init, Answer
    <2>2. QED
        BY <2>1 DEF Init, H!Init, AllSlots
<1>2. PoolInv /\ [Next]_vars => [H!Next]_(H!vars)
    <2> SUFFICES ASSUME PoolInv, [Next]_vars PROVE [H!Next]_(H!vars)
        OBVIOUS
    <2>1. (\E s \in AllSlots : Issues(s) \/ Retires(s)) \/ Keeps
        BY StepRefines
    <2>2. QED
        BY <2>1 DEF H!Next, H!Issue, H!Retire, H!vars,
                    Accepted, AllSlots, Issues, Retires, Keeps
<1>3. QED
    BY PoolIsInvariant, <1>1, <1>2, PTL DEF Spec, ImplementsHandles, H!Spec
=============================================================================
