----------------------------- MODULE Heap3_proofs -----------------------------
(***************************************************************************)
(* Proofs about Heap3, for every set of request sizes and every bound on   *)
(* the allocations below the number of generations.                        *)
(***************************************************************************)
EXTENDS Heap3, SequenceTheorems, FiniteSetTheorems, WellFoundedInduction, TLAPS

Occupied == DOMAIN slots \ Vacant

\* Generations count the allocations, so that none was used before.
Fresh ==
    allocations < MaxAllocs =>
        /\ next_generation <= allocations + 1
        /\ \A i \in 1..Len(slots) : generations[i] < next_generation
        /\ \A h \in stale : h.generation < next_generation

\* Callers hold one Handle for every occupied slot.
OneEach ==
    /\ \A g \in held :
        /\ g.handle.slot + 1 \in Occupied
        /\ g.handle = HandleOf(g.handle.slot + 1)
        /\ g.wanted = slots[g.handle.slot + 1]
        /\ g = [handle |-> g.handle, wanted |-> g.wanted]
    /\ \A i \in Occupied : [handle |-> HandleOf(i), wanted |-> slots[i]] \in held
    /\ IsFiniteSet(held) /\ IsFiniteSet(Occupied)
    /\ Cardinality(held) = Cardinality(Occupied)

\* The slot of a freed Handle is vacant or on another generation.
StaleLeft ==
    \A h \in stale :
        /\ h \in AllHandles
        /\ h.slot + 1 \in 1..Len(slots)
        /\ h.slot + 1 \in Vacant \/ generations[h.slot + 1] # h.generation

Heap3Inv ==
    /\ TypeOK
    /\ Fresh
    /\ OneEach
    /\ StaleLeft
    /\ Len(slots) <= allocations
    /\ SlotsTrackPeak

-----------------------------------------------------------------------------
(* The extremes of a set.                                                  *)

\* A nonempty set of numbers has a least one.
LEMMA LeastNumber ==
    ASSUME NEW S \in SUBSET Nat, S # {}
    PROVE  \E x \in S : \A y \in S : x <= y
<1>1. PICK x \in S : \A y \in S : ~ (<<y, x>> \in OpToRel(<, Nat))
    BY NatLessThanWellFounded, WFMin
<1>2. ASSUME NEW y \in S, y < x PROVE FALSE
    <2>1. x \in Nat /\ y \in Nat
        OBVIOUS
    <2>2. <<y, x>> \in OpToRel(<, Nat)
        BY <1>2, <2>1 DEF OpToRel
    <2>3. QED
        BY <1>1, <2>2
<1>3. \A y \in S : x <= y
    BY <1>2
<1>4. QED
    BY <1>3

\* The first vacant slot is one of them.
LEMMA MinIsIn ==
    ASSUME NEW S \in SUBSET Nat, S # {}
    PROVE  Min(S) \in S
BY LeastNumber DEF Min

LEMMA MaxOfTwo ==
    ASSUME NEW a \in Int, NEW b \in Int
    PROVE  Max({a, b}) = IF a >= b THEN a ELSE b
<1> DEFINE m == IF a >= b THEN a ELSE b
<1>1. m \in {a, b} /\ \A y \in {a, b} : m >= y
    OBVIOUS
<1>2. \A x \in {a, b} : (\A y \in {a, b} : x >= y) => x = m
    OBVIOUS
<1> HIDE DEF m
<1>3. Max({a, b}) \in {a, b} /\ \A y \in {a, b} : Max({a, b}) >= y
    BY <1>1 DEF Max
<1>4. QED
    BY <1>2, <1>3 DEF m

-----------------------------------------------------------------------------
(* Allocating.                                                             *)

\* seq with entry i, which may be one past the last, set to value.
Put(seq, i, value) ==
    IF i \in DOMAIN seq THEN [seq EXCEPT ![i] = value] ELSE Append(seq, value)

\* Filling a slot leaves the others alone.
LEMMA PutList ==
    ASSUME NEW S, NEW seq \in Seq(S), NEW i \in 1..Len(seq) + 1, NEW v \in S
    PROVE  /\ Put(seq, i, v) \in Seq(S)
           /\ Len(Put(seq, i, v)) = IF i <= Len(seq) THEN Len(seq) ELSE Len(seq) + 1
           /\ \A j \in 1..Len(Put(seq, i, v)) :
                Put(seq, i, v)[j] = IF j = i THEN v ELSE seq[j]
           /\ i \in 1..Len(Put(seq, i, v))
<1>1. Len(seq) \in Nat /\ DOMAIN seq = 1..Len(seq)
    BY LenProperties
<1>2. CASE i <= Len(seq)
    <2>1. i \in 1..Len(seq) /\ Put(seq, i, v) = [seq EXCEPT ![i] = v]
        BY <1>1, <1>2 DEF Put
    <2>2. QED
        BY <1>1, <2>1, ExceptSeq
<1>3. CASE i = Len(seq) + 1
    <2>0. i \notin DOMAIN seq
        BY <1>1, <1>3
    <2>1. Put(seq, i, v) = Append(seq, v)
        BY <2>0 DEF Put
    <2>2. /\ Append(seq, v) \in Seq(S)
          /\ Len(Append(seq, v)) = Len(seq) + 1
          /\ \A j \in 1..Len(seq) : Append(seq, v)[j] = seq[j]
          /\ Append(seq, v)[Len(seq) + 1] = v
        BY AppendProperties
    <2>3. \A j \in 1..Len(seq) + 1 : j = i \/ (j \in 1..Len(seq) /\ j # i)
        BY <1>1, <1>3
    <2>4. QED
        BY <1>1, <1>3, <2>1, <2>2, <2>3
<1>4. QED
    BY <1>1, <1>2, <1>3

\* The tables, and which slots are occupied.
LEMMA Tables ==
    ASSUME TypeOK
    PROVE  /\ Len(slots) \in Nat /\ DOMAIN slots = 1..Len(slots)
           /\ DOMAIN generations = 1..Len(slots)
           /\ \A i : i \in Occupied <=> i \in 1..Len(slots) /\ slots[i] # Empty
           /\ \A i : i \in Vacant <=> i \in 1..Len(slots) /\ slots[i] = Empty
           /\ \A i \in 1..Len(slots) : generations[i] \in 0..U32_MOD - 1
           /\ \A i \in Occupied : slots[i] \in Wanted
<1>1. /\ Len(slots) \in Nat /\ DOMAIN slots = 1..Len(slots)
      /\ \A i \in 1..Len(slots) : slots[i] \in Wanted \cup {Empty}
    BY LenProperties, ElementOfSeq DEF TypeOK
<1>2. /\ DOMAIN generations = 1..Len(slots)
      /\ \A i \in 1..Len(slots) : generations[i] \in 0..U32_MOD - 1
    BY LenProperties, ElementOfSeq DEF TypeOK
<1>3. QED
    BY <1>1, <1>2 DEF Occupied, Vacant

\* Growing both tables by one entry and filling it is appending to both.
LEMMA GrownThenFilled ==
    ASSUME NEW S, NEW seq \in Seq(S), NEW first \in S, NEW value \in S
    PROVE  /\ Len(Append(seq, first)) = Len(seq) + 1
           /\ [Append(seq, first) EXCEPT ![Len(seq) + 1] = value] = Append(seq, value)
<1> DEFINE filled == [Append(seq, first) EXCEPT ![Len(seq) + 1] = value]
<1>1. Len(seq) \in Nat
    BY LenProperties
<1>2. /\ Append(seq, first) \in Seq(S) /\ Len(Append(seq, first)) = Len(seq) + 1
      /\ \A j \in 1..Len(seq) : Append(seq, first)[j] = seq[j]
    BY AppendProperties
<1>3. /\ Append(seq, value) \in Seq(S) /\ Len(Append(seq, value)) = Len(seq) + 1
      /\ \A j \in 1..Len(seq) : Append(seq, value)[j] = seq[j]
      /\ Append(seq, value)[Len(seq) + 1] = value
    BY AppendProperties
<1>4. Len(seq) + 1 \in 1..Len(Append(seq, first))
    BY <1>1, <1>2
<1>5. filled \in Seq(S) /\ Len(filled) = Len(seq) + 1
      /\ \A j \in 1..Len(seq) + 1 :
            filled[j] = IF j = Len(seq) + 1 THEN value ELSE Append(seq, first)[j]
    <2> DEFINE grown == Append(seq, first)
               last == Len(seq) + 1
    <2>1. grown \in Seq(S) /\ Len(grown) = last /\ last \in 1..Len(grown)
        BY <1>2, <1>4
    <2> HIDE DEF grown, last
    <2>2. /\ [grown EXCEPT ![last] = value] \in Seq(S)
          /\ Len([grown EXCEPT ![last] = value]) = Len(grown)
          /\ \A j \in 1..Len(grown) :
                [grown EXCEPT ![last] = value][j] = IF j = last THEN value ELSE grown[j]
        BY <2>1, ExceptSeq
    <2>3. QED
        BY <2>1, <2>2 DEF grown, last
<1> HIDE DEF filled
<1>6. \A j \in 1..Len(seq) + 1 : filled[j] = Append(seq, value)[j]
    <2> SUFFICES ASSUME NEW j \in 1..Len(seq) + 1
                 PROVE  filled[j] = Append(seq, value)[j]
        OBVIOUS
    <2>1. CASE j = Len(seq) + 1
        BY <1>3, <1>5, <2>1
    <2>2. CASE j # Len(seq) + 1
        <3>1. j \in 1..Len(seq)
            BY <1>1, <2>2
        <3>2. QED
            BY <1>2, <1>3, <1>5, <2>2, <3>1
    <2>3. QED
        BY <2>1, <2>2
<1>7. filled = Append(seq, value)
    BY <1>3, <1>5, <1>6, SeqEqual
<1>8. QED
    BY <1>2, <1>7 DEF filled

\* Heap3::alloc puts the bytes and their generation at the first vacant slot,
\* or after the last.
LEMMA AllocPuts ==
    ASSUME TypeOK, NEW wanted \in Wanted, NEW room \in SUBSET Requests,
           Alloc(wanted, room)
    PROVE  LET i == IF Vacant # {} THEN Min(Vacant) ELSE Len(slots) + 1
               handle == [slot |-> i - 1, generation |-> next_generation]
           IN  /\ slots' = Put(slots, i, wanted)
               /\ generations' = Put(generations, i, next_generation)
               /\ held' = IF i - 1 < U32_MOD
                          THEN held \cup {[handle |-> handle, wanted |-> wanted]}
                          ELSE held
<1>1. /\ Len(slots) \in Nat /\ DOMAIN slots = 1..Len(slots)
      /\ DOMAIN generations = 1..Len(slots) /\ Len(generations) = Len(slots)
    BY Tables DEF TypeOK
<1>2. CASE Vacant # {}
    <2>1. TablesFor(room) = [slots |-> slots, generations |-> generations]
        BY <1>2 DEF TablesFor
    <2>2. Min(Vacant) \in DOMAIN slots /\ Min(Vacant) \in DOMAIN generations
        <3>1. Vacant \in SUBSET Nat
            BY <1>1, Tables
        <3>2. QED
            BY <1>1, <1>2, <3>1, Tables, MinIsIn
    <2>3. QED
        BY <1>2, <2>1, <2>2 DEF Alloc, Put
<1>3. CASE Vacant = {}
    <2>1. "bytes" \in room /\ {"slots", "generations"} \subseteq room
        BY <1>3 DEF Alloc, Serves
    <2>2. TablesFor(room)
            = [slots |-> Append(slots, Empty), generations |-> Append(generations, 0)]
        BY <1>3, <2>1 DEF TablesFor, Grown
    <2>3. /\ Len(Append(slots, Empty)) = Len(slots) + 1
          /\ [Append(slots, Empty) EXCEPT ![Len(slots) + 1] = wanted] = Append(slots, wanted)
        BY GrownThenFilled DEF TypeOK
    <2>4. [Append(generations, 0) EXCEPT ![Len(slots) + 1] = next_generation]
            = Append(generations, next_generation)
        <3>1. 0 \in 0..U32_MOD - 1
            BY SizesAssumption
        <3> DEFINE Numbers == 0..U32_MOD - 1
        <3>2. generations \in Seq(Numbers) /\ next_generation \in Numbers /\ 0 \in Numbers
            BY <3>1 DEF TypeOK
        <3> HIDE DEF Numbers
        <3>3. [Append(generations, 0) EXCEPT ![Len(generations) + 1] = next_generation]
                = Append(generations, next_generation)
            BY <3>2, GrownThenFilled
        <3>4. QED
            BY <1>1, <3>3
    <2>5. Len(slots) + 1 \notin DOMAIN slots /\ Len(slots) + 1 \notin DOMAIN generations
        BY <1>1
    <2>6. QED
        BY <1>3, <2>2, <2>3, <2>4, <2>5 DEF Alloc, Put
<1>4. QED
    BY <1>2, <1>3

\* A refused Heap3::alloc changes nothing, whichever request the platform
\* refused.
LEMMA RefusedKeeps ==
    ASSUME NEW wanted, NEW room, AllocRefused(wanted, room)
    PROVE  UNCHANGED vars
<1>1. TablesFor(room) = [slots |-> slots, generations |-> generations]
    BY DEF AllocRefused, Serves, TablesFor, Grown
<1>2. QED
    BY <1>1 DEF AllocRefused, vars, heap3

\* Heap3::alloc fills a slot that nobody holds.
LEMMA AllocPlace ==
    ASSUME Heap3Inv, NEW wanted \in Wanted, NEW room \in SUBSET Requests,
           Alloc(wanted, room)
    PROVE  \E i \in 1..Len(slots) + 1 :
            LET handle == [slot |-> i - 1, generation |-> next_generation]
            IN  /\ i \notin Occupied
                /\ i = Len(slots) + 1 => Vacant = {}
                /\ slots' \in Seq(Wanted \cup {Empty})
                /\ generations' \in Seq(0..U32_MOD - 1)
                /\ Len(generations') = Len(slots')
                /\ Len(slots') = IF i <= Len(slots) THEN Len(slots) ELSE Len(slots) + 1
                /\ i \in 1..Len(slots')
                /\ \A j \in 1..Len(slots') :
                    /\ slots'[j] = IF j = i THEN wanted ELSE slots[j]
                    /\ generations'[j] = IF j = i THEN next_generation ELSE generations[j]
                /\ held' = held \cup {[handle |-> handle, wanted |-> wanted]}
                /\ handle \in AllHandles
<1> USE DEF Heap3Inv
<1>1. Len(slots) \in Nat /\ DOMAIN slots = 1..Len(slots) /\ allocations < MaxAllocs
      /\ MaxAllocs \in Nat /\ MaxAllocs < U32_MOD /\ U32_MOD \in Nat /\ allocations \in Nat
    BY Tables, SizesAssumption DEF Alloc, TypeOK
<1> DEFINE i == IF Vacant # {} THEN Min(Vacant) ELSE Len(slots) + 1
           handle == [slot |-> i - 1, generation |-> next_generation]
<1>2. Vacant # {} => i \in Vacant
    <2>1. Vacant \in SUBSET Nat
        BY <1>1, Tables
    <2>2. QED
        BY <2>1, MinIsIn
<1>3. i \in 1..Len(slots) + 1 /\ i \notin Occupied /\ (i = Len(slots) + 1 => Vacant = {})
    <2>1. CASE Vacant # {}
        BY <1>1, <1>2, <2>1, Tables
    <2>2. CASE Vacant = {}
        <3>1. i = Len(slots) + 1
            BY <2>2
        <3>2. QED
            BY <1>1, <2>2, <3>1, Tables
    <2>3. QED
        BY <2>1, <2>2
<1>4. /\ slots' = Put(slots, i, wanted)
      /\ generations' = Put(generations, i, next_generation)
      /\ held' = IF i - 1 < U32_MOD
                 THEN held \cup {[handle |-> handle, wanted |-> wanted]}
                 ELSE held
    BY AllocPuts
<1> HIDE DEF i
<1>5. i - 1 < U32_MOD /\ i - 1 \in 0..MaxAllocs - 1
    BY <1>1, <1>3
<1>6. /\ slots' \in Seq(Wanted \cup {Empty})
      /\ Len(slots') = IF i <= Len(slots) THEN Len(slots) ELSE Len(slots) + 1
      /\ \A j \in 1..Len(slots') : slots'[j] = IF j = i THEN wanted ELSE slots[j]
      /\ i \in 1..Len(slots')
    <2>1. slots \in Seq(Wanted \cup {Empty}) /\ wanted \in Wanted \cup {Empty}
        BY DEF TypeOK
    <2>2. LET seq == Put(slots, i, wanted)
          IN  /\ seq \in Seq(Wanted \cup {Empty})
              /\ Len(seq) = IF i <= Len(slots) THEN Len(slots) ELSE Len(slots) + 1
              /\ \A j \in 1..Len(seq) : seq[j] = IF j = i THEN wanted ELSE slots[j]
              /\ i \in 1..Len(seq)
        BY <1>3, <2>1, PutList
    <2>3. QED
        BY <1>4, <2>2
<1>7. /\ generations' \in Seq(0..U32_MOD - 1)
      /\ Len(generations') = IF i <= Len(slots) THEN Len(slots) ELSE Len(slots) + 1
      /\ \A j \in 1..Len(generations') :
            generations'[j] = IF j = i THEN next_generation ELSE generations[j]
    <2>1. /\ generations \in Seq(0..U32_MOD - 1) /\ next_generation \in 0..U32_MOD - 1
          /\ Len(generations) = Len(slots)
        BY DEF TypeOK
    <2>2. i \in 1..Len(generations) + 1
        BY <1>3, <2>1
    <2> DEFINE Numbers == 0..U32_MOD - 1
    <2>3. generations \in Seq(Numbers) /\ next_generation \in Numbers
        BY <2>1
    <2> HIDE DEF Numbers
    <2>4. LET filled == Put(generations, i, next_generation)
          IN  /\ filled \in Seq(Numbers)
              /\ Len(filled) = IF i <= Len(generations) THEN Len(generations)
                               ELSE Len(generations) + 1
              /\ \A j \in 1..Len(filled) :
                    filled[j] = IF j = i THEN next_generation ELSE generations[j]
              /\ i \in 1..Len(filled)
        BY ZenonT(30), <2>2, <2>3, PutList
    <2>5. QED
        BY <1>4, <2>1, <2>4 DEF Numbers
<1>8. handle \in AllHandles
    BY <1>5 DEF AllHandles, TypeOK
<1>9. held' = held \cup {[handle |-> handle, wanted |-> wanted]}
    BY <1>4, <1>5
<1>10. Len(generations') = Len(slots')
    BY <1>6, <1>7
<1>11. QED
    BY <1>3, <1>6, <1>7, <1>8, <1>9, <1>10

\* As many numbers as the last of them.
LEMMA CountUpTo ==
    ASSUME NEW n \in Nat
    PROVE  IsFiniteSet(1..n) /\ Cardinality(1..n) = n
<1>1. IsFiniteSet(1..n) /\ Cardinality(1..n) = IF 1 > n THEN 0 ELSE n - 1 + 1
    BY FS_Interval
<1>2. QED
    BY <1>1

\* Alloc keeps the invariant: the generation it hands out was never used.
LEMMA AllocInv ==
    ASSUME Heap3Inv, NEW wanted \in Wanted, NEW room \in SUBSET Requests,
           Alloc(wanted, room)
    PROVE  Heap3Inv'
<1> USE DEF Heap3Inv
<1>1. PICK i \in 1..Len(slots) + 1 :
        LET handle == [slot |-> i - 1, generation |-> next_generation]
        IN  /\ i \notin Occupied
            /\ i = Len(slots) + 1 => Vacant = {}
            /\ slots' \in Seq(Wanted \cup {Empty})
            /\ generations' \in Seq(0..U32_MOD - 1)
            /\ Len(generations') = Len(slots')
            /\ Len(slots') = IF i <= Len(slots) THEN Len(slots) ELSE Len(slots) + 1
            /\ i \in 1..Len(slots')
            /\ \A j \in 1..Len(slots') :
                /\ slots'[j] = IF j = i THEN wanted ELSE slots[j]
                /\ generations'[j] = IF j = i THEN next_generation ELSE generations[j]
            /\ held' = held \cup {[handle |-> handle, wanted |-> wanted]}
            /\ handle \in AllHandles
    BY AllocPlace
<1> DEFINE handle == [slot |-> i - 1, generation |-> next_generation]
           g == [handle |-> handle, wanted |-> wanted]
<1>2. /\ allocations < MaxAllocs /\ allocations' = allocations + 1 /\ frees' = frees
      /\ next_generation' = (next_generation + 1) % U32_MOD
      /\ live_bytes' = live_bytes + wanted /\ stale' = stale
      /\ peak' = Max({peak, Cardinality(held')})
      /\ wanted \in Nat
      /\ Len(slots) \in Nat
    BY Tables, SizesAssumption DEF Alloc
<1>3. TypeOK'
    <2>1. next_generation' \in 0..U32_MOD - 1
        BY <1>2, SizesAssumption DEF TypeOK
    <2>2. allocations' \in 0..MaxAllocs
        BY <1>2, SizesAssumption DEF TypeOK
    <2>3. live_bytes' \in Nat
        BY <1>2 DEF TypeOK
    <2>4. QED
        BY <1>1, <1>2, <2>1, <2>2, <2>3 DEF TypeOK
<1>4. /\ DOMAIN slots' = 1..Len(slots') /\ Len(slots') \in Nat
      /\ \A j : j \in Occupied' <=> j \in 1..Len(slots') /\ slots'[j] # Empty
      /\ \A j : j \in Vacant' <=> j \in 1..Len(slots') /\ slots'[j] = Empty
    <2>1. DOMAIN slots' = 1..Len(slots') /\ Len(slots') \in Nat
        BY <1>1, LenProperties
    <2>2. QED
        BY <2>1 DEF Occupied, Vacant
<1>5. \A j : j \in 1..Len(slots') <=> j = i \/ j \in 1..Len(slots)
    BY <1>1, <1>2
<1>6. Occupied' = Occupied \cup {i} /\ \A j : j \in Vacant' <=> j \in Vacant /\ j # i
    <2>1. wanted # Empty
        BY SizesAssumption
    <2>2. \A j : j \in Occupied' <=> j \in Occupied \/ j = i
        BY <1>1, <1>4, <1>5, <2>1, Tables
    <2>3. \A j : j \in Vacant' <=> j \in Vacant /\ j # i
        BY <1>1, <1>4, <1>5, <2>1, Tables
    <2>4. QED
        BY <2>2, <2>3
<1>7. g.handle = handle /\ g.wanted = wanted /\ handle.slot + 1 = i
      /\ handle.generation = next_generation
    BY <1>2
<1>8. \A j \in Occupied : HandleOf(j)' = HandleOf(j) /\ slots'[j] = slots[j]
    <2> SUFFICES ASSUME NEW j \in Occupied
                 PROVE  HandleOf(j)' = HandleOf(j) /\ slots'[j] = slots[j]
        OBVIOUS
    <2>1. j \in 1..Len(slots') /\ j # i
        BY <1>1, <1>5, Tables
    <2>2. slots'[j] = slots[j] /\ generations'[j] = generations[j]
        BY <1>1, <2>1
    <2>3. QED
        BY <2>2 DEF HandleOf
<1>9. HandleOf(i)' = handle /\ slots'[i] = wanted
    <2>1. slots'[i] = wanted /\ generations'[i] = next_generation
        BY <1>1
    <2>2. QED
        BY <2>1 DEF HandleOf
<1>10. held' = held \cup {g}
    BY <1>1
<1> HIDE DEF handle, g
<1>11. g \notin held
    BY <1>1, <1>7 DEF OneEach
<1>12. OneEach'
    <2>1. ASSUME NEW f \in held'
          PROVE  /\ f.handle.slot + 1 \in Occupied'
                 /\ f.handle = HandleOf(f.handle.slot + 1)'
                 /\ f.wanted = slots'[f.handle.slot + 1]
                 /\ f = [handle |-> f.handle, wanted |-> f.wanted]
        <3>1. CASE f = g
            <4>1. f = [handle |-> f.handle, wanted |-> f.wanted]
                BY <3>1 DEF g
            <4>2. f.handle.slot + 1 = i
                BY <1>7, <3>1
            <4>3. QED
                BY <1>6, <1>7, <1>9, <3>1, <4>1, <4>2
        <3>2. CASE f \in held
            <4>1. /\ f.handle.slot + 1 \in Occupied
                  /\ f.handle = HandleOf(f.handle.slot + 1)
                  /\ f.wanted = slots[f.handle.slot + 1]
                  /\ f = [handle |-> f.handle, wanted |-> f.wanted]
                BY <3>2 DEF OneEach
            <4>2. QED
                BY <1>6, <1>8, <4>1
        <3>3. QED
            BY <1>10, <3>1, <3>2
    <2>2. ASSUME NEW j \in Occupied'
          PROVE  [handle |-> HandleOf(j), wanted |-> slots[j]]' \in held'
        <3>1. CASE j = i
            BY <1>9, <1>10, <3>1 DEF g
        <3>2. CASE j \in Occupied
            <4>1. [handle |-> HandleOf(j), wanted |-> slots[j]] \in held
                BY <3>2 DEF OneEach
            <4>2. QED
                BY <1>8, <1>10, <3>2, <4>1
        <3>3. QED
            BY <1>6, <3>1, <3>2
    <2>3. /\ IsFiniteSet(held') /\ IsFiniteSet(Occupied')
          /\ Cardinality(held') = Cardinality(Occupied')
        <3>1. IsFiniteSet(held) /\ IsFiniteSet(Occupied) /\ Cardinality(held) = Cardinality(Occupied)
            BY DEF OneEach
        <3>2. IsFiniteSet(held \cup {g}) /\ Cardinality(held \cup {g}) = Cardinality(held) + 1
            BY <1>11, <3>1, FS_AddElement
        <3>3. /\ IsFiniteSet(Occupied \cup {i})
              /\ Cardinality(Occupied \cup {i}) = Cardinality(Occupied) + 1
            BY <1>1, <3>1, FS_AddElement
        <3>4. QED
            BY <1>6, <1>10, <3>1, <3>2, <3>3
    <2>4. QED
        BY <2>1, <2>2, <2>3 DEF OneEach
<1>13. Fresh'
    <2> SUFFICES ASSUME allocations + 1 < MaxAllocs
                 PROVE  /\ next_generation' <= allocations + 2
                        /\ \A j \in 1..Len(slots') : generations'[j] < next_generation'
                        /\ \A h \in stale : h.generation < next_generation'
        BY <1>2 DEF Fresh, TypeOK
    <2>1. /\ next_generation <= allocations + 1
          /\ \A j \in 1..Len(slots) : generations[j] < next_generation
          /\ \A h \in stale : h.generation < next_generation
        BY <1>2 DEF Fresh
    <2>2. next_generation \in Nat /\ next_generation' = next_generation + 1
        <3>1. next_generation \in Nat /\ U32_MOD \in Nat
            BY SizesAssumption DEF TypeOK
        <3>2. next_generation + 1 < U32_MOD
            BY <2>1, <3>1, SizesAssumption DEF TypeOK
        <3>3. QED
            BY <1>2, <3>1, <3>2
    <2>3. \A j \in 1..Len(slots') : generations'[j] < next_generation'
        <3> SUFFICES ASSUME NEW j \in 1..Len(slots') PROVE generations'[j] < next_generation'
            OBVIOUS
        <3>1. CASE j = i
            BY <1>1, <2>2, <3>1
        <3>2. CASE j # i
            <4>1. j \in 1..Len(slots) /\ generations'[j] = generations[j]
                BY <1>1, <1>5, <3>2
            <4>2. generations[j] < next_generation /\ generations[j] \in Int
                BY <2>1, <4>1, Tables
            <4>3. QED
                BY <2>2, <4>1, <4>2
        <3>3. QED
            BY <3>1, <3>2
    <2>4. \A h \in stale : h.generation < next_generation'
        <3> SUFFICES ASSUME NEW h \in stale PROVE h.generation < next_generation'
            OBVIOUS
        <3>1. h.generation < next_generation /\ h \in AllHandles
            BY <2>1 DEF StaleLeft
        <3>2. h.generation \in Int
            BY <3>1 DEF AllHandles
        <3>3. QED
            BY <2>2, <3>1, <3>2
    <2>5. QED
        BY <1>2, <2>1, <2>2, <2>3, <2>4 DEF TypeOK
<1>14. StaleLeft'
    <2> SUFFICES ASSUME NEW h \in stale
                 PROVE  /\ h \in AllHandles
                        /\ h.slot + 1 \in 1..Len(slots')
                        /\ h.slot + 1 \in Vacant' \/ generations'[h.slot + 1] # h.generation
        BY <1>2 DEF StaleLeft, AllHandles
    <2>1. /\ h \in AllHandles
          /\ h.slot + 1 \in 1..Len(slots)
          /\ h.slot + 1 \in Vacant \/ generations[h.slot + 1] # h.generation
        BY DEF StaleLeft
    <2>2. h.slot + 1 \in 1..Len(slots')
        BY <1>5, <2>1
    <2>3. CASE h.slot + 1 = i
        <3>1. generations'[i] = next_generation
            BY <1>1
        <3>2. h.generation < next_generation
            BY <1>2 DEF Fresh
        <3>3. h.generation \in Int /\ next_generation \in Int
            BY <2>1 DEF AllHandles, TypeOK
        <3>4. QED
            BY <2>1, <2>2, <2>3, <3>1, <3>2, <3>3
    <2>4. CASE h.slot + 1 # i
        <3>1. generations'[h.slot + 1] = generations[h.slot + 1]
            BY <1>1, <2>2, <2>4
        <3>2. QED
            BY <1>6, <2>1, <2>2, <2>4, <3>1
    <2>5. QED
        BY <2>3, <2>4
<1>15. Len(slots') <= allocations'
    BY <1>1, <1>2 DEF TypeOK
<1>16. SlotsTrackPeak'
    <2>1. /\ IsFiniteSet(Occupied) /\ IsFiniteSet(Occupied')
          /\ Cardinality(held') = Cardinality(Occupied') /\ Cardinality(held) = Cardinality(Occupied)
        BY <1>12 DEF OneEach
    <2>2. Cardinality(Occupied') \in Nat /\ Occupied' \subseteq 1..Len(slots')
        BY <1>4, <2>1, FS_CardinalityType
    <2>3. IsFiniteSet(1..Len(slots')) /\ Cardinality(1..Len(slots')) = Len(slots')
        BY <1>4, CountUpTo
    <2>4. Cardinality(Occupied') <= Len(slots')
        BY ZenonT(30), <2>2, <2>3, FS_Subset
    <2>5. peak' = IF peak >= Cardinality(Occupied') THEN peak ELSE Cardinality(Occupied')
        BY <1>2, <2>1, <2>2, MaxOfTwo DEF SlotsTrackPeak
    <2>6. CASE i <= Len(slots)
        BY <1>1, <1>2, <2>2, <2>4, <2>5, <2>6 DEF SlotsTrackPeak
    <2>7. CASE i = Len(slots) + 1
        <3>1. Vacant' = {}
            BY <1>1, <1>6, <2>7
        <3>2. Occupied' = 1..Len(slots')
            BY <1>4, <3>1 DEF Occupied
        <3>3. QED
            BY <1>1, <1>2, <2>3, <2>5, <2>7, <3>2 DEF SlotsTrackPeak
    <2>8. QED
        BY <1>1, <1>2, <2>6, <2>7
<1>17. QED
    BY <1>3, <1>12, <1>13, <1>14, <1>15, <1>16

-----------------------------------------------------------------------------
(* Freeing.                                                                *)

\* An accepted Handle is the one its slot was given out with, and it is held.
LEMMA AcceptedHandle ==
    ASSUME Heap3Inv, NEW handle, Answer(handle) = "Ok"
    PROVE  /\ handle.slot + 1 \in Occupied /\ handle.slot + 1 \in 1..Len(slots)
           /\ handle = HandleOf(handle.slot + 1)
           /\ handle \in AllHandles
           /\ handle.generation = generations[handle.slot + 1]
           /\ [handle |-> handle, wanted |-> slots[handle.slot + 1]] \in held
<1> USE DEF Heap3Inv
<1>1. /\ handle.slot + 1 \in DOMAIN slots
      /\ handle = HandleOf(handle.slot + 1)
      /\ slots[handle.slot + 1] # Empty
    BY DEF Answer
<1> DEFINE i == handle.slot + 1
<1>2. /\ i \in Occupied /\ i \in 1..Len(slots) /\ Len(slots) \in Nat
      /\ generations[i] \in 0..U32_MOD - 1
    BY <1>1, Tables
<1>3. handle = [slot |-> i - 1, generation |-> generations[i]]
    BY <1>1 DEF HandleOf
<1>4. [handle |-> HandleOf(i), wanted |-> slots[i]] \in held
    BY <1>2 DEF OneEach
<1>5. i - 1 \in 0..MaxAllocs - 1
    BY <1>2, SizesAssumption DEF TypeOK
<1> HIDE DEF i
<1>6. handle \in AllHandles /\ handle.generation = generations[i]
    BY <1>2, <1>3, <1>5 DEF AllHandles
<1>7. handle = HandleOf(i)
    BY <1>3 DEF HandleOf
<1>8. QED
    BY <1>2, <1>4, <1>6, <1>7 DEF i

\* Heap3::free empties the slot of the one Handle it takes back.
LEMMA FreePlace ==
    ASSUME Heap3Inv, NEW handle, Free(handle)
    PROVE  LET i == handle.slot + 1
               g == [handle |-> handle, wanted |-> slots[i]]
           IN  /\ i \in Occupied /\ i \in 1..Len(slots) /\ handle = HandleOf(i)
               /\ handle \in AllHandles /\ handle.generation = generations[i]
               /\ g \in held /\ held' = held \ {g}
               /\ slots' \in Seq(Wanted \cup {Empty}) /\ Len(slots') = Len(slots)
               /\ \A j \in 1..Len(slots) : slots'[j] = IF j = i THEN Empty ELSE slots[j]
               /\ Occupied' = Occupied \ {i} /\ Vacant' = Vacant \cup {i}
               /\ generations' = generations /\ stale' = stale \cup {handle}
<1> USE DEF Heap3Inv
<1> DEFINE i == handle.slot + 1
           g == [handle |-> handle, wanted |-> slots[i]]
<1>1. Answer(handle) = "Ok" /\ slots' = [slots EXCEPT ![i] = Empty]
      /\ held' = {f \in held : f.handle # handle}
      /\ generations' = generations /\ stale' = stale \cup {handle}
    BY DEF Free
<1>2. /\ i \in Occupied /\ i \in 1..Len(slots) /\ handle = HandleOf(i)
      /\ handle \in AllHandles /\ handle.generation = generations[i] /\ g \in held
    BY <1>1, AcceptedHandle
<1>3. \A f \in held : f.handle = handle => f = g
    <2> SUFFICES ASSUME NEW f \in held, f.handle = handle PROVE f = g
        OBVIOUS
    <2>1. f.wanted = slots[f.handle.slot + 1] /\ f = [handle |-> f.handle, wanted |-> f.wanted]
        BY DEF OneEach
    <2>2. QED
        BY <2>1
<1>4. g.handle = handle
    OBVIOUS
<1> HIDE DEF g
<1>5. held' = held \ {g}
    BY <1>1, <1>3, <1>4
<1>6. /\ slots' \in Seq(Wanted \cup {Empty}) /\ Len(slots') = Len(slots)
      /\ \A j \in 1..Len(slots) : slots'[j] = IF j = i THEN Empty ELSE slots[j]
    <2> HIDE DEF i
    <2>1. slots \in Seq(Wanted \cup {Empty}) /\ Empty \in Wanted \cup {Empty}
        BY DEF TypeOK
    <2>2. QED
        BY <1>1, <1>2, <2>1, ExceptSeq
<1>7. DOMAIN slots' = 1..Len(slots)
    BY <1>6, LenProperties
<1> HIDE DEF i
<1>8. \A j : j \in Occupied' <=> j \in Occupied /\ j # i
    BY <1>2, <1>6, <1>7, Tables DEF Occupied, Vacant
<1>9. \A j : j \in Vacant' <=> j \in Vacant \/ j = i
    BY <1>2, <1>6, <1>7, Tables DEF Vacant
<1>10. Occupied' = Occupied \ {i} /\ Vacant' = Vacant \cup {i}
    BY <1>8, <1>9
<1>11. QED
    BY <1>1, <1>2, <1>5, <1>6, <1>10 DEF i, g

\* Free keeps the invariant: the Handle it takes back names a vacant slot.
LEMMA FreeInv ==
    ASSUME Heap3Inv, NEW handle, Free(handle)
    PROVE  Heap3Inv'
<1> USE DEF Heap3Inv
<1> DEFINE i == handle.slot + 1
           g == [handle |-> handle, wanted |-> slots[i]]
<1>1. /\ i \in Occupied /\ i \in 1..Len(slots) /\ handle = HandleOf(i)
      /\ handle \in AllHandles /\ handle.generation = generations[i]
      /\ g \in held /\ held' = held \ {g}
      /\ slots' \in Seq(Wanted \cup {Empty}) /\ Len(slots') = Len(slots)
      /\ \A j \in 1..Len(slots) : slots'[j] = IF j = i THEN Empty ELSE slots[j]
      /\ Occupied' = Occupied \ {i} /\ Vacant' = Vacant \cup {i}
      /\ generations' = generations /\ stale' = stale \cup {handle}
    BY FreePlace
<1>2. /\ next_generation' = next_generation /\ allocations' = allocations /\ peak' = peak
      /\ frees' = frees + 1 /\ live_bytes' = SatSub(live_bytes, slots[i])
    BY DEF Free
<1>3. g.handle = handle /\ handle.slot + 1 = i
    OBVIOUS
<1> HIDE DEF i, g
<1>4. TypeOK'
    <2>1. live_bytes' \in Nat
        <3>1. slots[i] \in Nat
            BY <1>1, Tables, SizesAssumption
        <3>2. live_bytes \in Nat
            BY DEF TypeOK
        <3>3. QED
            BY <1>2, <3>1, <3>2 DEF SatSub
    <2>2. frees' \in Nat
        BY <1>2 DEF TypeOK
    <2>3. QED
        BY <1>1, <1>2, <2>1, <2>2 DEF TypeOK
<1>5. Fresh'
    <2>1. ASSUME allocations < MaxAllocs
          PROVE  \A h \in stale' : h.generation < next_generation
        BY <1>1, <2>1 DEF Fresh
    <2>2. QED
        BY <1>1, <1>2, <2>1 DEF Fresh
<1>6. \A j : HandleOf(j)' = HandleOf(j)
    BY <1>1 DEF HandleOf
<1>7. OneEach'
    <2>1. ASSUME NEW f \in held'
          PROVE  /\ f.handle.slot + 1 \in Occupied'
                 /\ f.handle = HandleOf(f.handle.slot + 1)'
                 /\ f.wanted = slots'[f.handle.slot + 1]
                 /\ f = [handle |-> f.handle, wanted |-> f.wanted]
        <3>1. f \in held /\ f # g
            BY <1>1, <2>1
        <3>2. /\ f.handle.slot + 1 \in Occupied
              /\ f.handle = HandleOf(f.handle.slot + 1)
              /\ f.wanted = slots[f.handle.slot + 1]
              /\ f = [handle |-> f.handle, wanted |-> f.wanted]
            BY <3>1 DEF OneEach
        <3>3. f.handle.slot + 1 # i
            <4> SUFFICES ASSUME f.handle.slot + 1 = i PROVE f = g
                BY <3>1
            <4>1. f.handle = handle /\ f.wanted = slots[i]
                BY <1>1, <3>2
            <4>2. QED
                BY <3>2, <4>1 DEF g
        <3>4. f.handle.slot + 1 \in 1..Len(slots)
            BY <3>2, Tables
        <3>5. slots'[f.handle.slot + 1] = slots[f.handle.slot + 1]
            BY <1>1, <3>3, <3>4
        <3>6. QED
            BY <1>1, <1>6, <3>2, <3>3, <3>5
    <2>2. ASSUME NEW j \in Occupied'
          PROVE  [handle |-> HandleOf(j), wanted |-> slots[j]]' \in held'
        <3>1. j \in Occupied /\ j # i /\ j \in 1..Len(slots) /\ j \in Int
            BY <1>1, <2>2, Tables
        <3>2. [handle |-> HandleOf(j), wanted |-> slots[j]] \in held /\ slots'[j] = slots[j]
            BY <1>1, <3>1 DEF OneEach
        <3>3. HandleOf(j) # handle
            <4>1. HandleOf(j).slot + 1 = j
                BY <3>1 DEF HandleOf
            <4>2. QED
                BY <1>3, <3>1, <4>1
        <3>4. [handle |-> HandleOf(j), wanted |-> slots[j]] # g
            BY <1>3, <3>3
        <3>5. [handle |-> HandleOf(j), wanted |-> slots[j]]'
                = [handle |-> HandleOf(j), wanted |-> slots[j]]
            BY <1>6, <3>2
        <3>6. QED
            BY <1>1, <3>2, <3>4, <3>5
    <2>3. /\ IsFiniteSet(held') /\ IsFiniteSet(Occupied')
          /\ Cardinality(held') = Cardinality(Occupied')
        <3>1. IsFiniteSet(held) /\ IsFiniteSet(Occupied) /\ Cardinality(held) = Cardinality(Occupied)
            BY DEF OneEach
        <3>2. IsFiniteSet(held \ {g}) /\ Cardinality(held \ {g}) = Cardinality(held) - 1
            BY <1>1, <3>1, FS_RemoveElement
        <3>3. /\ IsFiniteSet(Occupied \ {i})
              /\ Cardinality(Occupied \ {i}) = Cardinality(Occupied) - 1
            BY <1>1, <3>1, FS_RemoveElement
        <3>4. QED
            BY <1>1, <3>1, <3>2, <3>3
    <2>4. QED
        BY <2>1, <2>2, <2>3 DEF OneEach
<1>8. StaleLeft'
    <2>1. ASSUME NEW h \in stale'
          PROVE  /\ h \in AllHandles
                 /\ h.slot + 1 \in 1..Len(slots')
                 /\ h.slot + 1 \in Vacant' \/ generations'[h.slot + 1] # h.generation
        <3>1. CASE h = handle
            BY <1>1, <1>3, <3>1
        <3>2. CASE h \in stale
            BY <1>1, <3>2 DEF StaleLeft
        <3>3. QED
            BY <1>1, <3>1, <3>2
    <2>2. AllHandles' = AllHandles
        BY DEF AllHandles
    <2>3. QED
        BY <2>1, <2>2 DEF StaleLeft
<1>9. SlotsTrackPeak' /\ Len(slots') <= allocations'
    BY <1>1, <1>2 DEF SlotsTrackPeak
<1>10. QED
    BY <1>4, <1>5, <1>7, <1>8, <1>9

-----------------------------------------------------------------------------
(* The invariant, and what it gives.                                       *)

LEMMA InitInv == Init => Heap3Inv
<1> SUFFICES ASSUME Init PROVE Heap3Inv
    OBVIOUS
<1>1. /\ slots = <<>> /\ generations = <<>> /\ Len(slots) = 0 /\ Len(generations) = 0
      /\ DOMAIN slots = {} /\ Occupied = {} /\ Vacant = {}
      /\ next_generation \in {0, 1} /\ allocations = 0 /\ frees = 0 /\ live_bytes = 0
      /\ held = {} /\ stale = {} /\ peak = 0
    BY DEF Init, Occupied, Vacant
<1>2. next_generation \in 0..U32_MOD - 1
    BY <1>1, SizesAssumption
<1>3. TypeOK
    BY <1>1, <1>2, SizesAssumption DEF TypeOK
<1>4. Fresh
    BY <1>1 DEF Fresh
<1>5. OneEach
    BY <1>1, FS_EmptySet DEF OneEach
<1>6. StaleLeft /\ SlotsTrackPeak /\ Len(slots) <= allocations
    BY <1>1 DEF StaleLeft, SlotsTrackPeak
<1>7. QED
    BY <1>3, <1>4, <1>5, <1>6 DEF Heap3Inv

LEMMA StepInv == Heap3Inv /\ [Next]_vars => Heap3Inv'
<1> SUFFICES ASSUME Heap3Inv, [Next]_vars PROVE Heap3Inv'
    OBVIOUS
<1>1. ASSUME UNCHANGED vars PROVE Heap3Inv'
    <2>1. TypeOK' /\ Fresh' /\ SlotsTrackPeak' /\ (Len(slots) <= allocations)'
        BY <1>1 DEF vars, heap3, Heap3Inv, TypeOK, Fresh, SlotsTrackPeak
    <2>2. StaleLeft'
        BY <1>1 DEF vars, heap3, Heap3Inv, StaleLeft, AllHandles, Vacant
    <2>3. OneEach'
        BY <1>1 DEF vars, heap3, Heap3Inv, OneEach, Occupied, Vacant, HandleOf
    <2>4. QED
        BY <2>1, <2>2, <2>3 DEF Heap3Inv
<1>2. CASE \E wanted \in Wanted, room \in SUBSET Requests : Alloc(wanted, room)
    BY <1>2, AllocInv
<1>3. CASE \E wanted \in Wanted :
            AllocZero(wanted) \/ \E room \in SUBSET Requests : AllocRefused(wanted, room)
    BY <1>1, <1>3, RefusedKeeps DEF AllocZero
<1>4. CASE \E handle \in HeldHandles \cup stale : Free(handle) \/ FreeRefused(handle)
    BY <1>1, <1>4, FreeInv DEF FreeRefused
<1>5. QED
    BY <1>1, <1>2, <1>3, <1>4 DEF Next

\* Heap3, for every set of requests: the invariant holds in every behaviour.
THEOREM Heap3IsInvariant == Spec => []Heap3Inv
<1>1. Heap3Inv /\ [Next]_vars => Heap3Inv'
    BY StepInv
<1>2. QED
    BY InitInv, <1>1, PTL DEF Spec

\* Heap3::alloc and Heap3::free keep the two tables of one length and every
\* generation below 2^32.
THEOREM HandleTypes == Spec => []TypeOK
<1>1. Heap3Inv => TypeOK
    BY DEF Heap3Inv
<1>2. QED
    BY Heap3IsInvariant, <1>1, PTL

\* bytes and free reach, through a held Handle, the allocation it was issued
\* for, and live_allocations counts the Handles that are held.
THEOREM HandlesNameTheirBytes == Spec => []HeldNamesItsBytes
<1>1. Heap3Inv => HeldNamesItsBytes
    <2> SUFFICES ASSUME Heap3Inv PROVE HeldNamesItsBytes
        OBVIOUS
    <2>1. ASSUME NEW g \in held
          PROVE  Answer(g.handle) = "Ok" /\ slots[g.handle.slot + 1] = g.wanted
        <3>1. /\ g.handle.slot + 1 \in Occupied
              /\ g.handle = HandleOf(g.handle.slot + 1)
              /\ g.wanted = slots[g.handle.slot + 1]
            BY DEF Heap3Inv, OneEach
        <3>2. QED
            BY <3>1 DEF Answer, Occupied, Vacant
    <2>2. Cardinality(held) = live_allocations
        BY DEF Heap3Inv, OneEach, live_allocations, Occupied
    <2>3. QED
        BY <2>1, <2>2 DEF HeldNamesItsBytes
<1>2. QED
    BY Heap3IsInvariant, <1>1, PTL

\* The tables have as many slots as were ever live at once: alloc reuses a
\* vacant slot before it pushes a new one.
THEOREM TablesTrackPeak == Spec => []SlotsTrackPeak
<1>1. Heap3Inv => SlotsTrackPeak
    BY DEF Heap3Inv
<1>2. QED
    BY Heap3IsInvariant, <1>1, PTL

-----------------------------------------------------------------------------
(* What the held blocks ask for, added up.  MapThenSumSet is a choice of a *)
(* recursive function: that there is one, and which numbers it gives, is   *)
(* shown by a smallest set where it would fail.                            *)

Asked(S) == MapThenSumSet(LAMBDA g : g.wanted, S)

Pick(S) == CHOOSE y \in S : TRUE

\* f adds up every subset of S, one element at a time.
Sums(f, S) ==
    f = [s \in SUBSET S |->
            IF s = {} THEN 0
            ELSE LET x == CHOOSE y \in s : TRUE IN x.wanted + f[s \ {x}]]

\* Of the finite sets in a family, one has no proper subset in it.
LEMMA SmallestSet ==
    ASSUME NEW U, IsFiniteSet(U), NEW B \in SUBSET (SUBSET U), B # {}
    PROVE  \E T \in B : \A s \in SUBSET T : s # T => s \notin B
<1> DEFINE sizes == {Cardinality(s) : s \in B}
<1>1. \A s \in B : IsFiniteSet(s) /\ Cardinality(s) \in Nat
    BY FS_Subset, FS_CardinalityType
<1>2. sizes \in SUBSET Nat /\ sizes # {}
    BY <1>1
<1>3. PICK n \in sizes : \A m \in sizes : n <= m
    BY <1>2, LeastNumber
<1>4. PICK T \in B : Cardinality(T) = n
    BY <1>3
<1>5. ASSUME NEW s \in SUBSET T, s # T, s \in B PROVE FALSE
    <2>1. n <= Cardinality(s)
        BY <1>3, <1>5
    <2>2. Cardinality(s) <= Cardinality(T) /\ (Cardinality(T) = Cardinality(s) => T = s)
        BY <1>1, FS_Subset
    <2>3. QED
        BY <1>1, <1>4, <1>5, <2>1, <2>2
<1>6. QED
    BY <1>5

LEMMA SumsAdd ==
    ASSUME NEW U, NEW f, Sums(f, U), NEW s \in SUBSET U
    PROVE  /\ s = {} => f[s] = 0
           /\ s # {} => f[s] = Pick(s).wanted + f[s \ {Pick(s)}]
BY DEF Sums, Pick

LEMMA PickIsIn ==
    ASSUME NEW S, S # {}
    PROVE  Pick(S) \in S
BY DEF Pick

\* There is but one way to add up a finite set so.
LEMMA SumsAgree ==
    ASSUME NEW U, NEW V, NEW f, NEW g, Sums(f, U), Sums(g, V),
           NEW s \in SUBSET U, s \in SUBSET V, IsFiniteSet(s)
    PROVE  f[s] = g[s]
<1> DEFINE B == {t \in SUBSET s : f[t] # g[t]}
<1> SUFFICES ASSUME B # {} PROVE FALSE
    OBVIOUS
<1>1. PICK T \in B : \A t \in SUBSET T : t # T => t \notin B
    <2>1. B \in SUBSET (SUBSET s)
        OBVIOUS
    <2> HIDE DEF B
    <2>2. QED
        BY <2>1, SmallestSet
<1>2. T \in SUBSET s /\ T \in SUBSET U /\ T \in SUBSET V /\ f[T] # g[T]
    OBVIOUS
<1>3. T # {}
    BY <1>2, SumsAdd
<1>4. Pick(T) \in T
    BY <1>3, PickIsIn
<1>5. f[T \ {Pick(T)}] = g[T \ {Pick(T)}]
    BY <1>1, <1>2, <1>4
<1> HIDE DEF B
<1>6. /\ f[T] = Pick(T).wanted + f[T \ {Pick(T)}]
      /\ g[T] = Pick(T).wanted + g[T \ {Pick(T)}]
    <2>1. T \in SUBSET U /\ T \in SUBSET V
        BY <1>2
    <2>2. f[T] = Pick(T).wanted + f[T \ {Pick(T)}]
        BY <1>3, <2>1 DEF Sums, Pick
    <2>3. g[T] = Pick(T).wanted + g[T \ {Pick(T)}]
        BY <1>3, <2>1 DEF Sums, Pick
    <2>4. QED
        BY <2>2, <2>3
<1>7. QED
    BY <1>2, <1>5, <1>6

LEMMA AskedIs ==
    ASSUME NEW S
    PROVE  Asked(S) = (CHOOSE f : Sums(f, S))[S]
<1>1. (CHOOSE f : f = [s \in SUBSET S |->
            IF s = {} THEN 0
            ELSE LET x == CHOOSE y \in s : TRUE IN x.wanted + f[s \ {x}]])
        = (CHOOSE f : Sums(f, S))
    BY DEF Sums
<1>2. QED
    BY <1>1 DEF Asked, MapThenSumSet, MapThenFoldSet

\* Any function that adds up the subsets of a set gives what Asked gives.
LEMMA SumsGive ==
    ASSUME NEW U, NEW f, Sums(f, U), NEW s \in SUBSET U, IsFiniteSet(s),
           \E g : Sums(g, s)
    PROVE  Asked(s) = f[s]
<1> DEFINE g == CHOOSE h : Sums(h, s)
<1>1. Sums(g, s)
    OBVIOUS
<1>2. Asked(s) = g[s]
    BY AskedIs
<1> HIDE DEF g
<1>3. QED
    BY <1>1, <1>2, SumsAgree

\* Every finite set has one.
LEMMA SumsExist ==
    ASSUME NEW U, IsFiniteSet(U)
    PROVE  \E f : Sums(f, U)
<1> DEFINE B == {t \in SUBSET U : ~ \E f : Sums(f, t)}
<1> SUFFICES ASSUME B # {} PROVE FALSE
    OBVIOUS
<1>1. PICK T \in B : \A t \in SUBSET T : t # T => t \notin B
    <2>1. B \in SUBSET (SUBSET U)
        OBVIOUS
    <2> HIDE DEF B
    <2>2. QED
        BY <2>1, SmallestSet
<1>2. T \in SUBSET U /\ ~ (\E f : Sums(f, T))
    OBVIOUS
<1>3. \A t \in SUBSET T : t # T => \E f : Sums(f, t)
    BY <1>1, <1>2
<1>4. \A t \in SUBSET T : IsFiniteSet(t)
    BY <1>2, FS_Subset
<1> HIDE DEF B
<1> DEFINE h == [s \in SUBSET T |->
                    IF s = {} THEN 0 ELSE Pick(s).wanted + Asked(s \ {Pick(s)})]
<1>5. ASSUME NEW r \in SUBSET T, r # T PROVE h[r] = Asked(r)
    <2>1. PICK f : Sums(f, r)
        BY <1>3, <1>5
    <2>2. Asked(r) = f[r]
        BY <1>4, <2>1, SumsGive
    <2>3. CASE r = {}
        BY <2>1, <2>2, <2>3, SumsAdd
    <2>4. CASE r # {}
        <3>1. Pick(r) \in r /\ r \ {Pick(r)} \in SUBSET r /\ r \ {Pick(r)} \in SUBSET T
            BY <2>4, PickIsIn
        <3>2. r \ {Pick(r)} # T
            BY <3>1
        <3>3. Asked(r \ {Pick(r)}) = f[r \ {Pick(r)}]
            BY <1>3, <1>4, <2>1, <3>1, <3>2, SumsGive
        <3>4. f[r] = Pick(r).wanted + f[r \ {Pick(r)}]
            BY <2>1, <2>4, SumsAdd
        <3>5. h[r] = Pick(r).wanted + Asked(r \ {Pick(r)})
            BY <2>4
        <3>6. QED
            BY <2>2, <3>3, <3>4, <3>5
    <2>5. QED
        BY <2>3, <2>4
<1>6. ASSUME NEW s \in SUBSET T
      PROVE  h[s] = IF s = {} THEN 0
                    ELSE LET x == CHOOSE y \in s : TRUE IN x.wanted + h[s \ {x}]
    <2>1. CASE s = {}
        BY <2>1
    <2>2. CASE s # {}
        <3>1. Pick(s) \in s /\ s \ {Pick(s)} \in SUBSET T /\ s \ {Pick(s)} # T
            BY <2>2, PickIsIn
        <3>2. h[s \ {Pick(s)}] = Asked(s \ {Pick(s)})
            BY <1>5, <3>1
        <3>3. h[s] = Pick(s).wanted + Asked(s \ {Pick(s)})
            BY <2>2
        <3> HIDE DEF h
        <3>4. h[s] = Pick(s).wanted + h[s \ {Pick(s)}]
            BY <3>2, <3>3
        <3>5. QED
            BY <2>2, <3>4 DEF Pick
    <2>3. QED
        BY <2>1, <2>2
<1>7. h = [s \in SUBSET T |-> h[s]]
    OBVIOUS
<1> HIDE DEF h
<1>8. Sums(h, T)
    BY <1>6, <1>7 DEF Sums
<1>9. QED
    BY <1>2, <1>8

\* A finite set asks for what its pick asks for, and the rest.
LEMMA AskedByPick ==
    ASSUME NEW S, IsFiniteSet(S)
    PROVE  /\ S = {} => Asked(S) = 0
           /\ S # {} => Asked(S) = Pick(S).wanted + Asked(S \ {Pick(S)})
<1>1. PICK f : Sums(f, S)
    BY SumsExist
<1>2. Asked(S) = f[S]
    BY <1>1, SumsGive
<1>3. IsFiniteSet(S \ {Pick(S)}) /\ S \ {Pick(S)} \in SUBSET S
    BY FS_Subset
<1>4. \E g : Sums(g, S \ {Pick(S)})
    BY <1>3, SumsExist
<1>5. Asked(S \ {Pick(S)}) = f[S \ {Pick(S)}]
    BY <1>1, <1>3, <1>4, SumsGive
<1>6. QED
    BY <1>1, <1>2, <1>5, SumsAdd

\* What a finite set asks for is a number, and whichever element leaves takes
\* what it asked for with it.
AddsUp(S) ==
    /\ Asked(S) \in Nat
    /\ \A x \in S : Asked(S) = x.wanted + Asked(S \ {x})

LEMMA AskedAddsUp ==
    ASSUME NEW U, IsFiniteSet(U), \A x \in U : x.wanted \in Nat
    PROVE  AddsUp(U)
<1> DEFINE B == {t \in SUBSET U : ~ AddsUp(t)}
<1> SUFFICES ASSUME B # {} PROVE FALSE
    OBVIOUS
<1>1. PICK T \in B : \A t \in SUBSET T : t # T => t \notin B
    <2>1. B \in SUBSET (SUBSET U)
        OBVIOUS
    <2> HIDE DEF B
    <2>2. QED
        BY <2>1, SmallestSet
<1>2. T \in SUBSET U /\ ~ AddsUp(T)
    OBVIOUS
<1>3. \A t \in SUBSET T : t # T => AddsUp(t)
    BY <1>1, <1>2
<1>4. IsFiniteSet(T)
    BY <1>2, FS_Subset
<1> HIDE DEF B
<1>5. T # {}
    BY <1>2, <1>4, AskedByPick DEF AddsUp
<1> DEFINE y == Pick(T)
<1>6. y \in T /\ Asked(T) = y.wanted + Asked(T \ {y})
    BY <1>4, <1>5, AskedByPick, PickIsIn
<1> HIDE DEF y
<1>7. \A x \in T : AddsUp(T \ {x}) /\ Asked(T \ {x}) \in Nat /\ x.wanted \in Nat
    BY <1>2, <1>3 DEF AddsUp
<1>8. Asked(T) \in Nat
    BY <1>6, <1>7
<1>9. ASSUME NEW x \in T PROVE Asked(T) = x.wanted + Asked(T \ {x})
    <2>1. CASE x = y
        BY <1>6, <2>1
    <2>2. CASE x # y
        <3>1. x \in T \ {y} /\ y \in T \ {x}
            BY <1>6, <2>2
        <3> DEFINE rest == Asked((T \ {y}) \ {x})
        <3>2. (T \ {y}) \ {x} = (T \ {x}) \ {y}
            OBVIOUS
        <3>3. Asked(T \ {y}) = x.wanted + rest
            BY <1>6, <1>7, <3>1 DEF AddsUp
        <3>4. Asked(T \ {x}) = y.wanted + rest
            BY <1>7, <3>1, <3>2 DEF AddsUp
        <3>5. rest \in Nat
            <4>1. (T \ {y}) \ {x} \in SUBSET T /\ (T \ {y}) \ {x} # T
                BY <3>1
            <4>2. QED
                BY <1>3, <4>1 DEF AddsUp
        <3> HIDE DEF rest
        <3>6. x.wanted \in Nat /\ y.wanted \in Nat
            BY <1>6, <1>7
        <3>7. QED
            BY <1>6, <3>3, <3>4, <3>5, <3>6
    <2>3. QED
        BY <2>1, <2>2
<1>10. QED
    BY <1>2, <1>8, <1>9 DEF AddsUp

-----------------------------------------------------------------------------
(* The books: what is live is what was asked for.                          *)

\* What is live is what the held Handles were issued for.
Books ==
    /\ live_bytes = Asked(held)
    /\ allocations = frees + Cardinality(held)

\* What callers hold, they asked a number of bytes for.
LEMMA HeldAsk ==
    ASSUME Heap3Inv, NEW g \in held
    PROVE  g.wanted \in Nat
<1>1. g.handle.slot + 1 \in Occupied /\ g.wanted = slots[g.handle.slot + 1]
    BY DEF Heap3Inv, OneEach
<1>2. g.wanted \in Wanted
    BY <1>1, Tables DEF Heap3Inv
<1>3. QED
    BY <1>2, SizesAssumption

LEMMA HeldAddUp ==
    ASSUME Heap3Inv
    PROVE  AddsUp(held)
<1>1. IsFiniteSet(held)
    BY DEF Heap3Inv, OneEach
<1>2. \A g \in held : g.wanted \in Nat
    BY HeldAsk
<1>3. QED
    BY <1>1, <1>2, AskedAddsUp

\* Heap3::alloc adds the bytes of a Handle nobody held.
LEMMA AllocBooks ==
    ASSUME Heap3Inv, Heap3Inv', Books,
           NEW wanted \in Wanted, NEW room \in SUBSET Requests, Alloc(wanted, room)
    PROVE  Books'
<1>1. PICK i \in 1..Len(slots) + 1 :
        LET handle == [slot |-> i - 1, generation |-> next_generation]
        IN  /\ i \notin Occupied
            /\ held' = held \cup {[handle |-> handle, wanted |-> wanted]}
    BY AllocPlace
<1> DEFINE handle == [slot |-> i - 1, generation |-> next_generation]
           g == [handle |-> handle, wanted |-> wanted]
<1>2. g.handle.slot + 1 = i /\ g.wanted = wanted /\ held' = held \cup {g}
    BY <1>1, Tables DEF Heap3Inv
<1> HIDE DEF handle, g
<1>3. g \notin held
    BY <1>1, <1>2 DEF Heap3Inv, OneEach
<1>4. /\ live_bytes' = live_bytes + wanted /\ allocations' = allocations + 1
      /\ frees' = frees
    BY DEF Alloc
<1>5. Asked(held') = wanted + Asked(held)
    <2>1. AddsUp(held')
        <3>1. IsFiniteSet(held')
            BY DEF Heap3Inv, OneEach
        <3>2. \A f \in held' : f.wanted \in Nat
            <4>1. \A f \in held : f.wanted \in Nat
                BY HeldAsk
            <4>2. wanted \in Nat
                BY SizesAssumption
            <4>3. QED
                BY <1>2, <4>1, <4>2
        <3>3. QED
            BY <3>1, <3>2, AskedAddsUp
    <2>2. g \in held' /\ held' \ {g} = held
        BY <1>2, <1>3
    <2>3. QED
        BY <1>2, <2>1, <2>2 DEF AddsUp
<1>6. Cardinality(held') = Cardinality(held) + 1 /\ Cardinality(held) \in Nat
    <2>1. IsFiniteSet(held)
        BY DEF Heap3Inv, OneEach
    <2>2. QED
        BY <1>2, <1>3, <2>1, FS_AddElement, FS_CardinalityType
<1>7. Asked(held) \in Nat /\ wanted \in Nat /\ frees \in Nat
    BY HeldAddUp, SizesAssumption DEF AddsUp, Heap3Inv, TypeOK
<1>8. live_bytes' = Asked(held')
    BY <1>4, <1>5, <1>7 DEF Books
<1>9. allocations' = frees' + Cardinality(held')
    BY <1>4, <1>6, <1>7 DEF Books
<1>10. Asked(held)' = Asked(held')
    BY DEF Asked, MapThenSumSet, MapThenFoldSet
<1>11. QED
    BY <1>8, <1>9, <1>10 DEF Books

\* Heap3::free subtracts what the Handle asked for, which is among the bytes
\* that are live: its saturating subtraction never saturates.
LEMMA FreeBooks ==
    ASSUME Heap3Inv, Books, NEW handle, Free(handle)
    PROVE  Books'
<1> DEFINE i == handle.slot + 1
           g == [handle |-> handle, wanted |-> slots[i]]
<1>1. g \in held /\ held' = held \ {g} /\ g.wanted = slots[i]
    BY FreePlace
<1>2. /\ live_bytes' = SatSub(live_bytes, slots[i]) /\ allocations' = allocations
      /\ frees' = frees + 1
    BY DEF Free
<1> HIDE DEF i, g
<1>3. /\ Asked(held) = slots[i] + Asked(held')
      /\ Asked(held') \in Nat /\ slots[i] \in Nat
    <2>1. Asked(held) = g.wanted + Asked(held \ {g})
        BY <1>1, HeldAddUp DEF AddsUp
    <2>2. IsFiniteSet(held') /\ \A f \in held' : f.wanted \in Nat
        BY <1>1, HeldAsk, FS_Subset DEF Heap3Inv, OneEach
    <2>3. AddsUp(held')
        BY <2>2, AskedAddsUp
    <2>4. g.wanted \in Nat
        BY <1>1, HeldAsk
    <2>5. QED
        BY <1>1, <2>1, <2>3, <2>4 DEF AddsUp
<1>4. Cardinality(held') = Cardinality(held) - 1 /\ Cardinality(held) \in Nat
    <2>1. IsFiniteSet(held)
        BY DEF Heap3Inv, OneEach
    <2>2. QED
        BY <1>1, <2>1, FS_RemoveElement, FS_CardinalityType
<1>5. live_bytes' = Asked(held')
    <2>1. live_bytes = slots[i] + Asked(held')
        BY <1>3 DEF Books
    <2>2. SatSub(live_bytes, slots[i]) = Asked(held')
        BY <1>3, <2>1 DEF SatSub
    <2>3. QED
        BY <1>2, <2>2
<1>6. frees \in Nat
    BY DEF Heap3Inv, TypeOK
<1>7. allocations' = frees' + Cardinality(held')
    BY <1>2, <1>4, <1>6 DEF Books
<1>8. Asked(held)' = Asked(held')
    BY DEF Asked, MapThenSumSet, MapThenFoldSet
<1>9. QED
    BY <1>5, <1>7, <1>8 DEF Books

LEMMA StepBooks ==
    ASSUME Heap3Inv, Heap3Inv', Books, [Next]_vars
    PROVE  Books'
<1>1. ASSUME UNCHANGED vars PROVE Books'
    <2>1. held' = held /\ live_bytes' = live_bytes /\ allocations' = allocations /\ frees' = frees
        BY <1>1 DEF vars, heap3
    <2>2. Asked(held)' = Asked(held)
        BY <2>1 DEF Asked, MapThenSumSet, MapThenFoldSet
    <2>3. QED
        BY <2>1, <2>2 DEF Books
<1>2. CASE \E wanted \in Wanted, room \in SUBSET Requests : Alloc(wanted, room)
    BY <1>2, AllocBooks
<1>3. CASE \E wanted \in Wanted :
            AllocZero(wanted) \/ \E room \in SUBSET Requests : AllocRefused(wanted, room)
    BY <1>1, <1>3, RefusedKeeps DEF AllocZero
<1>4. CASE \E handle \in HeldHandles \cup stale : Free(handle) \/ FreeRefused(handle)
    BY <1>1, <1>4, FreeBooks DEF FreeRefused
<1>5. QED
    BY <1>1, <1>2, <1>3, <1>4 DEF Next

\* live_bytes and the counters: what is live is what the holders asked for,
\* and every successful alloc that was not freed has a holder.
THEOREM BytesAddUp == Spec => []LiveBytesAddUp
<1>1. Init => Books
    <2> SUFFICES ASSUME Init PROVE Books
        OBVIOUS
    <2>1. Asked({}) = 0
        BY AskedByPick, FS_EmptySet
    <2>2. QED
        BY <2>1, FS_EmptySet DEF Init, Books
<1>2. Heap3Inv /\ Heap3Inv' /\ Books /\ [Next]_vars => Books'
    BY StepBooks
<1>3. Heap3Inv /\ Books => LiveBytesAddUp
    <2> SUFFICES ASSUME Heap3Inv, Books PROVE LiveBytesAddUp
        OBVIOUS
    <2>1. live_bytes = MapThenSumSet(LAMBDA g : g.wanted, held)
        BY DEF Books, Asked
    <2>2. live_allocations = Cardinality(held) /\ Cardinality(held) \in Nat
        BY FS_CardinalityType DEF Heap3Inv, OneEach, live_allocations, Occupied
    <2>3. frees \in Nat
        BY DEF Heap3Inv, TypeOK
    <2>4. allocations - frees = live_allocations
        BY <2>2, <2>3 DEF Books
    <2>5. QED
        BY <2>1, <2>4 DEF LiveBytesAddUp
<1>4. QED
    BY Heap3IsInvariant, <1>1, <1>2, <1>3, PTL DEF Spec

-----------------------------------------------------------------------------
(* Heap3 implements Handles.                                               *)

\* What a call does to the Handles, as Handles has it.
Issues(h) == h \notin Accepted \cup stale /\ Accepted' = Accepted \cup {h} /\ stale' = stale
Retires(h) == h \in Accepted /\ Accepted' = Accepted \ {h} /\ stale' = stale \cup {h}
Keeps == Accepted' = Accepted /\ stale' = stale

\* The heap accepts a Handle when its slot is occupied and on its generation.
LEMMA AcceptedNow ==
    \A h \in AllHandles :
        h \in Accepted <=> /\ h.slot + 1 \in Occupied
                           /\ h.generation = generations[h.slot + 1]
<1> SUFFICES ASSUME NEW h \in AllHandles
             PROVE  h \in Accepted <=> /\ h.slot + 1 \in Occupied
                                       /\ h.generation = generations[h.slot + 1]
    OBVIOUS
<1>1. HandleOf(h.slot + 1) = h <=> h.generation = generations[h.slot + 1]
    BY DEF HandleOf, AllHandles
<1>2. QED
    BY <1>1 DEF Accepted, Answer, Occupied, Vacant

LEMMA AcceptedNext ==
    \A h \in AllHandles :
        h \in Accepted' <=> /\ h.slot + 1 \in Occupied'
                            /\ h.generation = generations'[h.slot + 1]
<1> SUFFICES ASSUME NEW h \in AllHandles
             PROVE  h \in Accepted' <=> /\ h.slot + 1 \in Occupied'
                                        /\ h.generation = generations'[h.slot + 1]
    OBVIOUS
<1>1. HandleOf(h.slot + 1)' = h <=> h.generation = generations'[h.slot + 1]
    BY DEF HandleOf, AllHandles
<1>2. Answer(h)' = "Ok" <=> /\ h.slot + 1 \in Occupied'
                            /\ h.generation = generations'[h.slot + 1]
    BY <1>1 DEF Answer, Occupied, Vacant
<1>3. AllHandles' = AllHandles
    BY DEF AllHandles
<1>4. QED
    BY <1>2, <1>3 DEF Accepted

LEMMA AcceptedType == Accepted \subseteq AllHandles /\ Accepted' \subseteq AllHandles
BY DEF Accepted, AllHandles

\* Heap3::alloc issues a Handle that was never good before.
LEMMA AllocIssues ==
    ASSUME Heap3Inv, NEW wanted \in Wanted, NEW room \in SUBSET Requests,
           Alloc(wanted, room)
    PROVE  \E h \in AllHandles : Issues(h)
<1> USE DEF Heap3Inv
<1>1. PICK i \in 1..Len(slots) + 1 :
        LET handle == [slot |-> i - 1, generation |-> next_generation]
        IN  /\ i \notin Occupied
            /\ i = Len(slots) + 1 => Vacant = {}
            /\ slots' \in Seq(Wanted \cup {Empty})
            /\ generations' \in Seq(0..U32_MOD - 1)
            /\ Len(generations') = Len(slots')
            /\ Len(slots') = IF i <= Len(slots) THEN Len(slots) ELSE Len(slots) + 1
            /\ i \in 1..Len(slots')
            /\ \A j \in 1..Len(slots') :
                /\ slots'[j] = IF j = i THEN wanted ELSE slots[j]
                /\ generations'[j] = IF j = i THEN next_generation ELSE generations[j]
            /\ held' = held \cup {[handle |-> handle, wanted |-> wanted]}
            /\ handle \in AllHandles
    BY AllocPlace
<1> DEFINE handle == [slot |-> i - 1, generation |-> next_generation]
<1>2. Len(slots) \in Nat /\ allocations < MaxAllocs /\ stale' = stale
    BY Tables DEF Alloc
<1>3. handle \in AllHandles /\ handle.slot + 1 = i /\ handle.generation = next_generation
    BY <1>1, <1>2
<1>4. \A h \in AllHandles : h = handle <=> h.slot + 1 = i /\ h.generation = next_generation
    BY <1>2 DEF AllHandles
<1> HIDE DEF handle
<1>5. handle \notin Accepted
    BY <1>1, <1>3, AcceptedNow
<1>6. handle \notin stale
    <2>1. handle \in stale => next_generation < next_generation
        BY <1>2, <1>3 DEF Fresh
    <2>2. next_generation \in Nat
        BY DEF TypeOK
    <2>3. QED
        BY <2>1, <2>2
<1>7. \A j : j \in 1..Len(slots') <=> j = i \/ j \in 1..Len(slots)
    BY <1>1, <1>2
<1>8. \A j : j \in Occupied' <=> j \in 1..Len(slots') /\ slots'[j] # Empty
    <2>1. DOMAIN slots' = 1..Len(slots')
        BY <1>1, LenProperties
    <2>2. QED
        BY <2>1 DEF Occupied, Vacant
<1>9. ASSUME NEW h \in AllHandles PROVE h \in Accepted' <=> h \in Accepted \/ h = handle
    <2>1. CASE h.slot + 1 = i
        <3>1. wanted # Empty
            BY SizesAssumption
        <3>2. i \in Occupied' /\ generations'[i] = next_generation
            BY <1>1, <1>8, <3>1
        <3>3. h \notin Accepted
            BY <1>1, <2>1, AcceptedNow
        <3>4. QED
            BY <1>4, <2>1, <3>2, <3>3, AcceptedNext
    <2>2. CASE h.slot + 1 # i
        <3>1. h.slot + 1 \in Occupied' <=> h.slot + 1 \in Occupied
            BY <1>1, <1>7, <1>8, <2>2, Tables
        <3>2. h.slot + 1 \in Occupied' =>
                generations'[h.slot + 1] = generations[h.slot + 1]
            BY <1>1, <1>8, <2>2
        <3>3. QED
            BY <1>4, <2>2, <3>1, <3>2, AcceptedNow, AcceptedNext
    <2>3. QED
        BY <2>1, <2>2
<1>10. Accepted' = Accepted \cup {handle}
    BY <1>3, <1>9, AcceptedType
<1>11. QED
    BY <1>2, <1>3, <1>5, <1>6, <1>10 DEF Issues

\* Heap3::free retires the Handle it is given.
LEMMA FreeRetires ==
    ASSUME Heap3Inv, NEW handle, Free(handle)
    PROVE  handle \in AllHandles /\ Retires(handle)
<1> DEFINE i == handle.slot + 1
<1>1. /\ i \in Occupied /\ handle \in AllHandles /\ handle.generation = generations[i]
      /\ Occupied' = Occupied \ {i}
      /\ generations' = generations /\ stale' = stale \cup {handle}
    BY FreePlace
<1>2. handle.slot + 1 = i
    OBVIOUS
<1> HIDE DEF i
<1>3. handle \in Accepted
    BY <1>1, <1>2, AcceptedNow
<1>4. ASSUME NEW h \in AllHandles PROVE h \in Accepted' <=> h \in Accepted /\ h # handle
    <2>1. CASE h.slot + 1 = i
        <3>1. h = handle <=> h.generation = generations[i]
            BY <1>1, <1>2, <2>1 DEF AllHandles
        <3>2. QED
            BY <1>1, <2>1, <3>1, AcceptedNow, AcceptedNext
    <2>2. CASE h.slot + 1 # i
        BY <1>1, <1>2, <2>2, AcceptedNow, AcceptedNext
    <2>3. QED
        BY <2>1, <2>2
<1>5. Accepted' = Accepted \ {handle}
    BY <1>4, AcceptedType
<1>6. QED
    BY <1>1, <1>3, <1>5 DEF Retires

\* One call of the heap issues one fresh Handle, retires one, or neither.
LEMMA StepRefines ==
    ASSUME Heap3Inv, [Next]_vars
    PROVE  (\E h \in AllHandles : Issues(h) \/ Retires(h)) \/ Keeps
<1>1. ASSUME UNCHANGED vars PROVE Keeps
    BY <1>1 DEF vars, heap3, Keeps, Accepted, AllHandles, Answer, HandleOf
<1>2. CASE \E wanted \in Wanted, room \in SUBSET Requests : Alloc(wanted, room)
    BY <1>2, AllocIssues
<1>3. CASE \E handle \in HeldHandles \cup stale : Free(handle)
    BY <1>3, FreeRetires
<1>4. CASE \E wanted \in Wanted :
            AllocZero(wanted) \/ \E room \in SUBSET Requests : AllocRefused(wanted, room)
    BY <1>1, <1>4, RefusedKeeps DEF AllocZero
<1>5. CASE \E handle \in HeldHandles \cup stale : FreeRefused(handle)
    BY <1>1, <1>5 DEF FreeRefused
<1>6. QED
    BY <1>1, <1>2, <1>3, <1>4, <1>5 DEF Next

\* Heap3 implements Handles: of all Handles there could be, the heap accepts
\* those it issued and did not take back, while its generations do not wrap.
THEOREM Heap3ImplementsHandles == Spec => ImplementsHandles
<1>1. Init => H!Init
    <2> SUFFICES ASSUME Init PROVE H!Init
        OBVIOUS
    <2>1. DOMAIN slots = {}
        BY DEF Init
    <2>2. \A h \in AllHandles : Answer(h) # "Ok"
        BY <2>1 DEF Answer
    <2>3. Accepted = {} /\ stale = {}
        BY <2>2 DEF Init, Accepted
    <2>4. QED
        BY <2>3 DEF H!Init
<1>2. Heap3Inv /\ [Next]_vars => [H!Next]_(H!vars)
    <2> SUFFICES ASSUME Heap3Inv, [Next]_vars PROVE [H!Next]_(H!vars)
        OBVIOUS
    <2>1. (\E h \in AllHandles : Issues(h) \/ Retires(h)) \/ Keeps
        BY StepRefines
    <2>2. QED
        BY <2>1 DEF H!Next, H!Issue, H!Retire, H!vars, Issues, Retires, Keeps
<1>3. QED
    BY Heap3IsInvariant, <1>1, <1>2, PTL DEF Spec, ImplementsHandles, H!Spec
=============================================================================
