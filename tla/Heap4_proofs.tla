------------------------------ MODULE Heap4_proofs ------------------------------
(***************************************************************************)
(* Theorems about Heap4, for every value of its constants: what a table of *)
(* regions lays out, and what alloc, free and the callers' writes keep of  *)
(* the headers in the arena.                                               *)
(***************************************************************************)
EXTENDS Heap4_list_proofs

-----------------------------------------------------------------------------
(* define_regions.                                                         *)

\* The turns of the loop: what the regions up to the k-th leave.
Begun(h) == [heap |-> h, previous |-> NONE, total |-> 0, refused |-> FALSE]

Turns(f, h, table, n) ==
    f = [s \in SUBSET (1..n) |->
            IF s = {} THEN Begun(h)
            ELSE LayRegion(f[s \ {Max(s)}], table[Max(s)])]

LEMMA TopIsMax ==
    ASSUME NEW k \in Nat, NEW s, s \subseteq 1..k, k \in s
    PROVE  Max(s) = k
<1>1. k \in s /\ \A y \in s : k >= y
    OBVIOUS
<1>2. Max(s) \in s /\ \A y \in s : Max(s) >= y
    BY <1>1 DEF Max
<1> HIDE DEF Max
<1>3. Max(s) \in 1..k
    BY <1>2
<1>4. QED
    BY <1>1, <1>2, <1>3

LEMMA TurnsExist ==
    ASSUME NEW h, NEW table, NEW n \in Nat
    PROVE  \E f : Turns(f, h, table, n)
<1> DEFINE S == {k \in 0..n : \E f : Turns(f, h, table, k)}
<1>1. 0 \in S
    <2>1. Turns([s \in SUBSET (1..0) |-> Begun(h)], h, table, 0)
        <3>1. \A s \in SUBSET (1..0) : s = {}
            OBVIOUS
        <3>2. QED
            BY <3>1 DEF Turns
    <2>2. QED
        BY <2>1
<1>2. ASSUME NEW k \in 0..n - 1, k \in S
      PROVE  k + 1 \in S
    <2>1. PICK f : Turns(f, h, table, k)
        BY <1>2
    <2> DEFINE g == [s \in SUBSET (1..k + 1) |->
                        IF k + 1 \in s THEN LayRegion(f[s \ {k + 1}], table[k + 1]) ELSE f[s]]
    <2>2. ASSUME NEW s \in SUBSET (1..k + 1)
          PROVE  g[s] = IF s = {} THEN Begun(h)
                        ELSE LayRegion(g[s \ {Max(s)}], table[Max(s)])
        <3>1. CASE k + 1 \in s
            <4>0. k + 1 \in Nat /\ s \subseteq 1..k + 1
                OBVIOUS
            <4>1. Max(s) = k + 1
                BY <3>1, <4>0, TopIsMax
            <4>2. s \ {k + 1} \in SUBSET (1..k + 1) /\ k + 1 \notin s \ {k + 1} /\ s # {}
                BY <3>1
            <4>3. g[s \ {k + 1}] = f[s \ {k + 1}]
                BY <4>2
            <4> HIDE DEF g
            <4>4. g[s] = LayRegion(f[s \ {k + 1}], table[k + 1])
                BY <3>1 DEF g
            <4>5. QED
                BY <4>1, <4>2, <4>3, <4>4
        <3>2. CASE k + 1 \notin s
            <4>1. s \in SUBSET (1..k)
                BY <3>2
            <4>2. g[s] = f[s]
                BY <3>2
            <4>3. f[s] = IF s = {} THEN Begun(h)
                         ELSE LayRegion(f[s \ {Max(s)}], table[Max(s)])
                BY <2>1, <4>1 DEF Turns
            <4>4. k + 1 \notin s \ {Max(s)} /\ s \ {Max(s)} \in SUBSET (1..k + 1)
                BY <3>2
            <4>5. g[s \ {Max(s)}] = f[s \ {Max(s)}]
                BY <4>4
            <4> HIDE DEF g
            <4>6. QED
                BY <4>2, <4>3, <4>5
        <3>3. QED
            BY <3>1, <3>2
    <2> HIDE DEF g
    <2>3. DOMAIN g = SUBSET (1..k + 1) /\ g = [s \in SUBSET (1..k + 1) |-> g[s]]
        BY DEF g
    <2>4. Turns(g, h, table, k + 1)
        BY <2>2, <2>3 DEF Turns
    <2>5. QED
        BY <2>4
<1> HIDE DEF S
<1>3. \A k \in 0..n : k \in S
    BY <1>1, <1>2, InductionUpTo
<1>4. n \in S
    BY <1>3
<1>5. QED
    BY <1>4 DEF S

\* The table's layout is what the last of its turns leaves.
LEMMA TurnByTurn ==
    ASSUME NEW h, NEW table, NEW R, table \in Seq(R)
    PROVE  \E f : /\ f[0] = Begun(h)
                  /\ \A k \in 0..Len(table) - 1 : f[k + 1] = LayRegion(f[k], table[k + 1])
                  /\ LayTable(h, table) = f[Len(table)]
<1> DEFINE n == Len(table)
           e == CHOOSE f : Turns(f, h, table, n)
           upto == [k \in 0..n |-> e[1..k]]
<1>1. n \in Nat /\ DOMAIN table = 1..n
    OBVIOUS
<1>2. LayTable(h, table) = e[1..n]
    <2>1. LayTable(h, table) =
            (CHOOSE f : f = [s \in SUBSET (1..n) |->
                IF s = {} THEN Begun(h)
                ELSE LayRegion(f[s \ {Max(s)}], table[Max(s)])])[1..n]
        BY <1>1 DEF LayTable, FoldLeft, MapThenFoldSet, Begun
    <2>2. QED
        BY <2>1 DEF Turns
<1> HIDE DEF n
<1>3. Turns(e, h, table, n)
    BY <1>1, TurnsExist
<1> HIDE DEF e
<1>4. upto[0] = Begun(h)
    <2>1. 1..0 = {} /\ {} \in SUBSET (1..n) /\ 0 \in 0..n
        BY <1>1
    <2>2. e[{}] = Begun(h)
        BY <1>3, <2>1 DEF Turns
    <2>3. QED
        BY <2>1, <2>2
<1>5. ASSUME NEW k \in 0..n - 1
      PROVE  upto[k + 1] = LayRegion(upto[k], table[k + 1])
    <2>1. 1..k + 1 \in SUBSET (1..n) /\ 1..k + 1 # {} /\ k \in 0..n /\ k + 1 \in 0..n
          /\ k + 1 \in Nat
        BY <1>1
    <2>2. Max(1..k + 1) = k + 1
        BY <2>1, TopIsMax
    <2>3. (1..k + 1) \ {k + 1} = 1..k
        BY <2>1
    <2>4. e[1..k + 1] = LayRegion(e[(1..k + 1) \ {Max(1..k + 1)}], table[Max(1..k + 1)])
        BY <1>3, <2>1 DEF Turns
    <2>5. QED
        BY <2>1, <2>2, <2>3, <2>4
<1>6. LayTable(h, table) = upto[n]
    BY <1>1, <1>2
<1> HIDE DEF upto
<1>7. QED
    BY <1>4, <1>5, <1>6 DEF n

\* The first k regions fit, in rising order: none of them is refused.
Orderly(t, k) ==
    \A i \in 1..k :
        /\ RegionFits(t[i])
        /\ i > 1 => RegionStart(t[i]) > RegionEnd(t[i - 1])

\* Headers of 16 bytes on an alignment of 8 can overlap in an accepted table;
\* these do not.
Roomy(t, k) ==
    \A i \in 1..k :
        /\ RegionStart(t[i]) + STRUCT_SIZE <= RegionEnd(t[i])
        /\ i > 1 => RegionEnd(t[i - 1]) + STRUCT_SIZE <= RegionStart(t[i])

\* The bytes that can be allocated in them, and their nodes.
BytesOf(region) == RegionStart(region)..RegionEnd(region) - 1
Bytes(t, k) == UNION {BytesOf(t[i]) : i \in 1..k}
Nodes(t, k) == {RegionStart(t[i]) : i \in 1..k} \cup {RegionEnd(t[i]) : i \in 1..k}

\* The free list of the first k regions: each is one block.
LaidOut(h, t, k) ==
    /\ FreeList(h, Nodes(t, k))
    /\ h.end = RegionEnd(t[k])
    /\ \A i \in 1..k :
        /\ size_of(h, RegionStart(t[i])) = RegionEnd(t[i]) - RegionStart(t[i])
        /\ size_of(h, RegionEnd(t[i])) = 0

\* What the k-th turn leaves, refused or not.
LayKept(lay, h) ==
    /\ lay = [heap |-> lay.heap, previous |-> lay.previous,
              total |-> lay.total, refused |-> lay.refused]
    /\ lay.heap \in HeapType
    /\ lay.heap = [h EXCEPT !.store = lay.heap.store,
                            !.start_next = lay.heap.start_next, !.end = lay.heap.end]
    /\ Tidy(h) => Tidy(lay.heap)
    /\ lay.total \in Nat /\ lay.refused \in BOOLEAN

LayDone(lay, t, k) ==
    /\ lay.previous = IF k = 0 THEN NONE ELSE RegionEnd(t[k])
    /\ IsFiniteSet(Bytes(t, k)) /\ lay.total = Cardinality(Bytes(t, k))
    /\ k > 0 => Bytes(t, k) \subseteq 0..RegionEnd(t[k]) - 1
    /\ k > 0 /\ Roomy(t, k) => LaidOut(lay.heap, t, k)

LaySound(lay, h, t, k) ==
    /\ LayKept(lay, h)
    /\ lay.refused <=> ~ Orderly(t, k)
    /\ Orderly(t, k) => LayDone(lay, t, k)

LEMMA LayBegun ==
    ASSUME NEW h \in HeapType, NEW t
    PROVE  LaySound(Begun(h), h, t, 0)
<1>1. LayKept(Begun(h), h)
    BY DEF LayKept, Begun, HeapType
<1>2. Orderly(t, 0)
    BY DEF Orderly
<1>3. Bytes(t, 0) = {}
    BY DEF Bytes
<1>4. LayDone(Begun(h), t, 0)
    BY <1>3, FS_EmptySet DEF LayDone, Begun
<1>5. QED
    BY <1>1, <1>2, <1>4 DEF LaySound, Begun

LEMMA OrderlyNext ==
    ASSUME NEW t, NEW k \in Nat
    PROVE  /\ Orderly(t, k + 1) <=>
                /\ Orderly(t, k)
                /\ RegionFits(t[k + 1])
                /\ k > 0 => RegionStart(t[k + 1]) > RegionEnd(t[k])
           /\ Roomy(t, k + 1) <=>
                /\ Roomy(t, k)
                /\ RegionStart(t[k + 1]) + STRUCT_SIZE <= RegionEnd(t[k + 1])
                /\ k > 0 => RegionEnd(t[k]) + STRUCT_SIZE <= RegionStart(t[k + 1])
           /\ Bytes(t, k + 1) = Bytes(t, k) \cup BytesOf(t[k + 1])
           /\ Nodes(t, k + 1) = Nodes(t, k) \cup {RegionStart(t[k + 1]), RegionEnd(t[k + 1])}
<1>1. /\ \A i \in 1..k + 1 : i \in 1..k \/ i = k + 1
      /\ \A i \in 1..k : i \in 1..k + 1
      /\ k + 1 \in 1..k + 1 /\ (k + 1) - 1 = k /\ (k + 1 > 1 <=> k > 0)
    OBVIOUS
<1>2. QED
    <2>1. Orderly(t, k + 1) <=>
                /\ Orderly(t, k)
                /\ RegionFits(t[k + 1])
                /\ k > 0 => RegionStart(t[k + 1]) > RegionEnd(t[k])
        BY <1>1 DEF Orderly
    <2>2. Roomy(t, k + 1) <=>
                /\ Roomy(t, k)
                /\ RegionStart(t[k + 1]) + STRUCT_SIZE <= RegionEnd(t[k + 1])
                /\ k > 0 => RegionEnd(t[k]) + STRUCT_SIZE <= RegionStart(t[k + 1])
        BY <1>1 DEF Roomy
    <2>3. Bytes(t, k + 1) = Bytes(t, k) \cup BytesOf(t[k + 1])
        BY <1>1 DEF Bytes
    <2>4. Nodes(t, k + 1) = Nodes(t, k) \cup {RegionStart(t[k + 1]), RegionEnd(t[k + 1])}
        BY <1>1 DEF Nodes
    <2>5. QED
        BY <2>1, <2>2, <2>3, <2>4

\* A block's bytes, added to bytes below it.
LEMMA BytesAdded ==
    ASSUME NEW B, IsFiniteSet(B), NEW a \in Nat, NEW b \in Nat, a < b, B \subseteq 0..a - 1
    PROVE  /\ IsFiniteSet(B \cup (a..b - 1))
           /\ Cardinality(B \cup (a..b - 1)) = Cardinality(B) + (b - a)
           /\ B \cup (a..b - 1) \subseteq 0..b - 1
<1>1. IsFiniteSet(a..b - 1) /\ Cardinality(a..b - 1) = b - a
    <2>1. a \in Int /\ b - 1 \in Int /\ ~ (a > b - 1) /\ (b - 1) - a + 1 = b - a
        OBVIOUS
    <2>2. QED
        BY <2>1, FS_Interval
<1>2. B \cap (a..b - 1) = {}
    OBVIOUS
<1>3. Cardinality(B) \in Nat
    BY FS_CardinalityType
<1> DEFINE I == a..b - 1
<1>4. B \cup I \subseteq 0..b - 1
    OBVIOUS
<1> HIDE DEF I
<1>5. IsFiniteSet(B \cup I)
      /\ Cardinality(B \cup I) = Cardinality(B) + Cardinality(I) - Cardinality(B \cap I)
    BY <1>1, FS_Union DEF I
<1>6. Cardinality(B \cap I) = 0
    BY <1>2, FS_EmptySet DEF I
<1>7. Cardinality(I) = b - a
    BY <1>1 DEF I
<1>8. Cardinality(B \cup I) = Cardinality(B) + (b - a)
    BY <1>3, <1>5, <1>6, <1>7
<1>9. QED
    BY <1>4, <1>5, <1>8 DEF I

LEMMA RegionIn ==
    ASSUME NEW t \in Seq([start : Nat, size : Nat]), NEW k \in 0..Len(t) - 1
    PROVE  /\ k \in Nat /\ k + 1 \in 1..Len(t) /\ t[k + 1] \in [start : Nat, size : Nat]
           /\ k > 0 => k \in 1..k /\ k \in 1..Len(t) /\ t[k] \in [start : Nat, size : Nat]
<1>1. Len(t) \in Nat /\ DOMAIN t = 1..Len(t)
      /\ \A i \in 1..Len(t) : t[i] \in [start : Nat, size : Nat]
    <2> DEFINE R == [start : Nat, size : Nat]
    <2> HIDE DEF R
    <2>1. t \in Seq(R)
        BY DEF R
    <2>2. Len(t) \in Nat /\ DOMAIN t = 1..Len(t) /\ \A i \in 1..Len(t) : t[i] \in R
        BY <2>1
    <2>3. QED
        BY <2>2 DEF R
<1> DEFINE n == Len(t)
<1> HIDE DEF n
<1>2. k \in Nat /\ k + 1 \in 1..n /\ (k > 0 => k \in 1..k /\ k \in 1..n)
    <2>1. n \in Nat /\ k \in 0..n - 1
        BY <1>1 DEF n
    <2>2. QED
        BY <2>1
<1>3. QED
    BY <1>1, <1>2 DEF n

\* An accepted region: its block and its end marker behind those before.
LEMMA LayAccepts ==
    ASSUME NEW h \in HeapType, NEW t \in Seq([start : Nat, size : Nat]),
           NEW k \in 0..Len(t) - 1, NEW lay, LaySound(lay, h, t, k), Orderly(t, k + 1)
    PROVE  LET new == LayRegion(lay, t[k + 1])
           IN  LayKept(new, h) /\ LayDone(new, t, k + 1) /\ ~ new.refused
<1> DEFINE start == RegionStart(t[k + 1])
           end == RegionEnd(t[k + 1])
           added == AddRegion(lay.heap, lay.previous, start, end)
           new == LayRegion(lay, t[k + 1])
<1>1. k \in Nat /\ k + 1 \in 1..Len(t) /\ t[k + 1] \in [start : Nat, size : Nat]
    BY RegionIn
<1>2. /\ Orderly(t, k) /\ RegionFits(t[k + 1])
      /\ k > 0 => start > RegionEnd(t[k])
    BY <1>1, OrderlyNext
<1>3. LayKept(lay, h) /\ LayDone(lay, t, k) /\ ~ lay.refused
    BY <1>2 DEF LaySound
<1>4. start \in Place /\ end \in Place /\ start \in Nat /\ end \in Nat /\ start < end
    BY <1>1, <1>2, RegionPlaces
<1>5. k > 0 => RegionEnd(t[k]) \in Place /\ RegionEnd(t[k]) \in Nat
    <2>1. SUFFICES ASSUME k > 0 PROVE RegionEnd(t[k]) \in Place /\ RegionEnd(t[k]) \in Nat
        OBVIOUS
    <2>2. k \in 1..k /\ k \in 1..Len(t) /\ t[k] \in [start : Nat, size : Nat]
        BY <2>1, RegionIn
    <2>3. RegionFits(t[k])
        BY <1>2, <2>2 DEF Orderly
    <2>4. QED
        BY <2>2, <2>3, RegionPlaces
<1>6. lay.previous = NONE \/ lay.previous \in Place
    BY <1>1, <1>3, <1>5 DEF LayDone
<1>7. InOrder(lay.previous, start)
    BY <1>1, <1>2, <1>3 DEF LayDone, InOrder
<1>8. new = [heap |-> added, previous |-> end, total |-> lay.total + (end - start),
             refused |-> FALSE]
    BY <1>2, <1>3, <1>7 DEF LayRegion, AddRegion
<1> HIDE DEF new
<1>9. /\ added \in HeapType /\ added.end = end
      /\ added = [lay.heap EXCEPT !.store = added.store, !.start_next = added.start_next,
                                  !.end = end]
      /\ Tidy(lay.heap) => Tidy(added)
    <2>1. lay.heap \in HeapType
        BY <1>3 DEF LayKept
    <2>2. QED
        BY <1>4, <1>6, <2>1, AddRegionTyped
<1> HIDE DEF added
<1>10. LayKept(new, h)
    <2> DEFINE g == lay.heap
    <2>1. g \in HeapType /\ g = [h EXCEPT !.store = g.store, !.start_next = g.start_next,
                                          !.end = g.end]
          /\ (Tidy(h) => Tidy(g)) /\ lay.total \in Nat
        BY <1>3 DEF LayKept
    <2> HIDE DEF g
    <2>2. added = [h EXCEPT !.store = added.store, !.start_next = added.start_next,
                            !.end = added.end]
        BY <1>9, <2>1 DEF HeapType, g
    <2>3. lay.total + (end - start) \in Nat
        BY <1>4, <2>1
    <2> HIDE DEF start, end
    <2>4. Tidy(h) => Tidy(added)
        BY <1>9, <2>1 DEF g
    <2>5. QED
        BY <1>8, <1>9, <2>2, <2>3, <2>4 DEF LayKept
<1>11. /\ IsFiniteSet(Bytes(t, k + 1))
       /\ lay.total + (end - start) = Cardinality(Bytes(t, k + 1))
       /\ Bytes(t, k + 1) \subseteq 0..end - 1
    <2> DEFINE B == Bytes(t, k)
    <2>1. Bytes(t, k + 1) = B \cup (start..end - 1)
        BY <1>1, OrderlyNext DEF BytesOf
    <2>2. IsFiniteSet(B) /\ lay.total = Cardinality(B)
        BY <1>3 DEF LayDone
    <2>3. B \subseteq 0..start - 1
        <3>1. CASE k = 0
            BY <3>1 DEF Bytes
        <3>2. CASE k > 0
            <4>1. B \subseteq 0..RegionEnd(t[k]) - 1
                BY <1>3, <3>2 DEF LayDone
            <4> HIDE DEF B, start, end
            <4>2. QED
                BY <1>2, <1>4, <1>5, <3>2, <4>1
        <3>3. k = 0 \/ k > 0
            BY <1>1
        <3> HIDE DEF B, start, end
        <3>4. QED
            BY <3>1, <3>2, <3>3
    <2> HIDE DEF B, start, end
    <2>4. /\ IsFiniteSet(B \cup (start..end - 1))
          /\ Cardinality(B \cup (start..end - 1)) = Cardinality(B) + (end - start)
          /\ B \cup (start..end - 1) \subseteq 0..end - 1
        BY <1>4, <2>2, <2>3, BytesAdded
    <2>5. QED
        BY <2>1, <2>2, <2>4
<1>12. ASSUME Roomy(t, k + 1)
       PROVE  LaidOut(added, t, k + 1)
    <2> DEFINE F == Nodes(t, k)
    <2>1. /\ Roomy(t, k) /\ start + STRUCT_SIZE <= end
          /\ k > 0 => RegionEnd(t[k]) + STRUCT_SIZE <= start
        BY <1>1, <1>12, OrderlyNext
    <2>2. k > 0 => LaidOut(lay.heap, t, k)
        BY <1>3, <2>1 DEF LayDone
    <2>3. Behind(lay.heap, F, lay.previous)
        <3>1. CASE k = 0
            BY <1>3, <3>1 DEF LayDone, Behind, Nodes
        <3>2. CASE k > 0
            BY <1>3, <2>2, <3>2 DEF LayDone, Behind, LaidOut
        <3>3. QED
            BY <1>1, <3>1, <3>2
    <2>4. lay.previous # NONE => lay.previous + STRUCT_SIZE <= start
        BY <1>1, <1>3, <2>1 DEF LayDone
    <2>5. lay.heap \in HeapType
        BY <1>3 DEF LayKept
    <2>6. Added(lay.heap, added, F, start, end)
        BY <1>4, <2>1, <2>3, <2>4, <2>5, RegionAdded DEF added
    <2>7. Nodes(t, k + 1) = F \cup {start, end}
        BY <1>1, OrderlyNext
    <2>8. FreeList(added, Nodes(t, k + 1))
        BY <2>6, <2>7 DEF Added
    <2>9. ASSUME NEW i \in 1..k + 1
          PROVE  /\ size_of(added, RegionStart(t[i])) = RegionEnd(t[i]) - RegionStart(t[i])
                 /\ size_of(added, RegionEnd(t[i])) = 0
        <3>1. CASE i = k + 1
            BY <2>6, <3>1 DEF Added
        <3>2. CASE i # k + 1
            <4>1. i \in 1..k /\ k > 0
                BY <1>1, <3>2
            <4>2. RegionStart(t[i]) \in F /\ RegionEnd(t[i]) \in F
                BY <4>1 DEF Nodes
            <4>3. /\ size_of(lay.heap, RegionStart(t[i])) = RegionEnd(t[i]) - RegionStart(t[i])
                  /\ size_of(lay.heap, RegionEnd(t[i])) = 0
                BY <2>2, <4>1 DEF LaidOut
            <4>4. QED
                BY <2>6, <4>2, <4>3 DEF Added
        <3>3. QED
            BY <3>1, <3>2
    <2>10. added.end = RegionEnd(t[k + 1])
        BY <1>9
    <2>11. QED
        BY <2>8, <2>9, <2>10 DEF LaidOut
<1>13. LayDone(new, t, k + 1)
    <2>1. k + 1 # 0
        BY <1>1
    <2>2. QED
        BY <1>8, <1>11, <1>12, <2>1 DEF LayDone
<1>14. QED
    BY <1>8, <1>10, <1>13 DEF new

LEMMA LayTurn ==
    ASSUME NEW h \in HeapType, NEW t \in Seq([start : Nat, size : Nat]),
           NEW k \in 0..Len(t) - 1, NEW lay, LaySound(lay, h, t, k)
    PROVE  LaySound(LayRegion(lay, t[k + 1]), h, t, k + 1)
<1> DEFINE new == LayRegion(lay, t[k + 1])
<1>1. CASE Orderly(t, k + 1)
    <2>1. LayKept(new, h) /\ LayDone(new, t, k + 1) /\ ~ new.refused
        BY <1>1, LayAccepts
    <2>2. QED
        BY <1>1, <2>1 DEF LaySound
<1>2. CASE ~ Orderly(t, k + 1)
    <2>1. lay.refused \/ ~ RegionFits(t[k + 1]) \/ ~ InOrder(lay.previous, RegionStart(t[k + 1]))
        <3>1. SUFFICES ASSUME ~ lay.refused, RegionFits(t[k + 1]),
                              InOrder(lay.previous, RegionStart(t[k + 1]))
                       PROVE  FALSE
            OBVIOUS
        <3>2. k \in Nat /\ Orderly(t, k) /\ LayDone(lay, t, k)
            BY <3>1 DEF LaySound
        <3>3. k > 0 => RegionEnd(t[k]) # NONE
            <4>1. SUFFICES ASSUME k > 0 PROVE RegionEnd(t[k]) # NONE
                OBVIOUS
            <4>2. k \in 1..k /\ k \in 1..Len(t) /\ t[k] \in [start : Nat, size : Nat]
                BY <4>1, RegionIn
            <4>3. RegionFits(t[k])
                BY <3>2, <4>2 DEF Orderly
            <4>4. QED
                BY <4>2, <4>3, RegionPlaces, PlaceFacts
        <3>4. k > 0 => RegionStart(t[k + 1]) > RegionEnd(t[k])
            BY <3>1, <3>2, <3>3 DEF LayDone, InOrder
        <3>5. QED
            BY <1>2, <3>1, <3>2, <3>4, OrderlyNext
    <2>2. new = [lay EXCEPT !.refused = TRUE]
        BY <2>1 DEF LayRegion
    <2>3. LayKept(lay, h)
        BY DEF LaySound
    <2> HIDE DEF new
    <2>4. LayKept(new, h) /\ new.refused
        BY <2>2, <2>3 DEF LayKept
    <2>5. QED
        BY <1>2, <2>4 DEF LaySound, new
<1>3. QED
    BY <1>1, <1>2

\* define_regions refuses a table if a region does not fit or they do not rise,
\* and lays an accepted one out as one free block per region.
THEOREM TableOutcome ==
    ASSUME NEW h \in HeapType, NEW t \in Seq([start : Nat, size : Nat])
    PROVE  LaySound(LayTable(h, t), h, t, Len(t))
<1> DEFINE n == Len(t)
<1>1. n \in Nat
    OBVIOUS
<1>2. PICK f : /\ f[0] = Begun(h)
               /\ \A k \in 0..n - 1 : f[k + 1] = LayRegion(f[k], t[k + 1])
               /\ LayTable(h, t) = f[n]
    BY TurnByTurn
<1> DEFINE S == {k \in 0..n : LaySound(f[k], h, t, k)}
<1>3. 0 \in S
    BY <1>1, <1>2, LayBegun
<1>4. ASSUME NEW k \in 0..n - 1, k \in S
      PROVE  k + 1 \in S
    <2>1. LaySound(f[k], h, t, k)
        BY <1>4
    <2>2. LaySound(LayRegion(f[k], t[k + 1]), h, t, k + 1)
        BY <2>1, LayTurn
    <2>3. QED
        BY <1>1, <1>2, <2>2
<1> HIDE DEF S
<1>5. n \in S
    <2>1. \A k \in 0..n : k \in S
        BY <1>1, <1>3, <1>4, InductionUpTo
    <2>2. QED
        BY <1>1, <2>1
<1>6. QED
    BY <1>2, <1>5 DEF S

-----------------------------------------------------------------------------
(* What the words of a block in use stay.                                  *)

\* Every word that starts in these bytes is the same.
Same(h, h2, lo, hi) ==
    \A w \in 0..(N \div WORD) - 1 :
        lo <= w * WORD /\ w * WORD < hi => h2.store[w] = h.store[w]

\* These bytes share none with a header there.
Misses(a, lo, hi) == a + STRUCT_SIZE <= lo \/ hi <= a

LEMMA SameHeader ==
    ASSUME NEW h \in HeapType, NEW h2, NEW a \in Place, NEW lo \in Nat, NEW hi \in Nat,
           Same(h, h2, lo, hi), lo <= a, a + STRUCT_SIZE <= hi
    PROVE  header_of(h2, a) = header_of(h, a)
<1>1. /\ Slot(a, 0) \in 0..(N \div WORD) - 1 /\ Slot(a, 1) \in 0..(N \div WORD) - 1
      /\ Slot(a, 1) = Slot(a, 0) + 1 /\ a = WORD * Slot(a, 0) /\ a \in Nat
    BY PlaceWords
<1>2. WORD \in {4, 8} /\ STRUCT_SIZE = 2 * WORD
    BY Geometry
<1> DEFINE i == Slot(a, 0)
           j == Slot(a, 1)
           n == (N \div WORD) - 1
<1> HIDE DEF i, j, n
<1>3. i \in 0..n /\ j \in 0..n /\ j = i + 1 /\ a = WORD * i
    BY <1>1 DEF i, j, n
<1>4. i \in Nat /\ j \in Nat
    <2>1. \A x \in 0..n : x \in Nat
        OBVIOUS
    <2>2. QED
        BY <1>3, <2>1
<1>5. lo <= i * WORD /\ i * WORD < hi /\ lo <= j * WORD /\ j * WORD < hi
    <2>1. CASE WORD = 4
        BY <1>1, <1>2, <1>3, <1>4, <2>1
    <2>2. CASE WORD = 8
        BY <1>1, <1>2, <1>3, <1>4, <2>2
    <2>3. QED
        BY <1>2, <2>1, <2>2
<1>6. h2.store[i] = h.store[i] /\ h2.store[j] = h.store[j]
    BY <1>3, <1>5 DEF Same, n
<1>7. QED
    BY <1>6 DEF header_of, i, j

LEMMA SlotMissed ==
    ASSUME NEW a \in Place, NEW lo \in Nat, NEW hi \in Nat, Misses(a, lo, hi),
           NEW w \in Nat, w = Slot(a, 0) \/ w = Slot(a, 1)
    PROVE  ~ (lo <= w * WORD /\ w * WORD < hi)
<1>1. Slot(a, 1) = Slot(a, 0) + 1 /\ a = WORD * Slot(a, 0) /\ a \in Nat
      /\ Slot(a, 0) \in 0..(N \div WORD) - 1
    BY PlaceWords
<1>2. WORD \in {4, 8} /\ STRUCT_SIZE = 2 * WORD
    BY Geometry
<1> DEFINE i == Slot(a, 0)
<1> HIDE DEF i
<1>3. (w = i \/ w = i + 1) /\ a = WORD * i /\ a \in Nat
    BY <1>1 DEF i
<1>4. w * WORD = a \/ w * WORD = a + WORD
    <2>1. CASE WORD = 4
        <3>1. a = 4 * i /\ i \in Nat
            BY <1>1, <1>3, <2>1 DEF i
        <3>2. w * 4 = a \/ w * 4 = a + 4
            BY <1>3, <3>1
        <3>3. QED
            BY <2>1, <3>2
    <2>2. CASE WORD = 8
        <3>1. a = 8 * i /\ i \in Nat
            BY <1>1, <1>3, <2>2 DEF i
        <3>2. w * 8 = a \/ w * 8 = a + 8
            BY <1>3, <3>1
        <3>3. QED
            BY <2>2, <3>2
    <2>3. QED
        BY <1>2, <2>1, <2>2
<1> DEFINE p == w * WORD
<1> HIDE DEF p
<1>5. (p = a \/ p = a + WORD) /\ a \in Nat /\ WORD \in Nat \ {0} /\ STRUCT_SIZE = 2 * WORD
    BY <1>2, <1>3, <1>4 DEF p
<1>6. ~ (lo <= p /\ p < hi)
    BY <1>5 DEF Misses
<1>7. QED
    BY <1>6 DEF p

LEMMA KeptSame ==
    ASSUME NEW h \in HeapType, NEW h2, NEW D \in SUBSET Place, Kept(h, h2, D),
           NEW lo \in Nat, NEW hi \in Nat, \A a \in D : Misses(a, lo, hi)
    PROVE  Same(h, h2, lo, hi)
<1> SUFFICES ASSUME NEW w \in 0..(N \div WORD) - 1, lo <= w * WORD /\ w * WORD < hi
             PROVE  h2.store[w] = h.store[w]
    BY DEF Same
<1>1. w \in Nat
    OBVIOUS
<1>2. ASSUME NEW a \in D, w = Slot(a, 0) \/ w = Slot(a, 1) PROVE FALSE
    <2>1. a \in Place /\ Misses(a, lo, hi)
        OBVIOUS
    <2>2. QED
        BY <1>1, <1>2, <2>1, SlotMissed
<1>3. QED
    BY <1>2 DEF Kept

LEMMA WroteSame ==
    ASSUME NEW h \in HeapType, NEW h2, NEW a \in Place, NEW next, NEW size,
           Wrote(h, h2, a, next, size), NEW lo \in Nat, NEW hi \in Nat, Misses(a, lo, hi)
    PROVE  Same(h, h2, lo, hi)
<1> SUFFICES ASSUME NEW w \in 0..(N \div WORD) - 1, lo <= w * WORD /\ w * WORD < hi
             PROVE  h2.store[w] = h.store[w]
    BY DEF Same
<1>1. w \in Nat
    OBVIOUS
<1>2. w # Slot(a, 0) /\ w # Slot(a, 1)
    BY <1>1, SlotMissed
<1>3. w \in DOMAIN h.store
    BY DEF HeapType
<1>4. QED
    BY <1>2, <1>3 DEF Wrote

\* A size with and without the allocated bit.
LEMMA Marks ==
    ASSUME NEW size \in 0..ALLOCATED_BIT - 1
    PROVE  /\ Unmarked(size) = size /\ ~ Marked(size)
           /\ Unmarked(size + ALLOCATED_BIT) = size /\ Marked(size + ALLOCATED_BIT)
           /\ size + ALLOCATED_BIT \in 0..WORD_MOD - 1
<1>1. ALLOCATED_BIT \in Nat \ {0} /\ WORD_MOD = 2 * ALLOCATED_BIT
    BY Geometry
<1>2. size % ALLOCATED_BIT = size /\ size \div ALLOCATED_BIT = 0
    BY <1>1
<1>3. (size + ALLOCATED_BIT) % ALLOCATED_BIT = size /\ (size + ALLOCATED_BIT) \div ALLOCATED_BIT = 1
    BY <1>1
<1>4. QED
    BY <1>1, <1>2, <1>3 DEF Unmarked, Marked

\* Free nodes whose headers did not change are the free list still.
LEMMA FreeListSame ==
    ASSUME NEW h, NEW F, FreeList(h, F), NEW h2 \in HeapType,
           h2.start_next = h.start_next, h2.end = h.end,
           \A a \in F : header_of(h2, a) = header_of(h, a)
    PROVE  FreeList(h2, F) /\ \A a \in F : Reach(h2, a) = Reach(h, a)
<1>1. Linked(h2, F)
    BY DEF FreeList, Linked, next_of
<1>2. \A a \in F : size_of(h2, a) = size_of(h, a) /\ Reach(h2, a) = Reach(h, a)
    BY DEF size_of, Reach
<1>3. Laid(h2, F)
    <2>1. h.end \in F
        BY DEF FreeList, Linked
    <2>2. QED
        BY <2>1, LaidSame
<1>4. QED
    BY <1>1, <1>2, <1>3 DEF FreeList

-----------------------------------------------------------------------------
(* The invariant: the arena's headers are those of the free list and those *)
(* of the blocks in use, and no two of these blocks share a byte.          *)

At(g) == LinkOf(g.block.offset)
Top(h, g) == At(g) + size_of(h, At(g))

PayloadWords(g) ==
    {w \in 0..(N \div WORD) - 1 :
        g.block.offset <= w * WORD /\ w * WORD < g.block.offset + g.wanted}

GrantType ==
    [block : [offset : Nat, generation : Nat],
     issued : Nat,
     wanted : Wanted,
     fill : Fill \cup {NotFilled}]

\* A block its caller holds: its header is the one alloc wrote, it has room for
\* the request behind it, and what the caller wrote is there.
Lives(h, g) ==
    /\ g \in GrantType
    /\ At(g) \in Place
    /\ header_of(h, At(g)) = [next |-> g.block.generation,
                              size |-> size_of(h, At(g)) + ALLOCATED_BIT]
    /\ size_of(h, At(g)) \in STRUCT_SIZE..ALLOCATED_BIT - 1
    /\ OnGrid(size_of(h, At(g)))
    /\ BlockSize(g.wanted) <= size_of(h, At(g))
    /\ g.wanted + STRUCT_SIZE <= size_of(h, At(g))
    /\ Top(h, g) <= h.end
    /\ g.issued \in 1..h.allocations
    /\ g.block.generation = g.issued % GENERATION_MOD
    /\ g.fill # NotFilled => \A w \in PayloadWords(g) : h.store[w] = g.fill

\* A block that was given back: who holds its place now got it later.
Gone(h, H, s) ==
    /\ s \in [block : [offset : Nat, generation : Nat], issued : Nat]
    /\ LinkOf(s.block.offset) \in Place
    /\ s.issued \in 1..h.allocations
    /\ s.block.generation = s.issued % GENERATION_MOD
    /\ \A g \in H : g.block.offset = s.block.offset => s.issued < g.issued

\* A held block lies beside each free one, and beside each other held one.
Beside(h, g, a) == Top(h, g) <= a \/ Reach(h, a) <= At(g)
Disjoint(h, g, k) == Top(h, g) <= At(k) \/ Top(h, k) <= At(g)

Sound(h, F, H, S) ==
    /\ FreeList(h, F)
    /\ h.initialised
    /\ h.next_generation = (h.allocations + 1) % GENERATION_MOD
    /\ h.allocations <= MaxAllocs
    /\ IsFiniteSet(H) /\ h.allocations - h.frees = Cardinality(H)
    /\ \A g \in H : Lives(h, g)
    /\ \A g \in H, a \in F : Beside(h, g, a)
    /\ \A g, k \in H : g # k => Disjoint(h, g, k) /\ g.issued # k.issued
    /\ \A s \in S : Gone(h, H, s)

\* Before the first call that lays the arena out.
Fresh(h) ==
    /\ h \in HeapType
    /\ ~ h.initialised
    /\ h.free_bytes = 0 /\ h.minimum_ever_free = 0
    /\ h.allocations = 0 /\ h.frees = 0 /\ h.next_generation = 1
    /\ Tidy(h)

LEMMA GrantPlace ==
    ASSUME NEW h, NEW g, Lives(h, g)
    PROVE  /\ At(g) \in Nat /\ Top(h, g) \in Nat /\ g.block.offset = At(g) + STRUCT_SIZE
           /\ At(g) + STRUCT_SIZE <= Top(h, g) /\ At(g) \in Place
           /\ Top(h, g) = At(g) + size_of(h, At(g))
<1>1. At(g) \in Nat /\ At(g) \in Place
    BY PlaceFacts DEF Lives
<1>2. size_of(h, At(g)) \in Nat /\ size_of(h, At(g)) >= STRUCT_SIZE /\ STRUCT_SIZE \in Nat
    BY Geometry DEF Lives
<1>3. g.block.offset \in Nat
    BY DEF Lives, GrantType
<1>4. QED
    BY <1>1, <1>2, <1>3 DEF At, Top, LinkOf

\* What does not touch the bytes of a held block leaves it to its caller.
LEMMA LivesOn ==
    ASSUME NEW h \in HeapType, NEW h2 \in HeapType, NEW g, Lives(h, g),
           Same(h, h2, At(g), Top(h, g)),
           h2.end = h.end, h.allocations <= h2.allocations
    PROVE  /\ Lives(h2, g)
           /\ size_of(h2, At(g)) = size_of(h, At(g)) /\ Top(h2, g) = Top(h, g)
           /\ header_of(h2, At(g)) = header_of(h, At(g))
<1>1. /\ At(g) \in Nat /\ Top(h, g) \in Nat /\ g.block.offset = At(g) + STRUCT_SIZE
      /\ At(g) + STRUCT_SIZE <= Top(h, g) /\ At(g) \in Place
      /\ Top(h, g) = At(g) + size_of(h, At(g))
    BY GrantPlace
<1>2. header_of(h2, At(g)) = header_of(h, At(g))
    BY <1>1, SameHeader
<1>3. size_of(h2, At(g)) = size_of(h, At(g)) /\ Top(h2, g) = Top(h, g)
    BY <1>2 DEF size_of, Top
<1>4. ASSUME NEW w \in PayloadWords(g)
      PROVE  h2.store[w] = h.store[w]
    <2> DEFINE p == w * WORD
    <2>1. w \in 0..(N \div WORD) - 1 /\ g.block.offset <= p /\ p < g.block.offset + g.wanted
        BY DEF PayloadWords
    <2>2. p \in Int
        BY <2>1, Geometry
    <2>3. g.wanted \in Nat /\ g.wanted + STRUCT_SIZE <= size_of(h, At(g))
          /\ size_of(h, At(g)) \in Nat /\ STRUCT_SIZE \in Nat
        <3>1. g.wanted \in Wanted
            BY DEF Lives, GrantType
        <3>2. g.wanted \in Nat
            BY <3>1, CallersAssumption
        <3>3. STRUCT_SIZE \in Nat
            BY Geometry
        <3>4. QED
            BY <3>2, <3>3 DEF Lives
    <2> HIDE DEF p
    <2>4. At(g) <= p /\ p < Top(h, g)
        BY <1>1, <2>1, <2>2, <2>3
    <2>5. QED
        BY <2>1, <2>4 DEF Same, p
<1>5. g.issued \in 1..h2.allocations
    <2>1. g.issued \in 1..h.allocations /\ h.allocations \in Nat /\ h2.allocations \in Nat
        BY DEF Lives, HeapType
    <2>2. QED
        BY <2>1
<1>6. g.fill # NotFilled => \A w \in PayloadWords(g) : h2.store[w] = g.fill
    BY <1>4 DEF Lives
<1>7. QED
    BY <1>2, <1>3, <1>5, <1>6 DEF Lives

\* The next generation: counting and wrapping commute.
LEMMA NextModulo ==
    ASSUME NEW m \in Nat \ {0}, NEW a \in Nat
    PROVE  /\ a % m \in 0..m - 1
           /\ ((a % m) + 1) % m = (a + 1) % m
<1> DEFINE q == a \div m
           r == a % m
<1>1. q \in Nat /\ r \in 0..m - 1 /\ a = m * q + r
    OBVIOUS
<1> HIDE DEF q, r
<1>2. CASE r + 1 < m
    <2>1. (r + 1) % m = r + 1
        BY <1>1, <1>2
    <2>2. a + 1 = m * q + (r + 1)
        BY <1>1
    <2>3. (m * q + (r + 1)) % m = r + 1
        BY <1>1, <1>2
    <2>4. QED
        BY <1>1, <2>1, <2>2, <2>3 DEF r
<1>3. CASE r + 1 = m
    <2>1. (r + 1) % m = 0
        BY <1>3
    <2>2. a + 1 = m * q + m
        BY <1>1, <1>3
    <2>3. (a + 1) % m = 0
        BY <1>1, <2>2
    <2>4. QED
        BY <1>1, <2>1, <2>3 DEF r
<1>4. QED
    BY <1>1, <1>2, <1>3

\* Two numbers of one generation are as far apart as there are generations.
LEMMA SameGeneration ==
    ASSUME NEW m \in Nat \ {0}, NEW a \in Nat, NEW b \in Nat, a < b, a % m = b % m
    PROVE  b - a >= m
<1> DEFINE q == a \div m
           p == b \div m
           r == a % m
<1>1. q \in Nat /\ r \in 0..m - 1 /\ a = m * q + r
    OBVIOUS
<1>2. p \in Nat /\ b % m \in 0..m - 1 /\ b = m * p + (b % m)
    OBVIOUS
<1> HIDE DEF q, p, r
<1>3. b = m * p + r
    BY <1>2 DEF r
<1>4. m * q < m * p
    BY <1>1, <1>2, <1>3
<1>5. q + 1 <= p
    BY <1>1, <1>2, <1>4
<1>6. m * (q + 1) <= m * p
    BY <1>1, <1>2, <1>5
<1>7. QED
    BY <1>1, <1>2, <1>3, <1>6

-----------------------------------------------------------------------------
(* alloc.                                                                  *)

\* Words that changed lie in D or were given a value without the allocated bit.
Unmarks(h, h2, D) ==
    \A w \in 0..(N \div WORD) - 1 :
        w \in D \/ h2.store[w] = h.store[w] \/ h2.store[w] < ALLOCATED_BIT

\* Marking the block and accounting for it.
Handed(h, c, taken, h2) ==
    LET left == (h.free_bytes - taken) % (USIZE_MAX + 1)
    IN  /\ h2 \in HeapType
        /\ h2 = [h EXCEPT !.store = h2.store, !.free_bytes = left,
                          !.minimum_ever_free = IF left < @ THEN left ELSE @,
                          !.next_generation = (@ + 1) % GENERATION_MOD,
                          !.allocations = @ + 1]
        /\ header_of(h2, c) = [next |-> h.next_generation, size |-> taken + ALLOCATED_BIT]
        /\ size_of(h2, c) = taken
        /\ \A b \in Place : Clear(c, b) => header_of(h2, b) = header_of(h, b)
        /\ \A lo, hi \in Nat : Misses(c, lo, hi) => Same(h, h2, lo, hi)
        /\ \A w \in 0..(N \div WORD) - 1 :
            w \notin {Slot(c, 0), Slot(c, 1)} => h2.store[w] = h.store[w]

LEMMA HandOutcome ==
    ASSUME NEW h \in HeapType, NEW c \in Place, NEW taken \in 0..ALLOCATED_BIT - 1,
           header_of(h, c).size = taken, h.allocations < USIZE_MAX
    PROVE  Handed(h, c, taken, Hand(h, c))
<1> DEFINE w == set_header(h, c, h.next_generation, taken + ALLOCATED_BIT)
           h2 == Hand(h, c)
           left == (h.free_bytes - taken) % (USIZE_MAX + 1)
<1>1. USIZE_MAX \in Nat /\ GENERATION_MOD \in Nat \ {0} /\ GENERATION_MOD <= WORD_MOD
      /\ WORD_MOD \in Nat /\ ALLOCATED_BIT \in Nat
    BY Geometry
<1>2. h.next_generation \in 0..WORD_MOD - 1 /\ h.next_generation \in Nat
      /\ h.allocations \in Nat /\ h.free_bytes \in Nat /\ h.minimum_ever_free \in Nat
    BY <1>1 DEF HeapType
<1>3. taken + ALLOCATED_BIT \in 0..WORD_MOD - 1 /\ Unmarked(taken + ALLOCATED_BIT) = taken
      /\ Unmarked(taken) = taken
    BY Marks
<1>4. size_of(h, c) = taken
    BY <1>3 DEF size_of
<1>5. Wrote(h, w, c, h.next_generation, taken + ALLOCATED_BIT)
    BY <1>2, <1>3, WroteHeader
<1>6. w \in HeapType /\ w = [h EXCEPT !.store = w.store]
    BY <1>5 DEF Wrote
<1>7. (h.allocations + 1) % (USIZE_MAX + 1) = h.allocations + 1
    BY <1>1, <1>2
<1> DEFINE low == IF left < h.minimum_ever_free THEN left ELSE h.minimum_ever_free
           next == (h.next_generation + 1) % GENERATION_MOD
<1>8. left \in Nat /\ next \in 0..GENERATION_MOD - 1 /\ low \in Nat
      /\ h.allocations + 1 \in Nat
    BY <1>1, <1>2
<1> HIDE DEF w
<1>9. h2 = [w EXCEPT !.free_bytes = left,
                     !.minimum_ever_free = IF left < @ THEN left ELSE @,
                     !.next_generation = (@ + 1) % GENERATION_MOD,
                     !.allocations = (@ + 1) % (USIZE_MAX + 1)]
    BY <1>4 DEF Hand, w
<1> HIDE DEF h2
<1>10. w.allocations = h.allocations /\ w.free_bytes = h.free_bytes
       /\ w.minimum_ever_free = h.minimum_ever_free /\ w.next_generation = h.next_generation
    BY <1>6 DEF HeapType
<1>11. h2 = [w EXCEPT !.free_bytes = left, !.minimum_ever_free = low,
                      !.next_generation = next, !.allocations = h.allocations + 1]
    BY <1>6, <1>7, <1>9, <1>10 DEF HeapType
<1> HIDE DEF left, low, next
<1>12. h2 \in HeapType /\ h2.store = w.store
    BY <1>2, <1>6, <1>8, <1>11 DEF HeapType
<1>13. h2 = [h EXCEPT !.store = h2.store, !.free_bytes = left, !.minimum_ever_free = low,
                      !.next_generation = next, !.allocations = h.allocations + 1]
    BY <1>6, <1>11, <1>12 DEF HeapType
<1>14. \A a : header_of(h2, a) = header_of(w, a)
    BY <1>12 DEF header_of
<1>15. header_of(h2, c) = [next |-> h.next_generation, size |-> taken + ALLOCATED_BIT]
    BY <1>5, <1>14 DEF Wrote
<1>16. size_of(h2, c) = taken
    BY <1>3, <1>15 DEF size_of
<1>17. \A b \in Place : Clear(c, b) => header_of(h2, b) = header_of(h, b)
    BY <1>5, <1>14 DEF Wrote
<1>18. ASSUME NEW lo \in Nat, NEW hi \in Nat, Misses(c, lo, hi)
       PROVE  Same(h, h2, lo, hi)
    <2>1. Same(h, w, lo, hi)
        BY <1>5, <1>18, WroteSame
    <2>2. QED
        BY <1>12, <2>1 DEF Same
<1>19. \A x \in 0..(N \div WORD) - 1 :
            x \notin {Slot(c, 0), Slot(c, 1)} => h2.store[x] = h.store[x]
    BY <1>5, <1>12 DEF Wrote, HeapType
<1> HIDE DEF h2
<1>20. Handed(h, c, taken, h2)
    BY <1>12, <1>13, <1>15, <1>16, <1>17, <1>18, <1>19 DEF Handed, left, low, next
<1>21. QED
    BY <1>20 DEF h2

\* What a granted request does: it takes the lowest block that is large
\* enough, and leaves the rest of it on the list if that is worth a block.
AllocDone(h, F, size, c, h2) ==
    LET rest == size_of(h, c) - size
        split == WorthSplitting(rest)
        taken == IF split THEN size ELSE size_of(h, c)
        left == (h.free_bytes - taken) % (USIZE_MAX + 1)
        G == (F \ {c}) \cup (IF split THEN {c + size} ELSE {})
    IN  /\ c \in F \ {h.end} /\ c \in Place
        /\ size <= size_of(h, c)
        /\ \A a \in F : a < c => size_of(h, a) < size
        /\ h2 \in HeapType
        /\ h2 = [h EXCEPT !.store = h2.store, !.start_next = h2.start_next,
                          !.free_bytes = left,
                          !.minimum_ever_free = IF left < @ THEN left ELSE @,
                          !.next_generation = (@ + 1) % GENERATION_MOD,
                          !.allocations = @ + 1]
        /\ FreeList(h2, G)
        /\ header_of(h2, c) = [next |-> h.next_generation, size |-> taken + ALLOCATED_BIT]
        /\ size_of(h2, c) = taken
        /\ \A a \in F \ {c} : size_of(h2, a) = size_of(h, a)
        /\ split => c + size \in Place \ F /\ size_of(h2, c + size) = rest
        /\ \A lo, hi \in Nat :
            (\A a \in F \cup G : Misses(a, lo, hi)) => Same(h, h2, lo, hi)
        /\ Unmarks(h, h2, {Slot(c, 0), Slot(c, 1)})

LEMMA AllocOutcome ==
    ASSUME NEW h, NEW F, FreeList(h, F), h.allocations < USIZE_MAX,
           NEW size \in Nat, OnGrid(size), STRUCT_SIZE <= size, Grants(h, size)
    PROVE  LET found == Search(h, size)
           IN  AllocDone(h, F, size, found.chosen, Hand(Carve(h, found, size), found.chosen))
<1> DEFINE found == Search(h, size)
           c == found.chosen
           p == found.previous
           h1 == Carve(h, found, size)
           h2 == Hand(h1, c)
           rest == size_of(h, c) - size
           split == WorthSplitting(rest)
           taken == IF split THEN size ELSE size_of(h, c)
           G == (F \ {c}) \cup (IF split THEN {c + size} ELSE {})
<1>1. h \in HeapType /\ Linked(h, F) /\ Laid(h, F)
    BY DEF FreeList
<1>2. /\ F \subseteq Place /\ F \subseteq Nat /\ h.end \in F /\ NONE \notin F
      /\ \A a \in F :
            /\ size_of(h, a) = header_of(h, a).size
            /\ size_of(h, a) \in Nat /\ OnGrid(size_of(h, a))
            /\ size_of(h, a) = 0 \/ size_of(h, a) >= STRUCT_SIZE
      /\ \A a, b \in F : a # b => Clear(a, b)
    BY FreeNodes
<1>3. /\ c \in F /\ Leads(h, F, p, c) /\ found.after = next_of(h, c)
      /\ Stops(header_of(h, c), size)
      /\ \A a \in F : a < c => ~ Stops(header_of(h, a), size)
    BY <1>1, SearchFinds
<1>4. c # h.end
    BY DEF Grants
<1>5. next_of(h, c) # NONE
    BY <1>1, <1>2, <1>3, <1>4 DEF Linked
<1>6. size <= size_of(h, c)
    <2>1. size_of(h, c) >= size
        BY <1>3, <1>5 DEF Stops, next_of, size_of
    <2>2. QED
        BY <1>2, <1>3, <2>1
<1>7. \A a \in F : a < c => size_of(h, a) < size
    BY <1>2, <1>3 DEF Stops, size_of
<1>8. found = [previous |-> p, chosen |-> c, after |-> next_of(h, c)]
    BY <1>3 DEF Search
<1> HIDE DEF found, p, c
<1>9. /\ Kept(h, h1, F \cup G)
      /\ FreeList(h1, G)
      /\ header_of(h1, c).size = taken
      /\ split => c + size \in Place \ F /\ header_of(h1, c + size).size = rest
      /\ \A a \in F \ {c} : header_of(h1, a).size = header_of(h, a).size
    <2>1. c \in F \ {h.end}
        BY <1>3, <1>4
    <2>2. Carved(h, F, c, size, h1)
        BY <1>3, <1>6, <1>8, <2>1, CarveOutcome
    <2>3. QED
        BY <2>2 DEF Carved
<1>10. h1 \in HeapType
       /\ h1 = [h EXCEPT !.store = h1.store, !.start_next = h1.start_next]
    BY <1>9 DEF Kept
<1>11. c \in Place /\ c \in Nat /\ c \in F \ {h.end}
    BY <1>2, <1>3, <1>4
<1>12. taken \in 0..ALLOCATED_BIT - 1 /\ taken \in Nat /\ taken >= STRUCT_SIZE
    <2>1. size_of(h, c) \in 0..ALLOCATED_BIT - 1
        BY <1>1, <1>2, <1>11 DEF Laid
    <2>2. STRUCT_SIZE \in Nat /\ ALLOCATED_BIT \in Nat
        BY Geometry
    <2>3. QED
        BY <1>6, <2>1, <2>2
<1>13. h1.allocations = h.allocations /\ h1.end = h.end
       /\ h1.next_generation = h.next_generation /\ h1.free_bytes = h.free_bytes
       /\ h1.minimum_ever_free = h.minimum_ever_free
    BY <1>1, <1>10 DEF HeapType
<1> DEFINE left == (h.free_bytes - taken) % (USIZE_MAX + 1)
           low == IF left < h.minimum_ever_free THEN left ELSE h.minimum_ever_free
           next == (h.next_generation + 1) % GENERATION_MOD
<1> HIDE DEF taken, h1
<1>14. /\ h2 \in HeapType
       /\ h2 = [h1 EXCEPT !.store = h2.store, !.free_bytes = left,
                          !.minimum_ever_free = low, !.next_generation = next,
                          !.allocations = h.allocations + 1]
       /\ header_of(h2, c) = [next |-> h.next_generation, size |-> taken + ALLOCATED_BIT]
       /\ size_of(h2, c) = taken
       /\ \A b \in Place : Clear(c, b) => header_of(h2, b) = header_of(h1, b)
       /\ \A lo, hi \in Nat : Misses(c, lo, hi) => Same(h1, h2, lo, hi)
       /\ \A w \in 0..(N \div WORD) - 1 :
            w \notin {Slot(c, 0), Slot(c, 1)} => h2.store[w] = h1.store[w]
    <2>1. h1.allocations < USIZE_MAX
        BY <1>13
    <2>2. Handed(h1, c, taken, h2)
        BY <1>9, <1>10, <1>11, <1>12, <2>1, HandOutcome DEF taken
    <2> HIDE DEF h2
    <2>3. QED
        BY <1>13, <2>2 DEF Handed
<1> HIDE DEF h2, left, low, next
<1>15. /\ h2.start_next = h1.start_next /\ h2.end = h.end
       /\ h2 = [h EXCEPT !.store = h2.store, !.start_next = h2.start_next,
                         !.free_bytes = left, !.minimum_ever_free = low,
                         !.next_generation = next, !.allocations = h.allocations + 1]
    <2>1. h1.start_next = h2.start_next /\ h1.end = h2.end /\ h1.frees = h2.frees
          /\ h1.initialised = h2.initialised /\ h2.free_bytes = left
          /\ h2.minimum_ever_free = low /\ h2.next_generation = next
          /\ h2.allocations = h.allocations + 1
        BY <1>10, <1>14 DEF HeapType
    <2>2. h1.end = h.end /\ h1.frees = h.frees /\ h1.initialised = h.initialised
        BY <1>1, <1>10 DEF HeapType
    <2>3. h2.end = h.end /\ h2.frees = h.frees /\ h2.initialised = h.initialised
          /\ h2.start_next = h1.start_next
        BY <2>1, <2>2
    <2>4. h2 \in HeapType
        BY <1>14
    <2>5. h2 = [h EXCEPT !.store = h2.store, !.start_next = h2.start_next,
                         !.free_bytes = left, !.minimum_ever_free = low,
                         !.next_generation = next, !.allocations = h.allocations + 1]
        BY <1>1, <2>1, <2>3, <2>4 DEF HeapType
    <2>6. QED
        BY <2>3, <2>5
<1>16. G \subseteq Place /\ \A a \in G : Clear(c, a)
    <2>1. ASSUME NEW a \in F \ {c} PROVE a \in Place /\ Clear(c, a)
        BY <1>2, <1>11
    <2>2. split => Clear(c, c + size)
        <3>1. c + STRUCT_SIZE <= c + size
            BY <1>11, Geometry
        <3>2. QED
            BY <3>1 DEF Clear
    <2>3. split => c + size \in Place
        BY <1>9
    <2>4. QED
        BY <2>1, <2>2, <2>3
<1>17. FreeList(h2, G)
    BY <1>9, <1>13, <1>14, <1>15, <1>16, FreeListSame
<1>18. \A a \in F \ {c} : size_of(h2, a) = size_of(h, a)
    <2> TAKE a \in F \ {c}
    <2>1. a \in G /\ a \in Place
        BY <1>2
    <2>2. header_of(h2, a) = header_of(h1, a)
        BY <1>14, <1>16, <2>1
    <2>3. QED
        BY <1>9, <2>2 DEF size_of
<1>19. ASSUME split
       PROVE  c + size \in Place \ F /\ size_of(h2, c + size) = rest
    <2>1. c + size \in G /\ c + size \in Place \ F /\ header_of(h1, c + size).size = rest
        BY <1>9, <1>19
    <2>2. header_of(h2, c + size).size = rest
        BY <1>14, <1>16, <2>1
    <2>3. rest \in 0..ALLOCATED_BIT - 1
        <3>1. header_of(h2, c + size).size \in 0..ALLOCATED_BIT - 1
            BY <1>17, <2>1 DEF FreeList, Laid
        <3>2. QED
            BY <2>2, <3>1
    <2>4. QED
        BY <2>1, <2>2, <2>3, Marks DEF size_of
<1>20. ASSUME NEW lo \in Nat, NEW hi \in Nat, \A a \in F \cup G : Misses(a, lo, hi)
       PROVE  Same(h, h2, lo, hi)
    <2>1. F \cup G \in SUBSET Place
        BY <1>2, <1>16
    <2>2. Same(h, h1, lo, hi)
        BY <1>1, <1>9, <1>20, <2>1, KeptSame
    <2>3. Same(h1, h2, lo, hi)
        BY <1>11, <1>14, <1>20
    <2>4. QED
        BY <2>2, <2>3 DEF Same
<1>21. Unmarks(h, h2, {Slot(c, 0), Slot(c, 1)})
    BY <1>9, <1>14 DEF Kept, Unmarks
<1> HIDE DEF split, rest
<1>22. AllocDone(h, F, size, c, h2)
    BY <1>6, <1>7, <1>11, <1>14, <1>15, <1>17, <1>18, <1>19, <1>20, <1>21
    DEF AllocDone, split, taken, left, low, next, rest
<1>23. QED
    BY <1>22 DEF found, c, h2, h1

\* A granted request's block has room for its header and for the request.
LEMMA BlockSizes ==
    ASSUME NEW wanted \in Nat, wanted + STRUCT_SIZE <= USIZE_MAX
    PROVE  /\ BlockSize(wanted) \in Nat /\ OnGrid(BlockSize(wanted))
           /\ N >= 2 * STRUCT_SIZE => STRUCT_SIZE <= BlockSize(wanted)
           /\ BlockSize(wanted) + STRUCT_SIZE <= N => wanted + STRUCT_SIZE <= BlockSize(wanted)
<1> DEFINE v == wanted + STRUCT_SIZE
           u == IF v + ALIGN - 1 > USIZE_MAX THEN USIZE_MAX ELSE v + ALIGN - 1
           size == BlockSize(wanted)
<1>1. /\ STRUCT_SIZE \in Nat /\ ALIGN \in Nat \ {0} /\ ALIGN <= STRUCT_SIZE
      /\ N \in Nat /\ USIZE_MAX \in Nat /\ 2 * N <= USIZE_MAX
    BY Geometry
<1>2. v \in Nat /\ u \in Nat
    BY <1>1
<1>3. size = align_down(u)
    BY DEF BlockSize, align_up
<1> HIDE DEF size, u
<1>4. size \in Nat /\ OnGrid(size) /\ size <= u /\ u < size + ALIGN
    BY <1>2, <1>3, AlignDown
<1>5. u = USIZE_MAX \/ u = v + ALIGN - 1
    BY DEF u
<1>6. v <= size \/ USIZE_MAX < size + ALIGN
    BY <1>1, <1>2, <1>4, <1>5
<1>7. N >= 2 * STRUCT_SIZE => STRUCT_SIZE <= size
    BY <1>1, <1>4, <1>6
<1>8. size + STRUCT_SIZE <= N => v <= size
    BY <1>1, <1>2, <1>4, <1>6
<1>9. QED
    BY <1>4, <1>7, <1>8 DEF size

\* What a grant keeps: the new block is its caller's alone.
GrantKept(h, F, H, S, size, c, h2, g) ==
    LET G == (F \ {c}) \cup (IF WorthSplitting(size_of(h, c) - size) THEN {c + size} ELSE {})
    IN  /\ Sound(h2, G, H \cup {g}, S)
        /\ At(g) = c /\ g \notin H
        /\ \A k \in H : size_of(h2, At(k)) = size_of(h, At(k))

LEMMA GrantKeeps ==
    ASSUME N <= U32_MAX,
           NEW h, NEW F, NEW H, NEW S, Sound(h, F, H, S), h.allocations < MaxAllocs,
           NEW wanted \in Wanted, wanted + STRUCT_SIZE <= USIZE_MAX,
           NEW size, size = BlockSize(wanted), STRUCT_SIZE <= size,
           NEW c, NEW h2, AllocDone(h, F, size, c, h2),
           NEW g, g = [block |-> BlockAt(h, c), issued |-> h.allocations + 1,
                       wanted |-> wanted, fill |-> NotFilled]
    PROVE  GrantKept(h, F, H, S, size, c, h2, g)
<1> DEFINE rest == size_of(h, c) - size
           split == WorthSplitting(rest)
           taken == IF split THEN size ELSE size_of(h, c)
           G == (F \ {c}) \cup (IF split THEN {c + size} ELSE {})
<1>1. /\ FreeList(h, F) /\ h \in HeapType /\ h.initialised
      /\ h.next_generation = (h.allocations + 1) % GENERATION_MOD
    BY DEF Sound, FreeList
<1>2. /\ c \in F \ {h.end} /\ c \in Place /\ size <= size_of(h, c)
      /\ h2 \in HeapType
      /\ FreeList(h2, G)
      /\ header_of(h2, c) = [next |-> h.next_generation, size |-> taken + ALLOCATED_BIT]
      /\ size_of(h2, c) = taken
      /\ \A a \in F \ {c} : size_of(h2, a) = size_of(h, a)
      /\ split => c + size \in Place \ F /\ size_of(h2, c + size) = rest
      /\ \A lo, hi \in Nat : (\A a \in F \cup G : Misses(a, lo, hi)) => Same(h, h2, lo, hi)
    BY DEF AllocDone
<1>3. h2.end = h.end /\ h2.initialised /\ h2.frees = h.frees
      /\ h2.allocations = h.allocations + 1
      /\ h2.next_generation = (h.next_generation + 1) % GENERATION_MOD
    BY <1>1 DEF AllocDone, HeapType
<1>4. /\ STRUCT_SIZE \in Nat \ {0} /\ N \in Nat /\ ALLOCATED_BIT \in Nat /\ N < ALLOCATED_BIT
      /\ GENERATION_MOD \in Nat \ {0}
    BY Geometry
<1>5. h.allocations \in Nat /\ h.frees \in Nat /\ MaxAllocs \in Nat
    BY <1>1, CallersAssumption DEF HeapType
<1>6. /\ F \subseteq Nat /\ h.end \in F /\ h.end \in Nat
      /\ \A a \in F : /\ size_of(h, a) \in Nat /\ Reach(h, a) \in Nat
                      /\ a + STRUCT_SIZE <= Reach(h, a)
      /\ \A a, b \in F : a < b => Reach(h, a) <= b
    BY <1>1, FreeNodes
<1>7. /\ c \in Nat /\ c + STRUCT_SIZE <= N /\ size \in Nat /\ wanted \in Nat /\ OnGrid(size)
      /\ h.end + STRUCT_SIZE <= N
    <2>1. wanted \in Nat
        BY CallersAssumption
    <2>2. h.end \in Place
        BY <1>1, FreeNodes
    <2>3. QED
        BY <1>2, <2>1, <2>2, PlaceFacts, BlockSizes
<1>8. c < h.end
    BY <1>1, <1>2, <1>6, <1>7 DEF FreeList, Linked
<1>9. /\ size_of(h, c) \in Nat /\ OnGrid(size_of(h, c)) /\ size_of(h, c) >= STRUCT_SIZE
      /\ Reach(h, c) = c + size_of(h, c) /\ Reach(h, c) <= h.end
    <2>1. size_of(h, c) \in Nat /\ OnGrid(size_of(h, c)) /\ size_of(h, c) >= STRUCT_SIZE
        BY <1>1, <1>2, <1>4, <1>7, FreeNodes
    <2>2. Reach(h, c) = c + size_of(h, c)
        BY <1>4, <2>1 DEF Reach
    <2>3. QED
        BY <1>2, <1>6, <1>8, <2>1, <2>2
<1>10. /\ taken \in Nat /\ taken >= STRUCT_SIZE /\ taken >= size /\ taken <= size_of(h, c)
       /\ OnGrid(taken) /\ taken < ALLOCATED_BIT /\ rest \in Nat
       /\ split => taken = size /\ c + size + STRUCT_SIZE <= Reach(h, c) /\ rest > STRUCT_SIZE
    <2>1. split => rest > 2 * STRUCT_SIZE
        BY DEF WorthSplitting, MINIMUM_BLOCK_SIZE
    <2>2. rest \in Nat
        BY <1>2, <1>7, <1>9
    <2> HIDE DEF split
    <2>3. taken = size \/ taken = size_of(h, c)
        OBVIOUS
    <2>4. /\ taken \in Nat /\ taken >= STRUCT_SIZE /\ taken >= size /\ taken <= size_of(h, c)
          /\ OnGrid(taken)
        BY <1>2, <1>7, <1>9, <2>3
    <2>5. taken < ALLOCATED_BIT
        BY <1>4, <1>6, <1>7, <1>9, <2>4
    <2>6. split => taken = size /\ c + size + STRUCT_SIZE <= Reach(h, c) /\ rest > STRUCT_SIZE
        BY <1>4, <1>7, <1>9, <2>1, <2>2
    <2>7. QED
        BY <2>2, <2>4, <2>5, <2>6
<1> HIDE DEF taken, split
<1>11. ASSUME NEW k \in H
       PROVE  /\ Lives(h2, k) /\ size_of(h2, At(k)) = size_of(h, At(k)) /\ Top(h2, k) = Top(h, k)
              /\ At(k) \in Nat /\ Top(h, k) \in Nat
              /\ \A a \in F : Top(h, k) <= a \/ Reach(h, a) <= At(k)
    <2>1. Lives(h, k) /\ \A a \in F : Top(h, k) <= a \/ Reach(h, a) <= At(k)
        BY DEF Sound, Beside
    <2>2. At(k) \in Nat /\ Top(h, k) \in Nat
        BY <2>1, GrantPlace
    <2>3. ASSUME NEW a \in F PROVE Misses(a, At(k), Top(h, k))
        BY <1>4, <1>6, <2>1, <2>2 DEF Misses
    <2>4. ASSUME split PROVE Misses(c + size, At(k), Top(h, k))
        <3>1. Top(h, k) <= c \/ Reach(h, c) <= At(k)
            BY <1>2, <2>1
        <3>2. c + size + STRUCT_SIZE <= Reach(h, c) /\ Reach(h, c) \in Nat
            BY <1>2, <1>6, <1>10, <2>4
        <3>3. QED
            BY <1>4, <1>7, <2>2, <3>1, <3>2 DEF Misses
    <2>5. Same(h, h2, At(k), Top(h, k))
        BY <1>2, <2>2, <2>3, <2>4
    <2>6. h.allocations <= h2.allocations
        BY <1>3, <1>5
    <2>7. QED
        BY <1>1, <1>2, <1>3, <2>1, <2>2, <2>5, <2>6, LivesOn
<1>12. g.block = [offset |-> c + STRUCT_SIZE, generation |-> h.next_generation]
       /\ g.issued = h.allocations + 1 /\ g.wanted = wanted /\ g.fill = NotFilled
    <2>1. ~ (c + STRUCT_SIZE > U32_MAX)
        <3>1. U32_MAX \in Int
            BY GeometryFits DEF U32_MAX
        <3>2. QED
            BY <1>4, <1>7, <3>1
    <2>2. QED
        BY <2>1 DEF BlockAt
<1>13. At(g) = c /\ Top(h2, g) = c + taken
    <2>1. At(g) = c
        BY <1>4, <1>7, <1>12 DEF At, LinkOf
    <2>2. QED
        BY <1>2, <2>1 DEF Top
<1>14. Lives(h2, g)
    <2>1. h.next_generation \in Nat
        BY <1>1 DEF HeapType
    <2>2. g \in GrantType
        BY <1>4, <1>5, <1>7, <1>12, <2>1 DEF GrantType
    <2>3. wanted + STRUCT_SIZE <= taken
        <3>1. size + STRUCT_SIZE <= N
            BY <1>2, <1>4, <1>6, <1>7, <1>9
        <3>2. wanted + STRUCT_SIZE <= size
            BY <1>7, <3>1, BlockSizes
        <3>3. QED
            BY <1>4, <1>7, <1>10, <3>2
    <2>4. c + taken <= h.end
        BY <1>6, <1>7, <1>9, <1>10
    <2>5. g.issued \in 1..h2.allocations
        BY <1>3, <1>5, <1>12
    <2>6. taken \in STRUCT_SIZE..ALLOCATED_BIT - 1
        BY <1>4, <1>10
    <2>7. h.next_generation = g.issued % GENERATION_MOD
        BY <1>1, <1>12
    <2> DEFINE n == h.next_generation
    <2> HIDE DEF n
    <2>8. g.block.generation = n /\ n = g.issued % GENERATION_MOD
          /\ header_of(h2, c) = [next |-> n, size |-> taken + ALLOCATED_BIT]
        BY <1>2, <1>12, <2>7 DEF n
    <2>9. QED
        BY <1>2, <1>3, <1>10, <1>12, <1>13, <2>2, <2>3, <2>4, <2>5, <2>6, <2>8 DEF Lives
<1>15. ASSUME NEW k \in H, NEW a \in G
       PROVE  Beside(h2, k, a)
    <2>1. CASE a \in F \ {c}
        <3>1. Reach(h2, a) = Reach(h, a)
            BY <1>2, <2>1 DEF Reach
        <3>2. QED
            BY <1>11, <2>1, <3>1 DEF Beside
    <2>2. CASE split /\ a = c + size
        <3>1. Reach(h2, a) = Reach(h, c)
            <4>1. Reach(h2, a) = c + size + rest
                BY <1>2, <1>4, <1>10, <2>2 DEF Reach
            <4>2. QED
                BY <1>7, <1>9, <1>10, <4>1
        <3>2. Top(h, k) <= c \/ Reach(h, c) <= At(k)
            BY <1>2, <1>11
        <3>3. Top(h, k) \in Nat
            BY <1>11
        <3>4. Top(h, k) <= a \/ Reach(h2, a) <= At(k)
            BY <1>7, <2>2, <3>1, <3>2, <3>3
        <3>5. QED
            BY <1>11, <3>4 DEF Beside
    <2>3. QED
        BY <2>1, <2>2
<1>16. ASSUME NEW a \in G
       PROVE  Beside(h2, g, a)
    <2>1. CASE a \in F \ {c}
        <3>1. Reach(h2, a) = Reach(h, a)
            BY <1>2, <2>1 DEF Reach
        <3>2. a \in Nat /\ (a < c \/ c < a)
            BY <1>6, <1>7, <2>1
        <3>3. a < c => Reach(h, a) <= c
            BY <1>2, <1>6, <2>1
        <3>4. c < a => Reach(h, c) <= a
            BY <1>2, <1>6, <2>1
        <3>5. c < a => c + taken <= a
            BY <1>7, <1>9, <1>10, <3>2, <3>4
        <3>6. QED
            BY <1>13, <3>1, <3>2, <3>3, <3>5 DEF Beside
    <2>2. CASE split /\ a = c + size
        <3>1. c + taken <= a
            BY <1>7, <1>10, <2>2
        <3>2. QED
            BY <1>13, <3>1 DEF Beside
    <2>3. QED
        BY <2>1, <2>2
<1>17. ASSUME NEW k \in H
       PROVE  /\ Disjoint(h2, g, k) /\ Disjoint(h2, k, g) /\ g.issued # k.issued /\ g # k
    <2>1. Top(h, k) <= c \/ Reach(h, c) <= At(k)
        BY <1>2, <1>11
    <2>2. Top(h, k) <= c \/ c + taken <= At(k)
        BY <1>7, <1>9, <1>10, <1>11, <2>1
    <2>3. Disjoint(h2, g, k) /\ Disjoint(h2, k, g)
        BY <1>11, <1>13, <2>2 DEF Disjoint
    <2>4. k.issued \in 1..h.allocations
        BY DEF Sound, Lives
    <2>5. k.issued # h.allocations + 1
        BY <1>5, <2>4
    <2>6. QED
        BY <1>12, <2>3, <2>5
<1>18. IsFiniteSet(H \cup {g}) /\ h2.allocations - h2.frees = Cardinality(H \cup {g})
    <2>1. IsFiniteSet(H) /\ Cardinality(H) = h.allocations - h.frees
        BY DEF Sound
    <2>2. g \notin H
        BY <1>17
    <2>3. IsFiniteSet(H \cup {g}) /\ Cardinality(H \cup {g}) = Cardinality(H) + 1
        BY <2>1, <2>2, FS_AddElement
    <2>4. QED
        BY <1>3, <1>5, <2>1, <2>3
<1>19. ASSUME NEW s \in S
       PROVE  Gone(h2, H \cup {g}, s)
    <2>1. Gone(h, H, s)
        BY DEF Sound
    <2>2. s.issued \in 1..h2.allocations /\ s.issued < h.allocations + 1
        <3>1. s.issued \in 1..h.allocations
            BY <2>1 DEF Gone
        <3>2. QED
            BY <1>3, <1>5, <3>1
    <2>3. QED
        BY <1>12, <2>1, <2>2 DEF Gone
<1>20. h2.next_generation = (h2.allocations + 1) % GENERATION_MOD
    <2> DEFINE a == h.allocations + 1
    <2>1. a \in Nat
        BY <1>5
    <2> HIDE DEF a
    <2>2. ((a % GENERATION_MOD) + 1) % GENERATION_MOD = (a + 1) % GENERATION_MOD
        BY <1>4, <2>1, NextModulo
    <2>3. QED
        BY <1>1, <1>3, <2>2 DEF a
<1>21. h2.allocations <= MaxAllocs
    BY <1>3, <1>5
<1> DEFINE K == H \cup {g}
<1>22. /\ \A k \in K : Lives(h2, k)
       /\ \A k \in K, a \in G : Beside(h2, k, a)
       /\ \A k, l \in K : k # l => Disjoint(h2, k, l) /\ k.issued # l.issued
    <2>1. \A k \in K : Lives(h2, k)
        BY <1>11, <1>14
    <2> HIDE DEF G
    <2>2. \A k \in K, a \in G : Beside(h2, k, a)
        BY <1>15, <1>16
    <2>3. ASSUME NEW k \in H, NEW l \in H, k # l
          PROVE  Disjoint(h2, k, l) /\ k.issued # l.issued
        <3>1. Disjoint(h, k, l) /\ k.issued # l.issued
            BY <2>3 DEF Sound
        <3>2. QED
            BY <1>11, <3>1 DEF Disjoint
    <2>4. \A k, l \in K : k # l => Disjoint(h2, k, l) /\ k.issued # l.issued
        BY <1>17, <2>3
    <2>5. QED
        BY <2>1, <2>2, <2>4
<1> HIDE DEF G, K
<1>23. Sound(h2, G, K, S)
    BY <1>2, <1>3, <1>18, <1>19, <1>20, <1>21, <1>22 DEF Sound, K
<1>24. QED
    <2>1. At(g) = c /\ g \notin H
        BY <1>13, <1>17
    <2>2. \A k \in H : size_of(h2, At(k)) = size_of(h, At(k))
        BY <1>11
    <2>3. QED
        BY <1>23, <2>1, <2>2 DEF G, K, split, rest, GrantKept

-----------------------------------------------------------------------------
(* free.                                                                   *)

\* What freeing the block of size bytes at b does: it and f are its neighbours
\* on the list, which it is joined with where they touch.
FreeDone(h, F, b, size, it, f, h2) ==
    LET m == Merge(h, it, f, b, size)
        G == (F \ m.lost) \cup {m.at}
    IN  /\ Neighbours(h, F, it, f, b)
        /\ h2 \in HeapType
        /\ h2 = [h EXCEPT !.store = h2.store, !.start_next = h2.start_next,
                          !.free_bytes = (@ + size) % (USIZE_MAX + 1),
                          !.frees = (@ + 1) % (USIZE_MAX + 1)]
        /\ FreeList(h2, G)
        /\ size_of(h2, m.at) = m.size
        /\ \A a \in F \ {m.at} : header_of(h2, a).size = header_of(h, a).size
        /\ header_of(h2, b).size < ALLOCATED_BIT
        /\ \A lo, hi \in Nat :
            (\A a \in F \cup {b} : Misses(a, lo, hi)) => Same(h, h2, lo, hi)
        /\ Unmarks(h, h2, {})

LEMMA FreeOutcome ==
    ASSUME NEW h, NEW F, FreeList(h, F), NEW b \in Place, NEW size,
           size = size_of(h, b), size \in STRUCT_SIZE..ALLOCATED_BIT - 1, OnGrid(size),
           b + size <= h.end,
           \A a \in F : b + size <= a \/ Reach(h, a) <= b
    PROVE  \E it, f : FreeDone(h, F, b, size, it, f, free_at(h, b))
<1> DEFINE w == set_raw_size(h, b, size)
           u == [w EXCEPT !.free_bytes = (@ + size) % (USIZE_MAX + 1)]
           i == insert_into_free_list(u, b, size)
           h2 == free_at(h, b)
<1>1. /\ STRUCT_SIZE \in Nat \ {0} /\ ALLOCATED_BIT \in Nat /\ WORD_MOD = 2 * ALLOCATED_BIT
      /\ USIZE_MAX \in Nat
    BY Geometry
<1>2. size \in Nat /\ size >= STRUCT_SIZE /\ size < ALLOCATED_BIT /\ size \in 0..WORD_MOD - 1
      /\ b \in Nat /\ h \in HeapType
    BY <1>1, PlaceFacts DEF FreeList
<1>3. Wrote(h, w, b, header_of(h, b).next, size)
    BY <1>2, WroteSize
<1>4. h2 = [i EXCEPT !.frees = (@ + 1) % (USIZE_MAX + 1)]
    BY DEF free_at
<1>5. w \in HeapType /\ w = [h EXCEPT !.store = w.store]
    BY <1>3 DEF Wrote
<1> DEFINE room == (h.free_bytes + size) % (USIZE_MAX + 1)
           count == (h.frees + 1) % (USIZE_MAX + 1)
<1>6. room \in Nat /\ count \in Nat
    <2>1. h.free_bytes \in Nat /\ h.frees \in Nat
        BY <1>2 DEF HeapType
    <2>2. QED
        BY <1>1, <1>2, <2>1
<1> HIDE DEF w, i, h2
<1>7. u \in HeapType /\ u = [h EXCEPT !.store = w.store, !.free_bytes = room]
      /\ u.store = w.store /\ u.end = h.end /\ u.start_next = h.start_next
    <2>1. w.free_bytes = h.free_bytes
        BY <1>2, <1>5 DEF HeapType
    <2>2. u = [w EXCEPT !.free_bytes = room]
        BY <1>5, <2>1 DEF HeapType
    <2> HIDE DEF room, u
    <2>3. QED
        BY <1>2, <1>5, <1>6, <2>2 DEF HeapType
<1> HIDE DEF u, room, count
<1>8. \A a : header_of(u, a) = header_of(w, a)
    BY <1>7 DEF header_of
<1>9. /\ F \subseteq Place /\ F \subseteq Nat /\ NONE \notin F /\ h.end \in F
      /\ \A a \in F : Reach(h, a) \in Nat /\ a + STRUCT_SIZE <= Reach(h, a)
    BY FreeNodes
<1>10. \A a \in F : header_of(u, a) = header_of(h, a)
    <2> TAKE a \in F
    <2>1. b + size <= a \/ Reach(h, a) <= b
        OBVIOUS
    <2>2. Clear(b, a)
        BY <1>1, <1>2, <1>9, <2>1 DEF Clear
    <2>3. QED
        BY <1>3, <1>8, <1>9, <2>2 DEF Wrote
<1>11. FreeList(u, F) /\ \A a \in F : Reach(u, a) = Reach(h, a)
    BY <1>7, <1>10, FreeListSame
<1>12. header_of(u, b).size = size
    BY <1>3, <1>8 DEF Wrote
<1>13. \E it, f : Inserted(u, F, it, f, b, size, i)
    <2>1. b <= u.end
        <3>1. h.end \in Nat
            BY <1>9
        <3>2. QED
            BY <1>2, <1>7, <3>1
    <2>2. \A a \in F : b + size <= a \/ Reach(u, a) <= b
        BY <1>11
    <2>3. QED
        BY <1>2, <1>11, <1>12, <2>1, <2>2, InsertOutcome DEF i
<1>14. PICK it, f : Inserted(u, F, it, f, b, size, i)
    BY <1>13
<1> DEFINE m == Merge(u, it, f, b, size)
           G == (F \ m.lost) \cup {m.at}
<1>15. /\ Neighbours(u, F, it, f, b)
       /\ Kept(u, i, F \cup G)
       /\ FreeList(i, G)
       /\ header_of(i, m.at).size = m.size
       /\ \A a \in F \ {m.at} : header_of(i, a).size = header_of(u, a).size
    BY <1>14 DEF Inserted
<1>16. it = NONE \/ it \in F
    BY <1>15 DEF Neighbours, Leads
<1>17. Neighbours(h, F, it, f, b)
    <2>1. it \in F => next_of(u, it) = next_of(h, it)
        BY <1>10 DEF next_of
    <2>2. QED
        BY <1>7, <1>15, <2>1 DEF Neighbours, Leads
<1>18. m = Merge(h, it, f, b, size)
    <2>1. it # NONE => size_of(u, it) = size_of(h, it)
        BY <1>10, <1>16 DEF size_of
    <2>2. f \in F /\ size_of(u, f) = size_of(h, f)
        BY <1>10, <1>17 DEF Neighbours, size_of
    <2>3. JoinsBefore(u, it, b) = JoinsBefore(h, it, b)
        BY <2>1 DEF JoinsBefore
    <2>4. Absorbs(u, b + size, f) = Absorbs(h, b + size, f)
        BY <1>7 DEF Absorbs
    <2>5. JoinsBefore(h, it, b) => it # NONE
        BY DEF JoinsBefore
    <2>6. QED
        BY <2>1, <2>2, <2>3, <2>4, <2>5 DEF Merge
<1>19. m.at \in F \cup {b} /\ F \cup G \subseteq F \cup {b}
    BY <1>16 DEF Merge, JoinsBefore
<1>20. i \in HeapType /\ i = [u EXCEPT !.store = i.store, !.start_next = i.start_next]
    BY <1>15 DEF Kept
<1> HIDE DEF m
<1>21. /\ h2 \in HeapType
       /\ h2 = [h EXCEPT !.store = h2.store, !.start_next = h2.start_next,
                         !.free_bytes = room, !.frees = count]
       /\ h2.store = i.store /\ h2.start_next = i.start_next /\ h2.end = i.end
    <2>1. i.frees = h.frees /\ i.free_bytes = room /\ i.end = h.end
          /\ i.minimum_ever_free = h.minimum_ever_free /\ i.allocations = h.allocations
          /\ i.initialised = h.initialised /\ i.next_generation = h.next_generation
        <3>1. i.frees = u.frees /\ i.free_bytes = u.free_bytes /\ i.end = u.end
              /\ i.minimum_ever_free = u.minimum_ever_free /\ i.allocations = u.allocations
              /\ i.initialised = u.initialised /\ i.next_generation = u.next_generation
            BY <1>7, <1>20 DEF HeapType
        <3>2. u.frees = h.frees /\ u.free_bytes = room /\ u.end = h.end
              /\ u.minimum_ever_free = h.minimum_ever_free /\ u.allocations = h.allocations
              /\ u.initialised = h.initialised /\ u.next_generation = h.next_generation
            BY <1>2, <1>7 DEF HeapType
        <3>3. QED
            BY <3>1, <3>2
    <2>2. h2 = [i EXCEPT !.frees = count]
        BY <1>4, <1>20, <2>1 DEF HeapType, count
    <2>3. h2 \in HeapType /\ h2.store = i.store /\ h2.start_next = i.start_next
          /\ h2.end = i.end /\ h2.frees = count /\ h2.free_bytes = i.free_bytes
          /\ h2.minimum_ever_free = i.minimum_ever_free /\ h2.allocations = i.allocations
          /\ h2.initialised = i.initialised /\ h2.next_generation = i.next_generation
        BY <1>6, <1>20, <2>2 DEF HeapType
    <2>4. h2.end = h.end /\ h2.frees = count /\ h2.free_bytes = room
          /\ h2.minimum_ever_free = h.minimum_ever_free /\ h2.allocations = h.allocations
          /\ h2.initialised = h.initialised /\ h2.next_generation = h.next_generation
        BY <2>1, <2>3
    <2>5. h2 \in HeapType
        BY <2>3
    <2>6. h2 = [h EXCEPT !.store = h2.store, !.start_next = h2.start_next,
                         !.free_bytes = room, !.frees = count]
        BY <1>2, <2>4, <2>5 DEF HeapType
    <2>7. QED
        BY <2>3, <2>6
<1>22. FreeList(h2, G) /\ \A a : header_of(h2, a) = header_of(i, a)
    BY <1>15, <1>21, FreeListFields
<1>23. size_of(h2, m.at) = m.size
    <2>1. m.at \in G
        OBVIOUS
    <2>2. size_of(h2, m.at) = header_of(h2, m.at).size
        BY <1>22, <2>1, FreeNodes
    <2>3. QED
        BY <1>15, <1>22, <2>2
<1>24. \A a \in F \ {m.at} : header_of(h2, a).size = header_of(h, a).size
    BY <1>10, <1>15, <1>22
<1>25. header_of(h2, b).size < ALLOCATED_BIT
    <2>1. Slot(b, 1) \in 0..(N \div WORD) - 1
        BY PlaceWords
    <2>2. i.store[Slot(b, 1)] = u.store[Slot(b, 1)] \/ i.store[Slot(b, 1)] < ALLOCATED_BIT
        BY <1>15, <2>1 DEF Kept
    <2>3. u.store[Slot(b, 1)] = size
        <3>1. header_of(u, b) = [next |-> u.store[Slot(b, 0)], size |-> u.store[Slot(b, 1)]]
            BY <1>7, HeaderWords
        <3>2. QED
            BY <1>12, <3>1
    <2>4. header_of(i, b).size = i.store[Slot(b, 1)]
        <3>1. header_of(i, b) = [next |-> i.store[Slot(b, 0)], size |-> i.store[Slot(b, 1)]]
            BY <1>20, HeaderWords
        <3>2. QED
            BY <3>1
    <2>5. QED
        BY <1>2, <1>22, <2>2, <2>3, <2>4
<1>26. ASSUME NEW lo \in Nat, NEW hi \in Nat, \A a \in F \cup {b} : Misses(a, lo, hi)
       PROVE  Same(h, h2, lo, hi)
    <2>1. Same(h, w, lo, hi)
        BY <1>2, <1>3, <1>26, WroteSame
    <2>2. F \cup G \in SUBSET Place
        BY <1>9, <1>19
    <2>3. Same(u, i, lo, hi)
        BY <1>7, <1>15, <1>19, <1>26, <2>2, KeptSame
    <2>4. QED
        BY <1>7, <1>21, <2>1, <2>3 DEF Same
<1>27. Unmarks(h, h2, {})
    <2> SUFFICES ASSUME NEW x \in 0..(N \div WORD) - 1
                 PROVE  h2.store[x] = h.store[x] \/ h2.store[x] < ALLOCATED_BIT
        BY DEF Unmarks
    <2>1. h2.store[x] = w.store[x] \/ h2.store[x] < ALLOCATED_BIT
        BY <1>7, <1>15, <1>21 DEF Kept
    <2>2. w.store[x] = h.store[x] \/ w.store[x] < ALLOCATED_BIT
        <3>1. CASE x \notin {Slot(b, 0), Slot(b, 1)}
            BY <1>2, <1>3, <3>1 DEF Wrote, HeapType
        <3>2. header_of(w, b) = [next |-> w.store[Slot(b, 0)], size |-> w.store[Slot(b, 1)]]
            BY <1>5, HeaderWords
        <3>3. header_of(h, b) = [next |-> h.store[Slot(b, 0)], size |-> h.store[Slot(b, 1)]]
            BY <1>2, HeaderWords
        <3>4. w.store[Slot(b, 0)] = h.store[Slot(b, 0)] /\ w.store[Slot(b, 1)] = size
            BY <1>3, <3>2, <3>3 DEF Wrote
        <3>5. QED
            BY <1>2, <3>1, <3>4
    <2>3. QED
        BY <2>1, <2>2
<1> HIDE DEF G
<1>28. FreeDone(h, F, b, size, it, f, h2)
    BY <1>17, <1>18, <1>21, <1>22, <1>23, <1>24, <1>25, <1>26, <1>27
    DEF FreeDone, G, room, count
<1>29. QED
    BY <1>28 DEF h2

\* What a free keeps: the other blocks are their callers' still.
FreeKept(h, F, H, S, g, it, f, h2) ==
    LET m == Merge(h, it, f, At(g), size_of(h, At(g)))
        G == (F \ m.lost) \cup {m.at}
    IN  /\ Sound(h2, G, H \ {g}, S \cup {[block |-> g.block, issued |-> g.issued]})
        /\ \A k \in H \ {g} : size_of(h2, At(k)) = size_of(h, At(k))

LEMMA FreeKeeps ==
    ASSUME NEW h, NEW F, NEW H, NEW S, Sound(h, F, H, S), NEW g \in H,
           NEW it, NEW f, NEW h2, FreeDone(h, F, At(g), size_of(h, At(g)), it, f, h2)
    PROVE  FreeKept(h, F, H, S, g, it, f, h2)
<1> DEFINE b == At(g)
           size == size_of(h, b)
           m == Merge(h, it, f, b, size)
           G == (F \ m.lost) \cup {m.at}
           s0 == [block |-> g.block, issued |-> g.issued]
<1>1. /\ FreeList(h, F) /\ h \in HeapType /\ h.initialised
      /\ h.next_generation = (h.allocations + 1) % GENERATION_MOD
      /\ Lives(h, g) /\ h.allocations <= MaxAllocs
      /\ IsFiniteSet(H) /\ h.allocations - h.frees = Cardinality(H)
    BY DEF Sound, FreeList
<1>2. /\ Neighbours(h, F, it, f, b)
      /\ h2 \in HeapType
      /\ FreeList(h2, G)
      /\ size_of(h2, m.at) = m.size
      /\ \A a \in F \ {m.at} : size_of(h2, a) = size_of(h, a)
      /\ \A lo, hi \in Nat : (\A a \in F \cup {b} : Misses(a, lo, hi)) => Same(h, h2, lo, hi)
    BY DEF FreeDone, size_of
<1>3. h2.end = h.end /\ h2.initialised /\ h2.frees = (h.frees + 1) % (USIZE_MAX + 1)
      /\ h2.allocations = h.allocations /\ h2.next_generation = h.next_generation
    BY <1>1 DEF FreeDone, HeapType
<1>4. STRUCT_SIZE \in Nat \ {0} /\ USIZE_MAX \in Nat /\ MaxAllocs \in Nat /\ MaxAllocs <= USIZE_MAX
    BY Geometry, CallersAssumption
<1>5. h.allocations \in Nat /\ h.frees \in Nat
    BY <1>1 DEF HeapType
<1>6. /\ F \subseteq Nat /\ h.end \in F /\ NONE \notin F
      /\ \A a \in F : /\ size_of(h, a) \in Nat /\ Reach(h, a) \in Nat
                      /\ a + STRUCT_SIZE <= Reach(h, a) /\ a + size_of(h, a) <= Reach(h, a)
                      /\ Reach(h, a) = a + (IF size_of(h, a) = 0 THEN STRUCT_SIZE ELSE size_of(h, a))
    <2>1. /\ F \subseteq Nat /\ h.end \in F /\ NONE \notin F
          /\ \A a \in F : /\ size_of(h, a) \in Nat /\ Reach(h, a) \in Nat
                          /\ a + STRUCT_SIZE <= Reach(h, a)
                          /\ Reach(h, a) = a + (IF size_of(h, a) = 0 THEN STRUCT_SIZE ELSE size_of(h, a))
        BY <1>1, FreeNodes
    <2>2. QED
        BY <1>4, <2>1
<1>7. b \in Nat /\ size \in Nat /\ size >= STRUCT_SIZE /\ Top(h, g) = b + size
    BY <1>1, <1>4, GrantPlace DEF Lives
<1>8. h2.frees = h.frees + 1 /\ IsFiniteSet(H \ {g})
      /\ h2.allocations - h2.frees = Cardinality(H \ {g})
    <2>1. IsFiniteSet(H \ {g}) /\ Cardinality(H \ {g}) = Cardinality(H) - 1
        BY <1>1, FS_RemoveElement
    <2>2. Cardinality(H \ {g}) \in Nat
        BY <2>1, FS_CardinalityType
    <2>3. Cardinality(H) \in Nat
        BY <1>1, FS_CardinalityType
    <2>4. h.frees + 1 <= USIZE_MAX
        BY <1>1, <1>4, <1>5, <2>1, <2>2, <2>3
    <2>5. (h.frees + 1) % (USIZE_MAX + 1) = h.frees + 1
        BY <1>4, <1>5, <2>4
    <2>6. QED
        BY <1>1, <1>3, <1>5, <2>1, <2>3, <2>5
<1>9. ASSUME NEW k \in H \ {g}
      PROVE  /\ At(k) \in Nat /\ Top(h, k) \in Nat /\ At(k) + STRUCT_SIZE <= Top(h, k)
             /\ b + size <= At(k) \/ Top(h, k) <= b
             /\ \A a \in F : Top(h, k) <= a \/ Reach(h, a) <= At(k)
             /\ Lives(h2, k) /\ Top(h2, k) = Top(h, k) /\ size_of(h2, At(k)) = size_of(h, At(k))
    <2>1. Lives(h, k) /\ \A a \in F : Top(h, k) <= a \/ Reach(h, a) <= At(k)
        BY DEF Sound, Beside
    <2>2. At(k) \in Nat /\ Top(h, k) \in Nat /\ At(k) + STRUCT_SIZE <= Top(h, k)
        BY <2>1, GrantPlace
    <2>3. b + size <= At(k) \/ Top(h, k) <= b
        BY <1>7 DEF Sound, Disjoint
    <2> HIDE DEF b, size
    <2>4. Misses(b, At(k), Top(h, k))
        BY <1>4, <1>7, <2>2, <2>3 DEF Misses
    <2>5. ASSUME NEW a \in F PROVE Misses(a, At(k), Top(h, k))
        BY <1>4, <1>6, <2>1, <2>2 DEF Misses
    <2>6. Same(h, h2, At(k), Top(h, k))
        BY <1>2, <2>2, <2>4, <2>5
    <2>7. h.allocations <= h2.allocations
        BY <1>3, <1>5
    <2>8. QED
        BY <1>1, <1>2, <1>3, <2>1, <2>2, <2>3, <2>6, <2>7, LivesOn
<1> HIDE DEF b, size
<1>10. /\ m.at = IF JoinsBefore(h, it, b) THEN it ELSE b
       /\ m.size = (IF JoinsBefore(h, it, b) THEN size_of(h, it) ELSE 0) + size
                     + (IF Absorbs(h, b + size, f) THEN size_of(h, f) ELSE 0)
       /\ f \in F
       /\ JoinsBefore(h, it, b) => it \in F /\ it < b /\ it + size_of(h, it) = b
       /\ Absorbs(h, b + size, f) => f = b + size
    BY <1>2 DEF Merge, Neighbours, Leads, JoinsBefore, Absorbs
<1> HIDE DEF m
<1> DEFINE before == IF JoinsBefore(h, it, b) THEN size_of(h, it) ELSE 0
           behind == IF Absorbs(h, b + size, f) THEN size_of(h, f) ELSE 0
<1>10a. /\ before \in Nat /\ behind \in Nat /\ m.size = before + size + behind
        /\ m.at \in Nat /\ m.at + before = b
    <2>1. size_of(h, f) \in Nat /\ behind \in Nat
        BY <1>6, <1>10
    <2>2. CASE JoinsBefore(h, it, b)
        <3>1. it \in F /\ it + size_of(h, it) = b
            BY <1>10, <2>2
        <3>2. it \in Nat /\ size_of(h, it) \in Nat
            BY <1>6, <3>1
        <3>3. before = size_of(h, it) /\ m.at = it
            BY <1>10, <2>2
        <3> HIDE DEF behind
        <3>4. QED
            BY <1>10, <2>1, <3>1, <3>2, <3>3 DEF behind
    <2>3. CASE ~ JoinsBefore(h, it, b)
        BY <1>7, <1>10, <2>1, <2>3
    <2>4. QED
        BY <2>2, <2>3
<1> HIDE DEF before
<1>11. ASSUME NEW k \in H \ {g}
       PROVE  Top(h, k) <= m.at \/ m.at + m.size <= At(k)
    <2>1. CASE Top(h, k) <= b
        <3>1. CASE JoinsBefore(h, it, b)
            <4>0. it \in F /\ it < b /\ it + size_of(h, it) = b /\ m.at = it
                BY <1>10, <3>1
            <4>0a. it \in Nat /\ size_of(h, it) \in Nat
                   /\ Reach(h, it) = it + (IF size_of(h, it) = 0 THEN STRUCT_SIZE ELSE size_of(h, it))
                BY <1>6, <4>0
            <4>1. it \in F /\ it \in Nat /\ it < b /\ Reach(h, it) = b /\ m.at = it
                BY <1>7, <4>0, <4>0a
            <4>2. Top(h, k) <= it \/ b <= At(k)
                BY <1>9, <4>1
            <4>3. QED
                BY <1>4, <1>7, <1>9, <2>1, <4>1, <4>2
        <3>2. CASE ~ JoinsBefore(h, it, b)
            BY <1>10, <2>1, <3>2
        <3>3. QED
            BY <3>1, <3>2
    <2>2. CASE b + size <= At(k)
        <3>1. m.at \in Nat /\ m.size \in Nat
              /\ m.at + m.size = b + size + (IF Absorbs(h, b + size, f) THEN size_of(h, f) ELSE 0)
            <4> HIDE DEF behind
            <4>1. m.at + m.size = b + size + behind /\ m.at \in Nat /\ m.size \in Nat
                BY <1>7, <1>10a
            <4>2. QED
                BY <4>1 DEF behind
        <3>2. CASE Absorbs(h, b + size, f)
            <4>1. Top(h, k) <= f \/ Reach(h, f) <= At(k)
                BY <1>9, <1>10
            <4>2. f = b + size /\ size_of(h, f) \in Nat /\ f + size_of(h, f) <= Reach(h, f)
                  /\ Reach(h, f) \in Nat
                BY <1>6, <1>10, <3>2
            <4>3. QED
                BY <1>4, <1>7, <1>9, <2>2, <3>1, <3>2, <4>1, <4>2
        <3>3. CASE ~ Absorbs(h, b + size, f)
            BY <1>7, <1>9, <2>2, <3>1, <3>3
        <3>4. QED
            BY <3>2, <3>3
    <2>3. QED
        BY <1>9, <2>1, <2>2
<1>12. Reach(h2, m.at) = m.at + m.size
    <2> HIDE DEF behind
    <2>1. m.size \in Nat /\ m.size >= STRUCT_SIZE
        BY <1>4, <1>7, <1>10a
    <2>2. QED
        BY <1>2, <1>4, <2>1 DEF Reach
<1>13. ASSUME NEW k \in H \ {g}, NEW a \in G
       PROVE  Beside(h2, k, a)
    <2>1. CASE a = m.at
        BY <1>9, <1>11, <1>12, <2>1 DEF Beside
    <2>2. CASE a # m.at
        <3>1. a \in F \ {m.at}
            BY <2>2
        <3>2. Reach(h2, a) = Reach(h, a)
            BY <1>2, <3>1 DEF Reach
        <3>3. QED
            BY <1>9, <3>1, <3>2 DEF Beside
    <2>3. QED
        BY <2>1, <2>2
<1>14. ASSUME NEW k \in H \ {g}, NEW l \in H \ {g}, k # l
       PROVE  Disjoint(h2, k, l) /\ k.issued # l.issued
    <2>1. Disjoint(h, k, l) /\ k.issued # l.issued
        BY <1>14 DEF Sound
    <2>2. QED
        BY <1>9, <2>1 DEF Disjoint
<1>15. ASSUME NEW s \in S
       PROVE  Gone(h2, H \ {g}, s)
    <2>1. Gone(h, H, s)
        BY DEF Sound
    <2>2. QED
        BY <1>3, <2>1 DEF Gone
<1>16. Gone(h2, H \ {g}, s0)
    <2>1. ASSUME NEW k \in H \ {g}, k.block.offset = g.block.offset
          PROVE  FALSE
        <3>1. At(k) = b
            BY <2>1 DEF At, b
        <3>2. QED
            BY <1>4, <1>7, <1>9, <3>1
    <2>2. s0.block = g.block /\ s0.issued = g.issued
        OBVIOUS
    <2>3. /\ g.block \in [offset : Nat, generation : Nat] /\ g.issued \in Nat
          /\ At(g) \in Place /\ g.issued \in 1..h.allocations
          /\ g.block.generation = g.issued % GENERATION_MOD
        BY <1>1 DEF Lives, GrantType
    <2>4. s0 \in [block : [offset : Nat, generation : Nat], issued : Nat]
        BY <2>3
    <2> HIDE DEF s0
    <2>5. QED
        BY <1>3, <2>1, <2>2, <2>3, <2>4 DEF Gone, At
<1> DEFINE K == H \ {g}
           T == S \cup {s0}
<1>17. \A s \in T : Gone(h2, K, s)
    BY <1>15, <1>16
<1>18. /\ \A k \in K : Lives(h2, k)
       /\ \A k \in K, a \in G : Beside(h2, k, a)
       /\ \A k, l \in K : k # l => Disjoint(h2, k, l) /\ k.issued # l.issued
    <2> HIDE DEF G
    <2>1. QED
        BY <1>9, <1>13, <1>14
<1> HIDE DEF G, K, T, s0
<1>19. Sound(h2, G, K, T)
    BY <1>1, <1>2, <1>3, <1>8, <1>17, <1>18 DEF Sound, K
<1>20. QED
    <2>1. \A k \in K : size_of(h2, At(k)) = size_of(h, At(k))
        BY <1>9 DEF K
    <2>2. QED
        BY <1>19, <2>1 DEF G, K, T, s0, m, b, size, FreeKept

\* What a write keeps: every header, and the other callers' words.
WriteKept(h, F, H, S, g, word, h2) ==
    /\ Sound(h2, F, (H \ {g}) \cup {[g EXCEPT !.fill = word]}, S)
    /\ \A a \in F : header_of(h2, a) = header_of(h, a)
    /\ \A k \in H : header_of(h2, At(k)) = header_of(h, At(k))

\* Writing a payload changes nothing but the payload.
LEMMA WriteKeeps ==
    ASSUME NEW h, NEW F, NEW H, NEW S, Sound(h, F, H, S), NEW g \in H, g.fill = NotFilled,
           NEW word \in Fill, NEW h2,
           h2 = [h EXCEPT !.store =
                    [w \in DOMAIN @ |-> IF w \in PayloadWords(g) THEN word ELSE @[w]]]
    PROVE  WriteKept(h, F, H, S, g, word, h2)
<1> DEFINE g2 == [g EXCEPT !.fill = word]
           K == (H \ {g}) \cup {g2}
<1>1. /\ FreeList(h, F) /\ h \in HeapType /\ h.initialised
      /\ h.next_generation = (h.allocations + 1) % GENERATION_MOD
      /\ Lives(h, g) /\ h.allocations <= MaxAllocs
      /\ IsFiniteSet(H) /\ h.allocations - h.frees = Cardinality(H)
    BY DEF Sound, FreeList
<1>2. /\ h2 \in HeapType /\ h2.start_next = h.start_next /\ h2.end = h.end
      /\ h2.initialised /\ h2.next_generation = h.next_generation
      /\ h2.allocations = h.allocations /\ h2.frees = h.frees
      /\ \A w \in 0..(N \div WORD) - 1 :
            h2.store[w] = IF w \in PayloadWords(g) THEN word ELSE h.store[w]
    <2>1. word \in 0..WORD_MOD - 1
        BY CallersAssumption
    <2>2. QED
        BY <1>1, <2>1 DEF HeapType
<1>3. /\ At(g) \in Nat /\ Top(h, g) \in Nat /\ g.block.offset = At(g) + STRUCT_SIZE
      /\ At(g) + STRUCT_SIZE <= Top(h, g)
      /\ Top(h, g) = At(g) + size_of(h, At(g))
      /\ STRUCT_SIZE \in Nat \ {0}
    BY <1>1, GrantPlace, Geometry
<1>4. g.wanted \in Nat /\ g.block.offset + g.wanted <= Top(h, g)
    <2>1. g.wanted \in Wanted /\ g.wanted + STRUCT_SIZE <= size_of(h, At(g))
          /\ size_of(h, At(g)) \in STRUCT_SIZE..ALLOCATED_BIT - 1
        BY <1>1 DEF Lives, GrantType
    <2>2. g.wanted \in Nat /\ size_of(h, At(g)) \in Nat
        BY <1>3, <2>1, CallersAssumption
    <2>3. QED
        BY <1>3, <2>1, <2>2
<1>5. ASSUME NEW lo \in Nat, NEW hi \in Nat, hi <= At(g) + STRUCT_SIZE \/ Top(h, g) <= lo
      PROVE  Same(h, h2, lo, hi)
    <2> SUFFICES ASSUME NEW w \in 0..(N \div WORD) - 1, lo <= w * WORD /\ w * WORD < hi
                 PROVE  h2.store[w] = h.store[w]
        BY DEF Same
    <2> DEFINE p == w * WORD
    <2>1. p \in Int /\ lo <= p /\ p < hi
        BY Geometry
    <2>2. w \in PayloadWords(g) => g.block.offset <= p /\ p < g.block.offset + g.wanted
        BY DEF PayloadWords
    <2> HIDE DEF p
    <2>3. w \notin PayloadWords(g)
        BY <1>3, <1>4, <1>5, <2>1, <2>2
    <2>4. QED
        BY <1>2, <2>3
<1>6. header_of(h2, At(g)) = header_of(h, At(g)) /\ size_of(h2, At(g)) = size_of(h, At(g))
      /\ Top(h2, g) = Top(h, g)
    <2>1. Same(h, h2, At(g), At(g) + STRUCT_SIZE) /\ At(g) + STRUCT_SIZE \in Nat
        BY <1>3, <1>5
    <2>2. At(g) \in Place
        BY <1>1 DEF Lives
    <2>3. header_of(h2, At(g)) = header_of(h, At(g))
        BY <1>1, <1>3, <2>1, <2>2, SameHeader
    <2>4. QED
        BY <2>3 DEF size_of, Top
<1>7. ASSUME NEW k \in H \ {g}
      PROVE  /\ Lives(h2, k) /\ Top(h2, k) = Top(h, k)
             /\ header_of(h2, At(k)) = header_of(h, At(k))
    <2>1. Lives(h, k) /\ (Top(h, g) <= At(k) \/ Top(h, k) <= At(g))
        BY DEF Sound, Disjoint
    <2>2. At(k) \in Nat /\ Top(h, k) \in Nat
        BY <2>1, GrantPlace
    <2>3. Same(h, h2, At(k), Top(h, k))
        BY <1>3, <1>5, <2>1, <2>2
    <2>4. h.allocations <= h2.allocations
        BY <1>1, <1>2 DEF HeapType
    <2>5. QED
        BY <1>1, <1>2, <2>1, <2>3, <2>4, LivesOn
<1>8. ASSUME NEW a \in F
      PROVE  header_of(h2, a) = header_of(h, a)
    <2>1. Top(h, g) <= a \/ Reach(h, a) <= At(g)
        BY DEF Sound, Beside
    <2>2. a \in Nat /\ Reach(h, a) \in Nat /\ a + STRUCT_SIZE <= Reach(h, a) /\ a \in Place
        BY <1>1, FreeNodes
    <2>3. Same(h, h2, a, a + STRUCT_SIZE) /\ a + STRUCT_SIZE \in Nat
        BY <1>3, <1>5, <2>1, <2>2
    <2>4. QED
        BY <1>1, <2>2, <2>3, SameHeader
<1>9. FreeList(h2, F) /\ \A a \in F : Reach(h2, a) = Reach(h, a)
    BY <1>1, <1>2, <1>8, FreeListSame
<1>10. /\ g2.block = g.block /\ g2.issued = g.issued /\ g2.wanted = g.wanted /\ g2.fill = word
       /\ g2 \in GrantType /\ At(g2) = At(g) /\ PayloadWords(g2) = PayloadWords(g)
       /\ Top(h2, g2) = Top(h, g)
    <2>1. g \in GrantType
        BY <1>1 DEF Lives
    <2>2. /\ g2.block = g.block /\ g2.issued = g.issued /\ g2.wanted = g.wanted /\ g2.fill = word
          /\ g2 \in GrantType
        BY <2>1 DEF GrantType
    <2> HIDE DEF g2
    <2>3. At(g2) = At(g) /\ PayloadWords(g2) = PayloadWords(g)
        BY <2>2 DEF At, PayloadWords
    <2>4. QED
        BY <1>6, <2>2, <2>3 DEF Top
<1> HIDE DEF g2
<1>11. Lives(h2, g2)
    <2>1. \A w \in PayloadWords(g) : h2.store[w] = word
        BY <1>2 DEF PayloadWords
    <2>2. QED
        BY <1>1, <1>2, <1>6, <1>10, <2>1 DEF Lives
<1>12. g2 \notin H \ {g}
    <2>1. SUFFICES ASSUME g2 \in H, g2 # g PROVE FALSE
        OBVIOUS
    <2>2. g2.issued # g.issued
        BY <2>1 DEF Sound
    <2>3. QED
        BY <1>10, <2>2
<1>13. IsFiniteSet(K) /\ Cardinality(K) = Cardinality(H)
    <2>1. IsFiniteSet(H \ {g}) /\ Cardinality(H \ {g}) = Cardinality(H) - 1
        BY <1>1, FS_RemoveElement
    <2>2. IsFiniteSet(K) /\ Cardinality(K) = Cardinality(H \ {g}) + 1
        BY <1>12, <2>1, FS_AddElement
    <2>3. Cardinality(H) \in Nat
        BY <1>1, FS_CardinalityType
    <2>4. QED
        BY <2>1, <2>2, <2>3
<1>14. ASSUME NEW k \in K
       PROVE  /\ Lives(h2, k)
              /\ \E l \in H : /\ At(k) = At(l) /\ Top(h2, k) = Top(h, l)
                              /\ k.issued = l.issued /\ k.block = l.block
                              /\ l = g => k = g2
                              /\ l # g => k = l
    <2>1. CASE k = g2
        BY <1>10, <1>11, <2>1
    <2>2. CASE k \in H \ {g}
        BY <1>7, <2>2
    <2>3. QED
        BY <2>1, <2>2
<1>15. ASSUME NEW k \in K, NEW a \in F
       PROVE  Beside(h2, k, a)
    <2>1. PICK l \in H : At(k) = At(l) /\ Top(h2, k) = Top(h, l)
        BY <1>14
    <2>2. Beside(h, l, a)
        BY DEF Sound
    <2>3. QED
        BY <1>9, <2>1, <2>2 DEF Beside
<1>16. ASSUME NEW k \in K, NEW l \in K, k # l
       PROVE  Disjoint(h2, k, l) /\ k.issued # l.issued
    <2>1. PICK i \in H : /\ At(k) = At(i) /\ Top(h2, k) = Top(h, i) /\ k.issued = i.issued
                         /\ (i = g => k = g2) /\ (i # g => k = i)
        BY <1>14
    <2>2. PICK j \in H : /\ At(l) = At(j) /\ Top(h2, l) = Top(h, j) /\ l.issued = j.issued
                         /\ (j = g => l = g2) /\ (j # g => l = j)
        BY <1>14
    <2>3. i # j
        BY <1>16, <2>1, <2>2
    <2>4. Disjoint(h, i, j) /\ i.issued # j.issued
        BY <2>3 DEF Sound
    <2>5. QED
        BY <2>1, <2>2, <2>4 DEF Disjoint
<1>17. ASSUME NEW s \in S
       PROVE  Gone(h2, K, s)
    <2>1. Gone(h, H, s)
        BY DEF Sound
    <2>2. ASSUME NEW k \in K, k.block.offset = s.block.offset
          PROVE  s.issued < k.issued
        <3>1. PICK l \in H : k.issued = l.issued /\ k.block = l.block
            BY <1>14
        <3>2. QED
            BY <2>1, <2>2, <3>1 DEF Gone
    <2>3. QED
        BY <1>2, <2>1, <2>2 DEF Gone
<1> HIDE DEF K
<1>18. Sound(h2, F, K, S)
    BY <1>1, <1>2, <1>9, <1>13, <1>14, <1>15, <1>16, <1>17 DEF Sound
<1>19. \A k \in H : header_of(h2, At(k)) = header_of(h, At(k))
    BY <1>6, <1>7
<1>20. QED
    BY <1>8, <1>18, <1>19 DEF K, g2, WriteKept

-----------------------------------------------------------------------------
(* Laying out.                                                             *)

\* The geometry in which the source's reasoning about headers holds: the arena
\* has room for a block and its end marker, every offset fits the u32 of a
\* Block, and headers of an accepted table do not overlap.
ArenaSuits ==
    /\ N >= 2 * STRUCT_SIZE
    /\ N <= U32_MAX
    /\ \A t \in Tables : t # <<>> /\ Orderly(t, Len(t)) => Roomy(t, Len(t))

\* Where a header is as large as the alignment, accepted regions cannot
\* overlap: the last of the three is not an assumption then.
LEMMA NarrowTablesSuit ==
    ASSUME ALIGN = STRUCT_SIZE, NEW t \in Seq([start : Nat, size : Nat]), Orderly(t, Len(t))
    PROVE  Roomy(t, Len(t))
<1> DEFINE n == Len(t)
<1>1. \A i \in 1..n : t[i] \in [start : Nat, size : Nat]
    <2> DEFINE R == [start : Nat, size : Nat]
    <2> HIDE DEF R
    <2>1. t \in Seq(R)
        BY DEF R
    <2>2. \A i \in 1..Len(t) : t[i] \in R
        BY <2>1
    <2>3. QED
        BY <2>2 DEF R
<1>2. n \in Nat
    OBVIOUS
<1> HIDE DEF n
<1>3. ASSUME NEW i \in 1..n
      PROVE  /\ RegionStart(t[i]) \in Nat /\ OnGrid(RegionStart(t[i]))
             /\ RegionEnd(t[i]) \in Nat /\ OnGrid(RegionEnd(t[i]))
             /\ RegionStart(t[i]) < RegionEnd(t[i])
    <2>1. RegionFits(t[i])
        BY DEF Orderly, n
    <2>2. RegionStart(t[i]) \in Place /\ RegionEnd(t[i]) \in Place
          /\ RegionStart(t[i]) < RegionEnd(t[i])
        BY <1>1, <2>1, RegionPlaces
    <2>3. QED
        BY <2>2, PlaceFacts
<1>4. ASSUME NEW i \in 1..n
      PROVE  RegionStart(t[i]) + STRUCT_SIZE <= RegionEnd(t[i])
    BY <1>3, Aligned
<1>5. ASSUME NEW i \in 1..n, i > 1
      PROVE  RegionEnd(t[i - 1]) + STRUCT_SIZE <= RegionStart(t[i])
    <2>1. i - 1 \in 1..n
        BY <1>2, <1>5
    <2>2. RegionEnd(t[i - 1]) < RegionStart(t[i])
        <3>1. RegionStart(t[i]) > RegionEnd(t[i - 1])
            BY <1>5 DEF Orderly, n
        <3>2. QED
            BY <1>3, <2>1, <3>1
    <2>3. QED
        BY <1>3, <2>1, <2>2, Aligned
<1>6. QED
    BY <1>4, <1>5 DEF Roomy, n

\* A heap that has just been laid out: nobody holds anything.
LEMMA SoundFromFresh ==
    ASSUME NEW h, Fresh(h), NEW h2, NEW F, FreeList(h2, F), h2.initialised,
           h2.allocations = h.allocations, h2.frees = h.frees,
           h2.next_generation = h.next_generation
    PROVE  Sound(h2, F, {}, {})
<1>1. h2.allocations = 0 /\ h2.frees = 0 /\ h2.next_generation = 1
    BY DEF Fresh
<1>2. (0 + 1) % GENERATION_MOD = 1 /\ 0 <= MaxAllocs
    <2>1. GENERATION_MOD \in Nat /\ GENERATION_MOD >= 2 /\ MaxAllocs \in Nat
        BY Geometry, CallersAssumption
    <2>2. QED
        BY <2>1
<1>3. IsFiniteSet({}) /\ Cardinality({}) = 0
    BY FS_EmptySet
<1>4. QED
    BY <1>1, <1>2, <1>3 DEF Sound

LEMMA InitSound ==
    ASSUME N >= 2 * STRUCT_SIZE, NEW h, Fresh(h)
    PROVE  /\ Sound(init(h), {0, init(New).end}, {}, {})
           /\ Tidy(init(h))
<1>1. h \in HeapType /\ ~ h.initialised /\ Tidy(h)
    BY DEF Fresh
<1> DEFINE h2 == init(h)
           end == init(New).end
<1>2. /\ h2 = [h EXCEPT !.store = h2.store, !.start_next = h2.start_next, !.end = end,
                         !.initialised = TRUE, !.free_bytes = end,
                         !.minimum_ever_free = end]
      /\ FreeList(h2, {0, end})
      /\ Tidy(h2)
    BY <1>1, InitOutcome
<1> HIDE DEF h2, end
<1>3. h2.initialised /\ h2.allocations = h.allocations /\ h2.frees = h.frees
      /\ h2.next_generation = h.next_generation
    BY <1>1, <1>2 DEF HeapType
<1>4. QED
    BY <1>2, <1>3, SoundFromFresh DEF h2, end

\* The heap an accepted table leaves.
JustLaid(lay) ==
    [lay.heap EXCEPT !.initialised = TRUE, !.free_bytes = lay.total,
                     !.minimum_ever_free = lay.total]

LEMMA TableSound ==
    ASSUME ArenaSuits, NEW h, Fresh(h), NEW t \in Tables, t # <<>>
    PROVE  LET lay == LayTable(h, t)
           IN  /\ lay.refused => Fresh(lay.heap)
               /\ ~ lay.refused =>
                    /\ Orderly(t, Len(t))
                    /\ Sound(JustLaid(lay), Nodes(t, Len(t)), {}, {})
                    /\ Tidy(JustLaid(lay))
                    /\ LaidOut(lay.heap, t, Len(t))
                    /\ lay.total = Cardinality(Bytes(t, Len(t)))
<1> DEFINE lay == LayTable(h, t)
           n == Len(t)
           h2 == JustLaid(lay)
<1>1. h \in HeapType /\ ~ h.initialised /\ Tidy(h)
    BY DEF Fresh
<1>2. t \in Seq([start : Nat, size : Nat])
    BY CallersAssumption
<1>3. n \in Nat /\ n > 0
    BY <1>2
<1>4. LaySound(lay, h, t, n)
    BY <1>1, <1>2, TableOutcome
<1> HIDE DEF lay, n
<1>5. /\ lay.heap \in HeapType
      /\ lay.heap = [h EXCEPT !.store = lay.heap.store,
                              !.start_next = lay.heap.start_next, !.end = lay.heap.end]
      /\ Tidy(lay.heap)
      /\ lay.total \in Nat
    BY <1>1, <1>4 DEF LaySound, LayKept
<1>6. /\ lay.heap.initialised = h.initialised /\ lay.heap.allocations = h.allocations
      /\ lay.heap.frees = h.frees /\ lay.heap.next_generation = h.next_generation
      /\ lay.heap.free_bytes = h.free_bytes
      /\ lay.heap.minimum_ever_free = h.minimum_ever_free
    BY <1>1, <1>5 DEF HeapType
<1>7. Fresh(lay.heap)
    BY <1>5, <1>6 DEF Fresh
<1>8. ASSUME ~ lay.refused
      PROVE  /\ Orderly(t, n) /\ Sound(h2, Nodes(t, n), {}, {}) /\ Tidy(h2)
             /\ LaidOut(lay.heap, t, n) /\ lay.total = Cardinality(Bytes(t, n))
    <2>1. Orderly(t, n) /\ LayDone(lay, t, n)
        BY <1>4, <1>8 DEF LaySound
    <2>2. Roomy(t, n)
        BY <2>1 DEF ArenaSuits, n
    <2>3. LaidOut(lay.heap, t, n) /\ lay.total = Cardinality(Bytes(t, n))
        BY <1>3, <2>1, <2>2 DEF LayDone
    <2>4. FreeList(lay.heap, Nodes(t, n))
        BY <2>3 DEF LaidOut
    <2>5. /\ h2 \in HeapType /\ h2.store = lay.heap.store /\ h2.end = lay.heap.end
          /\ h2.start_next = lay.heap.start_next
          /\ h2.initialised /\ h2.allocations = lay.heap.allocations
          /\ h2.frees = lay.heap.frees /\ h2.next_generation = lay.heap.next_generation
        BY <1>5 DEF HeapType, JustLaid
    <2> HIDE DEF h2
    <2>6. FreeList(h2, Nodes(t, n)) /\ \A a : header_of(h2, a) = header_of(lay.heap, a)
        BY <2>4, <2>5, FreeListFields
    <2>7. Sound(h2, Nodes(t, n), {}, {})
        BY <1>7, <2>5, <2>6, SoundFromFresh
    <2>8. Tidy(h2)
        BY <1>5, <2>6 DEF Tidy
    <2>9. QED
        BY <2>1, <2>3, <2>7, <2>8
<1>9. QED
    BY <1>7, <1>8 DEF lay, n, h2

LEMMA NewIsFresh == Fresh(New)
<1>1. /\ NONE \in 0..WORD_MOD - 1 /\ 0 \in 0..WORD_MOD - 1 /\ 1 \in 0..GENERATION_MOD - 1
      /\ ALLOCATED_BIT > 0 /\ ALLOCATED_BIT \in Nat
    BY Geometry
<1>2. New \in HeapType
    BY <1>1 DEF New, HeapType
<1>3. ASSUME NEW a \in Place
      PROVE  header_of(New, a).size = 0
    <2>1. Slot(a, 1) \in 0..(N \div WORD) - 1
        BY PlaceWords
    <2>2. header_of(New, a) = [next |-> New.store[Slot(a, 0)], size |-> New.store[Slot(a, 1)]]
        BY <1>2, HeaderWords
    <2>3. New.store[Slot(a, 1)] = 0
        BY <2>1 DEF New
    <2>4. QED
        BY <2>2, <2>3
<1>4. Tidy(New)
    BY <1>1, <1>3 DEF Tidy
<1>5. ~ New.initialised /\ New.free_bytes = 0 /\ New.minimum_ever_free = 0
      /\ New.allocations = 0 /\ New.frees = 0 /\ New.next_generation = 1
    BY DEF New
<1>6. QED
    BY <1>2, <1>4, <1>5 DEF Fresh

-----------------------------------------------------------------------------
(* What looks like a block in use.                                         *)

\* Only the header of a held block looks like one, and payload that does begins
\* with a word its caller wrote.
Watched(h, H) ==
    \A a \in Place :
        Marked(header_of(h, a).size) =>
            \/ \E g \in H : At(g) = a
            \/ (\E f \in Fill : Marked(f)) /\ header_of(h, a).next \in Fill

LEMMA TidyWatched ==
    ASSUME NEW h \in HeapType, Tidy(h), ALIGN = STRUCT_SIZE, NEW H
    PROVE  Watched(h, H)
<1> SUFFICES ASSUME NEW a \in Place
             PROVE  ~ Marked(header_of(h, a).size)
    BY DEF Watched
<1>1. header_of(h, a).size \in 0..WORD_MOD - 1 /\ header_of(h, a).size < ALLOCATED_BIT
    BY HeaderWords DEF Tidy
<1>2. header_of(h, a).size \in 0..ALLOCATED_BIT - 1
    BY <1>1, Geometry
<1>3. QED
    BY <1>2, Marks

\* Two places do not share a word where a header is as large as the alignment.
LEMMA PlacesMiss ==
    ASSUME ALIGN = STRUCT_SIZE, NEW a \in Place, NEW b \in Place, a # b
    PROVE  Misses(b, a, a + STRUCT_SIZE)
<1>1. a \in Nat /\ b \in Nat /\ OnGrid(a) /\ OnGrid(b) /\ STRUCT_SIZE \in Nat
    BY PlaceFacts, Geometry
<1>2. a < b \/ b < a
    BY <1>1
<1>3. a + ALIGN <= b \/ b + ALIGN <= a
    BY <1>1, <1>2, Aligned
<1>4. QED
    BY <1>3 DEF Misses

LEMMA NodesUnmarked ==
    ASSUME NEW h, NEW F, FreeList(h, F), NEW a \in F
    PROVE  ~ Marked(header_of(h, a).size)
<1>1. header_of(h, a).size \in 0..ALLOCATED_BIT - 1
    BY DEF FreeList, Laid
<1>2. QED
    BY <1>1, Marks

LEMMA GrantWatched ==
    ASSUME ALIGN = STRUCT_SIZE,
           NEW h, NEW F, FreeList(h, F), NEW H, Watched(h, H), NEW size,
           NEW c, NEW h2, AllocDone(h, F, size, c, h2), NEW g, At(g) = c
    PROVE  Watched(h2, H \cup {g})
<1> DEFINE G == (F \ {c}) \cup (IF WorthSplitting(size_of(h, c) - size) THEN {c + size} ELSE {})
<1>1. /\ FreeList(h2, G) /\ h2 \in HeapType /\ c \in F
      /\ \A lo, hi \in Nat : (\A a \in F \cup G : Misses(a, lo, hi)) => Same(h, h2, lo, hi)
    BY DEF AllocDone
<1>2. F \cup G = G \cup {c} /\ F \subseteq Place /\ G \subseteq Place /\ h \in HeapType
    BY <1>1, FreeNodes DEF FreeList
<1> HIDE DEF G
<1> SUFFICES ASSUME NEW a \in Place, Marked(header_of(h2, a).size)
             PROVE  \/ \E k \in H \cup {g} : At(k) = a
                    \/ (\E f \in Fill : Marked(f)) /\ header_of(h2, a).next \in Fill
    BY DEF Watched
<1>3. CASE a = c
    BY <1>3
<1>4. CASE a # c
    <2>1. a \notin G
        BY <1>1, NodesUnmarked
    <2>2. \A b \in F \cup G : Misses(b, a, a + STRUCT_SIZE)
        BY <1>2, <1>4, <2>1, PlacesMiss
    <2>3. a \in Nat /\ a + STRUCT_SIZE \in Nat /\ a <= a
        BY PlaceFacts, Geometry
    <2>4. Same(h, h2, a, a + STRUCT_SIZE)
        BY <1>1, <2>2, <2>3
    <2>5. header_of(h2, a) = header_of(h, a)
        BY <1>2, <2>3, <2>4, SameHeader
    <2>6. QED
        BY <2>5 DEF Watched
<1>5. QED
    BY <1>3, <1>4

LEMMA FreeWatched ==
    ASSUME ALIGN = STRUCT_SIZE,
           NEW h, NEW F, FreeList(h, F), NEW H, Watched(h, H), NEW g \in H, At(g) \in Place,
           NEW size, NEW it, NEW f, NEW h2, FreeDone(h, F, At(g), size, it, f, h2)
    PROVE  Watched(h2, H \ {g})
<1> DEFINE b == At(g)
           m == Merge(h, it, f, b, size)
           G == (F \ m.lost) \cup {m.at}
<1>1. /\ FreeList(h2, G) /\ h2 \in HeapType
      /\ \A a \in F \ {m.at} : header_of(h2, a).size = header_of(h, a).size
      /\ header_of(h2, b).size < ALLOCATED_BIT
      /\ \A lo, hi \in Nat : (\A a \in F \cup {b} : Misses(a, lo, hi)) => Same(h, h2, lo, hi)
    BY DEF FreeDone
<1>2. F \subseteq Place /\ h \in HeapType
    BY FreeNodes DEF FreeList
<1>3. m.at \in G
    OBVIOUS
<1> HIDE DEF m, G
<1> SUFFICES ASSUME NEW a \in Place, Marked(header_of(h2, a).size)
             PROVE  \/ \E k \in H \ {g} : At(k) = a
                    \/ (\E x \in Fill : Marked(x)) /\ header_of(h2, a).next \in Fill
    BY DEF Watched
<1>4. CASE a = b
    <2>1. header_of(h2, a).size \in 0..WORD_MOD - 1
        BY <1>1, HeaderWords
    <2>2. header_of(h2, a).size \in 0..ALLOCATED_BIT - 1
        BY <1>1, <1>4, <2>1, Geometry
    <2>3. QED
        BY <2>2, Marks
<1>5. CASE a \in F
    <2>1. a # m.at
        BY <1>1, <1>3, NodesUnmarked
    <2>2. header_of(h2, a).size = header_of(h, a).size
        BY <1>1, <1>5, <2>1
    <2>3. QED
        BY <1>5, <2>2, NodesUnmarked
<1>6. CASE a # b /\ a \notin F
    <2>1. \A c \in F \cup {b} : Misses(c, a, a + STRUCT_SIZE)
        BY <1>2, <1>6, PlacesMiss
    <2>2. a \in Nat /\ a + STRUCT_SIZE \in Nat /\ a <= a
        BY PlaceFacts, Geometry
    <2>3. Same(h, h2, a, a + STRUCT_SIZE)
        BY <1>1, <2>1, <2>2
    <2>4. header_of(h2, a) = header_of(h, a)
        BY <1>2, <2>2, <2>3, SameHeader
    <2>5. QED
        BY <1>6, <2>4 DEF Watched
<1>7. QED
    BY <1>4, <1>5, <1>6

LEMMA WriteWatched ==
    ASSUME ALIGN = STRUCT_SIZE,
           NEW h \in HeapType, NEW H, Watched(h, H), NEW g \in H, Lives(h, g),
           NEW word \in Fill, NEW h2,
           h2 = [h EXCEPT !.store =
                    [w \in DOMAIN @ |-> IF w \in PayloadWords(g) THEN word ELSE @[w]]]
    PROVE  Watched(h2, (H \ {g}) \cup {[g EXCEPT !.fill = word]})
<1> DEFINE g2 == [g EXCEPT !.fill = word]
           K == (H \ {g}) \cup {g2}
<1>1. /\ h2 \in HeapType
      /\ \A w \in 0..(N \div WORD) - 1 :
            h2.store[w] = IF w \in PayloadWords(g) THEN word ELSE h.store[w]
    <2>1. word \in 0..WORD_MOD - 1
        BY CallersAssumption
    <2>2. QED
        BY <2>1 DEF HeapType
<1>2. At(g2) = At(g)
    <2>1. g2.block = g.block
        BY DEF Lives, GrantType
    <2>2. QED
        BY <2>1 DEF At
<1>3. \A k \in H : \E l \in K : At(l) = At(k)
    BY <1>2
<1> HIDE DEF g2, K
<1> SUFFICES ASSUME NEW a \in Place, Marked(header_of(h2, a).size)
             PROVE  \/ \E k \in K : At(k) = a
                    \/ (\E x \in Fill : Marked(x)) /\ header_of(h2, a).next \in Fill
    BY DEF Watched, K, g2
<1> DEFINE i == Slot(a, 0)
           j == Slot(a, 1)
<1>4. /\ i \in 0..(N \div WORD) - 1 /\ j \in 0..(N \div WORD) - 1
      /\ j = i + 1 /\ a = WORD * i /\ a \in Nat /\ i \in Nat
    <2>1. i \in 0..(N \div WORD) - 1 => i \in Nat
        OBVIOUS
    <2>2. QED
        BY <2>1, PlaceWords
<1>5. /\ header_of(h, a) = [next |-> h.store[i], size |-> h.store[j]]
      /\ header_of(h2, a) = [next |-> h2.store[i], size |-> h2.store[j]]
    BY <1>1, HeaderWords
<1>6. h2.store[i] = h.store[i] \/ h2.store[i] = word
    BY <1>1, <1>4
<1> HIDE DEF i, j
<1>7. CASE j \in PayloadWords(g)
    <2>1. WORD \in {4, 8} /\ STRUCT_SIZE = 2 * WORD
        BY Geometry
    <2>2. i * WORD = a /\ j * WORD = a + WORD
        <3>1. CASE WORD = 4
            BY <1>4, <3>1
        <3>2. CASE WORD = 8
            BY <1>4, <3>2
        <3>3. QED
            BY <2>1, <3>1, <3>2
    <2>3. g.block.offset <= a + WORD /\ a + WORD < g.block.offset + g.wanted
        BY <1>7, <2>2 DEF PayloadWords
    <2>4. g.block.offset \in Nat /\ OnGrid(g.block.offset) /\ g.wanted \in Nat
        <3>1. g.block.offset = At(g) + STRUCT_SIZE /\ At(g) \in Nat /\ At(g) \in Place
            BY GrantPlace
        <3>2. OnGrid(At(g)) /\ OnGrid(STRUCT_SIZE)
            BY <3>1, PlaceFacts, Geometry DEF OnGrid
        <3>3. STRUCT_SIZE \in Nat
            BY Geometry
        <3>4. g.wanted \in Wanted
            BY DEF Lives, GrantType
        <3>5. QED
            BY <3>1, <3>2, <3>3, <3>4, Aligned, CallersAssumption
    <2>5. g.block.offset <= a
        <3>1. OnGrid(a)
            BY PlaceFacts
        <3>2. a < g.block.offset => a + ALIGN <= g.block.offset
            BY <1>4, <2>4, <3>1, Aligned
        <3>3. QED
            BY <1>4, <2>1, <2>3, <2>4, <3>2
    <2>6. i \in PayloadWords(g)
        <3>1. a < g.block.offset + g.wanted
            BY <1>4, <2>1, <2>3, <2>4
        <3>2. QED
            BY <1>4, <2>2, <2>5, <3>1 DEF PayloadWords
    <2>7. h2.store[i] = word /\ h2.store[j] = word
        BY <1>1, <1>4, <1>7, <2>6
    <2>8. QED
        BY <1>5, <2>7
<1>8. CASE j \notin PayloadWords(g)
    <2>1. h2.store[j] = h.store[j]
        BY <1>1, <1>4, <1>8
    <2>2. \/ \E k \in H : At(k) = a
          \/ (\E x \in Fill : Marked(x)) /\ header_of(h, a).next \in Fill
        BY <1>5, <2>1 DEF Watched
    <2>3. QED
        BY <1>3, <1>5, <1>6, <2>2
<1>9. QED
    BY <1>7, <1>8


\* Where a header is wider than the alignment, other words can come to lie where
\* a stale Block points.  With 64-bit words none of them has the allocated bit:
\* not a size, a link or a generation, nor any word callers write.
UnmarkedWords == GENERATION_MOD <= ALLOCATED_BIT /\ \A f \in Fill : ~ Marked(f)

\* Where a Block that was given back points, only a held block looks like one.
StaleWatched(h, H, S) ==
    \A s \in S : Marked(header_of(h, At(s)).size) => \E g \in H : At(g) = At(s)

\* A word without the allocated bit is no header of a block in use.
LEMMA SmallIsUnmarked ==
    ASSUME NEW h \in HeapType, NEW w \in 0..(N \div WORD) - 1, h.store[w] < ALLOCATED_BIT
    PROVE  ~ Marked(h.store[w])
<1>1. h.store[w] \in 0..WORD_MOD - 1
    BY DEF HeapType
<1>2. h.store[w] \in 0..ALLOCATED_BIT - 1
    BY <1>1, Geometry
<1>3. QED
    BY <1>2, Marks

LEMMA GrantStale ==
    ASSUME UnmarkedWords,
           NEW h, NEW F, FreeList(h, F), NEW H, NEW S, StaleWatched(h, H, S),
           h.next_generation < GENERATION_MOD,
           \A s \in S : At(s) \in Place,
           NEW size, NEW c, NEW h2, AllocDone(h, F, size, c, h2), NEW g, At(g) = c
    PROVE  StaleWatched(h2, H \cup {g}, S)
<1>1. /\ h2 \in HeapType /\ c \in Place /\ h \in HeapType
      /\ Unmarks(h, h2, {Slot(c, 0), Slot(c, 1)})
      /\ header_of(h2, c).next = h.next_generation
    BY DEF AllocDone, FreeList
<1> SUFFICES ASSUME NEW s \in S, Marked(header_of(h2, At(s)).size)
             PROVE  \E k \in H \cup {g} : At(k) = At(s)
    BY DEF StaleWatched
<1> DEFINE a == At(s)
           j == Slot(a, 1)
<1>2. a \in Place
    OBVIOUS
<1> HIDE DEF a
<1>3. /\ Slot(a, 0) \in 0..(N \div WORD) - 1 /\ j \in 0..(N \div WORD) - 1
      /\ j = Slot(a, 0) + 1 /\ a = WORD * Slot(a, 0) /\ a \in Nat
    BY <1>2, PlaceWords
<1>4. /\ Slot(c, 0) \in 0..(N \div WORD) - 1 /\ Slot(c, 1) \in 0..(N \div WORD) - 1
      /\ Slot(c, 1) = Slot(c, 0) + 1 /\ c = WORD * Slot(c, 0) /\ c \in Nat
    BY <1>1, PlaceWords
<1>5. /\ header_of(h, a) = [next |-> h.store[Slot(a, 0)], size |-> h.store[j]]
      /\ header_of(h2, a) = [next |-> h2.store[Slot(a, 0)], size |-> h2.store[j]]
    BY <1>1, <1>2, HeaderWords
<1>6. Marked(h2.store[j])
    BY <1>5 DEF a
<1>7. ~ (h2.store[j] < ALLOCATED_BIT)
    BY <1>1, <1>3, <1>6, SmallIsUnmarked
<1> HIDE DEF j
<1>8. CASE j = Slot(c, 1)
    <2>1. a = c
        BY <1>3, <1>4, <1>8
    <2>2. QED
        BY <2>1 DEF a
<1>9. CASE j = Slot(c, 0)
    <2>1. header_of(h2, c) = [next |-> h2.store[Slot(c, 0)], size |-> h2.store[Slot(c, 1)]]
        BY <1>1, HeaderWords
    <2>2. h2.store[j] = h.next_generation
        BY <1>1, <1>9, <2>1
    <2>3. /\ h.next_generation \in Nat /\ GENERATION_MOD \in Nat
          /\ ALLOCATED_BIT \in Nat /\ GENERATION_MOD <= ALLOCATED_BIT
        BY <1>1, Geometry DEF UnmarkedWords, HeapType
    <2>4. h2.store[j] < ALLOCATED_BIT
        BY <2>2, <2>3
    <2>5. QED
        BY <1>7, <2>4
<1>10. CASE h2.store[j] = h.store[j]
    <2>1. Marked(header_of(h, At(s)).size)
        BY <1>5, <1>6, <1>10 DEF a
    <2>2. QED
        BY <2>1 DEF StaleWatched
<1>11. QED
    BY <1>1, <1>3, <1>7, <1>8, <1>9, <1>10 DEF Unmarks

LEMMA FreeStale ==
    ASSUME NEW h, NEW F, FreeList(h, F), NEW H, NEW S, StaleWatched(h, H, S),
           NEW g \in H, At(g) \in Place, \A s \in S : At(s) \in Place,
           NEW size, NEW it, NEW f, NEW h2, FreeDone(h, F, At(g), size, it, f, h2),
           NEW t, At(t) = At(g)
    PROVE  StaleWatched(h2, H \ {g}, S \cup {t})
<1>1. /\ h2 \in HeapType /\ h \in HeapType /\ Unmarks(h, h2, {})
      /\ header_of(h2, At(g)).size < ALLOCATED_BIT
    BY DEF FreeDone, FreeList
<1>2. ~ Marked(header_of(h2, At(g)).size)
    <2>1. /\ header_of(h2, At(g)).size = h2.store[Slot(At(g), 1)]
          /\ Slot(At(g), 1) \in 0..(N \div WORD) - 1
        BY <1>1, HeaderWords, PlaceWords
    <2>2. QED
        BY <1>1, <2>1, SmallIsUnmarked
<1> SUFFICES ASSUME NEW s \in S \cup {t}, Marked(header_of(h2, At(s)).size)
             PROVE  \E k \in H \ {g} : At(k) = At(s)
    BY DEF StaleWatched
<1>3. At(s) # At(g) /\ s \in S
    BY <1>2
<1>4. At(s) \in Place
    BY <1>3
<1> DEFINE a == At(s)
           j == Slot(a, 1)
<1>5. /\ j \in 0..(N \div WORD) - 1
      /\ header_of(h, a).size = h.store[j] /\ header_of(h2, a).size = h2.store[j]
    BY <1>1, <1>4, HeaderWords, PlaceWords
<1> HIDE DEF j
<1>6. ~ (h2.store[j] < ALLOCATED_BIT)
    BY <1>1, <1>5, SmallIsUnmarked
<1>7. h2.store[j] = h.store[j]
    BY <1>1, <1>5, <1>6 DEF Unmarks
<1>8. QED
    BY <1>3, <1>5, <1>7 DEF StaleWatched

LEMMA SizeWord ==
    ASSUME NEW h \in HeapType, NEW a \in Place
    PROVE  Slot(a, 1) \in 0..(N \div WORD) - 1 /\ header_of(h, a).size = h.store[Slot(a, 1)]
BY HeaderWords, PlaceWords

\* Words that stay or come without the allocated bit make no header.
LEMMA UnmarkedStale ==
    ASSUME NEW h \in HeapType, NEW h2 \in HeapType, NEW H, NEW K, NEW S,
           StaleWatched(h, H, S), \A s \in S : At(s) \in Place,
           \A w \in 0..(N \div WORD) - 1 :
                h2.store[w] = h.store[w] \/ ~ Marked(h2.store[w]),
           \A k \in H : \E l \in K : At(l) = At(k)
    PROVE  StaleWatched(h2, K, S)
<1> SUFFICES ASSUME NEW s \in S, Marked(header_of(h2, At(s)).size)
             PROVE  \E k \in K : At(k) = At(s)
    BY DEF StaleWatched
<1> DEFINE a == At(s)
           j == Slot(a, 1)
<1>1. /\ j \in 0..(N \div WORD) - 1
      /\ header_of(h, a).size = h.store[j] /\ header_of(h2, a).size = h2.store[j]
    BY SizeWord
<1> HIDE DEF j
<1>2. h2.store[j] = h.store[j]
    BY <1>1
<1>3. PICK k \in H : At(k) = At(s)
    BY <1>1, <1>2 DEF StaleWatched
<1>4. QED
    BY <1>3

LEMMA WriteStale ==
    ASSUME UnmarkedWords,
           NEW h \in HeapType, NEW H, NEW S, StaleWatched(h, H, S),
           \A s \in S : At(s) \in Place,
           NEW g \in H, Lives(h, g), NEW word \in Fill, NEW h2,
           h2 = [h EXCEPT !.store =
                    [w \in DOMAIN @ |-> IF w \in PayloadWords(g) THEN word ELSE @[w]]]
    PROVE  StaleWatched(h2, (H \ {g}) \cup {[g EXCEPT !.fill = word]}, S)
<1> DEFINE g2 == [g EXCEPT !.fill = word]
           K == (H \ {g}) \cup {g2}
<1>1. /\ h2 \in HeapType
      /\ \A w \in 0..(N \div WORD) - 1 : h2.store[w] = h.store[w] \/ h2.store[w] = word
    <2>1. word \in 0..WORD_MOD - 1
        BY CallersAssumption
    <2>2. QED
        BY <2>1 DEF HeapType
<1>2. At(g2) = At(g)
    <2>1. g2.block = g.block
        BY DEF Lives, GrantType
    <2>2. QED
        BY <2>1 DEF At
<1>3. \A k \in H : \E l \in K : At(l) = At(k)
    BY <1>2
<1> HIDE DEF g2, K
<1>4. \A w \in 0..(N \div WORD) - 1 :
        h2.store[w] = h.store[w] \/ ~ Marked(h2.store[w])
    <2>1. ~ Marked(word)
        BY DEF UnmarkedWords
    <2>2. QED
        BY <1>1, <2>1, Zenon
<1>5. StaleWatched(h2, K, S)
    <2>1. h2 \in HeapType
        BY <1>1
    <2>2. QED
        BY <1>3, <1>4, <2>1, UnmarkedStale, Zenon
<1>6. QED
    BY <1>5 DEF K, g2

-----------------------------------------------------------------------------
(* The calls.                                                              *)

\* Two callers never hold blocks of one place.
LEMMA OneHolderAt ==
    ASSUME NEW h, NEW F, NEW H, NEW S, Sound(h, F, H, S),
           NEW g \in H, NEW k \in H, At(g) = At(k)
    PROVE  g = k
<1>1. SUFFICES ASSUME g # k PROVE FALSE
    OBVIOUS
<1>2. Lives(h, g) /\ Lives(h, k) /\ Disjoint(h, g, k)
    BY <1>1 DEF Sound
<1>3. /\ At(g) + STRUCT_SIZE <= Top(h, g) /\ At(k) + STRUCT_SIZE <= Top(h, k)
      /\ At(g) \in Nat /\ Top(h, g) \in Nat /\ Top(h, k) \in Nat
    BY <1>2, GrantPlace
<1>4. STRUCT_SIZE \in Nat /\ STRUCT_SIZE > 0
    BY Geometry
<1>5. QED
    BY <1>2, <1>3, <1>4 DEF Disjoint

\* The header of a held block is accepted.
LEMMA HeldAccepted ==
    ASSUME NEW h, NEW F, NEW H, NEW S, Sound(h, F, H, S), NEW g \in H
    PROVE  /\ FreeRawAnswer(h, g.block.offset) = "Ok"
           /\ FreeAnswer(h, g.block) = "Ok"
           /\ g.block.offset \in Nat /\ g.block.offset < N
<1>0. FreeList(h, F) /\ Lives(h, g)
    BY DEF Sound
<1>1. /\ At(g) \in Nat /\ g.block.offset = At(g) + STRUCT_SIZE /\ At(g) \in Place
      /\ At(g) + STRUCT_SIZE <= Top(h, g) /\ Top(h, g) \in Nat
    BY <1>0, GrantPlace
<1>2. STRUCT_SIZE \in Nat /\ STRUCT_SIZE > 0 /\ N \in Nat /\ ALLOCATED_BIT \in Nat \ {0}
      /\ WORD_MOD = 2 * ALLOCATED_BIT
    BY Geometry
<1>3. At(g) % ALIGN = 0 /\ At(g) + STRUCT_SIZE <= N
    BY <1>1 DEF Place, InArena
<1>4. ValidOffset(g.block.offset)
    BY <1>1, <1>2, <1>3 DEF ValidOffset, At
<1>5. Marked(header_of(h, At(g)).size)
    <2>1. size_of(h, At(g)) \in 0..ALLOCATED_BIT - 1
        BY <1>0, <1>2 DEF Lives
    <2>2. header_of(h, At(g)).size = size_of(h, At(g)) + ALLOCATED_BIT
        BY <1>0 DEF Lives
    <2>3. QED
        BY <2>1, <2>2, Marks
<1>6. FreeRawAnswer(h, g.block.offset) = "Ok"
    BY <1>4, <1>5 DEF FreeRawAnswer, is_allocated, At
<1>7. header_of(h, LinkOf(g.block.offset)).next = g.block.generation
    BY <1>0 DEF Lives, At
<1>8. FreeAnswer(h, g.block) = "Ok"
    BY <1>6, <1>7 DEF FreeAnswer
<1>9. g.block.offset < N
    <2>1. Top(h, g) <= h.end
        BY <1>0 DEF Lives
    <2>2. h.end \in Place
        BY <1>0 DEF FreeList, Linked
    <2>3. h.end \in Nat /\ h.end + STRUCT_SIZE <= N
        BY <2>2, PlaceFacts DEF Place, InArena
    <2>4. QED
        BY <1>1, <1>2, <2>1, <2>3
<1>10. QED
    BY <1>1, <1>2, <1>6, <1>8, <1>9

\* A request that is granted: whoever gets the block, it is theirs alone.
LEMMA AllocSound ==
    ASSUME N >= 2 * STRUCT_SIZE, N <= U32_MAX,
           NEW h, NEW F, NEW H, NEW S, Sound(h, F, H, S), h.allocations < MaxAllocs,
           NEW wanted \in Wanted, Servable(wanted),
           NEW size, size = BlockSize(wanted), Grants(h, size),
           NEW c, c = Search(h, size).chosen,
           NEW h2, h2 = Hand(Carve(h, Search(h, size), size), c),
           NEW g, g = [block |-> BlockAt(h, c), issued |-> h.allocations + 1,
                       wanted |-> wanted, fill |-> NotFilled]
    PROVE  AllocDone(h, F, size, c, h2) /\ GrantKept(h, F, H, S, size, c, h2, g)
<1>1. FreeList(h, F) /\ h \in HeapType
    BY DEF Sound, FreeList
<1>2. h.allocations < USIZE_MAX
    BY <1>1, Geometry, CallersAssumption DEF HeapType
<1>3. wanted \in Nat /\ wanted + STRUCT_SIZE <= USIZE_MAX
    BY CallersAssumption DEF Servable
<1>4. size \in Nat /\ OnGrid(size) /\ STRUCT_SIZE <= size
    BY <1>3, BlockSizes
<1>5. AllocDone(h, F, size, c, h2)
    BY <1>1, <1>2, <1>4, AllocOutcome
<1>6. QED
    BY <1>3, <1>4, <1>5, GrantKeeps

\* A held block that is given back: the others stay their callers'.
LEMMA FreeSound ==
    ASSUME NEW h, NEW F, NEW H, NEW S, Sound(h, F, H, S), NEW g \in H
    PROVE  \E it, f : /\ FreeDone(h, F, At(g), size_of(h, At(g)), it, f, free_at(h, At(g)))
                      /\ FreeKept(h, F, H, S, g, it, f, free_at(h, At(g)))
<1> DEFINE b == At(g)
           size == size_of(h, b)
           h2 == free_at(h, b)
<1>1. FreeList(h, F) /\ Lives(h, g)
    BY DEF Sound
<1>2. /\ b \in Place /\ b \in Nat /\ size \in STRUCT_SIZE..ALLOCATED_BIT - 1 /\ OnGrid(size)
      /\ b + size <= h.end
    BY <1>1, GrantPlace DEF Lives, Top
<1>3. \A a \in F : b + size <= a \/ Reach(h, a) <= b
    BY DEF Sound, Beside, Top
<1>4. PICK it, f : FreeDone(h, F, b, size, it, f, h2)
    <2> HIDE DEF b, size
    <2>1. size = size_of(h, b)
        BY DEF size
    <2>2. QED
        BY <1>1, <1>2, <1>3, <2>1, FreeOutcome
<1> HIDE DEF h2
<1>5. FreeKept(h, F, H, S, g, it, f, h2)
    BY <1>4, FreeKeeps
<1>6. QED
    BY <1>4, <1>5 DEF h2

-----------------------------------------------------------------------------
(* The inductive invariant.                                                *)

\* A heap is laid out and its words are those of some free list F and of the
\* blocks held, or nobody has touched it.
HeapInv ==
    /\ ~ heap.initialised => Fresh(heap) /\ held = {} /\ stale = {}
    /\ heap.initialised => \E F : Sound(heap, F, held, stale)

\* Where no caller's word can pass for a header, all places with the allocated
\* bit are held blocks: what the headers alone cannot say.
WatchInv == heap.initialised => Watched(heap, held)

\* Under any geometry, those to which a Block that was given back points are.
StaleInv == StaleWatched(heap, held, stale)

LEMMA StartsSound == Init => HeapInv /\ WatchInv /\ StaleInv
<1> SUFFICES ASSUME Init PROVE HeapInv /\ WatchInv /\ StaleInv
    OBVIOUS
<1>1. Fresh(heap) /\ ~ heap.initialised /\ held = {} /\ stale = {}
    BY NewIsFresh DEF Init, Fresh
<1>2. QED
    BY <1>1 DEF HeapInv, WatchInv, StaleInv, StaleWatched

LEMMA HeapTyped ==
    ASSUME HeapInv
    PROVE  heap \in HeapType
<1>1. CASE heap.initialised
    BY <1>1 DEF HeapInv, Sound, FreeList
<1>2. CASE ~ heap.initialised
    BY <1>2 DEF HeapInv, Fresh
<1>3. QED
    BY <1>1, <1>2

\* Every alloc runs init first: what it works on is laid out.
LEMMA Ready ==
    ASSUME N >= 2 * STRUCT_SIZE, HeapInv
    PROVE  /\ \E F : Sound(init(heap), F, held, stale)
           /\ init(heap).allocations = heap.allocations
           /\ init(heap).initialised
           /\ ALIGN = STRUCT_SIZE /\ WatchInv => Watched(init(heap), held)
<1>1. CASE heap.initialised
    <2>1. init(heap) = heap
        BY <1>1 DEF init
    <2>2. QED
        BY <1>1, <2>1 DEF HeapInv, WatchInv
<1>2. CASE ~ heap.initialised
    <2>1. Fresh(heap) /\ held = {} /\ stale = {}
        BY <1>2 DEF HeapInv
    <2>2. Sound(init(heap), {0, init(New).end}, {}, {}) /\ Tidy(init(heap))
        BY <2>1, InitSound
    <2>3. init(heap).allocations = heap.allocations
        BY <2>1, InitOutcome DEF Fresh, HeapType
    <2>4. init(heap).initialised /\ init(heap) \in HeapType
        BY <2>2 DEF Sound, FreeList
    <2>5. ALIGN = STRUCT_SIZE => Watched(init(heap), held)
        BY <2>2, <2>4, TidyWatched
    <2>6. QED
        BY <2>1, <2>2, <2>3, <2>4, <2>5
<1>3. QED
    BY <1>1, <1>2

\* Laying regions out, or failing to.
LEMMA DefineHolds ==
    ASSUME ArenaSuits, HeapInv, NEW table \in Tables, DefineRegions(table)
    PROVE  HeapInv' /\ (ALIGN = STRUCT_SIZE => WatchInv')
<1> DEFINE lay == LayTable(heap, table)
           n == Len(table)
<1>1. Fresh(heap) /\ held = {} /\ stale = {} /\ table # <<>>
    BY DEF HeapInv, DefineRegions
<1>2. held' = {} /\ stale' = {}
    BY <1>1 DEF DefineRegions
<1>3. /\ lay.refused => heap' = lay.heap
      /\ ~ lay.refused => heap' = JustLaid(lay)
    BY DEF DefineRegions, JustLaid
<1>4. /\ lay.refused => Fresh(lay.heap)
      /\ ~ lay.refused => Sound(JustLaid(lay), Nodes(table, n), {}, {}) /\ Tidy(JustLaid(lay))
    BY <1>1, TableSound
<1> HIDE DEF lay, n
<1>5. CASE lay.refused
    <2>1. Fresh(heap') /\ ~ heap'.initialised
        BY <1>3, <1>4, <1>5 DEF Fresh
    <2>2. QED
        BY <1>2, <2>1 DEF HeapInv, WatchInv
<1>6. CASE ~ lay.refused
    <2>1. Sound(heap', Nodes(table, n), held', stale') /\ Tidy(heap')
        BY <1>2, <1>3, <1>4, <1>6
    <2>2. heap'.initialised /\ heap' \in HeapType
        BY <2>1 DEF Sound, FreeList
    <2>3. HeapInv'
        BY <2>1, <2>2 DEF HeapInv
    <2>4. ALIGN = STRUCT_SIZE => Watched(heap', held')
        BY <2>1, <2>2, TidyWatched
    <2>5. QED
        BY <2>3, <2>4 DEF WatchInv
<1>7. QED
    BY <1>5, <1>6

\* A request that is served.
LEMMA AllocHolds ==
    ASSUME ArenaSuits, HeapInv, NEW wanted \in Wanted, Alloc(wanted)
    PROVE  HeapInv' /\ (ALIGN = STRUCT_SIZE /\ WatchInv => WatchInv')
<1> DEFINE h == init(heap)
           size == BlockSize(wanted)
           c == Search(h, size).chosen
           h2 == Hand(Carve(h, Search(h, size), size), c)
           g == [block |-> BlockAt(h, c), issued |-> h.allocations + 1,
                 wanted |-> wanted, fill |-> NotFilled]
<1>1. N >= 2 * STRUCT_SIZE /\ N <= U32_MAX
    BY DEF ArenaSuits
<1>2. PICK F : Sound(h, F, held, stale)
    BY <1>1, Ready
<1>3. /\ h.allocations = heap.allocations /\ h.initialised
      /\ ALIGN = STRUCT_SIZE /\ WatchInv => Watched(h, held)
    BY <1>1, Ready
<1> HIDE DEF h
<1>4. /\ h.allocations < MaxAllocs /\ Servable(wanted) /\ Grants(h, size)
      /\ heap' = h2 /\ held' = held \cup {g} /\ stale' = stale
    BY <1>3 DEF Alloc, h
<1> HIDE DEF size, c, h2, g
<1>5. AllocDone(h, F, size, c, h2) /\ GrantKept(h, F, held, stale, size, c, h2, g)
    <2>1. /\ size = BlockSize(wanted) /\ c = Search(h, size).chosen
          /\ h2 = Hand(Carve(h, Search(h, size), size), c)
          /\ g = [block |-> BlockAt(h, c), issued |-> h.allocations + 1,
                  wanted |-> wanted, fill |-> NotFilled]
        BY DEF size, c, h2, g
    <2>2. QED
        BY <1>1, <1>2, <1>4, <2>1, AllocSound
<1>6. PICK G : Sound(heap', G, held', stale')
    BY <1>4, <1>5 DEF GrantKept
<1>7. heap'.initialised
    BY <1>6 DEF Sound
<1>8. HeapInv'
    BY <1>6, <1>7 DEF HeapInv
<1>9. ASSUME ALIGN = STRUCT_SIZE, WatchInv
      PROVE  WatchInv'
    <2>1. Watched(h, held) /\ FreeList(h, F) /\ At(g) = c
        BY <1>2, <1>3, <1>5, <1>9 DEF Sound, GrantKept
    <2>2. Watched(h2, held \cup {g})
        BY <1>5, <1>9, <2>1, GrantWatched
    <2>3. QED
        BY <1>4, <2>2 DEF WatchInv
<1>10. QED
    BY <1>8, <1>9

\* A request that is not: the heap may have been laid out by it.
LEMMA NoRoomHolds ==
    ASSUME ArenaSuits, HeapInv, NEW wanted, AllocNoRoom(wanted)
    PROVE  HeapInv' /\ (ALIGN = STRUCT_SIZE /\ WatchInv => WatchInv')
<1>1. N >= 2 * STRUCT_SIZE
    BY DEF ArenaSuits
<1>2. PICK F : Sound(init(heap), F, held, stale)
    BY <1>1, Ready
<1>3. /\ init(heap).initialised
      /\ ALIGN = STRUCT_SIZE /\ WatchInv => Watched(init(heap), held)
    BY <1>1, Ready
<1>4. heap' = init(heap) /\ held' = held /\ stale' = stale
    BY DEF AllocNoRoom
<1>5. QED
    BY <1>2, <1>3, <1>4 DEF HeapInv, WatchInv

\* A held block is given back.
LEMMA ReturnHolds ==
    ASSUME HeapInv, NEW g \in held, heap' = free_at(heap, At(g)),
           held' = held \ {g},
           stale' = stale \cup {[block |-> g.block, issued |-> g.issued]}
    PROVE  HeapInv' /\ (ALIGN = STRUCT_SIZE /\ WatchInv => WatchInv')
<1>1. heap.initialised
    BY DEF HeapInv
<1>2. PICK F : Sound(heap, F, held, stale)
    BY <1>1 DEF HeapInv
<1>3. PICK it, f : /\ FreeDone(heap, F, At(g), size_of(heap, At(g)), it, f, heap')
                   /\ FreeKept(heap, F, held, stale, g, it, f, heap')
    BY <1>2, FreeSound
<1>4. PICK G : Sound(heap', G, held', stale')
    BY <1>3 DEF FreeKept
<1>5. heap'.initialised
    BY <1>4 DEF Sound
<1>6. HeapInv'
    BY <1>4, <1>5 DEF HeapInv
<1>7. ASSUME ALIGN = STRUCT_SIZE, WatchInv
      PROVE  WatchInv'
    <2>1. Watched(heap, held) /\ FreeList(heap, F) /\ At(g) \in Place
        BY <1>1, <1>2, <1>7 DEF Sound, WatchInv, Lives
    <2>2. Watched(heap', held \ {g})
        BY <1>3, <1>7, <2>1, FreeWatched
    <2>3. QED
        BY <2>2 DEF WatchInv
<1>8. QED
    BY <1>6, <1>7

\* The grants of one offset, and of one Block, are one grant.
LEMMA OneGrant ==
    ASSUME HeapInv, NEW g \in held
    PROVE  /\ {k \in held : k.block.offset = g.block.offset} = {g}
           /\ {k \in held : k.block = g.block} = {g}
           /\ GivenBack({g}) = {[block |-> g.block, issued |-> g.issued]}
<1>1. PICK F : Sound(heap, F, held, stale)
    BY DEF HeapInv
<1>2. ASSUME NEW k \in held, k.block.offset = g.block.offset
      PROVE  k = g
    <2>1. At(k) = At(g)
        BY <1>2 DEF At
    <2>2. QED
        BY <1>1, <2>1, OneHolderAt
<1>3. QED
    BY <1>2 DEF GivenBack

LEMMA FreeHolds ==
    ASSUME HeapInv, NEW block \in HeldBlocks, Free(block)
    PROVE  HeapInv' /\ (ALIGN = STRUCT_SIZE /\ WatchInv => WatchInv')
<1>1. PICK g \in held : g.block = block
    BY DEF HeldBlocks
<1>2. heap' = free_at(heap, At(g))
    BY <1>1 DEF Free, At
<1>3. /\ held' = held \ {g}
      /\ stale' = stale \cup {[block |-> g.block, issued |-> g.issued]}
    BY <1>1, OneGrant DEF Free
<1>4. QED
    BY <1>2, <1>3, ReturnHolds

LEMMA FreeRawHolds ==
    ASSUME HeapInv, NEW offset \in HeldOffsets, FreeRaw(offset)
    PROVE  HeapInv' /\ (ALIGN = STRUCT_SIZE /\ WatchInv => WatchInv')
<1>1. PICK g \in held : g.block.offset = offset
    BY DEF HeldBlocks, HeldOffsets
<1>2. heap' = free_at(heap, At(g))
    BY <1>1 DEF FreeRaw, At
<1>3. /\ held' = held \ {g}
      /\ stale' = stale \cup {[block |-> g.block, issued |-> g.issued]}
    BY <1>1, OneGrant DEF FreeRaw
<1>4. QED
    BY <1>2, <1>3, ReturnHolds

LEMMA PayloadIs ==
    ASSUME HeapInv, NEW g
    PROVE  Payload(g) = PayloadWords(g)
<1>1. DOMAIN heap.store = 0..(N \div WORD) - 1
    BY HeapTyped DEF HeapType
<1>2. QED
    BY <1>1 DEF Payload, PayloadWords

LEMMA WriteHolds ==
    ASSUME HeapInv, NEW g \in held, NEW word \in Fill, Write(g, word)
    PROVE  HeapInv' /\ (ALIGN = STRUCT_SIZE /\ WatchInv => WatchInv')
<1>1. heap.initialised
    BY DEF HeapInv
<1>2. PICK F : Sound(heap, F, held, stale)
    BY <1>1 DEF HeapInv
<1>3. /\ heap' = [heap EXCEPT !.store =
                    [w \in DOMAIN @ |-> IF w \in PayloadWords(g) THEN word ELSE @[w]]]
      /\ g.fill = NotFilled
      /\ held' = (held \ {g}) \cup {[g EXCEPT !.fill = word]} /\ stale' = stale
    BY PayloadIs DEF Write
<1>4. Sound(heap', F, held', stale')
    BY <1>2, <1>3, WriteKeeps DEF WriteKept
<1>5. heap'.initialised
    BY <1>4 DEF Sound
<1>6. HeapInv'
    BY <1>4, <1>5 DEF HeapInv
<1>7. ASSUME ALIGN = STRUCT_SIZE, WatchInv
      PROVE  WatchInv'
    <2>1. Watched(heap, held) /\ heap \in HeapType /\ Lives(heap, g)
        BY <1>1, <1>2, <1>7, HeapTyped DEF Sound, WatchInv
    <2>2. Watched(heap', (held \ {g}) \cup {[g EXCEPT !.fill = word]})
        BY <1>3, <1>7, <2>1, WriteWatched
    <2>3. QED
        BY <1>3, <2>2 DEF WatchInv
<1>8. QED
    BY <1>6, <1>7

\* Every step keeps the invariant.
LEMMA StepHolds ==
    ASSUME ArenaSuits, HeapInv, OnlyHeldAreTaken, [Next]_vars
    PROVE  HeapInv' /\ (ALIGN = STRUCT_SIZE /\ WatchInv => WatchInv')
<1>1. ASSUME UNCHANGED vars
      PROVE  HeapInv' /\ (ALIGN = STRUCT_SIZE /\ WatchInv => WatchInv')
    BY <1>1 DEF vars, HeapInv, WatchInv
<1>2. ASSUME NEW table \in Tables, DefineRegions(table) \/ DefineRegionsRefused(table)
      PROVE  HeapInv' /\ (ALIGN = STRUCT_SIZE /\ WatchInv => WatchInv')
    BY <1>1, <1>2, DefineHolds DEF DefineRegionsRefused
<1>3. ASSUME NEW wanted \in Wanted,
             Alloc(wanted) \/ AllocUnservable(wanted) \/ AllocNoRoom(wanted)
      PROVE  HeapInv' /\ (ALIGN = STRUCT_SIZE /\ WatchInv => WatchInv')
    BY <1>1, <1>3, AllocHolds, NoRoomHolds DEF AllocUnservable
<1>4. ASSUME NEW block \in HeldBlocks \cup StaleBlocks, Free(block) \/ FreeRefused(block)
      PROVE  HeapInv' /\ (ALIGN = STRUCT_SIZE /\ WatchInv => WatchInv')
    <2>1. CASE Free(block)
        <3>1. block \in HeldBlocks
            BY <2>1 DEF OnlyHeldAreTaken, Free
        <3>2. QED
            BY <2>1, <3>1, FreeHolds
    <2>2. CASE FreeRefused(block)
        BY <1>1, <2>2 DEF FreeRefused
    <2>3. QED
        BY <1>4, <2>1, <2>2
<1>5. ASSUME NEW offset \in RawOffsets, FreeRaw(offset) \/ FreeRawRefused(offset)
      PROVE  HeapInv' /\ (ALIGN = STRUCT_SIZE /\ WatchInv => WatchInv')
    <2>1. CASE FreeRaw(offset)
        <3>1. offset \in HeldOffsets
            BY <2>1 DEF OnlyHeldAreTaken, FreeRaw
        <3>2. QED
            BY <2>1, <3>1, FreeRawHolds
    <2>2. CASE FreeRawRefused(offset)
        BY <1>1, <2>2 DEF FreeRawRefused
    <2>3. QED
        BY <1>5, <2>1, <2>2
<1>6. ASSUME NEW pointer \in RawPointers, FreePointer(pointer) \/ FreePointerRefused(pointer)
      PROVE  HeapInv' /\ (ALIGN = STRUCT_SIZE /\ WatchInv => WatchInv')
    <2>1. CASE InThisArena(pointer) /\ FreeRaw(offset_of(pointer))
        <3>1. offset_of(pointer) \in HeldOffsets
            BY <2>1 DEF OnlyHeldAreTaken, FreeRaw
        <3>2. QED
            BY <2>1, <3>1, FreeRawHolds
    <2>2. CASE UNCHANGED vars
        BY <1>1, <2>2
    <2>3. QED
        BY <1>6, <2>1, <2>2 DEF FreePointer, FreePointerRefused, FreeRawRefused
<1>7. ASSUME NEW g \in held, NEW word \in Fill, Write(g, word)
      PROVE  HeapInv' /\ (ALIGN = STRUCT_SIZE /\ WatchInv => WatchInv')
    BY <1>7, WriteHolds
<1>8. CASE Next
    BY <1>2, <1>3, <1>4, <1>5, <1>6, <1>7, <1>8 DEF Next
<1>9. QED
    BY <1>1, <1>8

-----------------------------------------------------------------------------
(* What the words of stale Blocks' places keep, step by step.              *)

\* The Blocks that were given back point to places.
LEMMA StalePlaces ==
    ASSUME NEW h, NEW F, NEW H, NEW S, Sound(h, F, H, S)
    PROVE  \A s \in S : At(s) \in Place
BY DEF Sound, Gone, At

LEMMA AllocStale ==
    ASSUME ArenaSuits, UnmarkedWords, HeapInv, StaleInv, NEW wanted \in Wanted, Alloc(wanted)
    PROVE  StaleInv'
<1> DEFINE h == init(heap)
           size == BlockSize(wanted)
           c == Search(h, size).chosen
           h2 == Hand(Carve(h, Search(h, size), size), c)
           g == [block |-> BlockAt(h, c), issued |-> h.allocations + 1,
                 wanted |-> wanted, fill |-> NotFilled]
<1>1. N >= 2 * STRUCT_SIZE /\ N <= U32_MAX
    BY DEF ArenaSuits
<1>2. PICK F : Sound(h, F, held, stale)
    BY <1>1, Ready
<1>3. h.allocations = heap.allocations
    BY <1>1, Ready
<1>4. stale = {} \/ h = heap
    BY DEF HeapInv, init
<1> HIDE DEF h
<1>5. /\ h.allocations < MaxAllocs /\ Servable(wanted) /\ Grants(h, size)
      /\ heap' = h2 /\ held' = held \cup {g} /\ stale' = stale
    BY <1>3 DEF Alloc, h
<1>6. StaleWatched(h, held, stale)
    BY <1>4 DEF StaleInv, StaleWatched
<1> HIDE DEF size, c, h2, g
<1>7. AllocDone(h, F, size, c, h2) /\ GrantKept(h, F, held, stale, size, c, h2, g)
    <2>1. /\ size = BlockSize(wanted) /\ c = Search(h, size).chosen
          /\ h2 = Hand(Carve(h, Search(h, size), size), c)
          /\ g = [block |-> BlockAt(h, c), issued |-> h.allocations + 1,
                  wanted |-> wanted, fill |-> NotFilled]
        BY DEF size, c, h2, g
    <2>2. QED
        BY <1>1, <1>2, <1>5, <2>1, AllocSound
<1>8. h.next_generation < GENERATION_MOD
    <2>1. FreeList(h, F)
        BY <1>2 DEF Sound
    <2>2. h \in HeapType
        BY <2>1 DEF FreeList
    <2>3. h.next_generation \in 0..GENERATION_MOD - 1 /\ GENERATION_MOD \in Nat
        BY <2>2, Geometry DEF HeapType
    <2>4. QED
        BY <2>3
<1>9. FreeList(h, F) /\ At(g) = c /\ \A s \in stale : At(s) \in Place
    BY <1>2, <1>7, StalePlaces DEF Sound, GrantKept
<1>10. StaleWatched(h2, held \cup {g}, stale)
    BY <1>6, <1>7, <1>8, <1>9, GrantStale
<1>11. QED
    BY <1>5, <1>10 DEF StaleInv

LEMMA ReturnStale ==
    ASSUME HeapInv, StaleInv, NEW g \in held, heap' = free_at(heap, At(g)),
           held' = held \ {g},
           stale' = stale \cup {[block |-> g.block, issued |-> g.issued]}
    PROVE  StaleInv'
<1>1. PICK F : Sound(heap, F, held, stale)
    BY DEF HeapInv
<1>2. PICK it, f : FreeDone(heap, F, At(g), size_of(heap, At(g)), it, f, heap')
    BY <1>1, FreeSound
<1>3. FreeList(heap, F) /\ At(g) \in Place /\ \A s \in stale : At(s) \in Place
    BY <1>1, StalePlaces DEF Sound, Lives
<1>4. At([block |-> g.block, issued |-> g.issued]) = At(g)
    BY DEF At
<1>5. StaleWatched(heap, held, stale)
    BY DEF StaleInv
<1>6. StaleWatched(heap', held \ {g}, stale \cup {[block |-> g.block, issued |-> g.issued]})
    BY <1>2, <1>3, <1>4, <1>5, FreeStale
<1>7. QED
    BY <1>6 DEF StaleInv

LEMMA FreesStale ==
    ASSUME HeapInv, StaleInv, OnlyHeldAreTaken,
           \/ \E block \in HeldBlocks \cup StaleBlocks : Free(block)
           \/ \E offset \in HeldOffsets : FreeRaw(offset)
    PROVE  StaleInv'
<1>1. ASSUME NEW block \in HeldBlocks \cup StaleBlocks, Free(block)
      PROVE  StaleInv'
    <2>1. block \in HeldBlocks
        BY <1>1 DEF OnlyHeldAreTaken, Free
    <2>2. PICK g \in held : g.block = block
        BY <2>1 DEF HeldBlocks
    <2>3. heap' = free_at(heap, At(g))
        BY <1>1, <2>2 DEF Free, At
    <2>4. /\ held' = held \ {g}
          /\ stale' = stale \cup {[block |-> g.block, issued |-> g.issued]}
        BY <1>1, <2>2, OneGrant DEF Free
    <2>5. QED
        BY <2>3, <2>4, ReturnStale
<1>2. ASSUME NEW offset \in HeldOffsets, FreeRaw(offset)
      PROVE  StaleInv'
    <2>1. PICK g \in held : g.block.offset = offset
        BY DEF HeldBlocks, HeldOffsets
    <2>2. heap' = free_at(heap, At(g))
        BY <1>2, <2>1 DEF FreeRaw, At
    <2>3. /\ held' = held \ {g}
          /\ stale' = stale \cup {[block |-> g.block, issued |-> g.issued]}
        BY <1>2, <2>1, OneGrant DEF FreeRaw
    <2>4. QED
        BY <2>2, <2>3, ReturnStale
<1>3. QED
    BY <1>1, <1>2

LEMMA FillStale ==
    ASSUME UnmarkedWords, HeapInv, StaleInv, NEW g \in held, NEW word \in Fill, Write(g, word)
    PROVE  StaleInv'
<1>1. PICK F : Sound(heap, F, held, stale)
    BY DEF HeapInv
<1>2. /\ heap' = [heap EXCEPT !.store =
                    [w \in DOMAIN @ |-> IF w \in PayloadWords(g) THEN word ELSE @[w]]]
      /\ held' = (held \ {g}) \cup {[g EXCEPT !.fill = word]} /\ stale' = stale
    BY PayloadIs DEF Write
<1>3. /\ heap \in HeapType /\ Lives(heap, g) /\ StaleWatched(heap, held, stale)
      /\ \A s \in stale : At(s) \in Place
    BY <1>1, HeapTyped, StalePlaces DEF Sound, StaleInv
<1>4. StaleWatched(heap', (held \ {g}) \cup {[g EXCEPT !.fill = word]}, stale)
    BY <1>2, <1>3, WriteStale
<1>5. QED
    BY <1>2, <1>4 DEF StaleInv

\* Every step keeps it.
LEMMA StepStale ==
    ASSUME ArenaSuits, UnmarkedWords, HeapInv, OnlyHeldAreTaken, StaleInv, [Next]_vars
    PROVE  StaleInv'
<1>1. ASSUME UNCHANGED vars
      PROVE  StaleInv'
    BY <1>1 DEF vars, StaleInv
<1>2. ASSUME NEW table \in Tables, DefineRegions(table) \/ DefineRegionsRefused(table)
      PROVE  StaleInv'
    <2>1. CASE DefineRegions(table)
        <3>1. stale' = {}
            BY <2>1 DEF HeapInv, DefineRegions
        <3>2. QED
            BY <3>1 DEF StaleInv, StaleWatched
    <2>2. QED
        BY <1>1, <1>2, <2>1 DEF DefineRegionsRefused
<1>3. ASSUME NEW wanted \in Wanted,
             Alloc(wanted) \/ AllocUnservable(wanted) \/ AllocNoRoom(wanted)
      PROVE  StaleInv'
    <2>1. CASE AllocNoRoom(wanted)
        <3>1. (stale' = {} \/ heap' = heap) /\ held' = held /\ stale' = stale
            BY <2>1 DEF HeapInv, AllocNoRoom, init
        <3>2. QED
            BY <3>1 DEF StaleInv, StaleWatched
    <2>2. QED
        BY <1>1, <1>3, <2>1, AllocStale DEF AllocUnservable
<1>4. ASSUME NEW block \in HeldBlocks \cup StaleBlocks, Free(block) \/ FreeRefused(block)
      PROVE  StaleInv'
    BY <1>1, <1>4, FreesStale DEF FreeRefused
<1>5. ASSUME NEW offset \in RawOffsets, FreeRaw(offset) \/ FreeRawRefused(offset)
      PROVE  StaleInv'
    <2>1. CASE FreeRaw(offset)
        <3>1. offset \in HeldOffsets
            BY <2>1 DEF OnlyHeldAreTaken, FreeRaw
        <3>2. QED
            BY <2>1, <3>1, FreesStale
    <2>2. QED
        BY <1>1, <1>5, <2>1 DEF FreeRawRefused
<1>6. ASSUME NEW pointer \in RawPointers, FreePointer(pointer) \/ FreePointerRefused(pointer)
      PROVE  StaleInv'
    <2>1. CASE InThisArena(pointer) /\ FreeRaw(offset_of(pointer))
        <3>1. offset_of(pointer) \in HeldOffsets
            BY <2>1 DEF OnlyHeldAreTaken, FreeRaw
        <3>2. QED
            BY <2>1, <3>1, FreesStale
    <2>2. CASE UNCHANGED vars
        BY <1>1, <2>2
    <2>3. QED
        BY <1>6, <2>1, <2>2 DEF FreePointer, FreePointerRefused, FreeRawRefused
<1>7. ASSUME NEW g \in held, NEW word \in Fill, Write(g, word)
      PROVE  StaleInv'
    BY <1>7, FillStale
<1>8. CASE Next
    BY <1>2, <1>3, <1>4, <1>5, <1>6, <1>7, <1>8 DEF Next
<1>9. QED
    BY <1>1, <1>8

-----------------------------------------------------------------------------
(* Where callers cannot make a header of their own.                        *)

\* Where a header is as large as the alignment, all that can look like one are
\* the words a caller writes: either none of them has the allocated bit, or
\* callers free only Blocks and none of them is a generation.  Where a header is
\* wider, callers free only Blocks and no word but a size has the bit.
NoForgedHeaders ==
    \/ /\ ALIGN = STRUCT_SIZE
       /\ \/ \A f \in Fill : ~ Marked(f)
          \/ Fill \cap (0..GENERATION_MOD - 1) = {} /\ RawOffsets = {} /\ RawPointers = {}
    \/ UnmarkedWords /\ RawOffsets = {} /\ RawPointers = {}

\* What free and free_raw take is a place with the allocated bit.
LEMMA TakenIsMarked ==
    ASSUME NEW h, NEW offset \in Nat, FreeRawAnswer(h, offset) = "Ok"
    PROVE  LinkOf(offset) \in Place /\ Marked(header_of(h, LinkOf(offset)).size)
<1>1. ValidOffset(offset) /\ is_allocated(h, LinkOf(offset))
    BY DEF FreeRawAnswer
<1>2. STRUCT_SIZE \in Nat /\ N \in Nat
    BY Geometry
<1>3. offset >= STRUCT_SIZE /\ offset <= N /\ LinkOf(offset) % ALIGN = 0
    BY <1>1 DEF ValidOffset
<1>4. LinkOf(offset) \in 0..N /\ LinkOf(offset) + STRUCT_SIZE <= N
    BY <1>2, <1>3 DEF LinkOf
<1>5. LinkOf(offset) \in Place
    BY <1>3, <1>4 DEF Place, InArena
<1>6. QED
    BY <1>1, <1>5 DEF is_allocated

\* A free that is taken: somebody holds a block there, or a caller wrote a word
\* with the allocated bit.
LEMMA TakenIsWatched ==
    ASSUME ALIGN = STRUCT_SIZE, HeapInv, WatchInv,
           NEW offset \in Nat, FreeRawAnswer(heap, offset) = "Ok"
    PROVE  \/ \E g \in held : g.block.offset = offset
           \/ (\E f \in Fill : Marked(f)) /\ header_of(heap, LinkOf(offset)).next \in Fill
<1>1. LinkOf(offset) \in Place /\ Marked(header_of(heap, LinkOf(offset)).size)
    BY TakenIsMarked
<1>2. CASE ~ heap.initialised
    <2>1. Tidy(heap) /\ heap \in HeapType
        BY <1>2 DEF HeapInv, Fresh
    <2>2. /\ header_of(heap, LinkOf(offset)).size \in 0..WORD_MOD - 1
          /\ header_of(heap, LinkOf(offset)).size < ALLOCATED_BIT
        BY <1>1, <2>1, HeaderWords DEF Tidy
    <2>3. header_of(heap, LinkOf(offset)).size \in 0..ALLOCATED_BIT - 1
        BY <2>2, Geometry
    <2>4. QED
        BY <1>1, <2>3, Marks
<1>3. CASE heap.initialised
    <2>1. Watched(heap, held)
        BY <1>3 DEF WatchInv
    <2>2. CASE \E g \in held : At(g) = LinkOf(offset)
        <3>1. PICK g \in held : At(g) = LinkOf(offset)
            BY <2>2
        <3>2. PICK F : Sound(heap, F, held, stale)
            BY <1>3 DEF HeapInv
        <3>3. Lives(heap, g)
            BY <3>2 DEF Sound
        <3>4. g.block.offset = At(g) + STRUCT_SIZE /\ At(g) \in Nat
            BY <3>3, GrantPlace
        <3>5. STRUCT_SIZE \in Nat
            BY Geometry
        <3>6. g.block.offset = offset
            BY <3>1, <3>4, <3>5 DEF LinkOf
        <3>7. QED
            BY <3>6
    <2>3. QED
        BY <1>1, <2>1, <2>2 DEF Watched
<1>4. QED
    BY <1>2, <1>3

\* HeapInv with what its geometry lets the words of the arena say.
SafeInv ==
    /\ HeapInv
    /\ ALIGN = STRUCT_SIZE => WatchInv
    /\ UnmarkedWords => StaleInv

LEMMA NothingForged ==
    ASSUME NoForgedHeaders, SafeInv
    PROVE  OnlyHeldAreTaken
<1>0. HeapInv
    BY DEF SafeInv
<1>1. ASSUME NEW block \in StaleBlocks, FreeAnswer(heap, block) = "Ok"
      PROVE  block \in HeldBlocks
    <2>1. heap.initialised
        BY <1>0, <1>1 DEF HeapInv, StaleBlocks
    <2>2. PICK F : Sound(heap, F, held, stale)
        BY <1>0, <2>1 DEF HeapInv
    <2>3. PICK s \in stale : s.block = block
        BY <1>1 DEF StaleBlocks
    <2>4. /\ block \in [offset : Nat, generation : Nat] /\ block.offset \in Nat
          /\ block.generation \in 0..GENERATION_MOD - 1
        <3>1. Gone(heap, held, s)
            BY <2>2 DEF Sound
        <3>2. s.issued \in Nat /\ GENERATION_MOD \in Nat \ {0}
            BY <3>1, Geometry DEF Gone
        <3>3. s.issued % GENERATION_MOD \in 0..GENERATION_MOD - 1
            BY <3>2
        <3>4. QED
            BY <2>3, <3>1, <3>3 DEF Gone
    <2>5. /\ FreeRawAnswer(heap, block.offset) = "Ok"
          /\ header_of(heap, LinkOf(block.offset)).next = block.generation
        BY <1>1 DEF FreeAnswer
    <2>6. \E g \in held : g.block.offset = block.offset
        <3>1. CASE ALIGN = STRUCT_SIZE /\ \A f \in Fill : ~ Marked(f)
            BY <1>0, <2>4, <2>5, <3>1, TakenIsWatched DEF SafeInv
        <3>2. CASE ALIGN = STRUCT_SIZE /\ Fill \cap (0..GENERATION_MOD - 1) = {}
            BY <1>0, <2>4, <2>5, <3>2, TakenIsWatched DEF SafeInv
        <3>3. CASE UnmarkedWords
            <4>1. At(s) = LinkOf(block.offset)
                BY <2>3 DEF At
            <4>2. Marked(header_of(heap, At(s)).size)
                BY <2>4, <2>5, <4>1, TakenIsMarked
            <4>3. PICK g \in held : At(g) = At(s)
                BY <3>3, <4>2 DEF SafeInv, StaleInv, StaleWatched
            <4>4. g.block.offset = At(g) + STRUCT_SIZE /\ At(g) \in Nat
                BY <2>2, GrantPlace DEF Sound
            <4>5. STRUCT_SIZE \in Nat
                BY Geometry
            <4>6. QED
                BY <2>4, <4>1, <4>3, <4>4, <4>5 DEF LinkOf
        <3>4. QED
            BY <3>1, <3>2, <3>3 DEF NoForgedHeaders
    <2>7. PICK g \in held : g.block.offset = block.offset
        BY <2>6
    <2>8. Lives(heap, g)
        BY <2>2 DEF Sound
    <2>9. g.block \in [offset : Nat, generation : Nat]
        BY <2>8 DEF Lives, GrantType
    <2>10. g.block.generation = block.generation
        BY <2>5, <2>7, <2>8 DEF Lives, At
    <2>11. g.block = block
        BY <2>4, <2>7, <2>9, <2>10
    <2>12. QED
        BY <2>11 DEF HeldBlocks
<1>2. ASSUME RawOffsets # {} \/ RawPointers # {}, NEW offset \in Nat,
             FreeRawAnswer(heap, offset) = "Ok"
      PROVE  offset \in HeldOffsets
    <2>1. ALIGN = STRUCT_SIZE /\ \A f \in Fill : ~ Marked(f)
        BY <1>2 DEF NoForgedHeaders
    <2>2. \E g \in held : g.block.offset = offset
        BY <1>0, <1>2, <2>1, TakenIsWatched DEF SafeInv
    <2>3. QED
        BY <2>2 DEF HeldOffsets, HeldBlocks
<1>3. ASSUME NEW pointer \in RawPointers, InThisArena(pointer)
      PROVE  offset_of(pointer) \in Nat
    <2>1. pointer \in Nat /\ Base \in Nat
        BY CallersAssumption, ArenaHasAddresses
    <2>2. Base <= pointer
        BY <1>3 DEF InThisArena
    <2>3. QED
        BY <2>1, <2>2 DEF offset_of
<1>4. \A offset \in RawOffsets : offset \in Nat
    BY CallersAssumption
<1>5. QED
    BY <1>1, <1>2, <1>3, <1>4 DEF OnlyHeldAreTaken

\* While callers' frees are taken only where somebody holds a block, the arena
\* is always that of a free list and of the blocks in use, apart from each other.
THEOREM HeapIsSound ==
    ASSUME ArenaSuits
    PROVE  Spec /\ []OnlyHeldAreTaken => []HeapInv
<1>1. Init => HeapInv
    BY StartsSound
<1>2. HeapInv /\ OnlyHeldAreTaken /\ [Next]_vars => HeapInv'
    BY StepHolds
<1>3. QED
    BY <1>1, <1>2, PTL DEF Spec

\* Where callers cannot make a header of their own, that is always so.
THEOREM FreesAreOfHeldBlocks ==
    ASSUME ArenaSuits, NoForgedHeaders
    PROVE  Spec => [](HeapInv /\ OnlyHeldAreTaken)
<1>1. Init => SafeInv
    BY StartsSound DEF SafeInv
<1>2. SafeInv => HeapInv /\ OnlyHeldAreTaken
    BY NothingForged DEF SafeInv
<1>3. SafeInv /\ [Next]_vars => SafeInv'
    BY <1>2, StepHolds, StepStale DEF SafeInv
<1>4. QED
    BY <1>1, <1>2, <1>3, PTL DEF Spec

-----------------------------------------------------------------------------
(* What the invariant says of the properties.                              *)

LEMMA OrderedFollows == HeapInv => ListOrdered
<1> SUFFICES ASSUME HeapInv, heap.initialised
             PROVE  LET nodes == ListNodes(heap)
                    IN  \A i \in DOMAIN nodes :
                            /\ nodes[i] < heap.end
                            /\ i > 1 => nodes[i - 1] < nodes[i]
                            /\ ~ is_allocated(heap, nodes[i])
    BY DEF ListOrdered
<1> DEFINE nodes == ListNodes(heap)
<1>1. PICK F : Sound(heap, F, held, stale)
    BY DEF HeapInv
<1>2. FreeList(heap, F) /\ heap \in HeapType /\ Linked(heap, F)
    BY <1>1 DEF Sound, FreeList
<1>3. /\ nodes \in Seq(F \ {heap.end})
      /\ \A i, j \in DOMAIN nodes : i < j => nodes[i] < nodes[j]
    BY <1>2, NodesListed
<1>4. F \subseteq Nat /\ heap.end \in F /\ \A a \in F : a <= heap.end
    BY <1>2, LinkedNodes
<1> HIDE DEF nodes
<1>5. ASSUME NEW i \in DOMAIN nodes
      PROVE  /\ nodes[i] < heap.end
             /\ i > 1 => nodes[i - 1] < nodes[i]
             /\ ~ is_allocated(heap, nodes[i])
    <2>1. nodes[i] \in F \ {heap.end} /\ i \in 1..Len(nodes) /\ Len(nodes) \in Nat
        BY <1>3
    <2>2. nodes[i] < heap.end
        <3>1. nodes[i] \in F /\ nodes[i] # heap.end
            BY <2>1
        <3>2. nodes[i] <= heap.end
            BY <1>4, <3>1
        <3>3. nodes[i] \in Nat /\ heap.end \in Nat
            BY <1>4, <3>1
        <3> HIDE DEF nodes
        <3>4. QED
            BY <3>1, <3>2, <3>3
    <2>3. i > 1 => i - 1 \in DOMAIN nodes /\ i - 1 < i
        BY <1>3, <2>1
    <2>4. ~ is_allocated(heap, nodes[i])
        BY <1>2, <2>1, NodesUnmarked DEF is_allocated
    <2>5. QED
        BY <1>3, <2>2, <2>3, <2>4
<1>6. QED
    BY <1>5 DEF nodes

LEMMA HeldFollows == HeapInv => HeldCanBeFreed
<1> SUFFICES ASSUME HeapInv, NEW g \in held
             PROVE  FreeAnswer(heap, g.block) = "Ok"
    BY DEF HeldCanBeFreed
<1>1. PICK F : Sound(heap, F, held, stale)
    BY DEF HeapInv
<1>2. QED
    BY <1>1, HeldAccepted

\* A block given back whose Block is held again was handed out as many
\* allocations later as there are generations.
LEMMA StaleFollows == HeapInv /\ OnlyHeldAreTaken => StaleIsRefused
<1> SUFFICES ASSUME HeapInv, OnlyHeldAreTaken, NEW s \in stale,
                    FreeAnswer(heap, s.block) = "Ok"
             PROVE  ~ (heap.allocations - s.issued < GENERATION_MOD)
    BY DEF StaleIsRefused
<1>1. PICK F : Sound(heap, F, held, stale)
    BY DEF HeapInv
<1>2. PICK g \in held : g.block = s.block
    BY DEF OnlyHeldAreTaken, StaleBlocks, HeldBlocks
<1>3. Gone(heap, held, s) /\ Lives(heap, g)
    BY <1>1 DEF Sound
<1>4. /\ s.issued \in Nat /\ g.issued \in Nat /\ s.issued < g.issued
      /\ g.issued <= heap.allocations /\ heap.allocations \in Nat
    BY <1>2, <1>3, HeapTyped DEF Gone, Lives, HeapType
<1>5. s.issued % GENERATION_MOD = g.issued % GENERATION_MOD
    BY <1>2, <1>3 DEF Gone, Lives
<1>6. GENERATION_MOD \in Nat \ {0}
    BY Geometry
<1>7. g.issued - s.issued >= GENERATION_MOD
    BY <1>4, <1>5, <1>6, SameGeneration
<1>8. QED
    BY <1>4, <1>6, <1>7

LEMMA PayloadFollows == HeapInv => PayloadKept
<1> SUFFICES ASSUME HeapInv, NEW g \in held
             PROVE  /\ g.block.offset + g.wanted <= FF!End(GrantOf(g))
                    /\ g.fill # NotFilled => \A w \in Payload(g) : heap.store[w] = g.fill
    BY DEF PayloadKept
<1>1. PICK F : Sound(heap, F, held, stale)
    BY DEF HeapInv
<1>2. Lives(heap, g)
    BY <1>1 DEF Sound
<1>3. g.block.offset = At(g) + STRUCT_SIZE /\ At(g) \in Nat
    BY <1>2, GrantPlace
<1>4. /\ g.wanted + STRUCT_SIZE <= size_of(heap, At(g))
      /\ size_of(heap, At(g)) \in Nat /\ STRUCT_SIZE \in Nat
    BY <1>2, Geometry DEF Lives
<1>5. g.wanted \in Nat
    BY <1>2, CallersAssumption DEF Lives, GrantType
<1>6. FF!End(GrantOf(g)) = At(g) + size_of(heap, At(g))
    BY DEF FF!End, GrantOf, At
<1>7. g.block.offset + g.wanted <= FF!End(GrantOf(g))
    BY <1>3, <1>4, <1>5, <1>6
<1>8. g.fill # NotFilled => \A w \in Payload(g) : heap.store[w] = g.fill
    BY <1>2, PayloadIs DEF Lives
<1>9. QED
    BY <1>7, <1>8

LEMMA BalanceFollows == HeapInv => CallsBalance
<1> SUFFICES ASSUME HeapInv PROVE heap.allocations - heap.frees = Cardinality(held)
    BY DEF CallsBalance
<1>1. CASE heap.initialised
    BY <1>1 DEF HeapInv, Sound
<1>2. CASE ~ heap.initialised
    BY <1>2, FS_EmptySet DEF HeapInv, Fresh
<1>3. QED
    BY <1>1, <1>2

LEMMA RawFollows == HeapInv /\ OnlyHeldAreTaken => RawFreesOnlyHeld
<1> SUFFICES ASSUME HeapInv, OnlyHeldAreTaken PROVE RawFreesOnlyHeld
    OBVIOUS
<1>1. ASSUME NEW offset \in HeldOffsets
      PROVE  FreeRawAnswer(heap, offset) = "Ok" /\ offset \in Nat /\ offset < N
    <2>1. PICK g \in held : g.block.offset = offset
        BY DEF HeldOffsets, HeldBlocks
    <2>2. PICK F : Sound(heap, F, held, stale)
        BY DEF HeapInv
    <2>3. QED
        BY <2>1, <2>2, HeldAccepted
<1>2. ASSUME NEW offset \in RawOffsets
      PROVE  FreeRawAnswer(heap, offset) = "Ok" <=> offset \in HeldOffsets
    BY <1>1 DEF OnlyHeldAreTaken
<1>3. /\ Base \in Nat /\ N \in Nat /\ Base + N <= USIZE_MAX /\ USIZE_MAX \in Nat
      /\ SatAdd(Base, N) = Base + N
    BY ArenaHasAddresses, Geometry DEF SatAdd
<1>4. ASSUME NEW pointer \in RawPointers
      PROVE  /\ InThisArena(pointer)
             /\ FreeRawAnswer(heap, offset_of(pointer)) = "Ok"
             <=> pointer \in {address_of(offset) : offset \in HeldOffsets}
    <2>1. pointer \in Nat
        BY CallersAssumption
    <2>2. ASSUME InThisArena(pointer), FreeRawAnswer(heap, offset_of(pointer)) = "Ok"
          PROVE  pointer \in {address_of(offset) : offset \in HeldOffsets}
        <3>1. offset_of(pointer) \in HeldOffsets
            BY <2>2 DEF OnlyHeldAreTaken
        <3>2. offset_of(pointer) \in Nat /\ offset_of(pointer) < N
            BY <1>1, <3>1
        <3>3. address_of(offset_of(pointer)) = pointer
            BY <1>3, <2>1, <3>2 DEF address_of, offset_of
        <3>4. QED
            BY <3>1, <3>3
    <2>3. ASSUME NEW offset \in HeldOffsets, pointer = address_of(offset)
          PROVE  InThisArena(pointer) /\ FreeRawAnswer(heap, offset_of(pointer)) = "Ok"
        <3>1. /\ FreeRawAnswer(heap, offset) = "Ok"
              /\ offset \in Nat /\ offset < N
            BY <1>1
        <3>2. pointer = Base + offset /\ offset_of(pointer) = offset
            BY <1>3, <2>3, <3>1 DEF address_of, offset_of
        <3>3. InThisArena(pointer)
            BY <1>3, <3>1, <3>2 DEF InThisArena
        <3>4. QED
            BY <3>1, <3>2, <3>3
    <2>4. QED
        BY <2>2, <2>3
<1>5. QED
    BY <1>2, <1>4 DEF RawFreesOnlyHeld

-----------------------------------------------------------------------------
(* The properties.                                                         *)

\* The free list that alloc and free walk is ordered by address, ends, and has
\* no block in use on it, after any calls.
THEOREM ListStaysOrdered ==
    ASSUME ArenaSuits, NoForgedHeaders
    PROVE  Spec => []ListOrdered
BY FreesAreOfHeldBlocks, OrderedFollows, PTL

\* free takes every block that is held, whatever others did around it.
THEOREM HeldStaysFreeable ==
    ASSUME ArenaSuits, NoForgedHeaders
    PROVE  Spec => []HeldCanBeFreed
BY FreesAreOfHeldBlocks, HeldFollows, PTL

\* free refuses a block that was given back until the generations have wrapped.
THEOREM StaleStaysRefused ==
    ASSUME ArenaSuits, NoForgedHeaders
    PROVE  Spec => []StaleIsRefused
BY FreesAreOfHeldBlocks, StaleFollows, PTL

\* A block has room for its request, and what a caller wrote stays there until
\* the caller gives it back.
THEOREM PayloadStaysKept ==
    ASSUME ArenaSuits, NoForgedHeaders
    PROVE  Spec => []PayloadKept
BY FreesAreOfHeldBlocks, PayloadFollows, PTL

\* The counters of successful calls differ by the number of blocks held.
THEOREM CallsStayBalanced ==
    ASSUME ArenaSuits, NoForgedHeaders
    PROVE  Spec => []CallsBalance
BY FreesAreOfHeldBlocks, BalanceFollows, PTL

\* free_raw takes exactly the offsets of held blocks, and vPortFree exactly the
\* addresses address_of answers for them.
THEOREM RawFreesStayHonest ==
    ASSUME ArenaSuits, NoForgedHeaders
    PROVE  Spec => []RawFreesOnlyHeld
BY FreesAreOfHeldBlocks, RawFollows, PTL

\* Under any geometry, headers of 16 bytes on an alignment of 8 included, the
\* same holds of a behaviour in which frees are taken only where somebody holds
\* a block.
THEOREM HonestCallersAreSafe ==
    ASSUME ArenaSuits
    PROVE  Spec /\ []OnlyHeldAreTaken =>
                [](ListOrdered /\ HeldCanBeFreed /\ StaleIsRefused /\ PayloadKept /\ CallsBalance)
BY HeapIsSound, OrderedFollows, HeldFollows, StaleFollows, PayloadFollows, BalanceFollows, PTL

=============================================================================
