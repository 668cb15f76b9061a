-------------------------- MODULE Heap4_fit_proofs --------------------------
(***************************************************************************)
(* Heap4 implements FirstFit, for every arena: the spans are the nodes of  *)
(* the free list that have a size, and every call does to them what        *)
(* FirstFit says, or nothing.  FirstFit's own invariant, proved in         *)
(* FirstFit_proofs, is carried along, because Heap4's counters only hold   *)
(* what they should while free_bytes is the number of free bytes.          *)
(***************************************************************************)
EXTENDS Heap4_proofs

\* The parameters Heap4 gives FirstFit.
LayoutsHere ==
    {{RegionSpan(table[i]) : i \in DOMAIN table} : table \in {t \in Tables : Accepted(New, t)}}
SizesHere == {BlockSize(wanted) : wanted \in {w \in Wanted : Servable(w)}}

Fit == INSTANCE FirstFit_proofs WITH
        Layouts <- LayoutsHere,
        Sizes <- SizesHere,
        MaxGrants <- MaxAllocs,
        free <- FreeSpans,
        live <- {GrantOf(g) : g \in held},
        granted <- heap.allocations,
        room <- heap.free_bytes,
        low <- heap.minimum_ever_free

\* What the free list F of h and the grants H stand for.
SpanAt(h, a) == [at |-> a, size |-> size_of(h, a)]
Spans(h, F) == {SpanAt(h, a) : a \in {x \in F : size_of(h, x) > 0}}
GrantIn(h, g) ==
    [at |-> At(g), size |-> size_of(h, At(g)), need |-> BlockSize(g.wanted), id |-> g.issued]

-----------------------------------------------------------------------------
(* FirstFit, as Heap4 and as its proofs instantiate it, is one module.     *)

LEMMA OneCardinality ==
    ASSUME NEW S
    PROVE  /\ Fit!Cardinality(S) = Cardinality(S) /\ FF!Cardinality(S) = Cardinality(S)
           /\ Fit!IsFiniteSet(S) = IsFiniteSet(S) /\ FF!IsFiniteSet(S) = IsFiniteSet(S)
BY DEF Fit!Cardinality, FF!Cardinality, Cardinality,
       Fit!IsFiniteSet, FF!IsFiniteSet, IsFiniteSet

LEMMA SameInit == FF!Init <=> Fit!Init
BY DEF FF!Init, Fit!Init

LEMMA SameLayOut ==
    ASSUME NEW L
    PROVE  Fit!LayOut(L) => FF!LayOut(L)
BY DEF FF!LayOut, Fit!LayOut, FF!Cells, Fit!Cells, FF!End, Fit!End,
       FF!Cardinality, Fit!Cardinality

LEMMA SameGrant ==
    ASSUME NEW F, NEW A, NEW r, NEW l, NEW need,
           Fit!GrantFrom(F, A, r, l, need)
    PROVE  FF!GrantFrom(F, A, r, l, need)
BY DEF FF!GrantFrom, Fit!GrantFrom, FF!FirstFitting, Fit!FirstFitting,
       FF!Remainder, Fit!Remainder, FF!Taken, Fit!Taken, FF!NextId, Fit!NextId

LEMMA SameAlloc ==
    ASSUME NEW need
    PROVE  /\ Fit!Alloc(need) => FF!Alloc(need)
           /\ Fit!FirstAlloc(need) => FF!FirstAlloc(need)
<1>1. Fit!Alloc(need) => FF!Alloc(need)
    BY SameGrant DEF Fit!Alloc, FF!Alloc
<1>2. FF!Cardinality(FF!Cells(WholeArena)) = Fit!Cardinality(Fit!Cells(WholeArena))
    BY DEF FF!Cells, Fit!Cells, FF!End, Fit!End, FF!Cardinality, Fit!Cardinality
<1>3. Fit!FirstAlloc(need) => FF!FirstAlloc(need)
    BY <1>2, SameGrant DEF Fit!FirstAlloc, FF!FirstAlloc
<1>4. QED
    BY <1>1, <1>3

LEMMA SameFree ==
    ASSUME NEW g
    PROVE  Fit!Free(g) => FF!Free(g)
BY DEF FF!Free, Fit!Free, FF!Before, Fit!Before, FF!After, Fit!After,
       FF!Merged, Fit!Merged, FF!Touches, Fit!Touches, FF!End, Fit!End

LEMMA SameNext == Fit!Next => FF!Next
BY SameLayOut, SameAlloc, SameFree DEF Fit!Next, FF!Next, LayoutsHere, SizesHere

-----------------------------------------------------------------------------
(* What FirstFit assumes of its parameters.                                *)

LEMMA TableRegions ==
    ASSUME NEW t \in Seq([start : Nat, size : Nat]), Orderly(t, Len(t))
    PROVE  /\ Len(t) \in Nat /\ DOMAIN t = 1..Len(t)
           /\ \A i \in 1..Len(t) :
                /\ RegionStart(t[i]) \in Nat /\ RegionEnd(t[i]) \in Nat
                /\ RegionStart(t[i]) < RegionEnd(t[i])
<1> DEFINE R == [start : Nat, size : Nat]
<1> HIDE DEF R
<1>1. t \in Seq(R)
    BY DEF R
<1>2. Len(t) \in Nat /\ DOMAIN t = 1..Len(t) /\ \A i \in 1..Len(t) : t[i] \in R
    BY <1>1
<1>3. ASSUME NEW i \in 1..Len(t)
      PROVE  /\ RegionStart(t[i]) \in Nat /\ RegionEnd(t[i]) \in Nat
             /\ RegionStart(t[i]) < RegionEnd(t[i])
    <2>1. RegionFits(t[i])
        BY DEF Orderly
    <2>2. t[i] \in [start : Nat, size : Nat]
        BY <1>2 DEF R
    <2>3. QED
        BY <2>1, <2>2, RegionPlaces
<1>4. QED
    BY <1>2, <1>3

\* Every region of an accepted table ends below each later one.
LEMMA RegionsRise ==
    ASSUME NEW t \in Seq([start : Nat, size : Nat]), Orderly(t, Len(t))
    PROVE  \A i, j \in 1..Len(t) : i < j => RegionEnd(t[i]) < RegionStart(t[j])
<1> DEFINE n == Len(t)
           S == {k \in 0..n :
                    \A i, j \in 1..k : i < j => RegionEnd(t[i]) < RegionStart(t[j])}
<1>1. /\ n \in Nat
      /\ \A i \in 1..n :
            /\ RegionStart(t[i]) \in Nat /\ RegionEnd(t[i]) \in Nat
            /\ RegionStart(t[i]) < RegionEnd(t[i])
    BY TableRegions
<1>2. \A i \in 1..n : i > 1 => RegionEnd(t[i - 1]) < RegionStart(t[i])
    <2>1. ASSUME NEW i \in 1..n, i > 1
          PROVE  RegionEnd(t[i - 1]) < RegionStart(t[i])
        <3>1. RegionStart(t[i]) > RegionEnd(t[i - 1]) /\ i - 1 \in 1..n
            BY <1>1, <2>1 DEF Orderly
        <3>2. QED
            BY <1>1, <3>1
    <2>2. QED
        BY <2>1
<1> HIDE DEF n
<1>3. 0 \in S
    BY <1>1
<1>4. ASSUME NEW k \in 0..n - 1, k \in S
      PROVE  k + 1 \in S
    <2>1. \A i, j \in 1..k : i < j => RegionEnd(t[i]) < RegionStart(t[j])
        BY <1>4
    <2>2. ASSUME NEW i \in 1..k + 1, NEW j \in 1..k + 1, i < j
          PROVE  RegionEnd(t[i]) < RegionStart(t[j])
        <3>1. k \in Nat /\ k + 1 \in 1..n /\ i \in 1..k
            BY <1>1, <2>2
        <3>2. CASE j \in 1..k
            BY <2>1, <2>2, <3>1, <3>2
        <3>3. CASE j = k + 1 /\ i = k
            BY <1>2, <3>1, <3>3
        <3>4. CASE j = k + 1 /\ i < k
            <4>1. k \in 1..k /\ k \in 1..n /\ i \in 1..n /\ k + 1 > 1 /\ (k + 1) - 1 = k
                BY <1>1, <3>1, <3>4
            <4>2. RegionEnd(t[i]) < RegionStart(t[k])
                BY <2>1, <3>1, <3>4, <4>1
            <4>3. RegionEnd(t[k]) < RegionStart(t[k + 1])
                BY <1>2, <3>1, <4>1
            <4>4. QED
                BY <1>1, <3>1, <3>4, <4>1, <4>2, <4>3
        <3>5. QED
            BY <2>2, <3>1, <3>2, <3>3, <3>4
    <2>3. k + 1 \in 0..n
        BY <1>1
    <2>4. QED
        BY <2>2, <2>3
<1>5. \A k \in 0..n : k \in S
    <2> HIDE DEF S
    <2>1. QED
        BY <1>1, <1>3, <1>4, InductionUpTo
<1>6. n \in S
    <2> HIDE DEF S
    <2>1. n \in 0..n
        BY <1>1
    <2>2. QED
        BY <1>5, <2>1
<1>7. QED
    BY <1>6 DEF n

\* The regions of an accepted table are a layout: something lies between any two.
LEMMA TableIsLayout ==
    ASSUME NEW t \in Seq([start : Nat, size : Nat]), Orderly(t, Len(t))
    PROVE  Fit!IsLayout({RegionSpan(t[i]) : i \in DOMAIN t})
<1> DEFINE n == Len(t)
           L == {RegionSpan(t[i]) : i \in DOMAIN t}
           f == [i \in 1..n |-> RegionSpan(t[i])]
<1>1. /\ n \in Nat /\ DOMAIN t = 1..n
      /\ \A i \in 1..n :
            /\ RegionStart(t[i]) \in Nat /\ RegionEnd(t[i]) \in Nat
            /\ RegionStart(t[i]) < RegionEnd(t[i])
    BY TableRegions
<1>2. \A i, j \in 1..n : i < j => RegionEnd(t[i]) < RegionStart(t[j])
    BY RegionsRise
<1> HIDE DEF n
<1>3. IsFiniteSet(L)
    <2>1. IsFiniteSet(1..n)
        BY <1>1, FS_Interval
    <2>2. f \in Surjection(1..n, L)
        BY <1>1 DEF Surjection
    <2>3. QED
        BY <2>1, <2>2, FS_Surjection
<1>4. \A i \in 1..n : /\ RegionSpan(t[i]) \in Fit!Span
                      /\ Fit!End(RegionSpan(t[i])) = RegionEnd(t[i])
                      /\ RegionSpan(t[i]).at = RegionStart(t[i])
    BY <1>1 DEF RegionSpan, Fit!Span, Fit!End
<1>5. ASSUME NEW r \in L, NEW s \in L, r # s
      PROVE  Fit!Apart(r, s) /\ ~ Fit!Touches(r, s)
    <2>1. PICK i \in 1..n, j \in 1..n : r = RegionSpan(t[i]) /\ s = RegionSpan(t[j])
        BY <1>1
    <2>2. i < j \/ j < i
        BY <1>1, <1>5, <2>1
    <2>3. /\ Fit!End(r) = RegionEnd(t[i]) /\ r.at = RegionStart(t[i])
          /\ Fit!End(s) = RegionEnd(t[j]) /\ s.at = RegionStart(t[j])
        BY <1>4, <2>1
    <2>4. /\ RegionEnd(t[i]) \in Nat /\ RegionStart(t[i]) \in Nat
          /\ RegionEnd(t[j]) \in Nat /\ RegionStart(t[j]) \in Nat
          /\ RegionStart(t[i]) < RegionEnd(t[i]) /\ RegionStart(t[j]) < RegionEnd(t[j])
        BY <1>1
    <2>5. RegionEnd(t[i]) < RegionStart(t[j]) \/ RegionEnd(t[j]) < RegionStart(t[i])
        BY <1>2, <2>2
    <2>6. /\ Fit!End(r) < s.at \/ Fit!End(s) < r.at
          /\ r.at < Fit!End(r) /\ s.at < Fit!End(s)
        BY <2>3, <2>4, <2>5
    <2>7. Fit!End(r) \in Nat /\ Fit!End(s) \in Nat /\ r.at \in Nat /\ s.at \in Nat
        BY <2>3, <2>4
    <2> HIDE DEF L
    <2>8. QED
        BY <2>6, <2>7 DEF Fit!Apart, Fit!Touches
<1>6. L \subseteq Fit!Span
    BY <1>1, <1>4
<1>7. Fit!IsLayout(L)
    <2> HIDE DEF L
    <2>1. QED
        BY <1>3, <1>5, <1>6, OneCardinality DEF Fit!IsLayout
<1>8. QED
    BY <1>7

LEMMA NewTyped == New \in HeapType /\ ~ New.initialised
BY NewIsFresh DEF Fresh

\* Whether a table is accepted does not depend on the words of the arena.
LEMMA AcceptedIsOrderly ==
    ASSUME NEW t \in Tables
    PROVE  /\ t \in Seq([start : Nat, size : Nat])
           /\ Accepted(New, t) <=> t # <<>> /\ Orderly(t, Len(t))
<1>1. t \in Seq([start : Nat, size : Nat])
    BY CallersAssumption
<1>2. LaySound(LayTable(New, t), New, t, Len(t))
    BY <1>1, NewTyped, TableOutcome
<1>3. LayTable(New, t).refused <=> ~ Orderly(t, Len(t))
    BY <1>2 DEF LaySound
<1>4. QED
    BY <1>1, <1>3, NewTyped DEF Accepted

LEMMA WholeArenaIs ==
    ASSUME N >= 2 * STRUCT_SIZE
    PROVE  /\ init(New).end \in Nat /\ init(New).end > 0 /\ init(New).end + STRUCT_SIZE <= N
           /\ Fit!IsLayout(WholeArena)
<1> DEFINE end == init(New).end
<1>1. end \in Place /\ end \in Nat /\ end >= STRUCT_SIZE
    BY NewTyped, InitOutcome
<1>2. STRUCT_SIZE \in Nat /\ STRUCT_SIZE > 0
    BY Geometry
<1>3. end + STRUCT_SIZE <= N
    BY <1>1 DEF Place, InArena
<1> DEFINE s == [at |-> 0, size |-> end]
<1>4. WholeArena = {s}
    BY DEF WholeArena
<1> HIDE DEF end
<1>5. s \in Fit!Span
    BY <1>1, <1>2 DEF Fit!Span
<1>6. IsFiniteSet({s})
    BY FS_Singleton
<1> HIDE DEF s
<1>7. Fit!IsLayout(WholeArena)
    BY <1>4, <1>5, <1>6, OneCardinality DEF Fit!IsLayout
<1>8. QED
    BY <1>1, <1>2, <1>3, <1>7 DEF end

\* FirstFit's assumptions hold of what Heap4 gives it.
FitAssumptions ==
    /\ \A L \in LayoutsHere \cup {WholeArena} : Fit!IsLayout(L)
    /\ SizesHere \subseteq Nat \ {0}
    /\ MINIMUM_BLOCK_SIZE \in Nat
    /\ MaxAllocs \in Nat

LEMMA FitAssumed ==
    ASSUME ArenaSuits
    PROVE  FitAssumptions
<1>1. N >= 2 * STRUCT_SIZE /\ STRUCT_SIZE \in Nat /\ STRUCT_SIZE > 0
    BY Geometry DEF ArenaSuits
<1>2. ASSUME NEW L \in LayoutsHere
      PROVE  Fit!IsLayout(L)
    <2>1. PICK t \in Tables : Accepted(New, t) /\ L = {RegionSpan(t[i]) : i \in DOMAIN t}
        BY DEF LayoutsHere
    <2>2. t \in Seq([start : Nat, size : Nat]) /\ Orderly(t, Len(t))
        BY <2>1, AcceptedIsOrderly
    <2>3. QED
        BY <2>1, <2>2, TableIsLayout
<1>3. ASSUME NEW size \in SizesHere
      PROVE  size \in Nat \ {0}
    <2>1. PICK wanted \in Wanted : Servable(wanted) /\ size = BlockSize(wanted)
        BY DEF SizesHere
    <2>2. wanted \in Nat /\ wanted + STRUCT_SIZE <= USIZE_MAX
        BY <2>1, CallersAssumption DEF Servable
    <2>3. size \in Nat /\ STRUCT_SIZE <= size
        BY <1>1, <2>1, <2>2, BlockSizes
    <2>4. QED
        BY <1>1, <2>3
<1>4. MINIMUM_BLOCK_SIZE \in Nat
    BY <1>1 DEF MINIMUM_BLOCK_SIZE
<1>5. MaxAllocs \in Nat
    BY Geometry, CallersAssumption
<1>6. QED
    BY <1>1, <1>2, <1>3, <1>4, <1>5, WholeArenaIs DEF FitAssumptions

-----------------------------------------------------------------------------
(* The spans.                                                              *)

\* FreeSpans and the live grants, of any heap.
SpansOf(h) ==
    IF h.initialised
    THEN {SpanAt(h, node) : node \in {n \in Range(ListNodes(h)) : size_of(h, n) > 0}}
    ELSE {}
LiveIn(h, H) == {GrantIn(h, g) : g \in H}

LEMMA Mapping ==
    /\ FreeSpans = SpansOf(heap) /\ {GrantOf(g) : g \in held} = LiveIn(heap, held)
    /\ FreeSpans' = SpansOf(heap')
    /\ {GrantOf(g) : g \in held}' = LiveIn(heap', held')
    /\ \A g : GrantOf(g) = GrantIn(heap, g)
BY DEF FreeSpans, SpansOf, SpanAt, LiveIn, GrantOf, GrantIn, At

\* The nodes free_list_shape visits, and the last one, which has no size.
LEMMA SpansListed ==
    ASSUME NEW h, NEW F, FreeList(h, F), h.initialised
    PROVE  SpansOf(h) = Spans(h, F)
<1>1. Range(ListNodes(h)) = F \ {h.end}
    BY NodesListed DEF FreeList
<1>2. size_of(h, h.end) = 0
    <2>1. header_of(h, h.end).size = 0 /\ h.end \in F
        BY FreeNodes DEF FreeList, Laid
    <2>2. QED
        BY <2>1, FreeNodes
<1>3. {n \in Range(ListNodes(h)) : size_of(h, n) > 0} = {x \in F : size_of(h, x) > 0}
    BY <1>1, <1>2
<1>4. QED
    BY <1>3 DEF SpansOf, Spans

LEMMA SpanFacts ==
    ASSUME NEW h, NEW F, FreeList(h, F)
    PROVE  /\ \A s \in Spans(h, F) :
                /\ s \in Fit!Span /\ s.at \in F /\ s.size = size_of(h, s.at)
                /\ s.size > 0 /\ s = SpanAt(h, s.at)
                /\ Fit!End(s) = s.at + s.size /\ Fit!End(s) = Reach(h, s.at)
                /\ Fit!End(s) <= h.end
           /\ \A a \in F : size_of(h, a) > 0 => SpanAt(h, a) \in Spans(h, F)
           /\ h.end \in Nat /\ h.end + STRUCT_SIZE <= N
<1>1. h.end \in F /\ h.end \in Place /\ \A a \in F : a <= h.end
    BY FreeNodes DEF FreeList, Linked
<1>2. h.end \in Nat /\ h.end + STRUCT_SIZE <= N
    BY <1>1, PlaceFacts DEF Place, InArena
<1>3. size_of(h, h.end) = 0
    <2>1. header_of(h, h.end).size = 0
        BY DEF FreeList, Laid
    <2>2. QED
        BY <1>1, <2>1, FreeNodes
<1>4. ASSUME NEW a \in F, size_of(h, a) > 0
      PROVE  /\ SpanAt(h, a) \in Fit!Span /\ Fit!End(SpanAt(h, a)) = Reach(h, a)
             /\ Fit!End(SpanAt(h, a)) = a + size_of(h, a)
             /\ Reach(h, a) <= h.end
    <2>1. /\ a \in Nat /\ size_of(h, a) \in Nat /\ Reach(h, a) = a + size_of(h, a)
        BY <1>4, FreeNodes
    <2>2. a # h.end /\ a <= h.end
        BY <1>1, <1>3, <1>4
    <2>3. Reach(h, a) <= h.end
        BY <1>1, <1>2, <2>1, <2>2, FreeNodes
    <2>4. QED
        BY <1>4, <2>1, <2>3 DEF SpanAt, Fit!Span, Fit!End
<1>5. QED
    BY <1>2, <1>4 DEF Spans, SpanAt

\* The bytes of a set of spans are at least those of each.
LEMMA SpanRoom ==
    ASSUME NEW h, NEW F, FreeList(h, F)
    PROVE  /\ Fit!Cardinality(Fit!Cells(Spans(h, F))) \in 0..N
           /\ \A s \in Spans(h, F) : s.size <= Fit!Cardinality(Fit!Cells(Spans(h, F)))
<1> DEFINE C == Fit!Cells(Spans(h, F))
<1>1. /\ N \in Nat /\ h.end \in Nat /\ h.end <= N
    <2>1. N \in Nat /\ STRUCT_SIZE \in Nat
        BY Geometry
    <2>2. h.end \in Nat /\ h.end + STRUCT_SIZE <= N
        BY SpanFacts
    <2>3. QED
        BY <2>1, <2>2
<1>2. ASSUME NEW s \in Spans(h, F)
      PROVE  /\ s.at \in Nat /\ s.size \in Nat /\ s.size > 0
             /\ Fit!End(s) = s.at + s.size /\ s.at + s.size <= h.end
    BY SpanFacts DEF Fit!Span
<1>3. \A s \in Spans(h, F) : s.at..Fit!End(s) - 1 \subseteq 0..N - 1
    BY <1>1, <1>2
<1>4. C \subseteq 0..N - 1
    BY <1>3 DEF Fit!Cells
<1>5. IsFiniteSet(0..N - 1) /\ Cardinality(0..N - 1) = N
    <2>1. 0 \in Int /\ N - 1 \in Int /\ (N - 1) - 0 + 1 = N /\ (0 > N - 1 => N = 0)
        BY <1>1
    <2>2. QED
        BY <2>1, FS_Interval
<1> HIDE DEF C
<1>6. IsFiniteSet(C) /\ Cardinality(C) <= N
    BY <1>4, <1>5, FS_Subset
<1>7. Cardinality(C) \in Nat
    BY <1>6, FS_CardinalityType
<1>8. ASSUME NEW s \in Spans(h, F)
      PROVE  s.size <= Cardinality(C)
    <2> DEFINE I == s.at..Fit!End(s) - 1
    <2>1. I \subseteq C
        BY <1>8 DEF C, Fit!Cells
    <2>2. Cardinality(I) = s.size
        <3>1. s.at \in Int /\ Fit!End(s) - 1 \in Int /\ ~ (s.at > Fit!End(s) - 1)
              /\ (Fit!End(s) - 1) - s.at + 1 = s.size
            BY <1>2
        <3>2. QED
            BY <3>1, FS_Interval
    <2> HIDE DEF I
    <2>3. Cardinality(I) <= Cardinality(C)
        BY <1>6, <2>1, FS_Subset
    <2>4. QED
        BY <2>2, <2>3
<1>9. Fit!Cardinality(C) = Cardinality(C)
    BY OneCardinality
<1>10. QED
    BY <1>1, <1>6, <1>7, <1>8, <1>9 DEF C

\* The spans of a heap where some nodes were taken from the list and others
\* put on it.
LEMMA SpansChange ==
    ASSUME NEW h, NEW h2, NEW F, NEW D, NEW E,
           \A a \in F \ (D \cup E) : size_of(h2, a) = size_of(h, a)
    PROVE  Spans(h2, (F \ D) \cup E) =
                {SpanAt(h, a) : a \in {x \in F \ (D \cup E) : size_of(h, x) > 0}}
                \cup {SpanAt(h2, a) : a \in {x \in E : size_of(h2, x) > 0}}
BY DEF Spans, SpanAt

-----------------------------------------------------------------------------
(* alloc.                                                                  *)

\* The lowest span that fits is taken, and what is left of it stays.
AllocFits(h, F, size, c, h2) ==
    LET s == SpanAt(h, c)
        G == (F \ {c}) \cup (IF WorthSplitting(size_of(h, c) - size) THEN {c + size} ELSE {})
    IN  /\ Fit!FirstFitting(Spans(h, F), s, size)
        /\ Spans(h2, G) = (Spans(h, F) \ {s}) \cup Fit!Remainder(s, size)
        /\ size_of(h2, c) = Fit!Taken(s, size)
        /\ size_of(h2, c) \in Nat /\ size_of(h2, c) <= s.size
        /\ h2.free_bytes = (h.free_bytes - size_of(h2, c)) % (USIZE_MAX + 1)
        /\ h2.minimum_ever_free =
                IF h2.free_bytes < h.minimum_ever_free THEN h2.free_bytes
                ELSE h.minimum_ever_free
        /\ h2.allocations = h.allocations + 1

LEMMA AllocSpans ==
    ASSUME NEW h, NEW F, FreeList(h, F), NEW size \in Nat, size > 0,
           NEW c, NEW h2, AllocDone(h, F, size, c, h2)
    PROVE  AllocFits(h, F, size, c, h2)
<1> DEFINE s == SpanAt(h, c)
           rest == size_of(h, c) - size
           split == WorthSplitting(rest)
           taken == IF split THEN size ELSE size_of(h, c)
           E == IF split THEN {c + size} ELSE {}
           G == (F \ {c}) \cup E
           left == (h.free_bytes - taken) % (USIZE_MAX + 1)
<1>1. /\ c \in F \ {h.end} /\ c \in Place
      /\ size <= size_of(h, c)
      /\ \A a \in F : a < c => size_of(h, a) < size
      /\ h2 \in HeapType
      /\ h2 = [h EXCEPT !.store = h2.store, !.start_next = h2.start_next,
                        !.free_bytes = left,
                        !.minimum_ever_free = IF left < @ THEN left ELSE @,
                        !.next_generation = (@ + 1) % GENERATION_MOD,
                        !.allocations = @ + 1]
      /\ size_of(h2, c) = taken
      /\ \A a \in F \ {c} : size_of(h2, a) = size_of(h, a)
      /\ split => c + size \in Place \ F /\ size_of(h2, c + size) = rest
    BY DEF AllocDone
<1>2. /\ F \subseteq Nat /\ size_of(h, c) \in Nat /\ c \in Nat /\ h \in HeapType
    BY <1>1, FreeNodes DEF FreeList
<1>3. s \in Spans(h, F) /\ s.at = c /\ s.size = size_of(h, c)
    BY <1>1, <1>2 DEF Spans, SpanAt
<1> HIDE DEF left
<1>4. Fit!FirstFitting(Spans(h, F), s, size)
    <2>1. ASSUME NEW t \in Spans(h, F), t.size >= size
          PROVE  s.at <= t.at
        <3>1. t.at \in F /\ t.size = size_of(h, t.at)
            BY SpanFacts
        <3>2. ~ (t.at < c)
            <4>1. t.at < c => size_of(h, t.at) < size
                BY <1>1, <3>1
            <4>2. size_of(h, t.at) \in Nat /\ size_of(h, t.at) >= size
                BY <2>1, <3>1, FreeNodes
            <4>3. QED
                BY <4>1, <4>2
        <3>3. t.at \in Nat
            BY <1>2, <3>1
        <3>4. QED
            BY <1>2, <1>3, <3>2, <3>3
    <2>2. s.size >= size
        BY <1>1, <1>2, <1>3
    <2> HIDE DEF s
    <2>3. QED
        BY <1>3, <2>1, <2>2 DEF Fit!FirstFitting
<1>5. rest \in Nat /\ (split <=> rest > MINIMUM_BLOCK_SIZE) /\ MINIMUM_BLOCK_SIZE \in Nat
    BY <1>1, <1>2, Geometry DEF WorthSplitting, MINIMUM_BLOCK_SIZE
<1>6. /\ Fit!Remainder(s, size) = IF split THEN {[at |-> c + size, size |-> rest]} ELSE {}
      /\ Fit!Taken(s, size) = taken
    <2>1. s.size - size = rest /\ s.at + size = c + size
        BY <1>3
    <2> HIDE DEF s, rest, split
    <2>2. Fit!Remainder(s, size) = IF split THEN {[at |-> c + size, size |-> rest]} ELSE {}
        BY <1>5, <2>1 DEF Fit!Remainder
    <2>3. Fit!Taken(s, size) = taken
        BY <1>3, <2>2 DEF Fit!Taken
    <2>4. QED
        BY <2>2, <2>3
<1>7. Spans(h2, G) = {SpanAt(h, a) : a \in {x \in F \ ({c} \cup E) : size_of(h, x) > 0}}
                     \cup {SpanAt(h2, a) : a \in {x \in E : size_of(h2, x) > 0}}
    <2>1. \A a \in F \ ({c} \cup E) : size_of(h2, a) = size_of(h, a)
        BY <1>1
    <2> DEFINE D == {c}
    <2>2. \A a \in F \ (D \cup E) : size_of(h2, a) = size_of(h, a)
        BY <2>1
    <2> HIDE DEF D, E
    <2>3. Spans(h2, (F \ D) \cup E) =
                {SpanAt(h, a) : a \in {x \in F \ (D \cup E) : size_of(h, x) > 0}}
                \cup {SpanAt(h2, a) : a \in {x \in E : size_of(h2, x) > 0}}
        BY <2>2, SpansChange
    <2>4. QED
        BY <2>3 DEF G, D
<1>8. {SpanAt(h, a) : a \in {x \in F \ ({c} \cup E) : size_of(h, x) > 0}} = Spans(h, F) \ {s}
    <2>1. F \cap E = {}
        BY <1>1
    <2> HIDE DEF E
    <2>2. QED
        BY <2>1 DEF Spans, SpanAt, s
<1>9. {SpanAt(h2, a) : a \in {x \in E : size_of(h2, x) > 0}} = Fit!Remainder(s, size)
    <2>1. CASE split
        <3>1. size_of(h2, c + size) = rest /\ rest > 0
            BY <1>1, <1>5, <2>1
        <3>2. E = {c + size} /\ Fit!Remainder(s, size) = {[at |-> c + size, size |-> rest]}
            BY <1>6, <2>1
        <3> HIDE DEF E, s, rest
        <3>3. QED
            BY <3>1, <3>2 DEF SpanAt
    <2>2. CASE ~ split
        <3>1. E = {} /\ Fit!Remainder(s, size) = {}
            BY <1>6, <2>2
        <3> HIDE DEF E, s
        <3>2. QED
            BY <3>1
    <2>3. QED
        BY <2>1, <2>2
<1>10. taken \in Nat /\ taken <= s.size
    BY <1>1, <1>2, <1>3
<1>11. /\ h2.free_bytes = left
       /\ h2.minimum_ever_free = IF left < h.minimum_ever_free THEN left
                                 ELSE h.minimum_ever_free
       /\ h2.allocations = h.allocations + 1
    BY <1>1, <1>2 DEF HeapType
<1>12. left = (h.free_bytes - size_of(h2, c)) % (USIZE_MAX + 1)
    BY <1>1 DEF left
<1>13. Spans(h2, G) = (Spans(h, F) \ {s}) \cup Fit!Remainder(s, size)
    BY <1>7, <1>8, <1>9
<1>14. /\ size_of(h2, c) = Fit!Taken(s, size)
       /\ size_of(h2, c) \in Nat /\ size_of(h2, c) <= s.size
    BY <1>1, <1>6, <1>10
<1>15. G = (F \ {c}) \cup (IF WorthSplitting(size_of(h, c) - size) THEN {c + size} ELSE {})
    OBVIOUS
<1> HIDE DEF s, G
<1>16. QED
    BY <1>4, <1>11, <1>12, <1>13, <1>14, <1>15 DEF AllocFits, s

-----------------------------------------------------------------------------
(* free.                                                                   *)

\* The block of size bytes at b, joined with the spans it touches.
FreeFits(h, F, it, f, b, size, h2) ==
    LET m == Merge(h, it, f, b, size)
        G == (F \ m.lost) \cup {m.at}
        below == {s \in Spans(h, F) : Fit!End(s) = b}
        above == {s \in Spans(h, F) : b + size = s.at}
    IN  /\ below = IF JoinsBefore(h, it, b) THEN {SpanAt(h, it)} ELSE {}
        /\ above = IF Absorbs(h, b + size, f) /\ size_of(h, f) > 0 THEN {SpanAt(h, f)} ELSE {}
        /\ m.size \in Nat /\ m.at \in Nat
        /\ Spans(h2, G) =
                (Spans(h, F) \ (below \cup above)) \cup {[at |-> m.at, size |-> m.size]}

LEMMA FreeSpansChange ==
    ASSUME NEW h, NEW F, FreeList(h, F), NEW b \in Nat, NEW size \in Nat, size > 0,
           \A a \in F : b + size <= a \/ Reach(h, a) <= b,
           NEW it, NEW f, NEW h2, FreeDone(h, F, b, size, it, f, h2)
    PROVE  FreeFits(h, F, it, f, b, size, h2)
<1> DEFINE m == Merge(h, it, f, b, size)
           G == (F \ m.lost) \cup {m.at}
           below == {s \in Spans(h, F) : Fit!End(s) = b}
           above == {s \in Spans(h, F) : b + size = s.at}
           joins == JoinsBefore(h, it, b)
           absorbs == Absorbs(h, b + size, f)
<1>1. /\ f \in F /\ Leads(h, F, it, f) /\ b < f /\ (it # NONE => it < b)
      /\ size_of(h2, m.at) = m.size
      /\ \A a \in F \ {m.at} : size_of(h2, a) = size_of(h, a)
    BY DEF FreeDone, Neighbours, size_of
<1>2. /\ F \subseteq Nat /\ h.end \in F /\ NONE \notin F
      /\ \A a \in F :
            /\ size_of(h, a) \in Nat /\ Reach(h, a) \in Nat
            /\ a < Reach(h, a)
            /\ size_of(h, a) > 0 => Reach(h, a) = a + size_of(h, a)
      /\ \A a, c \in F : a < c => Reach(h, a) <= c
    <2>1. STRUCT_SIZE \in Nat /\ STRUCT_SIZE > 0
        BY Geometry
    <2>2. ASSUME NEW a \in F
          PROVE  /\ size_of(h, a) \in Nat /\ Reach(h, a) \in Nat
                 /\ a < Reach(h, a)
                 /\ size_of(h, a) > 0 => Reach(h, a) = a + size_of(h, a)
        <3>1. /\ a \in Nat /\ size_of(h, a) \in Nat /\ Reach(h, a) \in Nat
              /\ a + STRUCT_SIZE <= Reach(h, a)
              /\ Reach(h, a) = a + (IF size_of(h, a) = 0 THEN STRUCT_SIZE ELSE size_of(h, a))
            BY FreeNodes
        <3>2. QED
            BY <2>1, <3>1
    <2>3. QED
        BY <2>2, FreeNodes
<1>3. \A a \in F : a < b \/ f <= a
    <2>1. Linked(h, F)
        BY DEF FreeList
    <2>2. CASE it = NONE
        <3>1. f = h.start_next
            BY <1>1, <1>2, <2>2 DEF Leads
        <3>2. QED
            BY <2>1, <3>1 DEF Linked
    <2>3. CASE it # NONE
        <3>1. it \in F \ {h.end} /\ next_of(h, it) = f
            BY <1>1, <2>3 DEF Leads
        <3>2. \A a \in F : a <= it \/ f <= a
            BY <2>1, <3>1 DEF Linked
        <3>3. it < b /\ it \in Nat
            BY <1>1, <1>2, <2>3, <3>1
        <3>4. QED
            BY <1>2, <3>2, <3>3
    <2>4. QED
        BY <2>2, <2>3
<1>4. it # NONE => it \in F /\ it < b /\ it < f
    <2>1. it # NONE => it \in F /\ it < b
        BY <1>1 DEF Leads
    <2>2. \A a \in F : a \in Nat
        BY <1>2
    <2>3. f \in Nat /\ b < f
        BY <1>1, <1>2
    <2>4. QED
        BY <2>1, <2>2, <2>3
<1>5. b \notin F /\ b + size <= f
    BY <1>1, <1>2
<1>6. /\ m.at = (IF joins THEN it ELSE b)
      /\ m.size = (IF joins THEN size_of(h, it) ELSE 0) + size
                    + (IF absorbs THEN size_of(h, f) ELSE 0)
      /\ m.lost = (IF absorbs THEN {f} ELSE {})
    BY DEF Merge
<1>7. /\ joins <=> it # NONE /\ it + size_of(h, it) = b
      /\ absorbs <=> b + size = f /\ f # h.end
    BY DEF JoinsBefore, Absorbs
<1> HIDE DEF m, joins, absorbs
<1>8. joins => it \in F /\ size_of(h, it) > 0
    <2>1. joins => it \in F /\ it < b /\ it + size_of(h, it) = b
        BY <1>4, <1>7
    <2>2. \A a \in F : a \in Nat /\ size_of(h, a) \in Nat
        BY <1>2
    <2>3. QED
        BY <2>1, <2>2
<1>9. below = IF joins THEN {SpanAt(h, it)} ELSE {}
    <2>1. ASSUME NEW s \in Spans(h, F), Fit!End(s) = b
          PROVE  joins /\ s = SpanAt(h, it)
        <3> DEFINE a == s.at
        <3>1. /\ a \in F /\ size_of(h, a) > 0 /\ s = SpanAt(h, a)
              /\ a + size_of(h, a) = b /\ Reach(h, a) = b
            BY <2>1, SpanFacts
        <3> HIDE DEF a
        <3>2. a \in Nat /\ a < b
            BY <1>2, <3>1
        <3>3. it # NONE
            <4>1. SUFFICES ASSUME it = NONE PROVE FALSE
                OBVIOUS
            <4>2. f = h.start_next
                BY <1>1, <1>2, <4>1 DEF Leads
            <4>3. f <= a
                BY <3>1, <4>2 DEF FreeList, Linked
            <4>4. QED
                BY <1>1, <1>2, <3>1, <3>2, <4>3
        <3>4. it \in F /\ it < b /\ it \in Nat
            BY <1>2, <1>4, <3>3
        <3>5. ~ (it < a)
            <4>1. next_of(h, it) = f /\ it \in F \ {h.end}
                BY <1>1, <3>3 DEF Leads
            <4>2. a <= it \/ f <= a
                BY <3>1, <4>1 DEF FreeList, Linked
            <4>3. QED
                BY <1>1, <1>2, <3>1, <3>2, <3>4, <4>2
        <3>6. ~ (a < it)
            BY <1>2, <3>1, <3>2, <3>4
        <3>7. a = it
            BY <3>2, <3>4, <3>5, <3>6
        <3>8. QED
            BY <1>7, <3>1, <3>3, <3>7
    <2>2. ASSUME joins
          PROVE  SpanAt(h, it) \in Spans(h, F) /\ Fit!End(SpanAt(h, it)) = b
        <3>1. SpanAt(h, it) \in Spans(h, F)
            BY <1>8, <2>2, SpanFacts
        <3>2. Fit!End(SpanAt(h, it)) = it + size_of(h, it)
            BY DEF Fit!End, SpanAt
        <3>3. QED
            BY <1>7, <2>2, <3>1, <3>2
    <2>3. QED
        BY <2>1, <2>2
<1>10. above = IF absorbs /\ size_of(h, f) > 0 THEN {SpanAt(h, f)} ELSE {}
    <2>1. ASSUME NEW s \in Spans(h, F), b + size = s.at
          PROVE  absorbs /\ size_of(h, f) > 0 /\ s = SpanAt(h, f)
        <3>1. s.at \in F /\ size_of(h, s.at) > 0 /\ s = SpanAt(h, s.at)
            BY SpanFacts
        <3>2. s.at = f
            BY <1>1, <1>2, <1>3, <1>5, <2>1, <3>1
        <3>3. f # h.end
            <4>1. header_of(h, h.end).size = 0
                BY DEF FreeList, Laid
            <4>2. size_of(h, h.end) = 0
                BY <1>2, <4>1, FreeNodes
            <4>3. QED
                BY <3>1, <3>2, <4>2
        <3>4. QED
            BY <1>7, <2>1, <3>1, <3>2, <3>3
    <2>2. ASSUME absorbs, size_of(h, f) > 0
          PROVE  SpanAt(h, f) \in Spans(h, F) /\ SpanAt(h, f).at = b + size
        <3>1. SpanAt(h, f) \in Spans(h, F)
            BY <1>1, <2>2, SpanFacts
        <3>2. QED
            BY <1>7, <2>2, <3>1 DEF SpanAt
    <2>3. QED
        BY <2>1, <2>2
<1>11. m.size \in Nat /\ m.size > 0 /\ m.at \in Nat
    <2>1. joins => size_of(h, it) \in Nat /\ it \in Nat
        BY <1>2, <1>8
    <2>2. size_of(h, f) \in Nat
        BY <1>1, <1>2
    <2>3. QED
        BY <1>6, <2>1, <2>2
<1> HIDE DEF below, above
<1> DEFINE D == m.lost
           E == {m.at}
           kept == {SpanAt(h, a) : a \in {x \in F \ (D \cup E) : size_of(h, x) > 0}}
<1>12. Spans(h2, (F \ D) \cup E) = kept \cup {SpanAt(h2, a) : a \in {x \in E : size_of(h2, x) > 0}}
    <2>1. \A a \in F \ (D \cup E) : size_of(h2, a) = size_of(h, a)
        BY <1>1
    <2> HIDE DEF D, E
    <2>2. Spans(h2, (F \ D) \cup E) =
                {SpanAt(h, a) : a \in {x \in F \ (D \cup E) : size_of(h, x) > 0}}
                \cup {SpanAt(h2, a) : a \in {x \in E : size_of(h2, x) > 0}}
        BY <2>1, SpansChange
    <2>3. QED
        BY <2>2
<1>13. {SpanAt(h2, a) : a \in {x \in E : size_of(h2, x) > 0}} = {[at |-> m.at, size |-> m.size]}
    BY <1>1, <1>11 DEF SpanAt
<1>14. kept = Spans(h, F) \ (below \cup above)
    <2>1. ASSUME NEW a \in F, size_of(h, a) > 0
          PROVE  SpanAt(h, a) \in below \cup above <=> a \in D \cup E
        <3>1. \A x : SpanAt(h, a) = SpanAt(h, x) <=> a = x
            BY DEF SpanAt
        <3>2. SpanAt(h, a) \in below <=> joins /\ a = it
            BY <1>9, <3>1
        <3>3. SpanAt(h, a) \in above <=> absorbs /\ a = f
            BY <1>10, <2>1, <3>1
        <3>4. a \in D <=> absorbs /\ a = f
            BY <1>6
        <3>5. a \in E <=> joins /\ a = it
            BY <1>5, <1>6
        <3>6. QED
            BY <3>2, <3>3, <3>4, <3>5
    <2> HIDE DEF D, E
    <2>2. QED
        BY <2>1 DEF Spans
<1> HIDE DEF kept
<1>15. Spans(h2, G) = (Spans(h, F) \ (below \cup above)) \cup {[at |-> m.at, size |-> m.size]}
    BY <1>12, <1>13, <1>14
<1>16. QED
    BY <1>9, <1>10, <1>11, <1>15 DEF FreeFits, m, G, below, above, joins, absorbs

-----------------------------------------------------------------------------
(* The calls.                                                              *)

\* Whether the heap is laid out is whether it has an arena.
ArenaInv == heap.initialised <=> arena # {}

\* FirstFit's variables, unchanged.
LEMMA FitStutters ==
    ASSUME arena' = arena, SpansOf(heap') = SpansOf(heap),
           LiveIn(heap', held') = LiveIn(heap, held),
           heap'.allocations = heap.allocations, heap'.free_bytes = heap.free_bytes,
           heap'.minimum_ever_free = heap.minimum_ever_free
    PROVE  UNCHANGED Fit!vars
BY Mapping DEF Fit!vars

\* A heap just laid out over a table has one free span per region.
LEMMA TableSpans ==
    ASSUME NEW t \in Seq([start : Nat, size : Nat]), Orderly(t, Len(t)), t # <<>>,
           NEW h, LaidOut(h, t, Len(t))
    PROVE  LET L == {RegionSpan(t[i]) : i \in DOMAIN t}
           IN  /\ Spans(h, Nodes(t, Len(t))) = L
               /\ Fit!Cells(L) = Bytes(t, Len(t))
               /\ L # {}
<1> DEFINE n == Len(t)
           L == {RegionSpan(t[i]) : i \in DOMAIN t}
<1>1. /\ n \in Nat /\ DOMAIN t = 1..n
      /\ \A i \in 1..n :
            /\ RegionStart(t[i]) \in Nat /\ RegionEnd(t[i]) \in Nat
            /\ RegionStart(t[i]) < RegionEnd(t[i])
    BY TableRegions
<1>2. 1 \in 1..n
    BY <1>1
<1>3. \A i \in 1..n :
        /\ size_of(h, RegionStart(t[i])) = RegionEnd(t[i]) - RegionStart(t[i])
        /\ size_of(h, RegionEnd(t[i])) = 0
    BY DEF LaidOut
<1> HIDE DEF n
<1>4. Spans(h, Nodes(t, n)) = L
    <2>1. ASSUME NEW i \in 1..n
          PROVE  /\ size_of(h, RegionStart(t[i])) > 0
                 /\ ~ (size_of(h, RegionEnd(t[i])) > 0)
                 /\ SpanAt(h, RegionStart(t[i])) = RegionSpan(t[i])
        <3>1. size_of(h, RegionStart(t[i])) > 0 /\ ~ (size_of(h, RegionEnd(t[i])) > 0)
            BY <1>1, <1>3
        <3>2. SpanAt(h, RegionStart(t[i])) = RegionSpan(t[i])
            BY <1>3 DEF SpanAt, RegionSpan
        <3>3. QED
            BY <3>1, <3>2
    <2>2. ASSUME NEW s \in L
          PROVE  s \in Spans(h, Nodes(t, n))
        <3>1. PICK i \in 1..n : s = RegionSpan(t[i])
            BY <1>1
        <3>2. RegionStart(t[i]) \in Nodes(t, n)
            BY DEF Nodes
        <3>3. QED
            BY <2>1, <3>1, <3>2 DEF Spans
    <2>3. ASSUME NEW s \in Spans(h, Nodes(t, n))
          PROVE  s \in L
        <3>1. PICK a \in Nodes(t, n) : size_of(h, a) > 0 /\ s = SpanAt(h, a)
            BY DEF Spans
        <3>2. PICK i \in 1..n : a = RegionStart(t[i]) \/ a = RegionEnd(t[i])
            BY <3>1 DEF Nodes
        <3>3. s = RegionSpan(t[i])
            BY <2>1, <3>1, <3>2
        <3>4. QED
            BY <1>1, <3>3
    <2> HIDE DEF L
    <2>4. QED
        BY <2>2, <2>3
<1>5. Fit!Cells(L) = Bytes(t, n)
    <2>1. \A i \in 1..n : RegionSpan(t[i]).at..Fit!End(RegionSpan(t[i])) - 1 = BytesOf(t[i])
        <3>1. ASSUME NEW i \in 1..n
              PROVE  RegionSpan(t[i]).at..Fit!End(RegionSpan(t[i])) - 1 = BytesOf(t[i])
            <4>1. /\ RegionSpan(t[i]).at = RegionStart(t[i])
                  /\ Fit!End(RegionSpan(t[i])) = RegionEnd(t[i])
                BY <1>1 DEF RegionSpan, Fit!End
            <4>2. QED
                BY <4>1 DEF BytesOf
        <3>2. QED
            BY <3>1
    <2> DEFINE A == {s.at..Fit!End(s) - 1 : s \in L}
               B == {BytesOf(t[i]) : i \in 1..n}
    <2>2. A = B
        BY <1>1, <2>1
    <2>3. Fit!Cells(L) = UNION A /\ Bytes(t, n) = UNION B
        BY DEF Fit!Cells, Bytes
    <2>4. QED
        BY <2>2, <2>3
<1>6. L # {}
    BY <1>1, <1>2
<1>7. QED
    BY <1>4, <1>5, <1>6 DEF n

\* A heap just laid out over the whole arena has one free span.
LEMMA WholeSpans ==
    ASSUME N >= 2 * STRUCT_SIZE, NEW h, Fresh(h)
    PROVE  LET h2 == init(h)
               F == {0, init(New).end}
           IN  /\ Spans(h2, F) = WholeArena
               /\ h2.free_bytes = Cardinality(Fit!Cells(WholeArena))
               /\ h2.minimum_ever_free = h2.free_bytes
               /\ h2.allocations = h.allocations
               /\ WholeArena # {}
<1> DEFINE h2 == init(h)
           end == init(New).end
           s == [at |-> 0, size |-> end]
<1>1. h \in HeapType /\ ~ h.initialised
    BY DEF Fresh
<1>2. /\ end \in Nat /\ end > 0
      /\ h2 = [h EXCEPT !.store = h2.store, !.start_next = h2.start_next, !.end = end,
                        !.initialised = TRUE, !.free_bytes = end,
                        !.minimum_ever_free = end]
      /\ size_of(h2, 0) = end /\ size_of(h2, end) = 0
    BY <1>1, InitOutcome, WholeArenaIs
<1>3. WholeArena = {s}
    BY DEF WholeArena
<1> HIDE DEF h2, end
<1>4. h2.free_bytes = end /\ h2.minimum_ever_free = end /\ h2.allocations = h.allocations
    BY <1>1, <1>2 DEF HeapType
<1>5. Spans(h2, {0, end}) = {s}
    BY <1>2 DEF Spans, SpanAt
<1>6. Cardinality(Fit!Cells({s})) = end
    <2>1. s.at = 0 /\ Fit!End(s) = end
        BY <1>2 DEF Fit!End
    <2> HIDE DEF s
    <2>2. Fit!Cells({s}) = 0..end - 1
        BY <2>1 DEF Fit!Cells
    <2>3. 0 \in Int /\ end - 1 \in Int /\ ~ (0 > end - 1) /\ (end - 1) - 0 + 1 = end
        BY <1>2
    <2>4. QED
        BY <2>2, <2>3, FS_Interval
<1>7. QED
    BY <1>3, <1>4, <1>5, <1>6 DEF h2, end

LEMMA DefineFits ==
    ASSUME ArenaSuits, HeapInv, ArenaInv, NEW table \in Tables, DefineRegions(table)
    PROVE  (Fit!Next \/ UNCHANGED Fit!vars) /\ ArenaInv'
<1> DEFINE lay == LayTable(heap, table)
           n == Len(table)
           L == {RegionSpan(table[i]) : i \in DOMAIN table}
<1>1. /\ Fresh(heap) /\ held = {} /\ stale = {} /\ table # <<>> /\ ~ heap.initialised
      /\ arena = {}
    BY DEF HeapInv, DefineRegions, ArenaInv
<1>2. held' = {} /\ stale' = {}
    BY <1>1 DEF DefineRegions
<1>3. /\ lay.refused => heap' = lay.heap /\ arena' = arena
      /\ ~ lay.refused => heap' = JustLaid(lay) /\ arena' = L
    BY DEF DefineRegions, JustLaid
<1>4. /\ lay.refused => Fresh(lay.heap)
      /\ ~ lay.refused =>
            /\ Orderly(table, n)
            /\ Sound(JustLaid(lay), Nodes(table, n), {}, {})
            /\ LaidOut(lay.heap, table, n)
            /\ lay.total = Cardinality(Bytes(table, n))
    BY <1>1, TableSound
<1>5. lay.heap \in HeapType /\ lay.heap.allocations = heap.allocations
    <2>1. table \in Seq([start : Nat, size : Nat]) /\ heap \in HeapType
        BY <1>1, CallersAssumption DEF Fresh
    <2>2. LayKept(lay, heap)
        BY <2>1, TableOutcome DEF LaySound
    <2> HIDE DEF lay
    <2>3. QED
        BY <2>1, <2>2 DEF LayKept, HeapType
<1>6. LiveIn(heap', held') = LiveIn(heap, held)
    BY <1>1, <1>2 DEF LiveIn
<1> HIDE DEF lay
<1>7. CASE lay.refused
    <2>1. Fresh(heap') /\ ~ heap'.initialised
        BY <1>3, <1>4, <1>7 DEF Fresh
    <2>2. /\ heap'.allocations = heap.allocations /\ heap'.free_bytes = heap.free_bytes
          /\ heap'.minimum_ever_free = heap.minimum_ever_free
        BY <1>1, <2>1 DEF Fresh
    <2>3. SpansOf(heap') = SpansOf(heap)
        BY <1>1, <2>1 DEF SpansOf
    <2>4. UNCHANGED Fit!vars
        BY <1>3, <1>6, <1>7, <2>2, <2>3, FitStutters
    <2>5. QED
        BY <1>1, <1>3, <1>7, <2>1, <2>4 DEF ArenaInv
<1>8. CASE ~ lay.refused
    <2>1. heap' = JustLaid(lay) /\ arena' = L
        BY <1>3, <1>8
    <2>2. /\ heap' \in HeapType /\ heap'.store = lay.heap.store /\ heap'.initialised
          /\ heap'.start_next = lay.heap.start_next /\ heap'.end = lay.heap.end
          /\ heap'.free_bytes = lay.total /\ heap'.minimum_ever_free = lay.total
          /\ heap'.allocations = lay.heap.allocations
        <3>1. FreeList(JustLaid(lay), Nodes(table, n))
            BY <1>4, <1>8 DEF Sound
        <3>2. QED
            BY <1>5, <2>1, <3>1 DEF JustLaid, HeapType, FreeList
    <2>3. table \in Seq([start : Nat, size : Nat])
        BY CallersAssumption
    <2>4. /\ Spans(lay.heap, Nodes(table, n)) = L /\ Fit!Cells(L) = Bytes(table, n)
          /\ L # {}
        BY <1>1, <1>4, <1>8, <2>3, TableSpans
    <2>5. FreeList(heap', Nodes(table, n))
        BY <1>4, <1>8, <2>1 DEF Sound
    <2>6. \A a : header_of(heap', a) = header_of(lay.heap, a)
        BY <2>2 DEF header_of
    <2>7. Spans(heap', Nodes(table, n)) = Spans(lay.heap, Nodes(table, n))
        BY <2>6 DEF Spans, SpanAt, size_of
    <2>8. SpansOf(heap') = L
        BY <2>2, <2>4, <2>5, <2>7, SpansListed
    <2>9. L \in LayoutsHere
        <3>1. Accepted(New, table)
            BY <1>1, <1>4, <1>8, AcceptedIsOrderly
        <3>2. QED
            BY <3>1 DEF LayoutsHere
    <2> HIDE DEF L
    <2>10. heap'.free_bytes = Fit!Cardinality(Fit!Cells(L))
        BY <1>4, <1>8, <2>2, <2>4, OneCardinality
    <2>11. Fit!LayOut(L)
        BY <1>1, <1>5, <1>6, <2>1, <2>2, <2>8, <2>10, Mapping DEF Fit!LayOut
    <2>12. Fit!Next
        BY <2>9, <2>11 DEF Fit!Next
    <2>13. QED
        BY <2>1, <2>2, <2>4, <2>12 DEF ArenaInv
<1>9. QED
    BY <1>7, <1>8

\* What alloc works on: laid out, with its counters true.
ReadyFor(h, F) ==
    /\ Sound(h, F, held, stale)
    /\ h.initialised /\ h.allocations = heap.allocations
    /\ h.free_bytes = Fit!Cardinality(Fit!Cells(Spans(h, F)))
    /\ LiveIn(h, held) = LiveIn(heap, held)
    /\ heap.initialised => h = heap /\ Spans(h, F) = FreeSpans
    /\ ~ heap.initialised =>
            /\ Spans(h, F) = WholeArena /\ WholeArena # {} /\ held = {}
            /\ h.minimum_ever_free = h.free_bytes

LEMMA ReadyFits ==
    ASSUME ArenaSuits, HeapInv, Fit!FitInv
    PROVE  \E F : ReadyFor(init(heap), F)
<1> DEFINE h == init(heap)
<1>1. N >= 2 * STRUCT_SIZE
    BY DEF ArenaSuits
<1>2. CASE heap.initialised
    <2>1. h = heap
        BY <1>2 DEF init
    <2>2. PICK F : Sound(heap, F, held, stale)
        BY <1>2 DEF HeapInv
    <2>3. FreeSpans = Spans(heap, F)
        BY <1>2, <2>2, Mapping, SpansListed DEF Sound
    <2>4. heap.free_bytes = Fit!Cardinality(Fit!Cells(FreeSpans))
        BY DEF Fit!FitInv, Fit!Counted
    <2> HIDE DEF h
    <2>5. ReadyFor(h, F)
        BY <1>2, <2>1, <2>2, <2>3, <2>4 DEF ReadyFor
    <2>6. QED
        BY <2>5 DEF h
<1>3. CASE ~ heap.initialised
    <2> DEFINE F == {0, init(New).end}
    <2>1. Fresh(heap) /\ held = {} /\ stale = {}
        BY <1>3 DEF HeapInv
    <2>2. Sound(h, F, {}, {})
        BY <1>1, <2>1, InitSound
    <2>3. /\ Spans(h, F) = WholeArena
          /\ h.free_bytes = Cardinality(Fit!Cells(WholeArena))
          /\ h.minimum_ever_free = h.free_bytes
          /\ h.allocations = heap.allocations
          /\ WholeArena # {}
        BY <1>1, <2>1, WholeSpans
    <2> HIDE DEF h, F
    <2>4. h.initialised
        BY <2>2 DEF Sound
    <2>5. LiveIn(h, held) = LiveIn(heap, held)
        BY <2>1 DEF LiveIn
    <2>6. ReadyFor(h, F)
        BY <1>3, <2>1, <2>2, <2>3, <2>4, <2>5, OneCardinality DEF ReadyFor
    <2>7. QED
        BY <2>6 DEF h
<1>4. QED
    BY <1>2, <1>3

LEMMA AllocIsGrant ==
    ASSUME ArenaSuits, HeapInv, ArenaInv, Fit!FitInv, NEW wanted \in Wanted, Alloc(wanted)
    PROVE  Fit!Next /\ ArenaInv'
<1> DEFINE h == init(heap)
           size == BlockSize(wanted)
           c == Search(h, size).chosen
           h2 == Hand(Carve(h, Search(h, size), size), c)
           g == [block |-> BlockAt(h, c), issued |-> h.allocations + 1,
                 wanted |-> wanted, fill |-> NotFilled]
           s == SpanAt(h, c)
           taken == Fit!Taken(s, size)
<1>1. N >= 2 * STRUCT_SIZE /\ N <= U32_MAX
    BY DEF ArenaSuits
<1>2. PICK F : ReadyFor(h, F)
    BY ReadyFits
<1>3. Sound(h, F, held, stale) /\ h.allocations = heap.allocations
    BY <1>2 DEF ReadyFor
<1> HIDE DEF h
<1>4. /\ h.allocations < MaxAllocs /\ Servable(wanted) /\ Grants(h, size)
      /\ heap' = h2 /\ held' = held \cup {g} /\ stale' = stale
      /\ arena' = IF heap.initialised THEN arena ELSE WholeArena
    BY <1>3 DEF Alloc, h
<1>5. AllocDone(h, F, size, c, h2) /\ GrantKept(h, F, held, stale, size, c, h2, g)
    <2> HIDE DEF size, c, h2, g
    <2>1. /\ size = BlockSize(wanted) /\ c = Search(h, size).chosen
          /\ h2 = Hand(Carve(h, Search(h, size), size), c)
          /\ g = [block |-> BlockAt(h, c), issued |-> h.allocations + 1,
                  wanted |-> wanted, fill |-> NotFilled]
        BY DEF size, c, h2, g
    <2>2. QED
        BY <1>1, <1>3, <1>4, <2>1, AllocSound
<1>6. size \in SizesHere
    BY <1>4 DEF SizesHere
<1>7. size \in Nat /\ size > 0
    <2> HIDE DEF size
    <2>1. SizesHere \subseteq Nat \ {0}
        BY FitAssumed DEF FitAssumptions
    <2>2. QED
        BY <1>6, <2>1
<1>8. g.wanted = wanted /\ g.issued = heap.allocations + 1 /\ BlockSize(wanted) = size
    BY <1>3
<1> HIDE DEF size, c, h2, g
<1>9. FreeList(h, F)
    BY <1>3 DEF Sound
<1>10. AllocFits(h, F, size, c, h2)
    BY <1>5, <1>7, <1>9, AllocSpans
<1>11. PICK G : /\ Sound(h2, G, held \cup {g}, stale)
                /\ Spans(h2, G) = (Spans(h, F) \ {s}) \cup Fit!Remainder(s, size)
    BY <1>5, <1>10 DEF GrantKept, AllocFits
<1>12. /\ Fit!FirstFitting(Spans(h, F), s, size) /\ s \in Spans(h, F)
       /\ size_of(h2, c) = taken /\ taken \in Nat /\ taken <= s.size
    <2>1. /\ Fit!FirstFitting(Spans(h, F), s, size)
          /\ size_of(h2, c) = taken /\ taken \in Nat /\ taken <= s.size
        <3>1. size_of(h2, c) = taken /\ size_of(h2, c) \in Nat /\ size_of(h2, c) <= s.size
            BY <1>10 DEF AllocFits, s, taken
        <3> HIDE DEF taken
        <3>2. QED
            BY <1>10, <3>1 DEF AllocFits, s
    <2>2. QED
        BY <2>1 DEF Fit!FirstFitting
<1> HIDE DEF s, taken
<1>13. FreeSpans' = (Spans(h, F) \ {s}) \cup Fit!Remainder(s, size)
    <2>1. FreeList(h2, G) /\ h2.initialised
        BY <1>11 DEF Sound
    <2>2. SpansOf(h2) = Spans(h2, G)
        BY <2>1, SpansListed
    <2>3. QED
        BY <1>4, <1>11, <2>2, Mapping
<1>14. LiveIn(heap', held') = LiveIn(heap, held)
            \cup {[at |-> s.at, size |-> taken, need |-> size, id |-> heap.allocations + 1]}
    <2>1. \A k \in held : GrantIn(h2, k) = GrantIn(h, k)
        BY <1>5 DEF GrantKept, GrantIn
    <2>2. GrantIn(h2, g) = [at |-> s.at, size |-> taken, need |-> size,
                            id |-> heap.allocations + 1]
        <3>1. At(g) = c /\ s.at = c
            BY <1>5 DEF GrantKept, s, SpanAt
        <3>2. QED
            BY <1>8, <1>12, <3>1 DEF GrantIn
    <2>3. LiveIn(h2, held \cup {g}) = LiveIn(h, held) \cup {GrantIn(h2, g)}
        BY <2>1 DEF LiveIn
    <2>4. QED
        BY <1>2, <1>4, <2>2, <2>3 DEF ReadyFor
<1>15. /\ heap'.free_bytes = h.free_bytes - taken
       /\ heap'.minimum_ever_free =
            IF heap'.free_bytes < h.minimum_ever_free THEN heap'.free_bytes
            ELSE h.minimum_ever_free
       /\ heap'.allocations = heap.allocations + 1
    <2>1. h.free_bytes \in 0..N /\ s.size <= h.free_bytes
        <3>1. h.free_bytes = Fit!Cardinality(Fit!Cells(Spans(h, F)))
            BY <1>2 DEF ReadyFor
        <3>2. QED
            BY <1>9, <1>12, <3>1, SpanRoom
    <2>2. N \in Nat /\ USIZE_MAX \in Nat /\ 2 * N <= USIZE_MAX
        BY Geometry
    <2>3. s.size \in Nat
        BY <1>9, <1>12, SpanFacts DEF Fit!Span
    <2>4. /\ h.free_bytes - taken \in 0..USIZE_MAX
        BY <1>12, <2>1, <2>2, <2>3
    <2>5. (h.free_bytes - taken) % (USIZE_MAX + 1) = h.free_bytes - taken
        BY <2>2, <2>4
    <2>6. /\ h2.free_bytes = (h.free_bytes - taken) % (USIZE_MAX + 1)
          /\ h2.minimum_ever_free =
                IF h2.free_bytes < h.minimum_ever_free THEN h2.free_bytes
                ELSE h.minimum_ever_free
          /\ h2.allocations = h.allocations + 1
        BY <1>10, <1>12 DEF AllocFits
    <2>7. QED
        BY <1>3, <1>4, <2>5, <2>6
<1>16. Fit!GrantFrom(Spans(h, F), arena', h.free_bytes, h.minimum_ever_free, size)
    <2>1. heap.allocations < MaxAllocs
        BY <1>3, <1>4
    <2>2. {GrantOf(k) : k \in held}' = {GrantOf(k) : k \in held} \cup
            {[at |-> s.at, size |-> taken, need |-> size, id |-> Fit!NextId]}
        BY <1>14, Mapping DEF Fit!NextId
    <2>3. QED
        BY <1>12, <1>13, <1>15, <2>1, <2>2 DEF Fit!GrantFrom, taken
<1>17. CASE heap.initialised
    <2>1. h = heap /\ Spans(h, F) = FreeSpans /\ arena' = arena /\ arena # {}
        BY <1>2, <1>4, <1>17 DEF ReadyFor, ArenaInv
    <2>2. Fit!Alloc(size)
        BY <1>16, <2>1 DEF Fit!Alloc
    <2>3. heap'.initialised
        BY <1>4, <1>11 DEF Sound
    <2>4. QED
        BY <1>6, <2>1, <2>2, <2>3 DEF Fit!Next, ArenaInv
<1>18. CASE ~ heap.initialised
    <2>1. /\ Spans(h, F) = WholeArena /\ arena' = WholeArena /\ arena = {} /\ WholeArena # {}
          /\ h.minimum_ever_free = h.free_bytes
          /\ h.free_bytes = Fit!Cardinality(Fit!Cells(Spans(h, F)))
        BY <1>2, <1>4, <1>18 DEF ReadyFor, ArenaInv
    <2>2. Fit!FirstAlloc(size)
        BY <1>16, <2>1 DEF Fit!FirstAlloc
    <2>3. heap'.initialised
        BY <1>4, <1>11 DEF Sound
    <2>4. QED
        BY <1>6, <2>1, <2>2, <2>3 DEF Fit!Next, ArenaInv
<1>19. QED
    BY <1>17, <1>18

\* A request there is no room for lays the arena out, if nobody had.
LEMMA NoRoomFits ==
    ASSUME ArenaSuits, HeapInv, ArenaInv, NEW wanted, AllocNoRoom(wanted)
    PROVE  (Fit!Next \/ UNCHANGED Fit!vars) /\ ArenaInv'
<1>1. /\ heap' = init(heap) /\ held' = held
      /\ arena' = IF heap.initialised THEN arena ELSE WholeArena
    BY DEF AllocNoRoom
<1>2. CASE heap.initialised
    <2>1. heap' = heap /\ arena' = arena
        BY <1>1, <1>2 DEF init
    <2>2. UNCHANGED Fit!vars
        BY <1>1, <2>1, FitStutters
    <2>3. QED
        BY <2>1, <2>2 DEF ArenaInv
<1>3. CASE ~ heap.initialised
    <2> DEFINE F == {0, init(New).end}
    <2>1. Fresh(heap) /\ held = {} /\ stale = {} /\ arena = {} /\ N >= 2 * STRUCT_SIZE
        BY <1>3 DEF HeapInv, ArenaInv, ArenaSuits
    <2>2. Sound(heap', F, {}, {})
        BY <1>1, <2>1, InitSound
    <2>3. /\ Spans(heap', F) = WholeArena
          /\ heap'.free_bytes = Cardinality(Fit!Cells(WholeArena))
          /\ heap'.minimum_ever_free = heap'.free_bytes
          /\ heap'.allocations = heap.allocations
          /\ WholeArena # {}
        BY <1>1, <2>1, WholeSpans
    <2> HIDE DEF F
    <2>4. heap'.initialised /\ FreeList(heap', F)
        BY <2>2 DEF Sound
    <2>5. SpansOf(heap') = WholeArena
        BY <2>3, <2>4, SpansListed
    <2>6. LiveIn(heap', held') = LiveIn(heap, held)
        BY <1>1, <2>1 DEF LiveIn
    <2>7. heap'.free_bytes = Fit!Cardinality(Fit!Cells(WholeArena))
        BY <2>3, OneCardinality
    <2>8. Fit!LayOut(WholeArena)
        BY <1>1, <1>3, <2>1, <2>3, <2>5, <2>6, <2>7, Mapping DEF Fit!LayOut
    <2>9. Fit!Next
        BY <2>8 DEF Fit!Next
    <2>10. QED
        BY <1>1, <1>3, <2>3, <2>4, <2>9 DEF ArenaInv
<1>4. QED
    BY <1>2, <1>3

\* A payload is no span's.
LEMMA WriteFits ==
    ASSUME HeapInv, ArenaInv, NEW g \in held, NEW word \in Fill, Write(g, word)
    PROVE  UNCHANGED Fit!vars /\ ArenaInv'
<1>1. heap.initialised
    BY DEF HeapInv
<1>2. PICK F : Sound(heap, F, held, stale)
    BY <1>1 DEF HeapInv
<1> DEFINE g2 == [g EXCEPT !.fill = word]
<1>3. /\ heap' = [heap EXCEPT !.store =
                    [w \in DOMAIN @ |-> IF w \in PayloadWords(g) THEN word ELSE @[w]]]
      /\ g.fill = NotFilled
      /\ held' = (held \ {g}) \cup {g2} /\ arena' = arena
    BY PayloadIs DEF Write
<1>4. /\ Sound(heap', F, held', stale)
      /\ \A a \in F : header_of(heap', a) = header_of(heap, a)
      /\ \A k \in held : header_of(heap', At(k)) = header_of(heap, At(k))
    <2>1. ASSUME NEW h2, h2 = heap'
          PROVE  /\ Sound(h2, F, (held \ {g}) \cup {g2}, stale)
                 /\ \A a \in F : header_of(h2, a) = header_of(heap, a)
                 /\ \A k \in held : header_of(h2, At(k)) = header_of(heap, At(k))
        <3>1. h2 = [heap EXCEPT !.store =
                    [w \in DOMAIN @ |-> IF w \in PayloadWords(g) THEN word ELSE @[w]]]
            BY <1>3, <2>1
        <3>2. g.fill = NotFilled
            BY <1>3
        <3>3. WriteKept(heap, F, held, stale, g, word, h2)
            BY <1>2, <3>1, <3>2, WriteKeeps
        <3>4. QED
            BY <3>3 DEF WriteKept
    <2> HIDE DEF g2
    <2>2. QED
        BY <1>3, <2>1
<1>5. /\ heap'.allocations = heap.allocations /\ heap'.free_bytes = heap.free_bytes
      /\ heap'.minimum_ever_free = heap.minimum_ever_free
    BY <1>3, HeapTyped DEF HeapType
<1>6. FreeList(heap, F) /\ FreeList(heap', F) /\ heap'.initialised
    BY <1>2, <1>4 DEF Sound
<1>7. SpansOf(heap') = SpansOf(heap)
    <2>1. Spans(heap', F) = Spans(heap, F)
        BY <1>4 DEF Spans, SpanAt, size_of
    <2>2. QED
        BY <1>1, <1>6, <2>1, SpansListed
<1>8. LiveIn(heap', held') = LiveIn(heap, held)
    <2>1. \A k \in held : GrantIn(heap', k) = GrantIn(heap, k)
        BY <1>4 DEF GrantIn, size_of
    <2>2. g \in GrantType
        BY <1>2 DEF Sound, Lives
    <2>3. g2.block = g.block /\ g2.wanted = g.wanted /\ g2.issued = g.issued
        BY <2>2 DEF GrantType
    <2>4. GrantIn(heap', g2) = GrantIn(heap', g)
        BY <2>3 DEF GrantIn, At
    <2> HIDE DEF g2
    <2>5. QED
        BY <1>3, <2>1, <2>4 DEF LiveIn
<1>9. UNCHANGED Fit!vars
    BY <1>3, <1>5, <1>7, <1>8, FitStutters
<1>10. QED
    BY <1>1, <1>3, <1>6, <1>9 DEF ArenaInv

\* The merged block is FirstFit's.
LEMMA MergedIs ==
    ASSUME NEW F, FreeList(heap, F), FreeSpans = Spans(heap, F),
           NEW gr, gr.at \in Nat, gr.size \in Nat, NEW it, NEW f, NEW h2,
           f \in F, it # NONE => it \in F,
           FreeFits(heap, F, it, f, gr.at, gr.size, h2)
    PROVE  LET m == Merge(heap, it, f, gr.at, gr.size)
           IN  /\ Spans(h2, (F \ m.lost) \cup {m.at}) =
                    (FreeSpans \ (Fit!Before(gr) \cup Fit!After(gr))) \cup {Fit!Merged(gr)}
<1> DEFINE b == gr.at
           size == gr.size
           m == Merge(heap, it, f, b, size)
           G == (F \ m.lost) \cup {m.at}
           below == {s \in Spans(heap, F) : Fit!End(s) = b}
           above == {s \in Spans(heap, F) : b + size = s.at}
           joins == JoinsBefore(heap, it, b)
           absorbs == Absorbs(heap, b + size, f)
<1>1. Fit!Before(gr) = below /\ Fit!After(gr) = above /\ Fit!End(gr) = b + size
    BY DEF Fit!Before, Fit!After, Fit!Touches, Fit!End
<1>2. /\ below = IF joins THEN {SpanAt(heap, it)} ELSE {}
      /\ above = IF absorbs /\ size_of(heap, f) > 0 THEN {SpanAt(heap, f)} ELSE {}
      /\ Spans(h2, G) = (Spans(heap, F) \ (below \cup above)) \cup {[at |-> m.at, size |-> m.size]}
    BY DEF FreeFits
<1>3. /\ m.at = (IF joins THEN it ELSE b)
      /\ m.size = (IF joins THEN size_of(heap, it) ELSE 0) + size
                    + (IF absorbs THEN size_of(heap, f) ELSE 0)
    BY DEF Merge
<1>4. /\ joins => it # NONE /\ it + size_of(heap, it) = b
      /\ absorbs => b + size = f
    BY DEF JoinsBefore, Absorbs
<1>5. /\ f \in Nat /\ size_of(heap, f) \in Nat
      /\ joins => it \in Nat /\ size_of(heap, it) \in Nat
    BY <1>4, FreeNodes
<1> DEFINE lo == IF below = {} THEN b ELSE (CHOOSE s \in below : TRUE).at
           hi == IF above = {} THEN b + size ELSE Fit!End(CHOOSE s \in above : TRUE)
<1>6. Fit!Merged(gr) = [at |-> lo, size |-> hi - lo]
    BY <1>1 DEF Fit!Merged
<1> HIDE DEF m, joins, absorbs, below, above
<1>7. lo = m.at
    <2>1. CASE joins
        <3>1. below = {SpanAt(heap, it)}
            BY <1>2, <2>1
        <3>2. (CHOOSE s \in below : TRUE) = SpanAt(heap, it)
            BY <3>1
        <3>3. QED
            BY <1>3, <2>1, <3>1, <3>2 DEF SpanAt
    <2>2. CASE ~ joins
        BY <1>2, <1>3, <2>2
    <2>3. QED
        BY <2>1, <2>2
<1>8. hi = b + size + (IF absorbs THEN size_of(heap, f) ELSE 0)
    <2>1. CASE absorbs /\ size_of(heap, f) > 0
        <3>1. above = {SpanAt(heap, f)}
            BY <1>2, <2>1
        <3>2. (CHOOSE s \in above : TRUE) = SpanAt(heap, f)
            BY <3>1
        <3>3. Fit!End(SpanAt(heap, f)) = f + size_of(heap, f)
            BY DEF SpanAt, Fit!End
        <3>4. QED
            BY <1>4, <2>1, <3>1, <3>2, <3>3
    <2>2. CASE ~ (absorbs /\ size_of(heap, f) > 0)
        <3>1. above = {}
            BY <1>2, <2>2
        <3>2. absorbs => size_of(heap, f) = 0
            BY <1>5, <2>2
        <3>3. QED
            BY <3>1, <3>2
    <2>3. QED
        BY <2>1, <2>2
<1> HIDE DEF lo, hi
<1>9. hi - lo = m.size
    <2>1. lo = IF joins THEN it ELSE b
        BY <1>3, <1>7
    <2>2. QED
        BY <1>3, <1>4, <1>5, <1>8, <2>1
<1>10. QED
    BY <1>1, <1>2, <1>6, <1>7, <1>9 DEF m

LEMMA ReturnFits ==
    ASSUME ArenaSuits, HeapInv, ArenaInv, Fit!FitInv,
           NEW g \in held, heap' = free_at(heap, At(g)),
           held' = held \ {g}, arena' = arena
    PROVE  Fit!Next /\ ArenaInv'
<1> DEFINE b == At(g)
           size == size_of(heap, b)
           gr == GrantIn(heap, g)
<1>1. heap.initialised
    BY DEF HeapInv
<1>2. PICK F : Sound(heap, F, held, stale)
    BY <1>1 DEF HeapInv
<1>3. PICK it, f : /\ FreeDone(heap, F, b, size, it, f, heap')
                   /\ FreeKept(heap, F, held, stale, g, it, f, heap')
    BY <1>2, FreeSound
<1> DEFINE m == Merge(heap, it, f, b, size)
           G == (F \ m.lost) \cup {m.at}
           S == stale \cup {[block |-> g.block, issued |-> g.issued]}
<1>4. /\ FreeList(heap, F) /\ heap \in HeapType /\ Lives(heap, g)
      /\ \A a \in F : Beside(heap, g, a)
    BY <1>2 DEF Sound, FreeList
<1>5. /\ b \in Nat /\ size \in Nat /\ size > 0
      /\ \A a \in F : b + size <= a \/ Reach(heap, a) <= b
    <2>1. b \in Nat /\ Top(heap, g) = b + size
        BY <1>4, GrantPlace
    <2>2. STRUCT_SIZE \in Nat /\ STRUCT_SIZE > 0 /\ ALLOCATED_BIT \in Nat
        BY Geometry
    <2>3. size \in STRUCT_SIZE..ALLOCATED_BIT - 1
        BY <1>4 DEF Lives
    <2>4. \A a \in F : b + size <= a \/ Reach(heap, a) <= b
        BY <1>4, <2>1 DEF Beside
    <2> HIDE DEF b, size
    <2>5. QED
        BY <2>1, <2>2, <2>3, <2>4
<1>6. /\ Sound(heap', G, held', S)
      /\ \A k \in held' : size_of(heap', At(k)) = size_of(heap, At(k))
    BY <1>3 DEF FreeKept
<1>7. heap'.initialised /\ FreeList(heap', G)
    BY <1>6 DEF Sound
<1>8. gr.at = b /\ gr.size = size
    BY DEF GrantIn
<1> HIDE DEF b, size, m, S
<1>9. FreeFits(heap, F, it, f, b, size, heap')
    BY <1>3, <1>4, <1>5, FreeSpansChange
<1>10. FreeSpans = Spans(heap, F) /\ FreeSpans' = Spans(heap', G)
    BY <1>1, <1>4, <1>7, Mapping, SpansListed
<1>11. f \in F /\ (it # NONE => it \in F)
    BY <1>3 DEF FreeDone, Neighbours, Leads
<1> HIDE DEF gr
<1>12. FreeSpans' = (FreeSpans \ (Fit!Before(gr) \cup Fit!After(gr))) \cup {Fit!Merged(gr)}
    <2>1. FreeFits(heap, F, it, f, gr.at, gr.size, heap')
        BY <1>8, <1>9
    <2>2. Spans(heap', (F \ Merge(heap, it, f, gr.at, gr.size).lost)
                        \cup {Merge(heap, it, f, gr.at, gr.size).at}) =
            (FreeSpans \ (Fit!Before(gr) \cup Fit!After(gr))) \cup {Fit!Merged(gr)}
        BY <1>4, <1>5, <1>8, <1>10, <1>11, <2>1, MergedIs
    <2>3. QED
        BY <1>8, <1>10, <2>2 DEF m
<1>13. LiveIn(heap', held') = LiveIn(heap, held) \ {gr}
    <2>1. \A k \in held \ {g} : GrantIn(heap', k) = GrantIn(heap, k)
        BY <1>6 DEF GrantIn
    <2>2. \A k \in held \ {g} : GrantIn(heap, k) # gr
        <3>1. \A k \in held \ {g} : k.issued # g.issued
            BY <1>2 DEF Sound
        <3>2. QED
            BY <3>1 DEF GrantIn, gr
    <2>3. gr = GrantIn(heap, g)
        BY DEF gr
    <2>4. QED
        BY <2>1, <2>2, <2>3 DEF LiveIn
<1>14. /\ heap'.free_bytes = heap.free_bytes + size
       /\ heap'.minimum_ever_free = heap.minimum_ever_free
       /\ heap'.allocations = heap.allocations
    <2>1. /\ heap'.free_bytes = (heap.free_bytes + size) % (USIZE_MAX + 1)
          /\ heap'.minimum_ever_free = heap.minimum_ever_free
          /\ heap'.allocations = heap.allocations
        BY <1>3, <1>4 DEF FreeDone, HeapType
    <2>2. N \in Nat /\ USIZE_MAX \in Nat /\ 2 * N <= USIZE_MAX
        BY Geometry
    <2>3. heap.free_bytes \in 0..N
        <3>1. heap.free_bytes = Fit!Cardinality(Fit!Cells(Spans(heap, F)))
            BY <1>10 DEF Fit!FitInv, Fit!Counted
        <3>2. QED
            BY <1>4, <3>1, SpanRoom
    <2>4. size <= N
        <3>1. Top(heap, g) = b + size /\ Top(heap, g) <= heap.end
            BY <1>4, GrantPlace DEF b, size, Lives
        <3>2. heap.end \in Nat /\ heap.end + STRUCT_SIZE <= N /\ STRUCT_SIZE \in Nat
            BY <1>4, SpanFacts, Geometry
        <3>3. QED
            BY <1>5, <2>2, <3>1, <3>2
    <2>5. heap.free_bytes + size \in 0..USIZE_MAX
        BY <1>5, <2>2, <2>3, <2>4
    <2>6. (heap.free_bytes + size) % (USIZE_MAX + 1) = heap.free_bytes + size
        BY <2>2, <2>5
    <2>7. QED
        BY <2>1, <2>6
<1>15. Fit!Free(gr)
    BY <1>8, <1>12, <1>13, <1>14, Mapping DEF Fit!Free
<1>16. gr \in {GrantOf(k) : k \in held}
    BY Mapping DEF LiveIn, gr
<1>17. QED
    BY <1>1, <1>7, <1>15, <1>16 DEF Fit!Next, ArenaInv

\* Every step of Heap4 is a step of FirstFit, or nothing to it.
LEMMA StepFits ==
    ASSUME ArenaSuits, HeapInv, ArenaInv, Fit!FitInv, OnlyHeldAreTaken, [Next]_vars
    PROVE  [Fit!Next]_(Fit!vars) /\ ArenaInv'
<1> DEFINE Goal == (Fit!Next \/ UNCHANGED Fit!vars) /\ ArenaInv'
<1>1. ASSUME UNCHANGED vars
      PROVE  Goal
    <2>1. heap' = heap /\ held' = held /\ arena' = arena
        BY <1>1 DEF vars
    <2>2. UNCHANGED Fit!vars
        BY <2>1, FitStutters
    <2>3. QED
        BY <2>1, <2>2 DEF ArenaInv
<1>2. ASSUME NEW table \in Tables, DefineRegions(table) \/ DefineRegionsRefused(table)
      PROVE  Goal
    <2>1. CASE DefineRegions(table)
        BY <2>1, DefineFits
    <2>2. CASE DefineRegionsRefused(table)
        <3>1. UNCHANGED vars
            BY <2>2 DEF DefineRegionsRefused
        <3> HIDE DEF Goal
        <3>2. QED
            BY <1>1, <3>1
    <2>3. QED
        BY <1>2, <2>1, <2>2
<1>3. ASSUME NEW wanted \in Wanted,
             Alloc(wanted) \/ AllocUnservable(wanted) \/ AllocNoRoom(wanted)
      PROVE  Goal
    <2>1. CASE Alloc(wanted)
        BY <2>1, AllocIsGrant
    <2>2. CASE AllocUnservable(wanted)
        <3>1. UNCHANGED vars
            BY <2>2 DEF AllocUnservable
        <3> HIDE DEF Goal
        <3>2. QED
            BY <1>1, <3>1
    <2>3. CASE AllocNoRoom(wanted)
        BY <2>3, NoRoomFits
    <2>4. QED
        BY <1>3, <2>1, <2>2, <2>3
<1>4. ASSUME NEW block \in HeldBlocks \cup StaleBlocks, Free(block) \/ FreeRefused(block)
      PROVE  Goal
    <2>1. CASE Free(block)
        <3>1. block \in HeldBlocks
            BY <1>4, <2>1 DEF OnlyHeldAreTaken, Free
        <3>2. PICK g \in held : g.block = block
            BY <3>1 DEF HeldBlocks
        <3>3. heap' = free_at(heap, At(g)) /\ held' = held \ {g} /\ arena' = arena
            BY <2>1, <3>2, OneGrant DEF Free, At
        <3>4. QED
            BY <3>3, ReturnFits
    <2>2. CASE FreeRefused(block)
        <3>1. UNCHANGED vars
            BY <2>2 DEF FreeRefused
        <3> HIDE DEF Goal
        <3>2. QED
            BY <1>1, <3>1
    <2>3. QED
        BY <1>4, <2>1, <2>2
<1>5. ASSUME NEW offset \in HeldOffsets, FreeRaw(offset)
      PROVE  Goal
    <2>1. PICK g \in held : g.block.offset = offset
        BY DEF HeldOffsets, HeldBlocks
    <2>2. heap' = free_at(heap, At(g)) /\ held' = held \ {g} /\ arena' = arena
        BY <1>5, <2>1, OneGrant DEF FreeRaw, At
    <2>3. QED
        BY <2>2, ReturnFits
<1>6. ASSUME NEW offset \in RawOffsets, FreeRaw(offset) \/ FreeRawRefused(offset)
      PROVE  Goal
    <2>1. CASE FreeRaw(offset)
        <3>1. offset \in HeldOffsets
            BY <1>6, <2>1 DEF OnlyHeldAreTaken, FreeRaw
        <3> HIDE DEF Goal
        <3>2. QED
            BY <1>5, <2>1, <3>1
    <2>2. CASE FreeRawRefused(offset)
        <3>1. UNCHANGED vars
            BY <2>2 DEF FreeRawRefused
        <3> HIDE DEF Goal
        <3>2. QED
            BY <1>1, <3>1
    <2>3. QED
        BY <1>6, <2>1, <2>2
<1>7. ASSUME NEW pointer \in RawPointers, FreePointer(pointer) \/ FreePointerRefused(pointer)
      PROVE  Goal
    <2>1. CASE InThisArena(pointer) /\ FreeRaw(offset_of(pointer))
        <3>1. offset_of(pointer) \in HeldOffsets
            BY <1>7, <2>1 DEF OnlyHeldAreTaken, FreeRaw
        <3> HIDE DEF Goal
        <3>2. QED
            BY <1>5, <2>1, <3>1
    <2>2. CASE UNCHANGED vars
        <3> HIDE DEF Goal
        <3>1. QED
            BY <1>1, <2>2
    <2>3. (InThisArena(pointer) /\ FreeRaw(offset_of(pointer))) \/ UNCHANGED vars
        BY <1>7 DEF FreePointer, FreePointerRefused, FreeRawRefused
    <2>4. QED
        BY <2>1, <2>2, <2>3
<1>8. ASSUME NEW g \in held, NEW word \in Fill, Write(g, word)
      PROVE  Goal
    BY <1>8, WriteFits
<1> HIDE DEF Goal
<1>9. ASSUME Next
      PROVE  Goal
    BY <1>2, <1>3, <1>4, <1>6, <1>7, <1>8, <1>9 DEF Next
<1>10. Goal
    BY <1>1, <1>9
<1>11. QED
    BY <1>10 DEF Goal

\* FirstFit's invariant goes along.
LEMMA StepKeepsFit ==
    ASSUME ArenaSuits, HeapInv, ArenaInv, Fit!FitInv, OnlyHeldAreTaken, [Next]_vars
    PROVE  /\ [FF!Next]_(FF!vars)
           /\ ArenaInv' /\ Fit!FitInv'
<1>1. [Fit!Next]_(Fit!vars) /\ ArenaInv'
    BY StepFits
<1>2. FitAssumptions
    BY FitAssumed
<1>3. Fit!FitInv'
    BY <1>1, <1>2, Fit!StepFit DEF FitAssumptions
<1>4. [FF!Next]_(FF!vars)
    <2>1. UNCHANGED Fit!vars => UNCHANGED FF!vars
        BY DEF FF!vars, Fit!vars
    <2>2. QED
        BY <1>1, <2>1, SameNext
<1>5. QED
    BY <1>1, <1>3, <1>4

LEMMA StartsFit ==
    ASSUME ArenaSuits, Init
    PROVE  FF!Init /\ Fit!FitInv /\ ArenaInv
<1>1. /\ heap = New /\ held = {} /\ arena = {}
      /\ ~ heap.initialised /\ heap.allocations = 0 /\ heap.free_bytes = 0
      /\ heap.minimum_ever_free = 0
    BY DEF Init, New
<1>2. FreeSpans = {} /\ {GrantOf(g) : g \in held} = {}
    BY <1>1 DEF FreeSpans
<1>3. Fit!Init
    BY <1>1, <1>2 DEF Fit!Init
<1>4. FitAssumptions
    BY FitAssumed
<1>5. Fit!FitInv
    BY <1>3, <1>4, Fit!InitFit DEF FitAssumptions
<1>6. QED
    BY <1>1, <1>3, <1>5, SameInit DEF ArenaInv

\* While frees are taken only where somebody holds a block, every call does to
\* the blocks what FirstFit says: lowest address first, both neighbours joined,
\* every byte accounted for, nothing done by a call that is refused.
THEOREM HonestCallersGetFirstFit ==
    ASSUME ArenaSuits
    PROVE  Spec /\ []OnlyHeldAreTaken => ImplementsFirstFit /\ [](HeapInv /\ ArenaInv /\ Fit!FitInv)
<1>1. Init => FF!Init /\ Fit!FitInv /\ ArenaInv /\ HeapInv
    BY StartsFit, StartsSound
<1>2. HeapInv /\ ArenaInv /\ Fit!FitInv /\ OnlyHeldAreTaken /\ [Next]_vars
        => [FF!Next]_(FF!vars) /\ ArenaInv' /\ Fit!FitInv'
    BY StepKeepsFit
<1>3. HeapInv /\ OnlyHeldAreTaken /\ [Next]_vars => HeapInv'
    BY StepHolds
<1>4. QED
    BY <1>1, <1>2, <1>3, PTL DEF Spec, ImplementsFirstFit, FF!Spec

\* Heap4 implements FirstFit.
THEOREM HeapImplementsFirstFit ==
    ASSUME ArenaSuits, NoForgedHeaders
    PROVE  Spec => ImplementsFirstFit
<1>1. Spec => []OnlyHeldAreTaken
    BY FreesAreOfHeldBlocks, PTL
<1>2. QED
    BY <1>1, HonestCallersGetFirstFit, PTL

-----------------------------------------------------------------------------
(* What is served, and the types.                                          *)

\* alloc finds a block exactly when a free span is large enough.
LEMMA GrantsWhatFits ==
    ASSUME NEW h, NEW F, FreeList(h, F), NEW size \in Nat, size > 0,
           h.free_bytes = Fit!Cardinality(Fit!Cells(Spans(h, F)))
    PROVE  Grants(h, size) <=> \E s \in Spans(h, F) : size <= s.size
<1> DEFINE c == Search(h, size).chosen
<1>1. h \in HeapType /\ Linked(h, F) /\ Laid(h, F)
    BY DEF FreeList
<1>2. /\ F \subseteq Nat /\ h.end \in F /\ NONE \notin F
      /\ \A a \in F : size_of(h, a) = header_of(h, a).size /\ size_of(h, a) \in Nat
      /\ size_of(h, h.end) = 0
    <2>1. header_of(h, h.end).size = 0
        BY <1>1 DEF Laid
    <2>2. QED
        BY <2>1, FreeNodes
<1>3. /\ c \in F /\ Stops(header_of(h, c), size)
      /\ \A a \in F : a < c => ~ Stops(header_of(h, a), size)
    BY <1>1, SearchFinds
<1>4. Grants(h, size) <=> size <= h.free_bytes /\ c # h.end
    BY DEF Grants
<1> HIDE DEF c
<1>5. ASSUME c # h.end
      PROVE  \E s \in Spans(h, F) : size <= s.size
    <2>1. next_of(h, c) # NONE
        BY <1>1, <1>2, <1>3, <1>5 DEF Linked
    <2>2. size_of(h, c) >= size
        BY <1>3, <2>1 DEF Stops, next_of, size_of
    <2>3. size_of(h, c) > 0 /\ size <= size_of(h, c)
        BY <1>2, <1>3, <2>2
    <2>4. SpanAt(h, c) \in Spans(h, F) /\ SpanAt(h, c).size = size_of(h, c)
        BY <1>3, <2>3, SpanFacts DEF SpanAt
    <2>5. QED
        BY <2>3, <2>4
<1>6. ASSUME NEW s \in Spans(h, F), size <= s.size
      PROVE  size <= h.free_bytes /\ c # h.end
    <2>1. s.size <= h.free_bytes /\ h.free_bytes \in 0..N /\ N \in Nat
        BY SpanRoom, Geometry
    <2>2. s.at \in F /\ s.size = size_of(h, s.at) /\ s.at # h.end
        <3>1. s.at \in F /\ s.size = size_of(h, s.at) /\ s.size > 0
            BY SpanFacts
        <3>2. QED
            BY <1>2, <3>1
    <2>3. s.size \in Nat /\ s.at \in Nat /\ h.end \in Nat /\ c \in Nat
        BY <1>2, <1>3, <2>2
    <2>4. size <= h.free_bytes
        BY <1>6, <2>1, <2>3
    <2>5. s.at < h.end
        <3>1. s.at <= h.end
            BY <1>1, <2>2 DEF Linked
        <3>2. QED
            BY <2>2, <2>3, <3>1
    <2>6. Stops(header_of(h, s.at), size)
        <3>1. Unmarked(header_of(h, s.at).size) = s.size
            BY <2>2 DEF size_of
        <3>2. s.size >= size
            BY <1>6, <2>3
        <3>3. QED
            BY <3>1, <3>2 DEF Stops
    <2>7. c # h.end
        BY <1>3, <2>2, <2>5, <2>6
    <2>8. QED
        BY <2>4, <2>7
<1>7. QED
    BY <1>4, <1>5, <1>6

\* Spans that neither meet nor touch: a run of their bytes lies in one.
LEMMA RunInOneSpan ==
    ASSUME NEW S, S \subseteq Fit!Span,
           \A s, t \in S : s # t => Fit!Apart(s, t),
           \A s, t \in S : ~ Fit!Touches(s, t),
           NEW at \in Nat, NEW size \in Nat, size > 0,
           at..at + size - 1 \subseteq Fit!Cells(S)
    PROVE  \E s \in S : s.at <= at /\ at + size <= Fit!End(s) /\ size <= s.size
<1>1. \A s \in S : s.at \in Nat /\ s.size \in Nat /\ Fit!End(s) = s.at + s.size
    BY DEF Fit!Span, Fit!End
<1>2. \A x \in at..at + size - 1 : \E s \in S : s.at <= x /\ x < Fit!End(s)
    <2>1. ASSUME NEW x \in at..at + size - 1
          PROVE  \E s \in S : s.at <= x /\ x < Fit!End(s)
        <3>1. PICK s \in S : x \in s.at..Fit!End(s) - 1
            BY DEF Fit!Cells
        <3>2. s.at \in Nat /\ Fit!End(s) \in Nat
            BY <1>1
        <3>3. QED
            BY <3>1, <3>2
    <2>2. QED
        BY <2>1
<1>3. PICK s \in S : s.at <= at /\ at < Fit!End(s)
    <2>1. at \in at..at + size - 1
        OBVIOUS
    <2>2. QED
        BY <1>2, <2>1
<1>4. at + size <= Fit!End(s)
    <2>1. SUFFICES ASSUME Fit!End(s) < at + size PROVE FALSE
        BY <1>1, <1>3
    <2>2. Fit!End(s) \in at..at + size - 1 /\ Fit!End(s) \in Nat
        BY <1>1, <1>3, <2>1
    <2>3. PICK t \in S : t.at <= Fit!End(s) /\ Fit!End(s) < Fit!End(t)
        BY <1>2, <2>2
    <2>4. t # s
        BY <2>2, <2>3
    <2>5. Fit!End(s) <= t.at \/ Fit!End(t) <= s.at
        BY <2>4 DEF Fit!Apart
    <2>6. s.at \in Nat /\ t.at \in Nat /\ Fit!End(t) \in Nat /\ s.at <= Fit!End(s)
        BY <1>1
    <2>7. Fit!End(s) = t.at
        BY <2>2, <2>3, <2>5, <2>6
    <2>8. QED
        BY <2>7 DEF Fit!Touches
<1>5. size <= s.size
    BY <1>1, <1>3, <1>4
<1>6. QED
    BY <1>3, <1>4, <1>5

\* The bytes that are not a caller's are those of the free spans.
LEMMA UsableIsFree ==
    ASSUME Fit!FitInv
    PROVE  FF!Cells(arena) \ FF!Cells({GrantOf(g) : g \in held}) = Fit!Cells(FreeSpans)
<1> DEFINE L == {GrantOf(g) : g \in held}
<1>1. FF!Cells(arena) = Fit!Cells(arena) /\ FF!Cells(L) = Fit!Cells(L)
    BY DEF FF!Cells, Fit!Cells, FF!End, Fit!End
<1>2. /\ Fit!Cells(arena) = Fit!Cells(FreeSpans \cup L)
      /\ \A f \in FreeSpans, g \in L : Fit!Apart(f, g)
      /\ FreeSpans \subseteq Fit!Span /\ L \subseteq Fit!Grant
    BY DEF Fit!FitInv, Fit!Sound, Fit!Disjoint, Fit!Typed
<1> HIDE DEF L
<1>3. ASSUME NEW f \in FreeSpans, NEW g \in L, NEW x \in f.at..Fit!End(f) - 1
      PROVE  x \notin g.at..Fit!End(g) - 1
    <2>1. /\ f.at \in Nat /\ Fit!End(f) \in Nat /\ g.at \in Nat /\ Fit!End(g) \in Nat
        BY <1>2 DEF Fit!Span, Fit!Grant, Fit!End
    <2>2. Fit!End(f) <= g.at \/ Fit!End(g) <= f.at
        BY <1>2 DEF Fit!Apart
    <2>3. QED
        BY <2>1, <2>2
<1>4. Fit!Cells(FreeSpans) \cap Fit!Cells(L) = {}
    BY <1>3 DEF Fit!Cells
<1>5. Fit!Cells(FreeSpans \cup L) = Fit!Cells(FreeSpans) \cup Fit!Cells(L)
    BY DEF Fit!Cells
<1>6. QED
    BY <1>1, <1>2, <1>4, <1>5 DEF L

LEMMA ServesFollows ==
    ASSUME ArenaSuits
    PROVE  HeapInv /\ Fit!FitInv => ServesWhatFits
<1> SUFFICES ASSUME HeapInv, Fit!FitInv, heap.initialised,
                    NEW wanted \in Wanted, Servable(wanted)
             PROVE  Grants(heap, BlockSize(wanted)) <=>
                        \E at \in 0..N : at..at + BlockSize(wanted) - 1 \subseteq
                            FF!Cells(arena) \ FF!Cells({GrantOf(g) : g \in held})
    BY DEF ServesWhatFits
<1> DEFINE size == BlockSize(wanted)
<1>1. size \in Nat /\ size > 0
    <2>1. size \in SizesHere
        BY DEF SizesHere
    <2> HIDE DEF size
    <2>2. QED
        BY <2>1, FitAssumed DEF FitAssumptions
<1> HIDE DEF size
<1>2. PICK F : FreeList(heap, F)
    BY DEF HeapInv, Sound
<1>3. FreeSpans = Spans(heap, F)
    BY <1>2, Mapping, SpansListed
<1>4. heap.free_bytes = Fit!Cardinality(Fit!Cells(FreeSpans))
    BY DEF Fit!FitInv, Fit!Counted
<1>5. Grants(heap, size) <=> \E s \in FreeSpans : size <= s.size
    BY <1>1, <1>2, <1>3, <1>4, GrantsWhatFits
<1>6. ASSUME NEW s \in FreeSpans, size <= s.size
      PROVE  \E at \in 0..N : at..at + size - 1 \subseteq Fit!Cells(FreeSpans)
    <2>1. /\ s.at \in Nat /\ s.size \in Nat /\ Fit!End(s) = s.at + s.size
          /\ Fit!End(s) <= heap.end /\ heap.end \in Nat /\ heap.end + STRUCT_SIZE <= N
        BY <1>2, <1>3, SpanFacts DEF Fit!Span
    <2>2. s.at \in 0..N
        BY <2>1, Geometry
    <2>3. s.at..s.at + size - 1 \subseteq s.at..Fit!End(s) - 1
        BY <1>1, <1>6, <2>1
    <2>4. s.at..Fit!End(s) - 1 \subseteq Fit!Cells(FreeSpans)
        BY DEF Fit!Cells
    <2>5. QED
        BY <2>2, <2>3, <2>4
<1>7. ASSUME NEW at \in 0..N, at..at + size - 1 \subseteq Fit!Cells(FreeSpans)
      PROVE  \E s \in FreeSpans : size <= s.size
    <2>1. /\ FreeSpans \subseteq Fit!Span
          /\ \A s, t \in FreeSpans : s # t => Fit!Apart(s, t)
          /\ \A s, t \in FreeSpans : ~ Fit!Touches(s, t)
        BY DEF Fit!FitInv, Fit!Sound, Fit!Disjoint, Fit!Typed, Fit!Separate
    <2>2. at \in Nat
        OBVIOUS
    <2>3. QED
        BY <1>1, <1>7, <2>1, <2>2, RunInOneSpan
<1>8. QED
    BY <1>5, <1>6, <1>7, UsableIsFree DEF size

LEMMA TypeFollows ==
    ASSUME ArenaSuits
    PROVE  HeapInv /\ Fit!FitInv => TypeOK
<1> SUFFICES ASSUME HeapInv, Fit!FitInv PROVE TypeOK
    OBVIOUS
<1>1. heap \in HeapType
    BY HeapTyped
<1>2. N \in Nat /\ MaxAllocs \in Nat
    BY Geometry, CallersAssumption
<1>3. /\ heap.free_bytes \in 0..N /\ heap.minimum_ever_free \in 0..N
      /\ heap.allocations \in 0..MaxAllocs /\ heap.frees \in 0..MaxAllocs
      /\ \A g \in held : g.wanted \in Wanted /\ g.fill \in Fill \cup {NotFilled}
    <2>1. CASE heap.initialised
        <3>1. PICK F : Sound(heap, F, held, stale)
            BY <2>1 DEF HeapInv
        <3>2. /\ FreeList(heap, F) /\ heap.allocations <= MaxAllocs
              /\ IsFiniteSet(held) /\ heap.allocations - heap.frees = Cardinality(held)
              /\ \A g \in held : g \in GrantType
            BY <3>1 DEF Sound, Lives
        <3>3. FreeSpans = Spans(heap, F)
            BY <2>1, <3>2, Mapping, SpansListed
        <3>4. heap.free_bytes = Fit!Cardinality(Fit!Cells(FreeSpans))
              /\ heap.minimum_ever_free <= heap.free_bytes
            BY DEF Fit!FitInv, Fit!Counted
        <3>5. heap.free_bytes \in 0..N
            BY <3>2, <3>3, <3>4, SpanRoom
        <3>6. heap.minimum_ever_free \in Nat /\ heap.allocations \in Nat /\ heap.frees \in Nat
            BY <1>1 DEF HeapType
        <3>7. Cardinality(held) \in Nat
            BY <3>2, FS_CardinalityType
        <3>8. heap.minimum_ever_free \in 0..N
            BY <1>2, <3>4, <3>5, <3>6
        <3>9. heap.allocations \in 0..MaxAllocs /\ heap.frees \in 0..MaxAllocs
            BY <1>2, <3>2, <3>6, <3>7
        <3>10. QED
            BY <3>2, <3>5, <3>8, <3>9 DEF GrantType
    <2>2. CASE ~ heap.initialised
        BY <1>2, <2>2 DEF HeapInv, Fresh
    <2>3. QED
        BY <2>1, <2>2
<1>4. arena \subseteq FF!Span
    BY DEF Fit!FitInv, Fit!Sound, Fit!Typed, FF!Span, Fit!Span
<1>5. QED
    BY <1>1, <1>3, <1>4 DEF TypeOK, HeapType

\* The heap's words, counters and arena keep their types: free_bytes never
\* passes the arena, frees never pass allocations.
THEOREM TypesAreKept ==
    ASSUME ArenaSuits, NoForgedHeaders
    PROVE  Spec => []TypeOK
<1>1. Spec => []OnlyHeldAreTaken
    BY FreesAreOfHeldBlocks, PTL
<1>2. HeapInv /\ Fit!FitInv => TypeOK
    BY TypeFollows
<1>3. QED
    BY <1>1, <1>2, HonestCallersGetFirstFit, PTL

\* alloc answers None only when no run of free bytes is long enough, and Some
\* only when one is: no fragment is lost to a walk that misses it.
THEOREM FitsAreServed ==
    ASSUME ArenaSuits, NoForgedHeaders
    PROVE  Spec => []ServesWhatFits
<1>1. Spec => []OnlyHeldAreTaken
    BY FreesAreOfHeldBlocks, PTL
<1>2. HeapInv /\ Fit!FitInv => ServesWhatFits
    BY ServesFollows
<1>3. QED
    BY <1>1, <1>2, HonestCallersGetFirstFit, PTL

\* Both under any geometry, of a behaviour in which frees are taken only where
\* somebody holds a block.
THEOREM HonestCallersAreServed ==
    ASSUME ArenaSuits
    PROVE  Spec /\ []OnlyHeldAreTaken => [](TypeOK /\ ServesWhatFits)
<1>1. HeapInv /\ Fit!FitInv => TypeOK /\ ServesWhatFits
    BY TypeFollows, ServesFollows
<1>2. QED
    BY <1>1, HonestCallersGetFirstFit, PTL

\* No byte is in two blocks, none is lost, free neighbours are joined and no
\* block crosses the end marker of a region: what FirstFit promises holds of
\* the blocks of the arena.
THEOREM BlocksStayApart ==
    ASSUME ArenaSuits, NoForgedHeaders
    PROVE  Spec => [](Fit!NoOverlap /\ Fit!Tiling /\ Fit!Coalesced /\ Fit!RoomIsFree
                        /\ Fit!InOneRegion)
<1>1. Spec => []OnlyHeldAreTaken
    BY FreesAreOfHeldBlocks, PTL
<1>2. FitAssumptions
    BY FitAssumed
<1>3. Fit!FitInv => /\ Fit!NoOverlap /\ Fit!Tiling /\ Fit!Coalesced /\ Fit!RoomIsFree
                    /\ Fit!InOneRegion
    BY <1>2, Fit!InvImplies DEF FitAssumptions
<1>4. QED
    BY <1>1, <1>3, HonestCallersGetFirstFit, PTL

=============================================================================
